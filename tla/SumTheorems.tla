---------------------------- MODULE SumTheorems -----------------------------
(***************************************************************************)
(* Induction over the natural numbers, and what the proofs need to know of *)
(* the sum of a function's values over a finite set (SumFunctionOnSet of   *)
(* the community modules): the money at stake, what is deployed, what the  *)
(* booked trades made.                                                     *)
(*                                                                         *)
(* The induction principle is stated with a set in place of a predicate:   *)
(* the provers instantiate the one but not the other.  The sum is defined  *)
(* by a recursive function on the subsets of a set, each of which loses an *)
(* element that is chosen; the lemmas show that such a function exists,    *)
(* and that the sum depends neither on the choice nor on the larger set.   *)
(* The last section is the same for a fold of another operator, of which   *)
(* only its table is needed.                                               *)
(***************************************************************************)
EXTENDS Functions, FiniteSetsExt, FiniteSetTheorems, TLAPS

-----------------------------------------------------------------------------
(* Induction.                                                              *)

\* A set of numbers that holds 0, and with a number the next one, holds all of them.
LEMMA NatSetInduction ==
    ASSUME NEW T, 0 \in T, \A n \in Nat : n \in T => n + 1 \in T
    PROVE  Nat \subseteq T
  <1>. SUFFICES ASSUME ~(Nat \subseteq T) PROVE FALSE
    OBVIOUS
  <1>. DEFINE U == Nat \ T
              R == OpToRel(<, Nat)
  <1>1. U \subseteq Nat /\ U # {}
    OBVIOUS
  <1>2. IsWellFoundedOn(R, Nat)
    BY NatLessThanWellFounded
  <1>3. \A x, y \in Nat : x < y => <<x, y>> \in R
    BY DEF OpToRel
  <1>. HIDE DEF R, U
  <1>4. PICK m \in U : \A y \in U : ~(<<y, m>> \in R)
    BY <1>1, <1>2, WFMin
  <1>. USE DEF U
  <1>5. m \in Nat /\ m # 0
    BY <1>1, <1>4
  <1>6. m - 1 \in Nat /\ m - 1 < m
    BY <1>5
  <1>7. m - 1 \in U
    BY <1>4, <1>5, <1>6
  <1>. QED  BY <1>3, <1>4, <1>5, <1>6, <1>7

\* A finite set of numbers has a largest one.
LEMMA Largest ==
    ASSUME NEW S, IsFiniteSet(S), S \subseteq Int, S # {}
    PROVE  Max(S) \in S /\ \A y \in S : Max(S) >= y
  <1>. DEFINE T == {n \in Nat : \A s \in SUBSET S :
                        Cardinality(s) = n + 1 => \E x \in s : \A y \in s : x >= y}
  <1>1. \A s \in SUBSET S : IsFiniteSet(s) /\ Cardinality(s) \in Nat
    BY FS_Subset, FS_CardinalityType
  <1>2. 0 \in T
    <2>. SUFFICES ASSUME NEW s \in SUBSET S, Cardinality(s) = 1
                  PROVE  \E x \in s : \A y \in s : x >= y
      OBVIOUS
    <2>1. PICK a : s = {a}
      BY <1>1, FS_Singleton
    <2>. QED  BY <2>1
  <1>3. ASSUME NEW n \in Nat, n \in T PROVE n + 1 \in T
    <2>. SUFFICES ASSUME NEW s \in SUBSET S, Cardinality(s) = n + 2
                  PROVE  \E x \in s : \A y \in s : x >= y
      OBVIOUS
    <2>1. IsFiniteSet(s)
      BY <1>1
    <2>2. s # {}
      BY FS_EmptySet
    <2>. PICK a \in s : TRUE
      BY <2>2
    <2>3. s \ {a} \in SUBSET S /\ Cardinality(s \ {a}) = n + 1
      <3>1. Cardinality(s \ {a}) = Cardinality(s) - 1
        BY <2>1, FS_RemoveElement
      <3>. QED  BY <3>1
    <2>4. PICK b \in s \ {a} : \A y \in s \ {a} : b >= y
      BY <1>3, <2>3
    <2>5. a \in Int /\ \A y \in s : y \in Int
      OBVIOUS
    <2>6. CASE a >= b
      <3>1. \A y \in s : a >= y
        BY <2>4, <2>5, <2>6
      <3>. QED  BY <3>1
    <2>7. CASE ~(a >= b)
      <3>1. \A y \in s : b >= y
        BY <2>4, <2>5, <2>7
      <3>. QED  BY <3>1
    <2>. QED  BY <2>6, <2>7
  <1>. HIDE DEF T
  <1>4. Nat \subseteq T
    BY <1>2, <1>3, NatSetInduction
  <1>5. \E x \in S : \A y \in S : x >= y
    <2>1. Cardinality(S) \in Nat /\ Cardinality(S) # 0
      BY FS_CardinalityType, FS_EmptySet
    <2>2. Cardinality(S) - 1 \in Nat /\ Cardinality(S) = (Cardinality(S) - 1) + 1
      BY <2>1
    <2>3. Cardinality(S) - 1 \in T
      BY <1>4, <2>2
    <2>. QED  BY <2>2, <2>3 DEF T
  <1>. QED  BY <1>5, Zenon DEF Max

-----------------------------------------------------------------------------
(* The recursion.                                                          *)

Chosen(s) == CHOOSE x \in s : TRUE
Summand(f, g, s) == IF s = {} THEN 0 ELSE f[Chosen(s)] + g[s \ {Chosen(s)}]
IsTable(f, g, D) == g = [s \in D |-> Summand(f, g, s)]
Table(f, S) == CHOOSE g : IsTable(f, g, SUBSET S)
UpTo(S, n) == {s \in SUBSET S : Cardinality(s) <= n}

\* The sum is the entry of the whole set in the table of its subsets.
LEMMA SumIsTable == ASSUME NEW f, NEW S PROVE SumFunctionOnSet(f, S) = Table(f, S)[S]
  BY Zenon DEF SumFunctionOnSet, FoldFunctionOnSet, MapThenFoldSet, Table, IsTable, Summand, Chosen

\* What is chosen from a set is in it, and leaves one element fewer.
LEMMA ChosenLeaves ==
    ASSUME NEW s, IsFiniteSet(s), s # {}
    PROVE  /\ Chosen(s) \in s
           /\ IsFiniteSet(s \ {Chosen(s)})
           /\ Cardinality(s) \in Nat /\ Cardinality(s) # 0
           /\ Cardinality(s \ {Chosen(s)}) = Cardinality(s) - 1
  <1>1. Chosen(s) \in s
    BY DEF Chosen
  <1>. HIDE DEF Chosen
  <1>2. Cardinality(s) \in Nat /\ Cardinality(s) # 0
    BY FS_CardinalityType, FS_EmptySet
  <1>. QED  BY <1>1, <1>2, FS_RemoveElement

\* There is a table of the subsets of a finite set, built up by their cardinality.
LEMMA TableExists ==
    ASSUME NEW f, NEW S, IsFiniteSet(S)
    PROVE  IsTable(f, Table(f, S), SUBSET S)
  <1>. DEFINE T == {n \in Nat : \E g : IsTable(f, g, UpTo(S, n))}
  <1>1. \A s \in SUBSET S : IsFiniteSet(s) /\ Cardinality(s) \in Nat
    BY FS_Subset, FS_CardinalityType
  <1>2. 0 \in T
    <2>. DEFINE g == [s \in UpTo(S, 0) |-> 0]
    <2>1. \A s \in UpTo(S, 0) : s = {}
      <3>. SUFFICES ASSUME NEW s \in UpTo(S, 0) PROVE s = {}
        OBVIOUS
      <3>1. IsFiniteSet(s) /\ Cardinality(s) = 0
        BY <1>1 DEF UpTo
      <3>. QED  BY <3>1, FS_EmptySet
    <2>2. IsTable(f, g, UpTo(S, 0))
      BY <2>1 DEF IsTable, Summand
    <2>. QED  BY <2>2
  <1>3. ASSUME NEW n \in Nat, n \in T PROVE n + 1 \in T
    <2>1. PICK g : IsTable(f, g, UpTo(S, n))
      BY <1>3
    <2>. DEFINE h == [s \in UpTo(S, n + 1) |-> Summand(f, g, s)]
    <2>2. \A s \in UpTo(S, n) : s \in UpTo(S, n + 1) /\ h[s] = g[s]
      BY <1>1, <2>1 DEF IsTable, UpTo
    <2>3. ASSUME NEW s \in UpTo(S, n + 1) PROVE Summand(f, g, s) = Summand(f, h, s)
      <3>1. CASE s = {}
        BY <3>1 DEF Summand
      <3>2. CASE s # {}
        <4>1. s \ {Chosen(s)} \in UpTo(S, n)
          BY <1>1, <3>2, ChosenLeaves DEF UpTo
        <4>. HIDE DEF h
        <4>. QED  BY <2>2, <4>1 DEF Summand
      <3>. QED  BY <3>1, <3>2
    <2>4. IsTable(f, h, UpTo(S, n + 1))
      <3>1. h = [s \in UpTo(S, n + 1) |-> Summand(f, g, s)]
        OBVIOUS
      <3>. HIDE DEF h
      <3>. QED  BY <2>3, <3>1, Zenon DEF IsTable
    <2>. QED  BY <2>4
  <1>4. Cardinality(S) \in T
    <2>. HIDE DEF T
    <2>1. Nat \subseteq T
      BY <1>2, <1>3, NatSetInduction
    <2>. QED  BY <1>1, <2>1
  <1>5. UpTo(S, Cardinality(S)) = SUBSET S
    BY FS_Subset DEF UpTo
  <1>6. \E g : IsTable(f, g, SUBSET S)
    BY <1>4, <1>5
  <1>. QED  BY <1>6, Zenon DEF Table

\* The tables of two sets agree on the subsets they share.
LEMMA TablesAgree ==
    ASSUME NEW f, NEW S, IsFiniteSet(S), NEW U \in SUBSET S
    PROVE  Table(f, S)[U] = Table(f, U)[U]
  <1>. DEFINE T == {n \in Nat : \A s \in SUBSET U : Cardinality(s) = n => Table(f, S)[s] = Table(f, U)[s]}
  <1>1. IsFiniteSet(U) /\ Cardinality(U) \in Nat
    BY FS_Subset, FS_CardinalityType
  <1>2. \A s \in SUBSET U : IsFiniteSet(s) /\ Cardinality(s) \in Nat
    BY <1>1, FS_Subset, FS_CardinalityType
  <1>3. \A s \in SUBSET U : /\ Table(f, S)[s] = Summand(f, Table(f, S), s)
                            /\ Table(f, U)[s] = Summand(f, Table(f, U), s)
    <2>1. IsTable(f, Table(f, S), SUBSET S) /\ IsTable(f, Table(f, U), SUBSET U)
      BY <1>1, TableExists
    <2>. QED  BY <2>1 DEF IsTable
  <1>4. 0 \in T
    <2>. SUFFICES ASSUME NEW s \in SUBSET U, Cardinality(s) = 0 PROVE Table(f, S)[s] = Table(f, U)[s]
      OBVIOUS
    <2>1. s = {}
      BY <1>2, FS_EmptySet
    <2>. QED  BY <1>3, <2>1 DEF Summand
  <1>5. ASSUME NEW n \in Nat, n \in T PROVE n + 1 \in T
    <2>. SUFFICES ASSUME NEW s \in SUBSET U, Cardinality(s) = n + 1 PROVE Table(f, S)[s] = Table(f, U)[s]
      OBVIOUS
    <2>1. s # {}
      BY FS_EmptySet
    <2>2. s \ {Chosen(s)} \in SUBSET U /\ Cardinality(s \ {Chosen(s)}) = n
      BY <1>2, <2>1, ChosenLeaves
    <2>3. Table(f, S)[s \ {Chosen(s)}] = Table(f, U)[s \ {Chosen(s)}]
      BY <1>5, <2>2
    <2>. QED  BY <1>3, <2>1, <2>3 DEF Summand
  <1>. HIDE DEF T
  <1>6. Cardinality(U) \in T
    BY <1>1, <1>4, <1>5, NatSetInduction
  <1>. QED  BY <1>6 DEF T

\* The sum is what is chosen first, and the sum of the rest.
LEMMA SumStep ==
    ASSUME NEW f, NEW S, IsFiniteSet(S)
    PROVE  SumFunctionOnSet(f, S) =
             IF S = {} THEN 0 ELSE f[Chosen(S)] + SumFunctionOnSet(f, S \ {Chosen(S)})
  <1>. DEFINE rest == S \ {Chosen(S)}
  <1>1. Table(f, S)[S] = Summand(f, Table(f, S), S)
    <2>1. IsTable(f, Table(f, S), SUBSET S)
      BY TableExists
    <2>. QED  BY <2>1 DEF IsTable
  <1>2. rest \in SUBSET S
    OBVIOUS
  <1>. HIDE DEF rest
  <1>3. Table(f, S)[rest] = SumFunctionOnSet(f, rest)
    BY <1>2, TablesAgree, SumIsTable
  <1>4. Table(f, S)[S] = IF S = {} THEN 0 ELSE f[Chosen(S)] + Table(f, S)[rest]
    BY <1>1, Zenon DEF Summand, rest
  <1>5. SumFunctionOnSet(f, S) = Table(f, S)[S]
    BY SumIsTable
  <1>. QED  BY <1>3, <1>4, <1>5, Zenon DEF rest

-----------------------------------------------------------------------------
(* Sums.                                                                   *)

\* f has a whole number for each element of S.
Whole(f, S) == \A x \in S : f[x] \in Int

\* Nothing sums to nothing.
LEMMA SumEmpty == ASSUME NEW f PROVE SumFunctionOnSet(f, {}) = 0
  BY SumStep, FS_EmptySet

\* A sum of whole numbers is one.
LEMMA SumType ==
    ASSUME NEW f, NEW S, IsFiniteSet(S), Whole(f, S)
    PROVE  SumFunctionOnSet(f, S) \in Int
  <1>. DEFINE T == {n \in Nat : \A s \in SUBSET S : Cardinality(s) = n => SumFunctionOnSet(f, s) \in Int}
  <1>1. \A s \in SUBSET S : IsFiniteSet(s) /\ Cardinality(s) \in Nat
    BY FS_Subset, FS_CardinalityType
  <1>2. 0 \in T
    <2>1. \A s \in SUBSET S : Cardinality(s) = 0 => s = {}
      BY <1>1, FS_EmptySet
    <2>. QED  BY <2>1, SumEmpty
  <1>3. ASSUME NEW n \in Nat, n \in T PROVE n + 1 \in T
    <2>. SUFFICES ASSUME NEW s \in SUBSET S, Cardinality(s) = n + 1 PROVE SumFunctionOnSet(f, s) \in Int
      OBVIOUS
    <2>1. s # {}
      BY FS_EmptySet
    <2>2. /\ Chosen(s) \in s
          /\ s \ {Chosen(s)} \in SUBSET S /\ Cardinality(s \ {Chosen(s)}) = n
      BY <1>1, <2>1, ChosenLeaves
    <2>3. SumFunctionOnSet(f, s \ {Chosen(s)}) \in Int /\ f[Chosen(s)] \in Int
      BY <1>3, <2>2 DEF Whole
    <2>4. SumFunctionOnSet(f, s) = f[Chosen(s)] + SumFunctionOnSet(f, s \ {Chosen(s)})
      BY <1>1, <2>1, SumStep
    <2>. QED  BY <2>3, <2>4
  <1>. HIDE DEF T
  <1>4. Cardinality(S) \in T
    BY <1>1, <1>2, <1>3, NatSetInduction
  <1>. QED  BY <1>4 DEF T

\* Any element may be taken out first.
LEMMA SumRemove ==
    ASSUME NEW f, NEW S, IsFiniteSet(S), Whole(f, S), NEW a \in S
    PROVE  SumFunctionOnSet(f, S) = f[a] + SumFunctionOnSet(f, S \ {a})
  <1>. DEFINE Good(s) == \A b \in s : SumFunctionOnSet(f, s) = f[b] + SumFunctionOnSet(f, s \ {b})
              T == {n \in Nat : \A s \in SUBSET S : Cardinality(s) = n => Good(s)}
  <1>1. \A s \in SUBSET S : IsFiniteSet(s) /\ Cardinality(s) \in Nat /\ SumFunctionOnSet(f, s) \in Int
    <2>. SUFFICES ASSUME NEW s \in SUBSET S
                  PROVE  IsFiniteSet(s) /\ Cardinality(s) \in Nat /\ SumFunctionOnSet(f, s) \in Int
      OBVIOUS
    <2>1. IsFiniteSet(s) /\ Cardinality(s) \in Nat /\ Whole(f, s)
      BY FS_Subset, FS_CardinalityType DEF Whole
    <2>. QED  BY <2>1, SumType
  <1>2. 0 \in T
    <2>1. \A s \in SUBSET S : Cardinality(s) = 0 => s = {}
      BY <1>1, FS_EmptySet
    <2>. QED  BY <2>1
  <1>3. ASSUME NEW n \in Nat, n \in T PROVE n + 1 \in T
    <2>. SUFFICES ASSUME NEW s \in SUBSET S, Cardinality(s) = n + 1, NEW b \in s
                  PROVE  SumFunctionOnSet(f, s) = f[b] + SumFunctionOnSet(f, s \ {b})
      OBVIOUS
    <2>. DEFINE c == Chosen(s)
    <2>1. /\ c \in s /\ f[b] \in Int /\ f[c] \in Int
          /\ s \ {c} \in SUBSET S /\ Cardinality(s \ {c}) = n
          /\ s \ {b} \in SUBSET S /\ Cardinality(s \ {b}) = n
          /\ (s \ {c}) \ {b} \in SUBSET S
      <3>1. s # {}
        OBVIOUS
      <3>2. /\ c \in s /\ Cardinality(s \ {c}) = n
        BY <1>1, <3>1, ChosenLeaves
      <3>. HIDE DEF c
      <3>3. Cardinality(s \ {b}) = n
        BY <1>1, FS_RemoveElement
      <3>. QED  BY <3>2, <3>3 DEF Whole
    <2>2. SumFunctionOnSet(f, s) = f[c] + SumFunctionOnSet(f, s \ {c})
      BY <1>1, SumStep
    <2>. HIDE DEF c
    <2>3. CASE b = c
      BY <2>2, <2>3
    <2>4. CASE b # c
      <3>1. SumFunctionOnSet(f, s \ {c}) = f[b] + SumFunctionOnSet(f, (s \ {c}) \ {b})
        BY <1>3, <2>1, <2>4
      <3>2. SumFunctionOnSet(f, s \ {b}) = f[c] + SumFunctionOnSet(f, (s \ {b}) \ {c})
        BY <1>3, <2>1, <2>4
      <3>3. (s \ {b}) \ {c} = (s \ {c}) \ {b}
        OBVIOUS
      <3>. DEFINE sum(r) == SumFunctionOnSet(f, r)
                  both == (s \ {c}) \ {b}
      <3>4. sum(both) \in Int
        BY <1>1, <2>1
      <3>5. /\ sum(s) = f[c] + sum(s \ {c})
            /\ sum(s \ {c}) = f[b] + sum(both)
            /\ sum(s \ {b}) = f[c] + sum(both)
        BY <2>2, <3>1, <3>2, <3>3, Zenon
      <3>. HIDE DEF sum, both
      <3>6. sum(s) = f[b] + sum(s \ {b})
        BY <2>1, <3>4, <3>5
      <3>. QED  BY <3>6 DEF sum
    <2>. QED  BY <2>3, <2>4
  <1>. HIDE DEF T
  <1>4. Cardinality(S) \in T
    BY <1>1, <1>2, <1>3, NatSetInduction
  <1>. QED  BY <1>4 DEF T

\* An element that is put in adds its value.
LEMMA SumAdd ==
    ASSUME NEW f, NEW S, IsFiniteSet(S), NEW a, a \notin S, Whole(f, S \union {a})
    PROVE  SumFunctionOnSet(f, S \union {a}) = SumFunctionOnSet(f, S) + f[a]
  <1>1. IsFiniteSet(S \union {a}) /\ (S \union {a}) \ {a} = S /\ Whole(f, S) /\ f[a] \in Int
    BY FS_AddElement DEF Whole
  <1>2. SumFunctionOnSet(f, S) \in Int
    BY <1>1, SumType
  <1>. DEFINE more == S \union {a}
  <1>3. a \in more /\ more \ {a} = S /\ IsFiniteSet(more) /\ Whole(f, more)
    BY <1>1
  <1>. HIDE DEF more
  <1>4. SumFunctionOnSet(f, more) = f[a] + SumFunctionOnSet(f, S)
    BY <1>3, SumRemove
  <1>5. SumFunctionOnSet(f, more) = SumFunctionOnSet(f, S) + f[a]
    BY <1>1, <1>2, <1>4
  <1>. QED  BY <1>5 DEF more

\* A sum of smaller values is smaller, and the sum of the same values is the same.
LEMMA SumMonotone ==
    ASSUME NEW f, NEW g, NEW S, IsFiniteSet(S), Whole(f, S), Whole(g, S), \A x \in S : f[x] <= g[x]
    PROVE  SumFunctionOnSet(f, S) <= SumFunctionOnSet(g, S)
  <1>. DEFINE T == {n \in Nat : \A s \in SUBSET S :
                        Cardinality(s) = n => SumFunctionOnSet(f, s) <= SumFunctionOnSet(g, s)}
  <1>1. \A s \in SUBSET S : /\ IsFiniteSet(s) /\ Cardinality(s) \in Nat
                            /\ SumFunctionOnSet(f, s) \in Int /\ SumFunctionOnSet(g, s) \in Int
    <2>. SUFFICES ASSUME NEW s \in SUBSET S
                  PROVE  /\ IsFiniteSet(s) /\ Cardinality(s) \in Nat
                         /\ SumFunctionOnSet(f, s) \in Int /\ SumFunctionOnSet(g, s) \in Int
      OBVIOUS
    <2>1. IsFiniteSet(s) /\ Cardinality(s) \in Nat /\ Whole(f, s) /\ Whole(g, s)
      BY FS_Subset, FS_CardinalityType DEF Whole
    <2>. QED  BY <2>1, SumType
  <1>2. 0 \in T
    <2>1. \A s \in SUBSET S : Cardinality(s) = 0 => s = {}
      BY <1>1, FS_EmptySet
    <2>. QED  BY <2>1, SumEmpty
  <1>3. ASSUME NEW n \in Nat, n \in T PROVE n + 1 \in T
    <2>. SUFFICES ASSUME NEW s \in SUBSET S, Cardinality(s) = n + 1
                  PROVE  SumFunctionOnSet(f, s) <= SumFunctionOnSet(g, s)
      OBVIOUS
    <2>1. s # {}
      BY FS_EmptySet
    <2>. DEFINE c == Chosen(s)
                r == s \ {c}
    <2>2. c \in s /\ r \in SUBSET S /\ Cardinality(r) = n
      BY <1>1, <2>1, ChosenLeaves
    <2>3. /\ SumFunctionOnSet(f, s) = f[c] + SumFunctionOnSet(f, r)
          /\ SumFunctionOnSet(g, s) = g[c] + SumFunctionOnSet(g, r)
      BY <1>1, <2>1, SumStep
    <2>. HIDE DEF c, r
    <2>4. SumFunctionOnSet(f, r) <= SumFunctionOnSet(g, r)
      BY <1>3, <2>2
    <2>5. f[c] <= g[c] /\ f[c] \in Int /\ g[c] \in Int
      BY <2>2 DEF Whole
    <2>6. SumFunctionOnSet(f, r) \in Int /\ SumFunctionOnSet(g, r) \in Int
      BY <1>1, <2>2
    <2>. QED  BY <2>3, <2>4, <2>5, <2>6
  <1>. HIDE DEF T
  <1>4. Cardinality(S) \in T
    BY <1>1, <1>2, <1>3, NatSetInduction
  <1>. QED  BY <1>4 DEF T

LEMMA SumEqual ==
    ASSUME NEW f, NEW g, NEW S, IsFiniteSet(S), Whole(f, S), \A x \in S : f[x] = g[x]
    PROVE  SumFunctionOnSet(f, S) = SumFunctionOnSet(g, S)
  <1>1. Whole(g, S) /\ \A x \in S : f[x] <= g[x] /\ g[x] <= f[x]
    BY DEF Whole
  <1>2. /\ SumFunctionOnSet(f, S) <= SumFunctionOnSet(g, S)
        /\ SumFunctionOnSet(g, S) <= SumFunctionOnSet(f, S)
    BY <1>1, SumMonotone
  <1>. QED  BY <1>1, <1>2, SumType

\* Values that are, m times, up to a bound sum to that bound for each element, at most.
LEMMA SumBounded ==
    ASSUME NEW f, NEW S, IsFiniteSet(S), Whole(f, S), NEW m \in Int, NEW b \in Int,
           \A x \in S : m * f[x] <= b
    PROVE  m * SumFunctionOnSet(f, S) <= b * Cardinality(S)
  <1>. DEFINE T == {n \in Nat : \A s \in SUBSET S :
                        Cardinality(s) = n => m * SumFunctionOnSet(f, s) <= b * n}
  <1>1. \A s \in SUBSET S : /\ IsFiniteSet(s) /\ Cardinality(s) \in Nat
                            /\ SumFunctionOnSet(f, s) \in Int
    <2>. SUFFICES ASSUME NEW s \in SUBSET S
                  PROVE  IsFiniteSet(s) /\ Cardinality(s) \in Nat /\ SumFunctionOnSet(f, s) \in Int
      OBVIOUS
    <2>1. IsFiniteSet(s) /\ Cardinality(s) \in Nat /\ Whole(f, s)
      BY FS_Subset, FS_CardinalityType DEF Whole
    <2>. QED  BY <2>1, SumType
  <1>2. 0 \in T
    <2>1. \A s \in SUBSET S : Cardinality(s) = 0 => s = {}
      BY <1>1, FS_EmptySet
    <2>. QED  BY <2>1, SumEmpty
  <1>3. ASSUME NEW n \in Nat, n \in T PROVE n + 1 \in T
    <2>. SUFFICES ASSUME NEW s \in SUBSET S, Cardinality(s) = n + 1
                  PROVE  m * SumFunctionOnSet(f, s) <= b * (n + 1)
      OBVIOUS
    <2>1. s # {}
      BY FS_EmptySet
    <2>. DEFINE c == Chosen(s)
                r == s \ {c}
    <2>2. c \in s /\ r \in SUBSET S /\ Cardinality(r) = n
      BY <1>1, <2>1, ChosenLeaves
    <2>3. SumFunctionOnSet(f, s) = f[c] + SumFunctionOnSet(f, r)
      BY <1>1, <2>1, SumStep
    <2>. HIDE DEF c, r
    <2>. DEFINE v == f[c]
                t == SumFunctionOnSet(f, r)
    <2>4. m * t <= b * n /\ t \in Int
      BY <1>1, <1>3, <2>2
    <2>5. m * v <= b /\ v \in Int
      BY <2>2 DEF Whole
    <2>. HIDE DEF v, t
    <2>6. /\ m * (v + t) = m * v + m * t /\ b * (n + 1) = b * n + b
          /\ m * v \in Int /\ m * t \in Int /\ b * n \in Int
      BY <2>4, <2>5
    <2>7. m * (v + t) <= b * (n + 1)
      BY <2>4, <2>5, <2>6
    <2>. QED  BY <2>3, <2>7 DEF v, t
  <1>. HIDE DEF T
  <1>4. Cardinality(S) \in T
    BY <1>1, <1>2, <1>3, NatSetInduction
  <1>. QED  BY <1>4 DEF T

\* What is not negative sums to something that is not negative.
LEMMA SumNatural ==
    ASSUME NEW f, NEW S, IsFiniteSet(S), \A x \in S : f[x] \in Nat
    PROVE  SumFunctionOnSet(f, S) \in Nat
  <1>. DEFINE T == {n \in Nat : \A s \in SUBSET S : Cardinality(s) = n => SumFunctionOnSet(f, s) \in Nat}
  <1>1. \A s \in SUBSET S : IsFiniteSet(s) /\ Cardinality(s) \in Nat
    BY FS_Subset, FS_CardinalityType
  <1>2. 0 \in T
    <2>1. \A s \in SUBSET S : Cardinality(s) = 0 => s = {}
      BY <1>1, FS_EmptySet
    <2>. QED  BY <2>1, SumEmpty
  <1>3. ASSUME NEW n \in Nat, n \in T PROVE n + 1 \in T
    <2>. SUFFICES ASSUME NEW s \in SUBSET S, Cardinality(s) = n + 1 PROVE SumFunctionOnSet(f, s) \in Nat
      OBVIOUS
    <2>1. s # {}
      BY FS_EmptySet
    <2>2. /\ Chosen(s) \in s
          /\ s \ {Chosen(s)} \in SUBSET S /\ Cardinality(s \ {Chosen(s)}) = n
      BY <1>1, <2>1, ChosenLeaves
    <2>3. SumFunctionOnSet(f, s \ {Chosen(s)}) \in Nat /\ f[Chosen(s)] \in Nat
      BY <1>3, <2>2
    <2>4. SumFunctionOnSet(f, s) = f[Chosen(s)] + SumFunctionOnSet(f, s \ {Chosen(s)})
      BY <1>1, <2>1, SumStep
    <2>. QED  BY <2>3, <2>4
  <1>. HIDE DEF T
  <1>4. Cardinality(S) \in T
    BY <1>1, <1>2, <1>3, NatSetInduction
  <1>. QED  BY <1>4 DEF T

-----------------------------------------------------------------------------
(* Folds of other operators, which take the elements one by one as pick    *)
(* says: from the last of a sequence, for example.                         *)

Picks(pick, S) == \A s \in SUBSET S : s # {} => pick[s] \in s

\* A family of subsets that holds the empty set, and with what is left of a set that set,
\* holds every subset.
LEMMA SubsetInduction ==
    ASSUME NEW S, IsFiniteSet(S), NEW pick, Picks(pick, S), NEW T, {} \in T,
           \A s \in SUBSET S : s # {} /\ s \ {pick[s]} \in T => s \in T
    PROVE  S \in T
  <1>. DEFINE N == {n \in Nat : \A s \in SUBSET S : Cardinality(s) = n => s \in T}
  <1>1. \A s \in SUBSET S : IsFiniteSet(s) /\ Cardinality(s) \in Nat
    BY FS_Subset, FS_CardinalityType
  <1>2. 0 \in N
    <2>1. \A s \in SUBSET S : Cardinality(s) = 0 => s = {}
      BY <1>1, FS_EmptySet
    <2>. QED  BY <2>1
  <1>3. ASSUME NEW n \in Nat, n \in N PROVE n + 1 \in N
    <2>. SUFFICES ASSUME NEW s \in SUBSET S, Cardinality(s) = n + 1 PROVE s \in T
      OBVIOUS
    <2>1. s # {}
      BY FS_EmptySet
    <2>2. pick[s] \in s
      BY <2>1 DEF Picks
    <2>3. Cardinality(s \ {pick[s]}) = n /\ s \ {pick[s]} \in SUBSET S
      <3>1. IsFiniteSet(s)
        BY <1>1
      <3>2. Cardinality(s \ {pick[s]}) = Cardinality(s) - 1
        BY <2>2, <3>1, FS_RemoveElement
      <3>. QED  BY <3>2
    <2>4. s \ {pick[s]} \in T
      BY <1>3, <2>3
    <2>. QED  BY <2>1, <2>4
  <1>. HIDE DEF N
  <1>4. Cardinality(S) \in N
    BY <1>1, <1>2, <1>3, NatSetInduction
  <1>. QED  BY <1>4 DEF N

\* The recursion of a fold, with f the operator on the values V, has a table.
Folded(f, base, pick, g, s) ==
    IF s = {} THEN base ELSE f[<<g[s \ {pick[s]}], pick[s]>>]

Operates(f, V, S) == f \in [V \X S -> V]
IsFold(g, f, base, pick, V, S) ==
    g \in [SUBSET S -> V] /\ \A s \in SUBSET S : g[s] = Folded(f, base, pick, g, s)

LEMMA FoldTable ==
    ASSUME NEW S, IsFiniteSet(S), NEW pick, Picks(pick, S),
           NEW V, NEW base, base \in V, NEW f, Operates(f, V, S)
    PROVE  \E g : IsFold(g, f, base, pick, V, S)
  <1>. USE DEF Operates
  <1>. DEFINE Right(g, D) == g \in [D -> V] /\ \A s \in D : g[s] = Folded(f, base, pick, g, s)
              N == {n \in Nat : \E g : Right(g, UpTo(S, n))}
  <1>1. \A s \in SUBSET S : IsFiniteSet(s) /\ Cardinality(s) \in Nat
    BY FS_Subset, FS_CardinalityType
  <1>2. 0 \in N
    <2>. DEFINE g == [s \in UpTo(S, 0) |-> base]
    <2>1. \A s \in UpTo(S, 0) : s = {}
      <3>. SUFFICES ASSUME NEW s \in UpTo(S, 0) PROVE s = {}
        OBVIOUS
      <3>1. IsFiniteSet(s) /\ Cardinality(s) = 0
        BY <1>1 DEF UpTo
      <3>. QED  BY <3>1, FS_EmptySet
    <2>2. Right(g, UpTo(S, 0))
      BY <2>1 DEF Folded
    <2>. QED  BY <2>2
  <1>3. ASSUME NEW n \in Nat, n \in N PROVE n + 1 \in N
    <2>1. PICK g : Right(g, UpTo(S, n))
      BY <1>3
    <2>. DEFINE h == [s \in UpTo(S, n + 1) |-> Folded(f, base, pick, g, s)]
    <2>2. \A s \in UpTo(S, n) : s \in UpTo(S, n + 1) /\ h[s] = g[s] /\ g[s] \in V
      BY <1>1, <2>1 DEF UpTo
    <2>3. ASSUME NEW s \in UpTo(S, n + 1), s # {}
          PROVE  s \ {pick[s]} \in UpTo(S, n) /\ pick[s] \in S
      <3>1. s \in SUBSET S /\ Cardinality(s) <= n + 1
        BY DEF UpTo
      <3>2. IsFiniteSet(s) /\ Cardinality(s) \in Nat /\ pick[s] \in s
        BY <1>1, <2>3, <3>1 DEF Picks
      <3>3. Cardinality(s \ {pick[s]}) = Cardinality(s) - 1
        BY <3>2, FS_RemoveElement
      <3>. QED  BY <3>1, <3>2, <3>3 DEF UpTo
    <2>4. ASSUME NEW s \in UpTo(S, n + 1)
          PROVE  /\ Folded(f, base, pick, g, s) = Folded(f, base, pick, h, s)
                 /\ Folded(f, base, pick, g, s) \in V
      <3>1. CASE s = {}
        BY <3>1 DEF Folded
      <3>2. CASE s # {}
        <4>. DEFINE r == s \ {pick[s]}
        <4>1. r \in UpTo(S, n) /\ pick[s] \in S
          BY <2>3, <3>2
        <4>. HIDE DEF h, r
        <4>2. h[r] = g[r] /\ g[r] \in V
          BY <2>2, <4>1
        <4>3. f[<<g[r], pick[s]>>] \in V
          BY <4>1, <4>2
        <4>. QED  BY <3>2, <4>2, <4>3, Zenon DEF Folded, r
      <3>. QED  BY <3>1, <3>2
    <2>5. Right(h, UpTo(S, n + 1))
      <3>1. h = [s \in UpTo(S, n + 1) |-> Folded(f, base, pick, g, s)]
        OBVIOUS
      <3>. HIDE DEF h
      <3>. QED  BY <2>4, <3>1
    <2>6. \E k : Right(k, UpTo(S, n + 1))
      <3>. HIDE DEF h, Right
      <3>. QED  BY <2>5
    <2>. HIDE DEF Right
    <2>. QED  BY <2>6
  <1>4. Cardinality(S) \in N
    <2>. HIDE DEF N
    <2>. QED  BY <1>1, <1>2, <1>3, NatSetInduction
  <1>5. UpTo(S, Cardinality(S)) = SUBSET S
    BY FS_Subset DEF UpTo
  <1>6. PICK g : Right(g, SUBSET S)
    BY <1>4, <1>5
  <1>. QED  BY <1>6 DEF IsFold
=============================================================================
