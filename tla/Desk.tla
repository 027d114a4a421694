-------------------------------- MODULE Desk --------------------------------
(***************************************************************************)
(* The jobs of the screener: the dashboard's requests on screen presets,   *)
(* its background threads, scripts/screen.py and scripts/suggest.py, over  *)
(* the tables screen_presets, screen_runs and suggestion_runs.             *)
(*                                                                         *)
(*   save, activate   idle --SavePreset--> activate --BeginActivate-->     *)
(*                    switch --Switch--> idle                              *)
(*   thread           idle --StartThread--> consult --Consult--> scan      *)
(*                    --Scan--> store --StoreScreen--> idle, or, before    *)
(*                    the market, suggest --Suggest--> keep --StorePicks-->*)
(*   screen.py        idle --ScreenScript--> scan, or first upsert         *)
(*                    --UpsertScript--> activate ... scan                  *)
(*   suggest.py       idle --SuggestScript--> suggest                      *)
(*                                                                         *)
(* Each step is a transaction, a call to a service, or, of an activation,  *)
(* the UPDATE of the rows it finds active and the commit: WatchlistStore   *)
(* models what two of these do to each other statement by statement.  The  *)
(* handlers of forms run on one event loop and do not overlap; threads and *)
(* scripts do.                                                             *)
(***************************************************************************)
EXTENDS Screener

CONSTANTS
    Proc,           \* slots for requests, threads and scripts
    Name,           \* names of presets
    Wants,          \* what a form may hold: criteria and lookback
    Overrides,      \* what the flags of screen.py may overlay
    Reply,          \* what the model may answer
    Cap,            \* --max, and the default of the dashboard
    MaxPresets,     \* bound on ids in use
    MaxJobs,        \* bound: threads and screen.py's started
    MaxEdits,       \* bound: requests on presets
    MaxPicks        \* bound: suggestion runs after which no suggest.py is started

\* A preset's criteria and lookback, of two bars at least (criteria.py, presets.py).
Want(w) ==
    /\ DOMAIN w = {"criteria", "lookback"}
    /\ Criteria(w.criteria) /\ w.lookback \in Nat /\ w.lookback >= 2

ASSUME DeskAssumption ==
    /\ MaxPresets \in Nat /\ MaxJobs \in Nat /\ MaxEdits \in Nat /\ MaxPicks \in Nat
    /\ Cap \subseteq Nat \ {0}
    /\ \A w \in Wants : Want(w)
    /\ Reply \subseteq Seq(Int)
    /\ \A o \in Overrides :
        /\ Criteria(Overlaid(NoBounds, o))
        /\ "lookback" \in DOMAIN o => o.lookback \in Nat /\ o.lookback >= 2

\* An id (a uuid) is represented by the rank of its created_at.
PresetId == 1..MaxPresets

VARIABLES
    presets,    \* screen_presets: name, criteria and lookback by id
    active,     \* ids of the rows with is_active
    proc,       \* what each process is at
    locks,      \* _screen_run_lock and _backtest_run_lock, if held
    screens,    \* screen_runs with their rows, in the order of started_at
    picks,      \* suggestion_runs with their rows
    jobs,       \* started, and edits, requested so far
    edits

count == <<jobs, edits>>
vars == <<presets, active, proc, locks, screens, picks, count>>

Kinds == {"none", "web", "screen", "premarket", "backtest", "screen.py", "suggest.py"}

\* The work a job has in hand.  screen: the run under review, seen: screens saved when
\* the picks were, both indices of screens.
Idle == [at |-> "idle", kind |-> "none", id |-> 0, name |-> None, want |-> Default,
         seen |-> {}, run |-> None, screen |-> 0, cap |-> 0, symbols |-> <<>>]

Steps == {"idle", "activate", "switch", "consult", "upsert", "scan", "store", "suggest",
          "keep", "run"}

TypeOK ==
    /\ DOMAIN presets \subseteq PresetId
    /\ active \subseteq DOMAIN presets
    /\ \A i, j \in DOMAIN presets : presets[i].name = presets[j].name => i = j
    /\ \A i \in DOMAIN presets : presets[i].want.lookback >= 2
    /\ \A p \in Proc : proc[p].at \in Steps /\ proc[p].kind \in Kinds
    /\ \A k \in DOMAIN picks : picks[k].screen \in DOMAIN screens

Init ==
    /\ presets = <<>> /\ active = {}
    /\ proc = [p \in Proc |-> Idle]
    /\ locks = {}
    /\ screens = <<>> /\ picks = <<>>
    /\ jobs = 0 /\ edits = 0

-----------------------------------------------------------------------------
(* Processes.                                                              *)

Running(kinds) == {p \in Proc : proc[p].at # "idle" /\ proc[p].kind \in kinds}

\* The lock a job holds; a screen and a pre-market check share one.
LockOf(kind) ==
    IF kind \in {"screen", "premarket"} THEN {"screen"}
    ELSE IF kind = "backtest" THEN {"backtest"} ELSE {}

At(p, step) == proc[p].at = step

Enter(p, job) == At(p, "idle") /\ proc' = [proc EXCEPT ![p] = job]

StartJob(p, job) == jobs < MaxJobs /\ jobs' = jobs + 1 /\ Enter(p, job)

Mutant_End(p) ==                \* a pre-market check keeps the lock
    /\ proc' = [proc EXCEPT ![p] = Idle]
    /\ locks' = IF proc[p].kind = "premarket" THEN locks ELSE locks \ LockOf(proc[p].kind)

\* The last step of any process; a thread releases its lock in a finally.
End(p) ==
    /\ proc' = [proc EXCEPT ![p] = Idle]
    /\ locks' = locks \ LockOf(proc[p].kind)

\* A call raises, a row is gone, a script is told not to persist or is killed: the rest
\* is not done.  A backtest ends here too, whatever its script returned.
Stop(p) ==
    /\ proc[p].at # "idle"
    /\ End(p)
    /\ UNCHANGED <<presets, active, screens, picks, count>>

\* Threads are daemons and the locks are memory; a script goes on.
RestartDashboard ==
    /\ locks' = {}
    /\ proc' = [p \in Proc |-> IF proc[p].kind \in {"screen.py", "suggest.py"}
                               THEN proc[p] ELSE Idle]
    /\ UNCHANGED <<presets, active, screens, picks, count>>

-----------------------------------------------------------------------------
(* screen_presets_store.py, and the form of the dashboard.                 *)

IdsOf(n) == {i \in DOMAIN presets : presets[i].name = n}

InUse == DOMAIN presets \union {proc[p].id : p \in Proc}

\* upsert_preset: i is the row of that name, or a new one, inactive.
Upsert(n, want, i) ==
    /\ i \in PresetId
    /\ IF IdsOf(n) # {} THEN i \in IdsOf(n) ELSE \A j \in InUse : j < i
    /\ presets' = [j \in DOMAIN presets \union {i} |->
                    IF j = i THEN [name |-> n, want |-> want] ELSE presets[j]]

\* _save_screen_preset: the upsert, and then, in a transaction of its own, the activation.
SavePreset(p, n, want, i) ==
    /\ Running({"web"}) = {} /\ edits < MaxEdits /\ edits' = edits + 1
    /\ Upsert(n, want, i)
    /\ Enter(p, [Idle EXCEPT !.at = "activate", !.kind = "web", !.id = i])
    /\ UNCHANGED <<active, locks, screens, picks, jobs>>

\* The form carries an id it was shown, which may be gone by now.
ActivatePreset(p, i) ==
    /\ Running({"web"}) = {} /\ edits < MaxEdits /\ edits' = edits + 1
    /\ i \in DOMAIN presets
    /\ Enter(p, [Idle EXCEPT !.at = "activate", !.kind = "web", !.id = i])
    /\ UNCHANGED <<presets, active, locks, screens, picks, jobs>>

\* delete_preset: no other preset becomes active.
DeletePreset(p, i) ==
    /\ Running({"web"}) = {} /\ edits < MaxEdits /\ edits' = edits + 1
    /\ At(p, "idle")
    /\ i \in DOMAIN presets
    /\ presets' = [j \in DOMAIN presets \ {i} |-> presets[j]]
    /\ active' = active \ {i}
    /\ UNCHANGED <<proc, locks, screens, picks, jobs>>

\* activate_preset: the rows its UPDATE finds active, ...
BeginActivate(p) ==
    /\ At(p, "activate") /\ proc[p].id \in DOMAIN presets
    /\ proc' = [proc EXCEPT ![p].at = "switch", ![p].seen = active]
    /\ UNCHANGED <<presets, active, locks, screens, picks, count>>

Mutant_Switch(p) ==             \* the target may be gone
    /\ At(p, "switch")
    /\ active' = (active \ proc[p].seen) \union {proc[p].id}
    /\ IF proc[p].kind = "web" THEN End(p)
       ELSE /\ proc' = [proc EXCEPT ![p].at = "scan", ![p].seen = {}, ![p].id = 0]
            /\ UNCHANGED locks
    /\ UNCHANGED <<presets, screens, picks, count>>

\* ... and the target, if it is still there.  screen.py goes on to its scan.
Switch(p) ==
    /\ At(p, "switch") /\ proc[p].id \in DOMAIN presets
    /\ active' = (active \ proc[p].seen) \union {proc[p].id}
    /\ IF proc[p].kind = "web" THEN End(p)
       ELSE /\ proc' = [proc EXCEPT ![p].at = "scan", ![p].seen = {}, ![p].id = 0]
            /\ UNCHANGED locks
    /\ UNCHANGED <<presets, screens, picks, count>>

-----------------------------------------------------------------------------
(* A screen.                                                               *)

\* get_active_preset: the newest of the active ones.
ActivePreset == {i \in active : \A j \in active : j <= i}

\* resolve_screen_criteria: the default if no preset is active, or the table cannot be read.
Resolved == {Default} \union {presets[i].want : i \in ActivePreset}

\* _start_screen_run, _start_premarket_run, _start_backtest_run: refused, or released at
\* once if the thread does not start, in which case nothing has changed.
StartThread(p, kind) ==
    /\ LockOf(kind) \intersect locks = {}
    /\ StartJob(p, [Idle EXCEPT !.at = IF kind = "backtest" THEN "run" ELSE "consult",
                             !.kind = kind])
    /\ locks' = locks \union LockOf(kind)
    /\ UNCHANGED <<presets, active, screens, picks, edits>>

Consult(p) ==
    /\ At(p, "consult")
    /\ \E w \in Resolved : proc' = [proc EXCEPT ![p].at = "scan", ![p].want = w]
    /\ UNCHANGED <<presets, active, locks, screens, picks, count>>

\* The flags of screen.py, over a preset.
Asked(base, o) ==
    [criteria |-> Overlaid(base.criteria, o),
     lookback |-> IF "lookback" \in DOMAIN o THEN o.lookback ELSE base.lookback]

\* main of screen.py up to the scan: a named preset or the resolved one, overlaid; with
\* --save-preset n it is saved first.
ScreenScript(p, base, o, n) ==
    /\ base \in Resolved \union {presets[i].want : i \in DOMAIN presets}
    /\ StartJob(p, [Idle EXCEPT !.at = IF n = None THEN "scan" ELSE "upsert",
                             !.kind = "screen.py", !.name = n,
                             !.want = Asked(base, o)])
    /\ UNCHANGED <<presets, active, locks, screens, picks, edits>>

UpsertScript(p, i) ==
    /\ At(p, "upsert")
    /\ Upsert(proc[p].name, proc[p].want, i)
    /\ proc' = [proc EXCEPT ![p].at = "activate", ![p].id = i, ![p].name = None]
    /\ UNCHANGED <<active, locks, screens, picks, count>>

\* Without FMP's metadata no candidate could meet the bounds on it: they are dropped.
Applied(want, u) == IF u.meta THEN want.criteria ELSE Stripped(want.criteria)

\* resolve_universe, build_candidates and screen: what is kept for save_screen, and, for
\* the properties, where the metadata came from and whether the scan missed anything.
Scanned(want, by, u, failed) ==
    LET c == Applied(want, u)
    IN  [criteria |-> c, lookback |-> want.lookback, by |-> by,
         rows |-> Screen(Candidates(u.symbols, want.lookback, u.meta, failed), c),
         meta |-> u.meta, whole |-> u.whole /\ failed = {}]

Scan(p, u, failed) ==
    /\ At(p, "scan")
    /\ proc' = [proc EXCEPT ![p].at = "store", ![p].want = Default,
                    ![p].run = Scanned(proc[p].want, proc[p].kind, u, failed)]
    /\ UNCHANGED <<presets, active, locks, screens, picks, count>>

\* save_screen, one transaction.  A pre-market check goes on with the run it has saved.
StoreScreen(p) ==
    /\ At(p, "store")
    /\ screens' = Append(screens, proc[p].run)
    /\ IF proc[p].kind = "premarket"
       THEN /\ \E m \in Cap : proc' = [proc EXCEPT ![p].at = "suggest", ![p].run = None,
                                        ![p].screen = Len(screens'), ![p].cap = m]
            /\ UNCHANGED locks
       ELSE End(p)
    /\ UNCHANGED <<presets, active, picks, count>>

-----------------------------------------------------------------------------
(* Suggestions.                                                            *)

\* get_latest_screen: the run that started last, with its rows.
LatestScreen == Len(screens)

\* main of suggest.py, which does nothing when no screen has run.
SuggestScript(p, m) ==
    /\ screens # <<>> /\ Len(picks) < MaxPicks
    /\ Enter(p, [Idle EXCEPT !.at = "suggest", !.kind = "suggest.py",
                             !.screen = LatestScreen, !.cap = m])
    /\ UNCHANGED <<presets, active, locks, screens, picks, count>>

SymbolsOf(rows) == {rows[i].symbol : i \in DOMAIN rows}

\* suggest_stocks: nothing without credentials or matches, or if the service fails or
\* answers what cannot be used; the empty reply stands for these.
Suggested(rows, reply, m) == Parsed(reply, SymbolsOf(rows), m)

Suggest(p, reply) ==
    /\ At(p, "suggest")
    /\ proc' = [proc EXCEPT ![p].at = "keep",
                    ![p].symbols = Suggested(screens[proc[p].screen].rows, reply, proc[p].cap)]
    /\ UNCHANGED <<presets, active, locks, screens, picks, count>>

Mutant_StorePicks(p) ==         \* linked to what is the latest screen by now
    /\ At(p, "keep")
    /\ picks' = Append(picks, [screen |-> Len(screens), symbols |-> proc[p].symbols,
                               ok |-> proc[p].symbols # <<>>, cap |-> proc[p].cap,
                               by |-> proc[p].kind, seen |-> Len(screens)])
    /\ End(p)
    /\ UNCHANGED <<presets, active, screens, count>>

\* save_suggestions, one transaction, of a degraded result too.
StorePicks(p) ==
    /\ At(p, "keep")
    /\ picks' = Append(picks, [screen |-> proc[p].screen, symbols |-> proc[p].symbols,
                               ok |-> proc[p].symbols # <<>>, cap |-> proc[p].cap,
                               by |-> proc[p].kind, seen |-> Len(screens)])
    /\ End(p)
    /\ UNCHANGED <<presets, active, screens, count>>

-----------------------------------------------------------------------------
Request(p) ==
    \E i \in PresetId :
        \/ \E n \in Name, w \in Wants : SavePreset(p, n, w, i)
        \/ ActivatePreset(p, i)
        \/ DeletePreset(p, i)

Start(p) ==
    \/ \E kind \in {"screen", "premarket", "backtest"} : StartThread(p, kind)
    \/ \E base \in Resolved \union {presets[i].want : i \in DOMAIN presets}, o \in Overrides,
          n \in Name \union {None} : ScreenScript(p, base, o, n)
    \/ \E m \in Cap : SuggestScript(p, m)

Step(p) ==
    \/ BeginActivate(p) \/ Switch(p)
    \/ Consult(p)
    \/ \E i \in PresetId : UpsertScript(p, i)
    \/ /\ At(p, "scan")
       /\ \E u \in Universes(proc[p].want.criteria) :
            \E failed \in SUBSET Batches(u.symbols) : Scan(p, u, failed)
    \/ StoreScreen(p)
    \/ \E reply \in Reply : Suggest(p, reply)
    \/ StorePicks(p)
    \/ Stop(p)

Next == RestartDashboard \/ \E p \in Proc : Request(p) \/ Start(p) \/ Step(p)

Spec == Init /\ [][Next]_vars

-----------------------------------------------------------------------------
(* Properties.                                                             *)

\* Every symbol a scan of the market, with nothing failed or cut off, would have kept.  A
\* market cap at a bound is left open: FMP may or may not include it.
Kept(run) ==
    {s \in (IF run.meta THEN Plain ELSE Plain \intersect Tradable) :
        /\ Usable(s, run.lookback)
        /\ Passes(Candidate(s, run.lookback, run.meta), run.criteria)
        /\ run.meta =>
            Fmp[s].market_cap \notin {run.criteria.min_market_cap, run.criteria.max_market_cap}}

\* What one saved screen may say.
Honest(run) ==
    /\ \A i \in DOMAIN run.rows :
        /\ run.rows[i] = Candidate(run.rows[i].symbol, run.lookback, run.meta)
        /\ Passes(run.rows[i], run.criteria)
        /\ \A j \in 1..(i - 1) : Before(run.rows[j], run.rows[i])
    /\ run.whole => Kept(run) \subseteq SymbolsOf(run.rows)
    /\ run.meta \/ run.criteria = Stripped(run.criteria)

\* A saved screen is what its saved criteria and lookback say of the market: each row has
\* passed every bound, unknown values none, most liquid first; and unless a cap or a batch
\* cut it short no symbol is missing, so FMP's loosened query "must never exclude a symbol
\* the engine would keep" (fmp.py), whichever bounds it was sent.
ScreenIsHonest == \A k \in DOMAIN screens : Honest(screens[k])

\* Suggestions are about the screen they are linked to, whatever was saved meanwhile: each
\* is one of its matches, none twice, no more than asked for, and none at all when the run
\* is not ok; and between the screen and the suggestions of a pre-market check the
\* dashboard saves no other screen.
PicksFromTheirScreen ==
    \A k \in DOMAIN picks :
        LET pick == picks[k]
        IN  /\ ToSet(pick.symbols) \subseteq SymbolsOf(screens[pick.screen].rows)
            /\ IsInjective(pick.symbols) /\ Len(pick.symbols) <= pick.cap
            /\ pick.ok = (pick.symbols # <<>>)
            /\ pick.by = "premarket" =>
                \A j \in (pick.screen + 1)..pick.seen : screens[j].by = "screen.py"

\* A lock is held exactly while one job under it lives: no path, an exception, a thread
\* that does not start or a restart, leaves it held, and none lets a second job in.
LockMatchesJob ==
    \A lock \in {"screen", "backtest"} :
        Cardinality({p \in Running(Kinds) : lock \in LockOf(proc[p].kind)})
            = IF lock \in locks THEN 1 ELSE 0

\* models.py:408-409: "Exactly one row has ``is_active`` True at a time"; activate_preset
\* makes its target "the single active preset, atomically".  Two activations that overlap
\* leave two of them active.
OnePresetActive == Cardinality(active) <= 1
=============================================================================
