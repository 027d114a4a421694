SPECIFICATION Spec
CONSTANTS
    Client = {dashboard, cli}
    Name = {n1, n2, n3}
    NoName = NoName
    Symbol = {s1}
    MaxLists = 3
SYMMETRY Symmetry
INVARIANT
    TypeOK
    OneActive
PROPERTY
    BookSteps
