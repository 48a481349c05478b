SPECIFICATION Spec
CONSTANTS
    a = a
    b = b
    c1 = c1
    c2 = c2
    Providers = {a, b}
    None = None
    Calls = {c1, c2}
    MaxNotes = 3
    MaxFaults = 1
CONSTRAINT OverlapBound
SYMMETRY Symmetry
CHECK_DEADLOCK FALSE
INVARIANTS OnlyDeclinersSanctioned SecondDeclineRemoves RemovalIsAnnounced
