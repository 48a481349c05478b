SPECIFICATION Spec
CONSTANTS
    a = a
    b = b
    c1 = c1
    c2 = c2
    Providers = {a, b}
    Identified = {a}
    None = None
    Calls = {c1, c2}
    MaxRows = 2
    MaxCerts = 1
    MaxFaults = 1
CHECK_DEADLOCK FALSE
CONSTRAINT OverlapBound
SYMMETRY Symmetry
INVARIANTS CertNamesSignedRoster AcceptSurvivesFinalize
PROPERTY WritesOnlySign
