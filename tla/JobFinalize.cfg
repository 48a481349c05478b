SPECIFICATION Spec
CONSTANTS
    d1 = d1
    d2 = d2
    x1 = x1
    x2 = x2
    A = A
    B = B
    r1 = r1
    r2 = r2
    Datasets = {d1}
    Infras = {x1}
    Owner <- MCDataAndInfra
    Requests = {r1, r2}
    InfraRequired = FALSE
    LookupsFail = FALSE
    Aborts = FALSE
    MaxKey = 2
    MaxJobs = 2
    MaxRequests = 5
CHECK_DEADLOCK FALSE
SYMMETRY MCSymmetry
CONSTRAINT MCOneKeyReplaced
INVARIANTS FinalizedHasRecord EnabledFullySigned
