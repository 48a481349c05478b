SPECIFICATION Spec
CONSTANTS
    d1 = d1
    d2 = d2
    x1 = x1
    x2 = x2
    A = A
    B = B
    r1 = r1
    r2 = r2
    Datasets = {d1, d2}
    Infras = {x1}
    Owner <- MCTwoProviders
    Requests = {r1, r2}
    InfraRequired = FALSE
    LookupsFail = FALSE
    Aborts = TRUE
    MaxKey = 1
    MaxJobs = 1
    MaxRequests = 4
CHECK_DEADLOCK FALSE
SYMMETRY MCSymmetry
INVARIANTS TypeOK FinalFullyApproved GrantsOnlyApproved
