SPECIFICATION Spec
CONSTANTS
    d1 = d1
    d2 = d2
    x1 = x1
    x2 = x2
    A = A
    B = B
    r1 = r1
    r2 = r2
    Datasets = {d1}
    Infras = {x1, x2}
    Owner <- MCTwoInfras
    Requests = {r1}
    InfraRequired = TRUE
    LookupsFail = TRUE
    Aborts = FALSE
    MaxKey = 1
    MaxJobs = 1
    MaxRequests = 6
CHECK_DEADLOCK FALSE
INVARIANTS AcceptedAreSigned ParticipantsMatchAudit
