SPECIFICATION FairSpec
CONSTANTS
    s1 = s1
    c1 = c1
    c2 = c2
    t1 = t1
    t2 = t2
    Sessions = {s1}
    Calls = {c1, c2}
    TEEIDs = {t1, t2}
    None = None
    AttestationRequired = TRUE
    MaxCalls = 3
CHECK_DEADLOCK FALSE
INVARIANTS TypeOK RunsAttested CompleteWasRun RunningVMIsRegistered
PROPERTIES FinishedStaysFinished SessionSettles
