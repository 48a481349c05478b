SPECIFICATION FairSpec
CONSTANTS
    j1 = j1
    j2 = j2
    u1 = u1
    u2 = u2
    Jobs = {j1}
    Pollers = {u1, u2}
    LongRuns = TRUE
    MaxFailures = 2
    MaxCrashes = 2
CHECK_DEADLOCK FALSE
INVARIANTS OutcomeOnce OutcomeTrue
PROPERTY StartedIsSettled
