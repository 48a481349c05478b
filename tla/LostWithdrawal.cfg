SPECIFICATION Spec
CONSTANTS
    p1 = p1
    p2 = p2
    r1 = r1
    r2 = r2
    Consumer = Consumer
    Providers = {p1, p2}
    Identified = {p1, p2}
    Requests = {r1, r2}
    Techniques = {"TEE"}
    Texts = {"base"}
    RunnableTexts = {"base"}
    Edits <- MCEditUntil
    Expiries = {2}
    Validity = 2
    Aborts = FALSE
    MaxTime = 2
    MaxKey = 1
    MaxContracts = 1
    MaxRequests = 6
    MaxRuns = 1
CHECK_DEADLOCK FALSE
PROPERTY NoRunAfterWithdrawal
