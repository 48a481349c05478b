SPECIFICATION Spec
CONSTANTS
    p1 = p1
    p2 = p2
    r1 = r1
    r2 = r2
    Consumer = Consumer
    Providers = {p1, p2}
    Identified = {p1}
    Requests = {r1}
    Techniques = {"TEE", "SMPC"}
    Texts = {"base", "blank"}
    RunnableTexts = {"base"}
    Edits <- MCEdits
    Expiries = {2}
    Validity = 2
    Aborts = FALSE
    MaxTime = 3
    MaxKey = 1
    MaxContracts = 2
    MaxRequests = 6
    MaxRuns = 1
CHECK_DEADLOCK FALSE
INVARIANTS UnsignedAreAsked ParticipantsMatchSignatures
PROPERTIES NoRunAfterWithdrawal GateKeepsExpiries
