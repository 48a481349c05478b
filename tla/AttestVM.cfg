SPECIFICATION Spec
CONSTANTS
    a1 = a1
    a2 = a2
    maa = maa
    other = other
    k1 = k1
    k2 = k2
    m1 = m1
    m2 = m2
    None = None
    Attempts = {a1, a2}
    Signers = {maa, other}
    AllowedIssuers = {maa}
    Measurements = {m1, m2}
    Guests <- MCGuests
    Expected = m1
    MaxBoots = 2
    MaxTokens = 2
    MaxChallenges = 2
    KeyIds = {k1, k2}
CHECK_DEADLOCK FALSE
SYMMETRY Symmetry
INVARIANTS VerdictsAreTrue VerdictsAreFresh
