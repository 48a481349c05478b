SPECIFICATION Spec
CONSTANTS
    c1 = c1
    c2 = c2
    Calls = {c1, c2}
    MaxRound = 2
    MaxUploads = 3
    MaxFailures = 1
    MaxCrashes = 1
CHECK_DEADLOCK FALSE
SYMMETRY Symmetry
INVARIANTS OnlyWholeUploads MetricsHaveModel AnswersAdvance StoredPairMatches
