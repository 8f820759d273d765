CONSTANTS
    ExitCodes = {0, 1, 137}
    Lines = {"x", "y"}
    Context = 1
    MaxScript = 5
    MaxOther = 4
SPECIFICATION MCSpec
INVARIANTS
    LimitsArePartial
    PassIsEarned
    DaemonErrorIsPartial
    NoStrayContainer
    PatchesItsOriginal
    HeaderCutsHunk
    NeverMisapplied
    StandInOnlyFromLineOne
PROPERTY
    VerificationEnds
CHECK_DEADLOCK FALSE
