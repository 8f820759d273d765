CONSTANTS
    Entries = {e1, e2, e3}
    QueueSize = 1
    Results = {"partial"}
    NoVerdict = NoVerdict
    None = None
    MaxStarts = 2
    MaxCrashes = 0
SPECIFICATION Spec
SYMMETRY Symmetry
INVARIANTS
    TwoRowsOnlyAfterTimeout
    JobOwned
    LoopAlive
    CountsSound
CHECK_DEADLOCK FALSE
