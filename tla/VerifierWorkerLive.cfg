CONSTANTS
    Entries = {e1, e2}
    QueueSize = 1
    Results = {"partial"}
    NoVerdict = NoVerdict
    None = None
    MaxStarts = 2
    MaxCrashes = 1
SPECIFICATION LiveSpec
INVARIANT
    NoSilentLoss
PROPERTIES
    EveryEntryHandled
    StopEnds
CHECK_DEADLOCK FALSE
