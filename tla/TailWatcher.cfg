CONSTANTS
    Tailers = {1, 2}
    Files = {1, 2}
    Attempts = 2
    AutoSubmit = TRUE
    Cooldown = 2
    Stamp <- MCStamp
    None = None
    MaxLines = 3
SPECIFICATION MCSpec
INVARIANTS
    OnlyAllowedForwarded
    NoGaps
    SignalOnce
    HarvestSeesDelivered
    NoStaleMapping
PROPERTIES
    DeliversInOrder
    TailEnds
CHECK_DEADLOCK FALSE
