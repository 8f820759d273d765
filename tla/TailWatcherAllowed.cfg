CONSTANTS
    Tailers = {t1}
    Files = {1}
    Attempts = 3
    AutoSubmit = FALSE
    Cooldown = 2
    Stamp <- MCStamp
    None = None
    MaxLines = 2
SPECIFICATION Spec
INVARIANT
    ForwardsAllowed
CHECK_DEADLOCK FALSE
