CONSTANTS
    KBRequests = {"e0", "q0", "r1", "r2", "r3"}
    KBCalls <- MCKBCalls
    Earlier <- MCEarlier
    Hashes = {"h1", "h2"}
    Examples = {"x", "y"}
    Sessions = {"s", "t"}
    Texts = {"a", "b"}
    Nothing = Nothing
    AccessRequests = {"r1", "r2", "r3"}
    Asks <- MCAsks
    Accounts = {"alice", "bob"}
    Devices = {"d1"}
    AgentSessions = {"s1"}
    Owner <- MCOwner
    Nobody = Nobody
    Lifetime = 0
    MaxClock = 2
SPECIFICATION MCSpec
INVARIANTS
    KBIndInv
    ConflictHasRival
    IssueReused
    HistoryIsChain
    ContributionKept
    RevocationStands
    TouchKept
CHECK_DEADLOCK FALSE
