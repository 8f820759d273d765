CONSTANTS
    Requests = {1, 2, 3}
    Identities <- MCIdentities
    Sources = {s1}
    NoSource = NoSource
    PersonaId <- MCPersonaId
    None = None
SPECIFICATION MCSpec
INVARIANTS
    RaceIsNoError
    OwnSession
    RetryReuses
PROPERTY
    RequestEnds
CHECK_DEADLOCK FALSE
