CONSTANTS
    Requests = {r1, r2}
    Identities <- MCIdentities
    Sources = {s1}
    NoSource = NoSource
    PersonaId <- MCPersonaId
    None = None
SPECIFICATION Spec
INVARIANT
    OneSessionPerSource
CHECK_DEADLOCK FALSE
