SPECIFICATION Spec
CONSTANTS
    Tasks = {t1}
    Agents = {a1, a2}
    Capable = {a2}
    MaxRetries = 3
    MaxClients = 2
    None = None
INVARIANTS
    TypeOK
    SettledAsReturned
    SendsBounded
    RemoteHasHealth
PROPERTIES
    SettledIsFinal
    EverySubmitReturns
CHECK_DEADLOCK FALSE
