SPECIFICATION Spec
CONSTANTS
    l1 = l1
    l2 = l2
    NoLabel = NoLabel
    Labels = {l1, l2}
    Metrics = {"errors", "depth"}
    RuleSeq <- MCRules
    Values = {0, 1, 2}
    MaxAlerts = 3
    MaxTime = 2
    BUFFER_SIZE = 2
    MaxEntries = 5
    MaxShipFailures = 1
    Probes = {p1, p2}
    SLOs <- MCSLOs
    SloValues <- MCSloValues
    Calls = {c1, c2}
    HttpRequests = {q1, q2, q3}
    MaxCacheReads = 3
    ApiCalls = {a1, a2}
    TokenCalls = {t1, t2, t3}
    MaxPairs = 3
    MaxLost = 1
    Ips = {i1, i2}
    MAX_REQUESTS_PER_MINUTE = 2
    MaxRequests = 5
    MaxSeconds = 6
INVARIANTS TypeOK SignalsTrue BoundariesKept
CHECK_DEADLOCK FALSE
