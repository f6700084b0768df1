SPECIFICATION Spec
CONSTANTS
    Calls = {c1, c2}
    Admins = {a1}
    p1 = p1
    p2 = p2
    m1 = m1
    m2 = m2
    Prompts = {p1, p2}
    Models = {m1, m2, m3}
    Similar <- MCSimilar
    Excluded = {m3}
    NoEntry = NoEntry
    maxSize = 1
    TTL = 1
    Instants = {0, 2}
    MaxTroubles = 1
    MaxAttempts = 2
    Catalogue <- MCCatalogue
    Needs <- MCNeeds
    Conversations <- MCConversations
    ToolCounts = {0, 65, 129}
    Asked <- MCAsked
    MaxTimes = 2
    Events = 3
    StreamAttempts = 2
    enableAutoCleanup = TRUE
    maxTimeSeriesLength = 2
    MaxCleanups = 2
    MaxCounted = 2
    Batches = {b1, b2}
    Texts = {t1, t2}
    maxBatchSize = 2
    MaxTexts = 3
INVARIANT MaximumOfEntries
SYMMETRY Symmetry
CHECK_DEADLOCK FALSE
