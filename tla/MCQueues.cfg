SPECIFICATION Spec
CONSTANTS
    JobIds <- MCJobIds
    Slots = {s1, s2}
    NoSlot = NoSlot
    attempts = 2
    maxStalledCount = 1
    MaxMishaps = 2
    Items <- MCItems
    chunkSize = 2
    BeginsWith <- MCBeginsWith
    Callers = {c1, c2}
    MaxStarts = 3
    t1 = t1
    t2 = t2
    t3 = t3
    Rules <- MCRules
    Teams = {t1, t2, t3}
    NoTeam = NoTeam
    maxLevels = 1
    maxChildrenPerTeam = 2
    MaxChanges = 4
INVARIANTS TypeOK WorkAccounted HierarchyTold
PROPERTY JobsSettle
CHECK_DEADLOCK FALSE
