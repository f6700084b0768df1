SPECIFICATION Spec
CONSTANTS
    Drafters = {c1, c2}
    Limit = 1
    Records = {m1, m2}
    DefaultTemplates = {m1}
    MaxClock = 2
    MaxEdits = 5
    MaxStarts = 2
    ArtifactIds = {a1, a2}
    Lists = {l1, l2}
    Categories = {k1, k2}
    SkillIds = {s1, s2}
    Reloads = {d1, d2}
    MaxDisk = 3
    Runs = {r1, r2}
    Replicas = {p1, p2}
    MaxEvents = 2
    MaxSockets = 3
    MaxDrops = 1
    MaxChanges = 2
    MaxInputs = 6
    MaxTests = 2
    OldThreads = {o1, o2}
    NewThreads = {n1}
    MaxSends = 2
    MaxRegenerations = 1
    MaxThreadEdits = 1
    Templates = {t1, t2}
    Shipped = {t1}
    RoleKeys = {1}
    MaxSubmits = 2
    DefaultRoles <- MCRoles
    MaxRoleEdits = 3
    Fields = {"projectId", "userId", "title", "description"}
    MaxRunSubmits = 3
    MaxActions = 3
    NoFilter = f1
    Filters = {f1, f2}
    MaxRows = 2
    MaxFetches = 4
    MaxPolls = 4
INVARIANTS TypeOK StoreKept ScreensTrue
SYMMETRY Symmetry
CHECK_DEADLOCK FALSE
