SPECIFICATION Spec
CONSTANTS
    Invocations = {i1, i2}
    Threads = {t1}
    Roles = {r1, r2}
    StepIds = {s1, s2}
    r1 = r1
    r2 = r2
    s1 = s1
    s2 = s2
    fs = fs
    git = git
    Groups <- MCGroups
    MaxGroups = 1
    RoleTools <- MCRoleTools
    ViewerTools = {fs}
    ApprovalTools = {git}
    LLM = TRUE
    MaxRestarts = 0
    MaxClashes = 0
INVARIANTS
    TypeOK
    LimitsAgree
    CompletionIsVerified
    RevisionBound
PROPERTIES
    ResultsKept
    EveryCallEnds
CHECK_DEADLOCK FALSE
