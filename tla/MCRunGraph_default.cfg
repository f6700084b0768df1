SPECIFICATION Spec
CONSTANTS
    Invocations = {i1, i2, i3}
    Threads = {t1}
    Roles = {r1, r2}
    StepIds = {s1, s2}
    r1 = r1
    r2 = r2
    s1 = s1
    s2 = s2
    fs = fs
    git = git
    Groups <- MCOneGroup
    MaxGroups = 1
    RoleTools <- MCRoleTools
    ViewerTools = {fs}
    ApprovalTools = {git}
    LLM = FALSE
    MaxRestarts = 1
    MaxClashes = 1
INVARIANTS
    WorkNeedsApproval
PROPERTIES
    EveryCallEnds
    ImplementsLifecycle
CHECK_DEADLOCK FALSE
