SPECIFICATION Spec
CONSTANTS
    Handlers = {h1, h2, h3}
    Replicas = {p1, p2}
    Runs = {run1}
    Kinds = {"run", "approve", "resume", "cancel", "tool"}
    MaxFailures = 1
    MaxCrashes = 1
INVARIANTS
    TypeOK
    SerialTablesAgree
    RowExplained
    RacingApprovalsLoseNoEvent
SYMMETRY Symmetry
CHECK_DEADLOCK FALSE
