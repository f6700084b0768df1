SPECIFICATION Spec
CONSTANTS
    Handlers = {h1, h2, h3}
    Replicas = {p1}
    Runs = {run1}
    Kinds = {"run", "approve", "cancel"}
    MaxFailures = 0
    MaxCrashes = 0
PROPERTY
    TerminalIsFinal
CHECK_DEADLOCK FALSE
