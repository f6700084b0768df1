SPECIFICATION Spec
CONSTANTS
    Clients = {c1, c2}
    Tasks = {t1, t2}
    NoClient = NoClient
    Servers = {"s1", "s2"}
    HttpServers = {"s2"}
    Names = {"git.push"}
    OwnNames = {"git.push"}
    SensitiveNames = {"git.push"}
    Enabled = {"s1"}
    MAX_RECONNECT = 1
    Procs = {p1, p2, p3}
    Requests = {r1, r2}
    NoProc = NoProc
    ToolNames = {"site.deploy"}
    Executions = {e1, e2}
    maxRetries = 3
INVARIANTS
    TypeOK
    ToolsGuarded
    OrphansExplained
    NothingLeftBehind
    TracesTellOutcome
PROPERTY CallsEnd
CHECK_DEADLOCK FALSE
