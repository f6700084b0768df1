SPECIFICATION Spec
CONSTANTS
    Clients = {c1, c2}
    Tasks = {t1, t2}
    NoClient = NoClient
    Servers = {"s1"}
    HttpServers = {}
    Names = {"git.push"}
    OwnNames = {"git.push"}
    SensitiveNames = {"git.push"}
    Enabled = {"s1"}
    MAX_RECONNECT = 5
    Procs = {p1}
    Requests = {r1}
    NoProc = NoProc
    ToolNames = {"file.read"}
    Executions = {e1}
    maxRetries = 3
INVARIANT RetryHasConfig
CHECK_DEADLOCK FALSE
