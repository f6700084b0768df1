-------------------------- MODULE McpServerManager --------------------------
(***************************************************************************)
(* McpServerManager of tool-broker/src/mcp/server-manager.ts: connections  *)
(* to a set of servers, a health check every minute, and reconnects.       *)
(***************************************************************************)
EXTENDS McpClients, Sequences, SequencesExt

CONSTANTS
    Enabled,        \* the servers whose config is enabled
    MAX_RECONNECT   \* maxReconnectAttempts

ASSUME McpServerManagerAssumption ==
    /\ Enabled \subseteq Servers /\ IsFiniteSet(Servers)
    /\ MAX_RECONNECT \in Nat \ {0}

VARIABLES
    mclients,       \* server -> client
    configs,        \* the servers whose config is kept
    status,         \* server -> what getStatus says
    timers,         \* reconnects that are scheduled
    started,        \* the health check interval is set
    job,            \* task -> what it does
    overlapped      \* clients connected while another connect of the
                    \* same server was under way (history)

Statuses == {"none", "connected", "disconnected", "error"}

(* A timer that another one replaced in reconnectTimers is not tracked:    *)
(* nothing can clear it any more.                                          *)
Timer == [server : Servers, attempt : 2..(MAX_RECONNECT + 1), tracked : BOOLEAN]

(* attempt is 0 for a connect() of the user; queue holds the servers that  *)
(* a health check has not looked at yet, the one it looks at first.        *)
Job == [does : {"idle", "connect", "list", "health"}, server : Servers \cup {"none"},
        attempt : 0..MAX_RECONNECT, queue : Seq(Servers)]
Free == [does |-> "idle", server |-> "none", attempt |-> 0, queue |-> <<>>]

tracking == <<mclients, configs, status, timers>>
managerVars == <<connections, tracking, started, job, overlapped>>

ManagerTypeOK ==
    /\ ClientsTypeOK
    /\ mclients \in [Servers -> Clients \cup {NoClient}]
    /\ configs \subseteq Servers
    /\ status \in [Servers -> Statuses]
    /\ timers \subseteq Timer
    /\ started \in BOOLEAN
    /\ job \in [Tasks -> Job]
    /\ overlapped \subseteq Clients

ManagerInit ==
    /\ ClientsInit
    /\ mclients = [s \in Servers |-> NoClient]
    /\ configs = {}
    /\ status = [s \in Servers |-> "none"]
    /\ timers = {}
    /\ started = TRUE
    /\ job = [t \in Tasks |-> Free]
    /\ overlapped = {}

-----------------------------------------------------------------------------
Set(map, S, value) == [s \in Servers |-> IF s \in S THEN value ELSE map[s]]
ClientsOf(S) == {mclients[s] : s \in S} \cap Clients
Cancelled(S, ts) == {x \in ts : ~(x.server \in S /\ x.tracked)}
Connecting(s) == {t \in Tasks : job[t].does \in {"connect", "list"} /\ job[t].server = s}

(* What the synchronous code of a step has set before it calls another     *)
(* function of the class.                                                  *)
Now == [job |-> job, wait |-> wait, status |-> status, timers |-> timers]

(* disconnect() of the servers of S: the config goes with the client.      *)
Drop(now, S) ==
    /\ timers' = Cancelled(S, now.timers)
    /\ mclients' = Set(mclients, S, NoClient)
    /\ status' = Set(now.status, S, "disconnected")
    /\ configs' = configs \ S

Overlap(s, c) == IF Connecting(s) = {} THEN {} ELSE {c} \cup {wait[u].on : u \in Connecting(s)}

(* connect(), by task t: the old connection of the server, if it has one,  *)
(* goes first.                                                             *)
Open(now, t, s, attempt) == \E c \in Clients :
    LET S == IF mclients[s] = NoClient THEN {} ELSE {s} IN
    /\ Fresh(c) /\ now.job[t] = Free
    /\ client' = [Disconnect(ClientsOf(S)) EXCEPT ![c] = Created(Transport(s))]
    /\ wait' = [RejectPending(now.wait, Stdio(ClientsOf(S))) EXCEPT ![t] = Ask(c)]
    /\ Drop(now, S)
    /\ job' = [now.job EXCEPT ![t] = [does |-> "connect", server |-> s,
                                      attempt |-> attempt, queue |-> <<>>]]
    /\ overlapped' = overlapped \cup Overlap(s, c)

Connect(t) == \E s \in Servers :
    /\ Open(Now, t, s, 0)
    /\ UNCHANGED started

Connected(t) ==
    /\ job[t].does = "connect" /\ wait[t].got = "ok"
    /\ job' = [job EXCEPT ![t].does = "list"]
    /\ client' = Initialized(wait[t].on)
    /\ wait' = [wait EXCEPT ![t] = IF client[@.on].kind = "stdio" /\ ~client[@.on].attached
                                   THEN Refused(@.on) ELSE Ask(@.on)]
    /\ UNCHANGED <<tracking, started, overlapped>>

Listed(t) ==
    /\ job[t].does = "list" /\ wait[t].got = "ok"
    /\ mclients' = [mclients EXCEPT ![job[t].server] = wait[t].on]
    /\ configs' = configs \cup {job[t].server}
    /\ status' = [status EXCEPT ![job[t].server] = "connected"]
    /\ job' = [job EXCEPT ![t] = Free]
    /\ wait' = [wait EXCEPT ![t] = Idle]
    /\ UNCHANGED <<client, timers, started, overlapped>>

(* Mutant: the client that could not connect is not closed.                *)
LeakyConnectFails(t) ==
    /\ job[t].does \in {"connect", "list"} /\ wait[t].got = "rejected"
    /\ status' = [status EXCEPT ![job[t].server] = "error"]
    /\ UNCHANGED timers
    /\ job' = [job EXCEPT ![t] = Free]
    /\ wait' = [wait EXCEPT ![t] = Idle]
    /\ UNCHANGED <<client, mclients, configs, started, overlapped>>

(* The catch of connect(), and that of reconnect() where it was called:    *)
(* the next attempt takes the place of a timer of the same server.         *)
ConnectFails(t) ==
    LET s == job[t].server IN
    /\ job[t].does \in {"connect", "list"} /\ wait[t].got = "rejected"
    /\ client' = Disconnect({wait[t].on})
    /\ status' = [status EXCEPT ![s] = "error"]
    /\ timers' = IF job[t].attempt = 0 THEN timers
                 ELSE {[x EXCEPT !.tracked = @ /\ x.server # s] : x \in timers} \cup
                      {[server |-> s, attempt |-> job[t].attempt + 1, tracked |-> TRUE]}
    /\ job' = [job EXCEPT ![t] = Free]
    /\ wait' = [wait EXCEPT ![t] = Idle]
    /\ UNCHANGED <<mclients, configs, started, overlapped>>

(* disconnect() and stop() of the user.                                    *)
Close(s) ==
    /\ client' = Disconnect(ClientsOf({s}))
    /\ wait' = RejectPending(wait, Stdio(ClientsOf({s})))
    /\ Drop(Now, {s})
    /\ UNCHANGED <<started, job, overlapped>>

Stop ==
    LET S == {s \in Servers : mclients[s] # NoClient} IN
    /\ started' = FALSE
    /\ client' = Disconnect(ClientsOf(S))
    /\ wait' = RejectPending(wait, Stdio(ClientsOf(S)))
    /\ Drop([Now EXCEPT !.timers = Cancelled(Servers, timers)], S)
    /\ UNCHANGED <<job, overlapped>>

StartManager ==
    /\ ~started /\ started' = TRUE
    /\ UNCHANGED <<connections, tracking, job, overlapped>>

-----------------------------------------------------------------------------
(* reconnect(s, attempt), by task u.                                       *)
Reconnect(now, u, s, attempt) ==
    \/ /\ s \in configs \cap Enabled /\ attempt <= MAX_RECONNECT
       /\ Open(now, u, s, attempt)
    \/ /\ s \notin configs \cap Enabled \/ attempt > MAX_RECONNECT
       /\ status' = IF s \in configs \cap Enabled THEN [now.status EXCEPT ![s] = "error"]
                    ELSE now.status
       /\ timers' = now.timers /\ wait' = now.wait /\ job' = now.job
       /\ UNCHANGED <<client, mclients, configs, overlapped>>

TimerFires(u) == \E x \in timers :
    /\ Reconnect([Now EXCEPT !.timers = @ \ {x}], u, x.server, x.attempt)
    /\ UNCHANGED started

(* checkHealth(s): a server without a client is unhealthy at once.         *)
Probe(s) == IF mclients[s] = NoClient THEN Refused(NoClient) ELSE Request(mclients[s])

(* runHealthChecks(): the servers are those of its start.  The interval    *)
(* starts another one whether or not the last one has come to its end.     *)
HealthStart(t) ==
    /\ started /\ job[t] = Free
    /\ \E q \in SetToSeqs({s \in Servers : mclients[s] # NoClient}) \ {<<>>} :
         /\ job' = [job EXCEPT ![t] = [Free EXCEPT !.does = "health", !.queue = q]]
         /\ wait' = [wait EXCEPT ![t] = Probe(Head(q))]
    /\ UNCHANGED <<client, tracking, started, overlapped>>

(* The check goes on with the next server, or ends.                        *)
NextJob(t) ==
    IF Len(job[t].queue) = 1 THEN Free ELSE [job[t] EXCEPT !.queue = Tail(@)]
NextWait(t) ==
    IF Len(job[t].queue) = 1 THEN Idle ELSE Probe(job[t].queue[2])

(* The status that is updated may be that of a server dropped meanwhile.   *)
HealthGood(t) ==
    /\ job[t].does = "health" /\ wait[t].got = "ok"
    /\ LET s == Head(job[t].queue) IN
       status' = IF status[s] = "none" THEN status ELSE [status EXCEPT ![s] = "connected"]
    /\ job' = [job EXCEPT ![t] = NextJob(t)]
    /\ wait' = [wait EXCEPT ![t] = NextWait(t)]
    /\ UNCHANGED <<client, mclients, configs, timers, started, overlapped>>

(* The reconnect is not awaited: it runs as a task of its own.             *)
HealthBad(t) ==
    /\ job[t].does = "health" /\ wait[t].got = "rejected"
    /\ \E u \in Tasks : LET s == Head(job[t].queue) IN
         Reconnect([job |-> [job EXCEPT ![t] = NextJob(t)],
                    wait |-> [wait EXCEPT ![t] = NextWait(t)],
                    status |-> [status EXCEPT ![s] = "error"], timers |-> timers], u, s, 1)
    /\ UNCHANGED started

-----------------------------------------------------------------------------
CollectClient(c) ==
    /\ \A s \in Servers : mclients[s] # c
    /\ Collect(c)
    /\ overlapped' = overlapped \ {c}
    /\ UNCHANGED <<tracking, started, job>>

ManagerContinue(t) ==
    Connected(t) \/ Listed(t) \/ ConnectFails(t) \/ HealthGood(t) \/ HealthBad(t)

ManagerNext ==
    \/ \E t \in Tasks : Connect(t) \/ TimerFires(t) \/ HealthStart(t) \/ ManagerContinue(t)
    \/ \E s \in Servers : Close(s)
    \/ Stop \/ StartManager
    \/ \E c \in Clients : CollectClient(c)
    \/ Environment /\ UNCHANGED <<tracking, started, job, overlapped>>

(* A process that runs although no server and no call under way refers to  *)
(* its client was started by one of two connects of a server that          *)
(* overlapped: a failed, replaced or disconnected client leaves none.      *)
ManagerOrphansExplained == \A c \in Clients :
    \/ ~Running(c) \/ c \in overlapped
    \/ \E s \in Servers : mclients[s] = c
    \/ \E t \in Tasks : wait[t].on = c

(* A scheduled reconnect still has the config it is to connect with.       *)
(* reconnect() documents retries "with exponential backoff" up to          *)
(* maxReconnectAttempts; without the config the timer does nothing.        *)
RetryHasConfig == \A x \in timers : x.server \in configs
=============================================================================
