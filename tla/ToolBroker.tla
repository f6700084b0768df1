----------------------------- MODULE ToolBroker -----------------------------
(***************************************************************************)
(* ToolBroker of tool-broker/src/index.ts: the tools a process knows, the  *)
(* policies that guard them, and the MCP servers they come from.  Connects,*)
(* tests and tool calls are tasks that interleave at their awaits.         *)
(***************************************************************************)
EXTENDS McpClients, Functions

CONSTANTS
    Names,          \* tool names
    OwnNames,       \* the tools that createDefaultToolBroker registers
    SensitiveNames  \* the names that match SENSITIVE_PATTERNS

ASSUME ToolBrokerAssumption ==
    /\ OwnNames \subseteq Names
    /\ SensitiveNames \subseteq Names
    /\ {"local", "unknown"} \cap Clients = {}

Roles == {"admin", "viewer"}
Everyone == {"owner", "admin", "operator", "viewer"}
Trusted == {"owner", "admin"}

(* A policy: whether a call needs an approval, and who may make it.        *)
NoPolicy == [requiresApproval |-> FALSE, allowedRoles |-> {}]
Guard(sensitive) ==
    [requiresApproval |-> sensitive, allowedRoles |-> IF sensitive THEN Trusted ELSE Everyone]
Policies == {NoPolicy, Guard(TRUE), Guard(FALSE)}

(* Where a tool runs: the client captured by its closure, or here.         *)
Sources == Clients \cup {"local", "unknown"}

VARIABLES
    tools,          \* name -> where it runs, "unknown" if not registered
    policies,       \* name -> policy
    mcpClients,     \* server -> client
    mcpServerTools, \* server -> names registered from it
    op,             \* task -> what it does
    lost            \* client -> why it may be out of reach (history)

BrokerOps == {"idle", "connect", "list", "test", "testList", "call"}

(* trusted: the call was made by an owner or an admin, and was approved or *)
(* needed no approval in its run's mode.                                   *)
Operation == [does : BrokerOps, server : Servers \cup {"none"}, name : Names \cup {"none"},
              trusted : BOOLEAN]
Nothing == [does |-> "idle", server |-> "none", name |-> "none", trusted |-> FALSE]

registry == <<tools, policies, mcpServerTools>>
brokerVars == <<connections, registry, mcpClients, op, lost>>

BrokerTypeOK ==
    /\ ClientsTypeOK
    /\ tools \in [Names -> Sources]
    /\ policies \in [Names -> Policies]
    /\ mcpClients \in [Servers -> Clients \cup {NoClient}]
    /\ mcpServerTools \in [Servers -> SUBSET Names]
    /\ op \in [Tasks -> Operation]
    /\ lost \in [Clients -> SUBSET {"failed", "raced"}]

(* createDefaultToolBroker: tools of its own, each with its policy.        *)
BrokerInit ==
    /\ ClientsInit
    /\ tools = [n \in Names |-> IF n \in OwnNames THEN "local" ELSE "unknown"]
    /\ policies = [n \in Names |-> IF n \in OwnNames THEN Guard(n \in SensitiveNames)
                                                    ELSE NoPolicy]
    /\ mcpClients = [s \in Servers |-> NoClient]
    /\ mcpServerTools = [s \in Servers |-> {}]
    /\ op = [t \in Tasks |-> Nothing]
    /\ lost = [c \in Clients |-> {}]

-----------------------------------------------------------------------------
(* Maps and their updates.                                                 *)

Forgotten(names) ==
    /\ tools' = [n \in Names |-> IF n \in names THEN "unknown" ELSE tools[n]]
    /\ policies' = [n \in Names |-> IF n \in names THEN NoPolicy ELSE policies[n]]

Start(t, operation) ==
    /\ op[t].does = "idle"
    /\ op' = [op EXCEPT ![t] = operation]

Finish(t) == op' = [op EXCEPT ![t] = Nothing]

Racing(t, s) == {u \in Tasks \ {t} : op[u].does \in {"connect", "list"} /\ op[u].server = s}

(* The client of s, if any, is closed and with its tools taken away.       *)
DropServer(s) ==
    /\ mcpServerTools' = [mcpServerTools EXCEPT ![s] = {}]
    /\ Forgotten(mcpServerTools[s])

-----------------------------------------------------------------------------
(* connectMcpServer: a previous connection goes first, and its tools.      *)
BrokerConnect(t) == \E s \in Servers, c \in Clients :
    LET old == mcpClients[s] IN
    /\ Fresh(c)
    /\ Start(t, [Nothing EXCEPT !.does = "connect", !.server = s])
    /\ client' = [Disconnect({old}) EXCEPT ![c] = Created(Transport(s))]
    /\ wait' = [RejectPending(wait, Stdio(Clients \cap {old})) EXCEPT ![t] = Ask(c)]
    /\ mcpClients' = [mcpClients EXCEPT ![s] = NoClient]
    /\ IF old = NoClient THEN UNCHANGED registry ELSE DropServer(s)
    /\ lost' = [d \in Clients |->
         IF (d = c /\ Racing(t, s) # {}) \/ (\E u \in Racing(t, s) : wait[u].on = d)
         THEN lost[d] \cup {"raced"} ELSE lost[d]]

BrokerConnected(t) ==
    /\ op[t].does = "connect" /\ wait[t].got = "ok"
    /\ op' = [op EXCEPT ![t].does = "list"]
    /\ client' = Initialized(wait[t].on)
    /\ wait' = [wait EXCEPT ![t] = IF client[@.on].kind = "stdio" /\ ~client[@.on].attached
                                   THEN Refused(@.on) ELSE Ask(@.on)]
    /\ UNCHANGED <<registry, mcpClients, lost>>

(* Mutant: a connect registers a tool without looking at its name.         *)
TrustingConnectListed(t) == \E names \in SUBSET Names :
    LET c == wait[t].on
        s == op[t].server
    IN
    /\ op[t].does = "list" /\ wait[t].got = "ok"
    /\ mcpClients' = [mcpClients EXCEPT ![s] = c]
    /\ tools' = [n \in Names |-> IF n \in names THEN c ELSE tools[n]]
    /\ policies' = [n \in Names |-> IF n \in names THEN Guard(FALSE) ELSE policies[n]]
    /\ mcpServerTools' = [mcpServerTools EXCEPT ![s] = names]
    /\ wait' = [wait EXCEPT ![t] = Idle]
    /\ Finish(t)
    /\ UNCHANGED <<client, lost>>

(* The server's tools replace those of the same name, and get a policy.    *)
BrokerListed(t) == \E names \in SUBSET Names :
    LET c == wait[t].on
        s == op[t].server
    IN
    /\ op[t].does = "list" /\ wait[t].got = "ok"
    /\ mcpClients' = [mcpClients EXCEPT ![s] = c]
    /\ tools' = [n \in Names |-> IF n \in names THEN c ELSE tools[n]]
    /\ policies' = [n \in Names |-> IF n \in names THEN Guard(n \in SensitiveNames)
                                                   ELSE policies[n]]
    /\ mcpServerTools' = [mcpServerTools EXCEPT ![s] = names]
    /\ wait' = [wait EXCEPT ![t] = Idle]
    /\ Finish(t)
    /\ UNCHANGED <<client, lost>>

(* connect() or listTools() threw: nothing closes the new client.          *)
BrokerConnectFails(t) ==
    /\ op[t].does \in {"connect", "list"} /\ wait[t].got = "rejected"
    /\ lost' = [lost EXCEPT ![wait[t].on] = @ \cup {"failed"}]
    /\ wait' = [wait EXCEPT ![t] = Idle]
    /\ Finish(t)
    /\ UNCHANGED <<client, registry, mcpClients>>

BrokerDisconnect(s) ==
    LET old == mcpClients[s] IN
    /\ client' = Disconnect({old})
    /\ wait' = RejectPending(wait, Stdio(Clients \cap {old}))
    /\ mcpClients' = [mcpClients EXCEPT ![s] = NoClient]
    /\ DropServer(s)
    /\ UNCHANGED <<op, lost>>

-----------------------------------------------------------------------------
(* testMcpServer: a client of its own, closed whatever happens.            *)
BrokerTest(t) == \E c \in Clients, s \in Servers :
    /\ Fresh(c)
    /\ Start(t, [Nothing EXCEPT !.does = "test"])
    /\ client' = [client EXCEPT ![c] = Created(Transport(s))]
    /\ wait' = [wait EXCEPT ![t] = Ask(c)]
    /\ UNCHANGED <<registry, mcpClients, lost>>

BrokerTestConnected(t) ==
    /\ op[t].does = "test" /\ wait[t].got = "ok"
    /\ op' = [op EXCEPT ![t].does = "testList"]
    /\ client' = Initialized(wait[t].on)
    /\ wait' = [wait EXCEPT ![t] = Ask(@.on)]
    /\ UNCHANGED <<registry, mcpClients, lost>>

BrokerTestEnds(t) ==
    /\ op[t].does = "testList" \/ (op[t].does = "test" /\ wait[t].got = "rejected")
    /\ wait[t].got \in {"ok", "rejected"}
    /\ client' = Disconnect({wait[t].on})
    /\ wait' = [wait EXCEPT ![t] = Idle]
    /\ Finish(t)
    /\ UNCHANGED <<registry, mcpClients, lost>>

-----------------------------------------------------------------------------
(* cleared: approvalMode is not "approval", or the run was approved.       *)
Permits(policy, role, cleared) ==
    \/ policy = NoPolicy
    \/ role \in policy.allowedRoles /\ (policy.requiresApproval => cleared)

(* execute(): the policy is looked up once, then the closure is called.    *)
(* A refusal, an unknown tool and a tool that runs here end at once.       *)
Execute(t) == \E n \in Names, role \in Roles, cleared \in BOOLEAN :
    /\ tools[n] \in Clients
    /\ Permits(policies[n], role, cleared)
    /\ Start(t, [Nothing EXCEPT !.does = "call", !.name = n,
                                !.trusted = role \in Trusted /\ cleared])
    /\ wait' = [wait EXCEPT ![t] = Request(tools[n])]
    /\ UNCHANGED <<client, registry, mcpClients, lost>>

CallEnds(t) ==
    /\ op[t].does = "call" /\ wait[t].got \in {"ok", "rejected"}
    /\ wait' = [wait EXCEPT ![t] = Idle]
    /\ Finish(t)
    /\ UNCHANGED <<client, registry, mcpClients, lost>>

Continue(t) ==
    \/ BrokerConnected(t) \/ BrokerListed(t) \/ BrokerConnectFails(t)
    \/ BrokerTestConnected(t) \/ BrokerTestEnds(t) \/ CallEnds(t)

(* A closure that is still registered keeps its client.                    *)
BrokerCollect(c) ==
    /\ \A s \in Servers : mcpClients[s] # c
    /\ \A n \in Names : tools[n] # c
    /\ Collect(c)
    /\ lost' = [lost EXCEPT ![c] = {}]
    /\ UNCHANGED <<registry, mcpClients, op>>

BrokerNext ==
    \/ \E t \in Tasks : BrokerConnect(t) \/ BrokerTest(t) \/ Execute(t) \/ Continue(t)
    \/ \E s \in Servers : BrokerDisconnect(s)
    \/ \E c \in Clients : BrokerCollect(c)
    \/ Environment /\ UNCHANGED <<registry, mcpClients, op, lost>>

-----------------------------------------------------------------------------
(* Whatever connects and disconnects race: a registered tool has the policy*)
(* its name calls for, so one with a sensitive name is never open to       *)
(* everyone, and a call of it under way was trusted when it was made.      *)
ToolsGuarded ==
    /\ \A n \in Names : tools[n] # "unknown" => policies[n] = Guard(n \in SensitiveNames)
    /\ \A t \in Tasks :
         op[t].does = "call" /\ op[t].name \in SensitiveNames => op[t].trusted

(* A child process that runs although no server entry and no call under    *)
(* way refers to its client comes from a connect that threw, or from one   *)
(* that overlapped another connect of the same server: nothing else leaks. *)
BrokerOrphansExplained == \A c \in Clients :
    \/ ~Running(c) \/ lost[c] # {}
    \/ \E s \in Servers : mcpClients[s] = c
    \/ \E t \in Tasks : wait[t].on = c
=============================================================================
