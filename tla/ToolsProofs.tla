----------------------------- MODULE ToolsProofs -----------------------------
(***************************************************************************)
(* Proofs about the classes of tool-broker, for any number of servers,     *)
(* clients, tasks, processes, requests and executions.                     *)
(***************************************************************************)
EXTENDS MCTools, TLAPS, FiniteSetTheorems, SequenceTheorems

-----------------------------------------------------------------------------
(* The clients.                                                            *)

(* A process that runs is the one its client would kill.                   *)
Attached == \A c \in Clients : Running(c) => client[c].attached

(* The factory and disconnect() make clients.                              *)
LEMMA ClientShapes ==
  /\ Unused \in Client /\ Idle \in Await
  /\ \A s \in Servers : Created(Transport(s)) \in Client
  /\ \A s \in Servers : Created(Transport(s)).proc = "alive" => Created(Transport(s)).attached
  /\ \A cl \in Client :
       /\ Closed(cl) \in Client
       /\ cl.proc = "alive" /\ cl.attached => Closed(cl).proc # "alive"
       /\ Closed(cl).proc = "alive" => cl.proc = "alive"
<1>1. Unused \in Client /\ Idle \in Await
  BY DEF Unused, Idle, Client, Await, Transports, Processes
<1>2. ASSUME NEW s \in Servers
      PROVE  /\ Created(Transport(s)) \in Client
             /\ Created(Transport(s)).proc = "alive" => Created(Transport(s)).attached
  BY DEF Created, Transport, Client, Transports, Processes
<1>3. ASSUME NEW cl \in Client
      PROVE  /\ Closed(cl) \in Client
             /\ cl.proc = "alive" /\ cl.attached => Closed(cl).proc # "alive"
             /\ Closed(cl).proc = "alive" => cl.proc = "alive"
  BY DEF Closed, Client, Processes
<1> QED BY <1>1, <1>2, <1>3

(* rejectAllPending moves no request to another client.                    *)
LEMMA RejectKeeps ==
  ASSUME NEW w \in [Tasks -> Await], NEW S \in SUBSET (Clients \cup {NoClient})
  PROVE  /\ RejectPending(w, S) \in [Tasks -> Await]
         /\ \A t \in Tasks : /\ RejectPending(w, S)[t].on = w[t].on
                             /\ w[t].got # "waiting" => RejectPending(w, S)[t] = w[t]
<1>1. ASSUME NEW t \in Tasks
      PROVE  /\ RejectPending(w, S)[t] \in Await
             /\ RejectPending(w, S)[t].on = w[t].on
             /\ w[t].got # "waiting" => RejectPending(w, S)[t] = w[t]
  BY DEF RejectPending, Refused, Await
<1> QED BY <1>1 DEF RejectPending

(* Whoever is disconnected runs no more, and nobody starts to.             *)
LEMMA DisconnectKeeps ==
  ASSUME ClientsTypeOK, Attached, NEW S
  PROVE  /\ Disconnect(S) \in [Clients -> Client]
         /\ \A c \in Clients : Disconnect(S)[c].proc = "alive" =>
              c \notin S /\ client[c].proc = "alive" /\ Disconnect(S)[c] = client[c]
<1>1. ASSUME NEW c \in Clients
      PROVE  /\ Disconnect(S)[c] \in Client
             /\ Disconnect(S)[c].proc = "alive" =>
                  c \notin S /\ client[c].proc = "alive" /\ Disconnect(S)[c] = client[c]
  <2>1. client[c] \in Client /\ (client[c].proc = "alive" => client[c].attached)
    BY DEF ClientsTypeOK, Attached, Running
  <2>2. Disconnect(S)[c] = IF c \in S THEN Closed(client[c]) ELSE client[c]
    BY DEF Disconnect
  <2> QED BY <2>1, <2>2, ClientShapes
<1> QED BY <1>1 DEF Disconnect

(* What the environment does starts no process, and settles requests.      *)
LEMMA EnvironmentKeeps ==
  ASSUME ClientsTypeOK, Attached, Environment
  PROVE  /\ ClientsTypeOK' /\ Attached'
         /\ \A c \in Clients : Running(c)' => Running(c)
         /\ \A t \in Tasks : wait'[t].on = wait[t].on /\ (wait[t] = Idle => wait'[t] = Idle)
<1> USE DEF ClientsTypeOK
<1>1. ASSUME NEW t \in Tasks, Timeout(t) \/ Answered(t) \/ PostHeaders(t) \/ PostBody(t)
      PROVE  /\ wait' \in [Tasks -> Await] /\ client' = client
             /\ \A u \in Tasks : wait'[u].on = wait[u].on /\ (wait[u] = Idle => wait'[u] = Idle)
  <2>1. wait[t].got \in {"waiting", "body"} /\ wait[t] \in Await
    BY <1>1 DEF Timeout, Answered, PostHeaders, PostBody
  <2>2. CASE Timeout(t)
    BY <2>1, <2>2 DEF Timeout, Await, Refused, Idle
  <2>3. CASE Answered(t) \/ PostHeaders(t) \/ PostBody(t)
    <3>1. PICK got \in {"body", "ok", "rejected"} : wait' = [wait EXCEPT ![t].got = got]
      BY <2>3 DEF Answered, PostHeaders, PostBody
    <3> QED BY <2>1, <2>3, <3>1 DEF Answered, PostHeaders, PostBody, Await, Idle
  <2> QED BY <1>1, <2>2, <2>3
<1>2. ASSUME NEW t \in Tasks,
             Timeout(t) \/ HandleResponse(t) \/ PostHeaders(t) \/ PostBody(t)
      PROVE  Timeout(t) \/ Answered(t) \/ PostHeaders(t) \/ PostBody(t)
  BY <1>2 DEF HandleResponse
<1>3. ASSUME NEW d \in Clients, ProcessExit(d) \/ SpawnError(d)
      PROVE  /\ ClientsTypeOK' /\ Attached'
             /\ \A c \in Clients : Running(c)' => Running(c)
             /\ \A t \in Tasks : wait'[t].on = wait[t].on /\ (wait[t] = Idle => wait'[t] = Idle)
  <2>1. wait' = RejectPending(wait, {d}) /\ Idle.got # "waiting"
    BY <1>3 DEF ProcessExit, SpawnError, Idle
  <2>2. /\ client' \in [Clients -> Client]
        /\ \A c \in Clients : client'[c].proc = "alive" => client'[c] = client[c]
    BY <1>3 DEF ProcessExit, SpawnError, Client, Processes
  <2> QED BY <2>1, <2>2, RejectKeeps DEF Attached, Running
<1>4. CASE \E t \in Tasks :
             Timeout(t) \/ HandleResponse(t) \/ PostHeaders(t) \/ PostBody(t)
  BY <1>1, <1>2, <1>4 DEF Attached, Running
<1> QED BY <1>3, <1>4 DEF Environment

-----------------------------------------------------------------------------
(* The tool broker.                                                        *)

Connects(t) == op[t].does \in {"connect", "list"}
Tests(t) == op[t].does \in {"test", "testList"}

(* A task waits for a client exactly as long as it does something.         *)
OpsWait == \A t \in Tasks :
    IF op[t].does = "idle" THEN wait[t] = Idle ELSE wait[t].on \in Clients

(* A connect that is under way while its server has a client again was     *)
(* overtaken: that client is one that may get lost when it is replaced.    *)
Overtaken ==
    /\ \A t \in Tasks : Connects(t) =>
         /\ op[t].server \in Servers
         /\ mcpClients[op[t].server] \in Clients => lost[mcpClients[op[t].server]] # {}
    /\ \A t, u \in Tasks :
         t # u /\ Connects(t) /\ Connects(u) /\ op[t].server = op[u].server =>
           lost[wait[t].on] # {}

(* A call borrows a client; only a server, a connect and a test own one.   *)
Owned == \A c \in Clients : Running(c) =>
    \/ lost[c] # {}
    \/ \E s \in Servers : mcpClients[s] = c
    \/ \E t \in Tasks : wait[t].on = c /\ (Connects(t) \/ Tests(t))

BrokerInv == BrokerTypeOK /\ Attached /\ ToolsGuarded /\ OpsWait /\ Overtaken /\ Owned

(* The policies that the broker sets are policies.                         *)
LEMMA GuardIsPolicy ==
  /\ \A n \in Names : Guard(n \in SensitiveNames) \in Policies
  /\ NoPolicy \in Policies
<1>1. \A x \in BOOLEAN : Guard(x) \in Policies
  BY DEF Policies
<1>2. \A n \in Names : (n \in SensitiveNames) \in BOOLEAN
  OBVIOUS
<1> QED BY <1>1, <1>2 DEF Policies

(* Taking the tools of a server away takes their policies away with them.  *)
LEMMA ForgottenKeeps ==
  ASSUME BrokerTypeOK, ToolsGuarded, NEW names \in SUBSET Names, Forgotten(names), UNCHANGED op
  PROVE  /\ tools' \in [Names -> Sources] /\ policies' \in [Names -> Policies]
         /\ ToolsGuarded'
<1>1. tools' \in [Names -> Sources] /\ policies' \in [Names -> Policies]
  BY GuardIsPolicy DEF BrokerTypeOK, Forgotten, Sources
<1>2. \A n \in Names : tools'[n] # "unknown" => policies'[n] = Guard(n \in SensitiveNames)
  BY DEF ToolsGuarded, Forgotten
<1> QED BY <1>1, <1>2 DEF ToolsGuarded

LEMMA BrokerConnectKeeps ==
  ASSUME BrokerInv, NEW t \in Tasks, BrokerConnect(t)
  PROVE  BrokerInv'
<1> PICK s \in Servers, c \in Clients :
      LET old == mcpClients[s] IN
      /\ Fresh(c)
      /\ Start(t, [Nothing EXCEPT !.does = "connect", !.server = s])
      /\ client' = [Disconnect({old}) EXCEPT ![c] = Created(Transport(s))]
      /\ wait' = [RejectPending(wait, Stdio(Clients \cap {old})) EXCEPT ![t] = Ask(c)]
      /\ mcpClients' = [mcpClients EXCEPT ![s] = NoClient]
      /\ IF old = NoClient THEN UNCHANGED registry ELSE DropServer(s)
      /\ lost' = [d \in Clients |->
           IF (d = c /\ Racing(t, s) # {}) \/ (\E u \in Racing(t, s) : wait[u].on = d)
           THEN lost[d] \cup {"raced"} ELSE lost[d]]
  BY DEF BrokerConnect
<1> DEFINE old == mcpClients[s]
           w == RejectPending(wait, Stdio(Clients \cap {old}))
<1>1. BrokerTypeOK /\ ClientsTypeOK /\ Attached
  BY DEF BrokerInv, BrokerTypeOK
<1>2. op[t].does = "idle" /\ op' = [op EXCEPT ![t] = [Nothing EXCEPT !.does = "connect", !.server = s]]
  BY DEF Start
<1>3. /\ w \in [Tasks -> Await]
      /\ \A u \in Tasks : /\ w[u].on = wait[u].on
                          /\ wait[u].got # "waiting" => w[u] = wait[u]
  <2>1. Stdio(Clients \cap {old}) \in SUBSET (Clients \cup {NoClient})
    BY DEF Stdio
  <2> HIDE DEF old
  <2> QED BY <1>1, <2>1, RejectKeeps DEF ClientsTypeOK
<1> HIDE DEF w
<1>4. wait' = [w EXCEPT ![t] = Ask(c)] /\ Ask(c) \in Await /\ Ask(c).on = c
  BY DEF w, Ask, Await
<1>5. /\ wait' \in [Tasks -> Await] /\ wait'[t].on = c
      /\ \A u \in Tasks \ {t} : /\ wait'[u].on = wait[u].on
                                /\ wait[u] = Idle => wait'[u] = Idle
  <2>1. Idle.got # "waiting"
    BY DEF Idle
  <2> QED BY <1>3, <1>4, <2>1
<1>6. /\ client' \in [Clients -> Client] /\ Attached'
      /\ \A d \in Clients \ {c} : Running(d)' => Running(d) /\ d # old
  <2>1. /\ Disconnect({old}) \in [Clients -> Client]
        /\ \A d \in Clients : Disconnect({old})[d].proc = "alive" =>
             d \notin {old} /\ client[d].proc = "alive" /\ Disconnect({old})[d] = client[d]
    BY <1>1, DisconnectKeeps
  <2>2. Created(Transport(s)) \in Client
        /\ (Created(Transport(s)).proc = "alive" => Created(Transport(s)).attached)
    BY ClientShapes
  <2> HIDE DEF old
  <2>3. /\ client' \in [Clients -> Client]
        /\ client'[c] = Created(Transport(s))
        /\ \A d \in Clients \ {c} : client'[d] = Disconnect({old})[d]
    BY <2>1, <2>2 DEF old
  <2> QED BY <2>1, <2>2, <2>3, <1>1 DEF Attached, Running
<1>7. /\ op' \in [Tasks -> Operation] /\ Connects(t)' /\ op'[t].server = s
      /\ \A u \in Tasks \ {t} : op'[u] = op[u]
      /\ op'[t].does = "connect"
  BY <1>1, <1>2 DEF BrokerTypeOK, Operation, Nothing, BrokerOps, Connects
<1>8. /\ mcpClients' \in [Servers -> Clients \cup {NoClient}] /\ mcpClients'[s] = NoClient
      /\ \A r \in Servers \ {s} : mcpClients'[r] = mcpClients[r]
  BY <1>1 DEF BrokerTypeOK
<1>9. /\ lost' \in [Clients -> SUBSET {"failed", "raced"}]
      /\ \A d \in Clients : lost[d] # {} => lost'[d] # {}
      /\ \A u \in Tasks \ {t} : Connects(u) /\ op[u].server = s =>
           lost'[c] # {} /\ (wait[u].on \in Clients => lost'[wait[u].on] # {})
  <2>1. \A d \in Clients : lost[d] \in SUBSET {"failed", "raced"}
    BY <1>1 DEF BrokerTypeOK
  <2>2. \A u \in Tasks \ {t} : Connects(u) /\ op[u].server = s => u \in Racing(t, s)
    BY DEF Racing, Connects
  <2> QED BY <2>1, <2>2
<1>10. /\ tools' \in [Names -> Sources] /\ policies' \in [Names -> Policies]
       /\ mcpServerTools' \in [Servers -> SUBSET Names]
       /\ \A n \in Names : tools'[n] # "unknown" => policies'[n] = Guard(n \in SensitiveNames)
  <2>1. CASE old = NoClient
    BY <2>1, <1>1 DEF BrokerInv, BrokerTypeOK, ToolsGuarded, registry
  <2>2. CASE old # NoClient
    <3>1. DropServer(s) /\ mcpServerTools[s] \in SUBSET Names
      BY <2>2, <1>1 DEF BrokerTypeOK
    <3>2. tools' \in [Names -> Sources] /\ policies' \in [Names -> Policies]
      BY <3>1, <1>1, GuardIsPolicy DEF BrokerTypeOK, Forgotten, Sources, DropServer
    <3>3. \A n \in Names : tools'[n] # "unknown" => policies'[n] = Guard(n \in SensitiveNames)
      BY <3>1 DEF BrokerInv, ToolsGuarded, Forgotten, DropServer
    <3> QED BY <3>1, <3>2, <3>3, <1>1 DEF BrokerTypeOK, DropServer
  <2> QED BY <2>1, <2>2
<1> HIDE DEF old
<1>11. BrokerTypeOK'
  BY <1>5, <1>6, <1>7, <1>8, <1>9, <1>10 DEF BrokerTypeOK, ClientsTypeOK
<1>12. ToolsGuarded'
  BY <1>7, <1>10 DEF BrokerInv, ToolsGuarded
<1>13. OpsWait'
  BY <1>5, <1>7 DEF BrokerInv, OpsWait
<1>14. Overtaken'
  <2>1. ASSUME NEW u \in Tasks, Connects(u)'
        PROVE  /\ op'[u].server \in Servers
               /\ mcpClients'[op'[u].server] \in Clients =>
                    lost'[mcpClients'[op'[u].server]] # {}
    <3>1. CASE u = t
      BY <3>1, <1>7, <1>8, McpClientsAssumption
    <3>2. CASE u # t
      <4>1. Connects(u) /\ op'[u] = op[u]
        BY <2>1, <3>2, <1>7 DEF Connects
      <4> QED BY <3>2, <4>1, <1>8, <1>9, McpClientsAssumption DEF BrokerInv, Overtaken
    <3> QED BY <3>1, <3>2
  <2>2. ASSUME NEW u \in Tasks, NEW v \in Tasks, u # v, Connects(u)', Connects(v)',
               op'[u].server = op'[v].server
        PROVE  lost'[wait'[u].on] # {}
    <3>1. ASSUME NEW x \in Tasks \ {t}, Connects(x)'
          PROVE  /\ Connects(x) /\ op'[x] = op[x] /\ wait'[x].on = wait[x].on
                 /\ wait[x].on \in Clients
                 /\ op[x].server = s => lost'[c] # {} /\ lost'[wait[x].on] # {}
      <4>1. op'[x] = op[x] /\ wait'[x].on = wait[x].on
        BY <1>5, <1>7
      <4>2. Connects(x)
        BY <3>1, <4>1 DEF Connects
      <4>3. wait[x].on \in Clients
        BY <4>2 DEF Connects, BrokerInv, OpsWait
      <4> QED BY <4>1, <4>2, <4>3, <1>9
    <3>2. CASE u = t
      <4>1. op'[v] = op[v] /\ op[v].server = s => lost'[c] # {}
        BY <2>2, <3>1, <3>2
      <4> QED BY <2>2, <3>1, <3>2, <4>1, <1>5, <1>7
    <3>3. CASE v = t
      BY <2>2, <3>1, <3>3, <1>7
    <3>4. CASE u # t /\ v # t
      <4>1. lost[wait[u].on] # {}
        BY <2>2, <3>1, <3>4 DEF BrokerInv, Overtaken
      <4> QED BY <2>2, <3>1, <3>4, <4>1, <1>9
    <3> QED BY <3>2, <3>3, <3>4
  <2> QED BY <2>1, <2>2 DEF Overtaken
<1>15. Owned'
  <2>1. ASSUME NEW d \in Clients, Running(d)'
        PROVE  \/ lost'[d] # {}
               \/ \E r \in Servers : mcpClients'[r] = d
               \/ \E u \in Tasks : wait'[u].on = d /\ (Connects(u)' \/ Tests(u)')
    <3>1. CASE d = c
      BY <3>1, <1>5, <1>7
    <3>2. CASE d # c
      <4>1. Running(d) /\ d # old
        BY <2>1, <3>2, <1>6
      <4>2. CASE lost[d] # {}
        BY <4>2, <1>9
      <4>3. CASE \E r \in Servers : mcpClients[r] = d
        BY <4>1, <4>3, <1>8 DEF old
      <4>4. CASE \E u \in Tasks : wait[u].on = d /\ (Connects(u) \/ Tests(u))
        <5>1. PICK u \in Tasks : wait[u].on = d /\ (Connects(u) \/ Tests(u))
          BY <4>4
        <5>2. u # t
          BY <5>1, <1>2 DEF Connects, Tests
        <5> QED BY <5>1, <5>2, <1>5, <1>7 DEF Connects, Tests
      <4> QED BY <4>1, <4>2, <4>3, <4>4 DEF BrokerInv, Owned
    <3> QED BY <3>1, <3>2
  <2> QED BY <2>1 DEF Owned
<1> QED BY <1>6, <1>11, <1>12, <1>13, <1>14, <1>15 DEF BrokerInv

(* A step that leaves the servers and the tools alone keeps the invariant  *)
(* if no process starts, no connect begins and no owner lets its client go *)
(* unnoticed.                                                              *)
LEMMA BrokerStep ==
  ASSUME BrokerInv, UNCHANGED <<registry, mcpClients>>,
         client' \in [Clients -> Client], wait' \in [Tasks -> Await],
         op' \in [Tasks -> Operation], lost' \in [Clients -> SUBSET {"failed", "raced"}],
         Attached', OpsWait',
         \A c \in Clients : (Running(c)' => Running(c)) /\ (lost[c] # {} => lost'[c] # {}),
         \A u \in Tasks : Connects(u)' =>
           Connects(u) /\ op'[u].server = op[u].server /\ wait'[u].on = wait[u].on,
         \A u \in Tasks : Connects(u) \/ Tests(u) =>
           \/ wait'[u].on = wait[u].on /\ (Connects(u)' \/ Tests(u)')
           \/ client'[wait[u].on].proc # "alive" \/ lost'[wait[u].on] # {},
         \A u \in Tasks :
           op'[u].does = "call" /\ op'[u].name \in SensitiveNames => op'[u].trusted
  PROVE  BrokerInv'
<1> USE DEF registry
<1>1. BrokerTypeOK'
  BY DEF BrokerInv, BrokerTypeOK, ClientsTypeOK
<1>2. ToolsGuarded'
  BY DEF BrokerInv, ToolsGuarded
<1>3. Overtaken'
  <2>1. ASSUME NEW u \in Tasks, Connects(u)'
        PROVE  /\ op'[u].server \in Servers
               /\ mcpClients'[op'[u].server] \in Clients =>
                    lost'[mcpClients'[op'[u].server]] # {}
    BY <2>1 DEF BrokerInv, Overtaken
  <2>2. ASSUME NEW u \in Tasks, NEW v \in Tasks, u # v, Connects(u)', Connects(v)',
               op'[u].server = op'[v].server
        PROVE  lost'[wait'[u].on] # {}
    <3>1. Connects(u) /\ Connects(v) /\ op[u].server = op[v].server
      BY <2>2
    <3>2. lost[wait[u].on] # {} /\ wait[u].on \in Clients
      BY <2>2, <3>1 DEF BrokerInv, Overtaken, OpsWait, Connects
    <3> QED BY <2>2, <3>1, <3>2
  <2> QED BY <2>1, <2>2 DEF Overtaken
<1>4. Owned'
  <2>1. ASSUME NEW d \in Clients, Running(d)'
        PROVE  \/ lost'[d] # {}
               \/ \E r \in Servers : mcpClients'[r] = d
               \/ \E u \in Tasks : wait'[u].on = d /\ (Connects(u)' \/ Tests(u)')
    <3>1. CASE \E u \in Tasks : wait[u].on = d /\ (Connects(u) \/ Tests(u))
      <4>1. PICK u \in Tasks : wait[u].on = d /\ (Connects(u) \/ Tests(u))
        BY <3>1
      <4>2. \/ wait'[u].on = wait[u].on /\ (Connects(u)' \/ Tests(u)')
            \/ client'[wait[u].on].proc # "alive" \/ lost'[wait[u].on] # {}
        BY <4>1
      <4> QED BY <2>1, <4>1, <4>2 DEF Running
    <3> QED BY <2>1, <3>1 DEF BrokerInv, Owned
  <2> QED BY <2>1 DEF Owned
<1> QED BY <1>1, <1>2, <1>3, <1>4 DEF BrokerInv

(* The answer to initialize marks a client as connected.                   *)
LEMMA InitializedKeeps ==
  ASSUME ClientsTypeOK, Attached, NEW d, client' = Initialized(d)
  PROVE  /\ client' \in [Clients -> Client] /\ Attached'
         /\ \A c \in Clients : Running(c)' => Running(c)
BY DEF ClientsTypeOK, Attached, Initialized, Client, Running

(* The continuations of a connect and of a test that go on.                *)
LEMMA BrokerConnectedKeeps ==
  ASSUME BrokerInv, NEW t \in Tasks, BrokerConnected(t) \/ BrokerTestConnected(t)
  PROVE  BrokerInv'
<1>1. BrokerTypeOK /\ ClientsTypeOK /\ Attached
  BY DEF BrokerInv, BrokerTypeOK
<1>2. PICK next \in {"list", "testList"} :
        /\ op' = [op EXCEPT ![t].does = next]
        /\ next = "list" => op[t].does = "connect"
        /\ next = "testList" => op[t].does = "test"
  BY DEF BrokerConnected, BrokerTestConnected
<1>3. /\ client' = Initialized(wait[t].on)
      /\ UNCHANGED <<registry, mcpClients, lost>>
      /\ wait' = [wait EXCEPT ![t] = Refused(@.on)] \/ wait' = [wait EXCEPT ![t] = Ask(@.on)]
  BY DEF BrokerConnected, BrokerTestConnected
<1>4. wait[t].on \in Clients
  BY <1>2 DEF BrokerInv, OpsWait
<1>5. /\ client' \in [Clients -> Client] /\ Attached'
      /\ \A c \in Clients : Running(c)' => Running(c)
  BY <1>1, <1>3, InitializedKeeps
<1>6. /\ wait' \in [Tasks -> Await]
      /\ \A u \in Tasks : wait'[u].on = wait[u].on /\ (u # t => wait'[u] = wait[u])
  BY <1>1, <1>3, <1>4 DEF ClientsTypeOK, Await, Refused, Ask
<1>7. /\ op' \in [Tasks -> Operation]
      /\ op'[t].does = next /\ op'[t].server = op[t].server
      /\ \A u \in Tasks \ {t} : op'[u] = op[u]
  BY <1>1, <1>2 DEF BrokerTypeOK, Operation, BrokerOps
<1>8. OpsWait'
  BY <1>4, <1>6, <1>7 DEF BrokerInv, OpsWait
<1>9. \A u \in Tasks : (Connects(u)' <=> Connects(u)) /\ (Tests(u)' <=> Tests(u))
  BY <1>2, <1>7 DEF Connects, Tests
<1>10. \A u \in Tasks : op'[u].does = "call" => op'[u] = op[u]
  BY <1>7
<1> QED
  BY <1>1, <1>3, <1>5, <1>6, <1>7, <1>8, <1>9, <1>10, BrokerStep
  DEF BrokerInv, BrokerTypeOK, ToolsGuarded

(* The end of a connect that failed, of a test and of a call.              *)
LEMMA BrokerEndsKeeps ==
  ASSUME BrokerInv, NEW t \in Tasks, BrokerConnectFails(t) \/ BrokerTestEnds(t) \/ CallEnds(t)
  PROVE  BrokerInv'
<1>1. BrokerTypeOK /\ ClientsTypeOK /\ Attached
  BY DEF BrokerInv, BrokerTypeOK
<1>2. /\ op' = [op EXCEPT ![t] = Nothing] /\ wait' = [wait EXCEPT ![t] = Idle]
      /\ UNCHANGED <<registry, mcpClients>> /\ op[t].does # "idle"
  BY DEF BrokerConnectFails, BrokerTestEnds, CallEnds, Finish
<1>3. wait[t].on \in Clients
  BY <1>2 DEF BrokerInv, OpsWait
<1>4. /\ client' \in [Clients -> Client] /\ Attached'
      /\ \A c \in Clients : Running(c)' => Running(c)
      /\ lost' \in [Clients -> SUBSET {"failed", "raced"}]
      /\ \A c \in Clients : lost[c] # {} => lost'[c] # {}
      /\ Connects(t) \/ Tests(t) => client'[wait[t].on].proc # "alive" \/ lost'[wait[t].on] # {}
  <2>1. CASE BrokerConnectFails(t)
    BY <2>1, <1>1, <1>3
    DEF BrokerConnectFails, BrokerTypeOK, ClientsTypeOK, Attached, Running
  <2>2. CASE BrokerTestEnds(t)
    <3>1. client' = Disconnect({wait[t].on}) /\ lost' = lost
      BY <2>2 DEF BrokerTestEnds
    <3>2. /\ client' \in [Clients -> Client]
          /\ \A c \in Clients : client'[c].proc = "alive" =>
               c \notin {wait[t].on} /\ client[c].proc = "alive" /\ client'[c] = client[c]
      BY <1>1, <3>1, DisconnectKeeps
    <3>3. Attached' /\ client'[wait[t].on].proc # "alive" /\ \A c \in Clients : Running(c)' => Running(c)
      BY <3>2, <1>1, <1>3 DEF Attached, Running
    <3>4. lost' \in [Clients -> SUBSET {"failed", "raced"}]
      BY <3>1, <1>1 DEF BrokerTypeOK
    <3> QED BY <3>1, <3>2, <3>3, <3>4
  <2>3. CASE CallEnds(t)
    BY <2>3, <1>1 DEF CallEnds, BrokerTypeOK, ClientsTypeOK, Attached, Running, Connects, Tests
  <2> QED BY <2>1, <2>2, <2>3
<1>5. wait' \in [Tasks -> Await] /\ wait'[t] = Idle
      /\ \A u \in Tasks \ {t} : wait'[u] = wait[u]
  BY <1>1, <1>2, ClientShapes DEF ClientsTypeOK
<1>6. op' \in [Tasks -> Operation] /\ op'[t].does = "idle"
      /\ \A u \in Tasks \ {t} : op'[u] = op[u]
  BY <1>1, <1>2 DEF BrokerTypeOK, Operation, Nothing, BrokerOps
<1>7. OpsWait'
  BY <1>5, <1>6 DEF BrokerInv, OpsWait
<1>8. /\ ~Connects(t)' /\ ~Tests(t)'
      /\ \A u \in Tasks \ {t} : (Connects(u)' <=> Connects(u)) /\ (Tests(u)' <=> Tests(u))
  BY <1>6 DEF Connects, Tests
<1>9. \A u \in Tasks : op'[u].does = "call" => op'[u] = op[u]
  BY <1>6
<1> QED
  BY <1>2, <1>4, <1>5, <1>6, <1>7, <1>8, <1>9, BrokerStep DEF BrokerInv, ToolsGuarded

(* A call borrows the client of its tool; who may make it depends on the   *)
(* policy of the tool's name.                                              *)
LEMMA ExecuteKeeps ==
  ASSUME BrokerInv, NEW t \in Tasks, Execute(t)
  PROVE  BrokerInv'
<1>1. BrokerTypeOK /\ ClientsTypeOK /\ Attached
  BY DEF BrokerInv, BrokerTypeOK
<1>2. PICK n \in Names, role \in Roles, cleared \in BOOLEAN :
        /\ tools[n] \in Clients
        /\ Permits(policies[n], role, cleared)
        /\ Start(t, [Nothing EXCEPT !.does = "call", !.name = n,
                                    !.trusted = role \in Trusted /\ cleared])
        /\ wait' = [wait EXCEPT ![t] = Request(tools[n])]
        /\ UNCHANGED <<client, registry, mcpClients, lost>>
  BY DEF Execute
<1> DEFINE trusted == role \in Trusted /\ cleared
           call == [Nothing EXCEPT !.does = "call", !.name = n, !.trusted = trusted]
<1>3. op[t].does = "idle" /\ op' = [op EXCEPT ![t] = call]
  BY <1>2 DEF Start
<1>4. trusted \in BOOLEAN
  OBVIOUS
<1>5. n \in SensitiveNames => trusted
  <2>1. ASSUME n \in SensitiveNames PROVE trusted
    <3>1. tools[n] # "unknown"
      BY <1>2, ToolBrokerAssumption
    <3>2. policies[n] = Guard(n \in SensitiveNames)
      BY <3>1 DEF BrokerInv, ToolsGuarded
    <3>3. (n \in SensitiveNames) = TRUE
      BY <2>1
    <3>4. policies[n] = Guard(TRUE)
      BY <3>2, <3>3
    <3>5. policies[n] = [requiresApproval |-> TRUE, allowedRoles |-> Trusted]
      BY <3>4 DEF Guard
    <3> QED BY <1>2, <3>5 DEF Permits, NoPolicy
  <2> QED BY <2>1
<1> HIDE DEF trusted
<1>6. call \in Operation /\ call.does = "call" /\ call.name = n /\ call.trusted = trusted
  BY <1>4 DEF Nothing, Operation, BrokerOps
<1> HIDE DEF call
<1>7. op' \in [Tasks -> Operation] /\ op'[t] = call /\ \A u \in Tasks \ {t} : op'[u] = op[u]
  BY <1>1, <1>3, <1>6 DEF BrokerTypeOK
<1>8. /\ wait' \in [Tasks -> Await] /\ wait'[t].on = tools[n]
      /\ \A u \in Tasks \ {t} : wait'[u] = wait[u]
  BY <1>1, <1>2 DEF ClientsTypeOK, Request, Ask, Refused, Await
<1>9. OpsWait'
  BY <1>2, <1>7, <1>8, <1>6 DEF BrokerInv, OpsWait
<1>10. \A u \in Tasks : (Connects(u)' <=> Connects(u)) /\ (Tests(u)' <=> Tests(u))
  BY <1>3, <1>7, <1>6 DEF Connects, Tests
<1>11. ~Connects(t) /\ ~Tests(t)
  BY <1>3 DEF Connects, Tests
<1>12. \A u \in Tasks :
         op'[u].does = "call" /\ op'[u].name \in SensitiveNames => op'[u].trusted
  BY <1>5, <1>7, <1>6 DEF BrokerInv, ToolsGuarded
<1>13. /\ client' \in [Clients -> Client] /\ lost' \in [Clients -> SUBSET {"failed", "raced"}]
       /\ UNCHANGED <<registry, mcpClients, lost, client>> /\ Attached'
       /\ \A c \in Clients : Running(c)' => Running(c)
  BY <1>1, <1>2 DEF BrokerTypeOK, ClientsTypeOK, Attached, Running
<1> QED BY <1>7, <1>8, <1>9, <1>10, <1>11, <1>12, <1>13, BrokerStep


(* The tools of the server get its client and their policies; the client   *)
(* that a connect finds in its place was overtaken.                        *)
LEMMA BrokerListedKeeps ==
  ASSUME BrokerInv, NEW t \in Tasks, BrokerListed(t)
  PROVE  BrokerInv'
<1> PICK names \in SUBSET Names :
      /\ op[t].does = "list" /\ wait[t].got = "ok"
      /\ mcpClients' = [mcpClients EXCEPT ![op[t].server] = wait[t].on]
      /\ tools' = [n \in Names |-> IF n \in names THEN wait[t].on ELSE tools[n]]
      /\ policies' = [n \in Names |-> IF n \in names THEN Guard(n \in SensitiveNames)
                                                     ELSE policies[n]]
      /\ mcpServerTools' = [mcpServerTools EXCEPT ![op[t].server] = names]
      /\ wait' = [wait EXCEPT ![t] = Idle]
      /\ Finish(t)
      /\ UNCHANGED <<client, lost>>
  BY DEF BrokerListed
<1>1. BrokerTypeOK /\ ClientsTypeOK /\ Attached
  BY DEF BrokerInv, BrokerTypeOK
<1>2. Connects(t) /\ wait[t].on \in Clients /\ op[t].server \in Servers
  BY DEF Connects, BrokerInv, OpsWait, Overtaken
<1> DEFINE c == wait[t].on
           s == op[t].server
<1>3. /\ mcpClients' \in [Servers -> Clients \cup {NoClient}] /\ mcpClients'[s] = c
      /\ \A r \in Servers \ {s} : mcpClients'[r] = mcpClients[r]
  BY <1>1, <1>2 DEF BrokerTypeOK
<1>4. wait' \in [Tasks -> Await] /\ wait'[t] = Idle
      /\ \A u \in Tasks \ {t} : wait'[u] = wait[u]
  BY <1>1, ClientShapes DEF ClientsTypeOK
<1>5. op' \in [Tasks -> Operation] /\ op'[t].does = "idle"
      /\ \A u \in Tasks \ {t} : op'[u] = op[u]
  BY <1>1 DEF BrokerTypeOK, Operation, Nothing, BrokerOps, Finish
<1>6. /\ tools' \in [Names -> Sources] /\ policies' \in [Names -> Policies]
      /\ mcpServerTools' \in [Servers -> SUBSET Names]
      /\ \A n \in Names : tools'[n] # "unknown" => policies'[n] = Guard(n \in SensitiveNames)
  <2>1. tools' \in [Names -> Sources] /\ mcpServerTools' \in [Servers -> SUBSET Names]
    BY <1>1, <1>2 DEF BrokerTypeOK, Sources
  <2>2. policies' \in [Names -> Policies]
    BY <1>1, GuardIsPolicy DEF BrokerTypeOK
  <2>3. \A n \in Names : tools'[n] # "unknown" => policies'[n] = Guard(n \in SensitiveNames)
    BY DEF BrokerInv, ToolsGuarded
  <2> QED BY <2>1, <2>2, <2>3
<1>7. \A u \in Tasks : Connects(u)' => u # t /\ Connects(u)
  BY <1>5 DEF Connects
<1>8. \A u \in Tasks \ {t} : (Connects(u)' <=> Connects(u)) /\ (Tests(u)' <=> Tests(u))
  BY <1>5 DEF Connects, Tests
<1>9. BrokerTypeOK' /\ Attached'
  BY <1>1, <1>3, <1>4, <1>5, <1>6 DEF BrokerTypeOK, ClientsTypeOK, Attached, Running
<1>10. ToolsGuarded'
  BY <1>5, <1>6 DEF BrokerInv, ToolsGuarded
<1>11. OpsWait'
  BY <1>4, <1>5 DEF BrokerInv, OpsWait
<1>12. \A u \in Tasks : u # t /\ Connects(u) /\ op[u].server = s => lost[c] # {}
  BY <1>2 DEF BrokerInv, Overtaken
<1>13. Overtaken'
  <2>1. ASSUME NEW u \in Tasks, Connects(u)'
        PROVE  /\ op'[u].server \in Servers
               /\ mcpClients'[op'[u].server] \in Clients =>
                    lost'[mcpClients'[op'[u].server]] # {}
    <3>1. u # t /\ Connects(u) /\ op'[u] = op[u] /\ op[u].server \in Servers
      BY <2>1, <1>5, <1>7 DEF BrokerInv, Overtaken
    <3>2. CASE op[u].server = s
      BY <3>1, <3>2, <1>2, <1>3, <1>12
    <3>3. CASE op[u].server # s
      BY <3>1, <3>3, <1>3 DEF BrokerInv, Overtaken
    <3> QED BY <3>2, <3>3
  <2>2. ASSUME NEW u \in Tasks, NEW v \in Tasks, u # v, Connects(u)', Connects(v)',
               op'[u].server = op'[v].server
        PROVE  lost'[wait'[u].on] # {}
    BY <2>2, <1>4, <1>5, <1>7 DEF BrokerInv, Overtaken
  <2> QED BY <2>1, <2>2 DEF Overtaken
<1>14. Owned'
  <2>1. ASSUME NEW d \in Clients, Running(d)'
        PROVE  \/ lost'[d] # {}
               \/ \E r \in Servers : mcpClients'[r] = d
               \/ \E u \in Tasks : wait'[u].on = d /\ (Connects(u)' \/ Tests(u)')
    <3>1. Running(d)
      BY <2>1 DEF Running
    <3>2. CASE d = c
      BY <3>2, <1>2, <1>3
    <3>3. CASE \E r \in Servers : mcpClients[r] = d
      BY <3>3, <1>2, <1>3 DEF BrokerInv, Overtaken
    <3>4. CASE d # c /\ \E u \in Tasks : wait[u].on = d /\ (Connects(u) \/ Tests(u))
      <4>1. PICK u \in Tasks : wait[u].on = d /\ (Connects(u) \/ Tests(u))
        BY <3>4
      <4> QED BY <3>4, <4>1, <1>4, <1>8
    <3> QED BY <3>1, <3>2, <3>3, <3>4 DEF BrokerInv, Owned
  <2> QED BY <2>1 DEF Owned
<1> QED BY <1>9, <1>10, <1>11, <1>13, <1>14 DEF BrokerInv

(* disconnectMcpServer closes the client whose entry it removes.           *)
LEMMA BrokerDisconnectKeeps ==
  ASSUME BrokerInv, NEW s \in Servers, BrokerDisconnect(s)
  PROVE  BrokerInv'
<1> DEFINE old == mcpClients[s]
<1>1. BrokerTypeOK /\ ClientsTypeOK /\ Attached
  BY DEF BrokerInv, BrokerTypeOK
<1>2. /\ client' = Disconnect({old})
      /\ wait' = RejectPending(wait, Stdio(Clients \cap {old}))
      /\ mcpClients' = [mcpClients EXCEPT ![s] = NoClient]
      /\ DropServer(s) /\ UNCHANGED <<op, lost>>
  BY DEF BrokerDisconnect
<1>3. /\ client' \in [Clients -> Client]
      /\ \A d \in Clients : client'[d].proc = "alive" =>
           d \notin {old} /\ client[d].proc = "alive" /\ client'[d] = client[d]
  BY <1>1, <1>2, DisconnectKeeps
<1>4. Attached' /\ \A d \in Clients : Running(d)' => Running(d) /\ d # old
  BY <1>1, <1>3 DEF Attached, Running
<1>5. /\ wait' \in [Tasks -> Await]
      /\ \A u \in Tasks : wait'[u].on = wait[u].on /\ (wait[u] = Idle => wait'[u] = Idle)
  <2> DEFINE S == Stdio(Clients \cap {old})
  <2>1. S \in SUBSET (Clients \cup {NoClient}) /\ Idle.got # "waiting"
    BY DEF Stdio, Idle
  <2>2. wait' = RejectPending(wait, S) /\ wait \in [Tasks -> Await]
    BY <1>1, <1>2 DEF ClientsTypeOK
  <2> HIDE DEF S
  <2>3. /\ RejectPending(wait, S) \in [Tasks -> Await]
        /\ \A u \in Tasks : /\ RejectPending(wait, S)[u].on = wait[u].on
                            /\ wait[u].got # "waiting" => RejectPending(wait, S)[u] = wait[u]
    BY ONLY <2>1, <2>2, RejectKeeps
  <2> QED BY <2>1, <2>2, <2>3
<1>6. /\ mcpClients' \in [Servers -> Clients \cup {NoClient}] /\ mcpClients'[s] = NoClient
      /\ \A r \in Servers \ {s} : mcpClients'[r] = mcpClients[r]
  BY <1>1, <1>2 DEF BrokerTypeOK
<1>7. /\ tools' \in [Names -> Sources] /\ policies' \in [Names -> Policies] /\ ToolsGuarded'
      /\ mcpServerTools' \in [Servers -> SUBSET Names]
  <2>1. mcpServerTools[s] \in SUBSET Names /\ Forgotten(mcpServerTools[s])
    BY <1>1, <1>2 DEF BrokerTypeOK, DropServer
  <2>2. mcpServerTools' \in [Servers -> SUBSET Names]
    BY <1>1, <1>2 DEF BrokerTypeOK, DropServer
  <2> QED BY <2>1, <2>2, <1>1, <1>2, ForgottenKeeps DEF BrokerInv
<1>8. \A u \in Tasks : (Connects(u)' <=> Connects(u)) /\ (Tests(u)' <=> Tests(u))
  BY <1>2 DEF Connects, Tests
<1>9. BrokerTypeOK'
  BY <1>1, <1>2, <1>3, <1>5, <1>6, <1>7 DEF BrokerTypeOK, ClientsTypeOK
<1>10. OpsWait'
  BY <1>2, <1>5 DEF BrokerInv, OpsWait
<1>11. Overtaken'
  BY <1>2, <1>5, <1>6, <1>8, McpClientsAssumption DEF BrokerInv, Overtaken
<1>12. Owned'
  BY <1>2, <1>4, <1>5, <1>6, <1>8 DEF BrokerInv, Owned
<1> QED BY <1>4, <1>7, <1>9, <1>10, <1>11, <1>12 DEF BrokerInv

(* A test owns a client of its own.                                        *)
LEMMA BrokerTestKeeps ==
  ASSUME BrokerInv, NEW t \in Tasks, BrokerTest(t)
  PROVE  BrokerInv'
<1> PICK c \in Clients, s \in Servers :
      /\ Fresh(c)
      /\ Start(t, [Nothing EXCEPT !.does = "test"])
      /\ client' = [client EXCEPT ![c] = Created(Transport(s))]
      /\ wait' = [wait EXCEPT ![t] = Ask(c)]
      /\ UNCHANGED <<registry, mcpClients, lost>>
  BY DEF BrokerTest
<1>1. BrokerTypeOK /\ ClientsTypeOK /\ Attached
  BY DEF BrokerInv, BrokerTypeOK
<1>2. op[t].does = "idle" /\ op' = [op EXCEPT ![t] = [Nothing EXCEPT !.does = "test"]]
  BY DEF Start
<1>3. op' \in [Tasks -> Operation] /\ op'[t].does = "test" /\ \A u \in Tasks \ {t} : op'[u] = op[u]
  BY <1>1, <1>2 DEF BrokerTypeOK, Operation, Nothing, BrokerOps
<1>4. /\ wait' \in [Tasks -> Await] /\ wait'[t].on = c
      /\ \A u \in Tasks \ {t} : wait'[u] = wait[u]
  BY <1>1 DEF ClientsTypeOK, Ask, Await
<1>5. /\ client' \in [Clients -> Client] /\ Attached'
      /\ \A d \in Clients \ {c} : Running(d)' => Running(d)
  BY <1>1, ClientShapes DEF ClientsTypeOK, Attached, Running
<1>6. /\ Tests(t)' /\ ~Connects(t)' /\ ~Tests(t) /\ ~Connects(t)
      /\ \A u \in Tasks \ {t} : (Connects(u)' <=> Connects(u)) /\ (Tests(u)' <=> Tests(u))
  BY <1>2, <1>3 DEF Connects, Tests
<1>7. BrokerTypeOK'
  BY <1>1, <1>3, <1>4, <1>5 DEF BrokerTypeOK, ClientsTypeOK, registry
<1>8. ToolsGuarded'
  BY <1>3 DEF BrokerInv, ToolsGuarded, registry
<1>9. OpsWait'
  BY <1>3, <1>4 DEF BrokerInv, OpsWait
<1>10. Overtaken'
  <2>1. \A u \in Tasks : Connects(u)' =>
          Connects(u) /\ op'[u] = op[u] /\ wait'[u].on = wait[u].on
    BY <1>3, <1>4, <1>6
  <2>2. UNCHANGED <<mcpClients, lost>>
    OBVIOUS
  <2> QED BY <2>1, <2>2 DEF BrokerInv, Overtaken
<1>11. Owned'
  BY <1>4, <1>5, <1>6 DEF BrokerInv, Owned
<1> QED BY <1>5, <1>7, <1>8, <1>9, <1>10, <1>11 DEF BrokerInv

(* What is collected nobody refers to.                                     *)
LEMMA BrokerCollectKeeps ==
  ASSUME BrokerInv, NEW c \in Clients, BrokerCollect(c)
  PROVE  BrokerInv'
<1>1. BrokerTypeOK /\ ClientsTypeOK /\ Attached
  BY DEF BrokerInv, BrokerTypeOK
<1>2. /\ \A s \in Servers : mcpClients[s] # c
      /\ \A t \in Tasks : wait[t].on # c
      /\ client' = [client EXCEPT ![c] = Unused] /\ lost' = [lost EXCEPT ![c] = {}]
      /\ UNCHANGED <<wait, registry, mcpClients, op>>
  BY DEF BrokerCollect, Collect, Garbage
<1>3. /\ client' \in [Clients -> Client] /\ Attached'
      /\ \A d \in Clients : Running(d)' => Running(d) /\ d # c
  BY <1>1, <1>2, ClientShapes DEF ClientsTypeOK, Attached, Running, Unused
<1>4. /\ lost' \in [Clients -> SUBSET {"failed", "raced"}]
      /\ \A d \in Clients \ {c} : lost'[d] = lost[d]
  BY <1>1, <1>2 DEF BrokerTypeOK
<1>5. BrokerTypeOK'
  BY <1>1, <1>2, <1>3, <1>4 DEF BrokerTypeOK, ClientsTypeOK, registry
<1>6. ToolsGuarded' /\ OpsWait'
  BY <1>2 DEF BrokerInv, ToolsGuarded, OpsWait, registry
<1>7. \A u \in Tasks : (Connects(u)' <=> Connects(u)) /\ (Tests(u)' <=> Tests(u))
  BY <1>2 DEF Connects, Tests
<1>8. \A u \in Tasks : Connects(u) => wait[u].on \in Clients
  BY DEF BrokerInv, OpsWait, Connects
<1>9. Overtaken'
  BY <1>2, <1>4, <1>7, <1>8 DEF BrokerInv, Overtaken
<1>10. Owned'
  BY <1>2, <1>3, <1>4, <1>7 DEF BrokerInv, Owned
<1> QED BY <1>3, <1>5, <1>6, <1>9, <1>10 DEF BrokerInv

(* Every step of the broker keeps the invariant.                           *)
LEMMA BrokerNextKeeps ==
  ASSUME BrokerInv, BrokerNext
  PROVE  BrokerInv'
<1>1. ASSUME Environment, UNCHANGED <<registry, mcpClients, op, lost>> PROVE BrokerInv'
  <2>1. BrokerTypeOK /\ ClientsTypeOK /\ Attached
    BY DEF BrokerInv, BrokerTypeOK
  <2>2. /\ ClientsTypeOK' /\ Attached'
        /\ \A c \in Clients : Running(c)' => Running(c)
        /\ \A t \in Tasks : wait'[t].on = wait[t].on /\ (wait[t] = Idle => wait'[t] = Idle)
    BY <1>1, <2>1, EnvironmentKeeps
  <2>3. OpsWait'
    BY <1>1, <2>2 DEF BrokerInv, OpsWait
  <2>4. \A u \in Tasks : (Connects(u)' <=> Connects(u)) /\ (Tests(u)' <=> Tests(u))
    BY <1>1 DEF Connects, Tests
  <2>5. \A u \in Tasks :
          op'[u].does = "call" /\ op'[u].name \in SensitiveNames => op'[u].trusted
    BY <1>1 DEF BrokerInv, ToolsGuarded
  <2>6. client' \in [Clients -> Client] /\ wait' \in [Tasks -> Await]
        /\ op' \in [Tasks -> Operation] /\ lost' \in [Clients -> SUBSET {"failed", "raced"}]
    BY <1>1, <2>1, <2>2 DEF ClientsTypeOK, BrokerTypeOK
  <2> QED BY <1>1, <2>2, <2>3, <2>4, <2>5, <2>6, BrokerStep
<1>2. ASSUME NEW t \in Tasks, Continue(t) PROVE BrokerInv'
  BY <1>2, BrokerConnectedKeeps, BrokerListedKeeps, BrokerEndsKeeps DEF Continue
<1> QED
  BY <1>1, <1>2, BrokerConnectKeeps, BrokerTestKeeps, ExecuteKeeps, BrokerDisconnectKeeps,
     BrokerCollectKeeps DEF BrokerNext

-----------------------------------------------------------------------------
(* The server manager.                                                     *)

Opening(t) == job[t].does \in {"connect", "list"}

(* A task that is free waits for nothing; one that connects has a client.  *)
JobsWait ==
    /\ \A t \in Tasks : job[t] = Free => wait[t] = Idle
    /\ \A t \in Tasks : Opening(t) => job[t].server \in Servers /\ wait[t].on \in Clients
    /\ \A t \in Tasks : job[t].does = "health" => Len(job[t].queue) > 0

(* A connect under way whose server has a client again overlapped with the *)
(* connect that client comes from; so did two that are under way.          *)
Overlapping ==
    /\ \A t \in Tasks : Opening(t) /\ mclients[job[t].server] \in Clients =>
         mclients[job[t].server] \in overlapped
    /\ \A t, u \in Tasks :
         t # u /\ Opening(t) /\ Opening(u) /\ job[t].server = job[u].server =>
           wait[t].on \in overlapped

(* A health check borrows clients; a server and a connect own one.         *)
Kept == \A c \in Clients : Running(c) =>
    \/ c \in overlapped
    \/ \E s \in Servers : mclients[s] = c
    \/ \E t \in Tasks : wait[t].on = c /\ Opening(t)

ManagerInv == ManagerTypeOK /\ Attached /\ JobsWait /\ Overlapping /\ Kept

(* A task that is free does nothing.                                       *)
LEMMA FreeIsJob == Free \in Job /\ Free.does = "idle"
<1>1. <<>> \in Seq(Servers)
  OBVIOUS
<1>2. 0 \in 0..MAX_RECONNECT
  BY McpServerManagerAssumption
<1> QED BY <1>1, <1>2 DEF Free, Job

(* The first attempt of connect() and of reconnect(): now is what the code *)
(* of the step has set before, which touches no connect under way.         *)
LEMMA OpenKeeps ==
  ASSUME ManagerInv, NEW now, NEW t \in Tasks, NEW s \in Servers, NEW attempt \in 0..MAX_RECONNECT,
         now.job \in [Tasks -> Job], now.wait \in [Tasks -> Await],
         now.status \in [Servers -> Statuses], now.timers \subseteq Timer,
         \A u \in Tasks : now.job[u] = Free => now.wait[u] = Idle,
         \A u \in Tasks : now.job[u].does \in {"connect", "list"} =>
           now.job[u] = job[u] /\ now.wait[u] = wait[u],
         \A u \in Tasks : Opening(u) => now.job[u] = job[u] /\ now.wait[u] = wait[u],
         \A u \in Tasks : now.job[u].does = "health" => Len(now.job[u].queue) > 0,
         UNCHANGED started, Open(now, t, s, attempt)
  PROVE  ManagerInv'
<1> DEFINE S == IF mclients[s] = NoClient THEN {} ELSE {s}
           W == Stdio(ClientsOf(S))
           new == [does |-> "connect", server |-> s, attempt |-> attempt, queue |-> <<>>]
<1>1. ManagerTypeOK /\ ClientsTypeOK /\ Attached
  BY DEF ManagerInv, ManagerTypeOK
<1> PICK c \in Clients :
      /\ Fresh(c) /\ now.job[t] = Free
      /\ client' = [Disconnect(ClientsOf(S)) EXCEPT ![c] = Created(Transport(s))]
      /\ wait' = [RejectPending(now.wait, W) EXCEPT ![t] = Ask(c)]
      /\ Drop(now, S)
      /\ job' = [now.job EXCEPT ![t] = new]
      /\ overlapped' = overlapped \cup Overlap(s, c)
  BY DEF Open
<1>2. W \in SUBSET (Clients \cup {NoClient}) /\ S \subseteq Servers
      /\ ClientsOf(S) \subseteq Clients
  BY DEF Stdio, ClientsOf
<1>3. mclients[s] \in Clients => mclients[s] \in ClientsOf(S)
  BY McpClientsAssumption DEF ClientsOf
<1>4. /\ client' \in [Clients -> Client] /\ Attached'
      /\ \A d \in Clients \ {c} : Running(d)' => Running(d) /\ d \notin ClientsOf(S)
  <2>1. /\ Disconnect(ClientsOf(S)) \in [Clients -> Client]
        /\ \A d \in Clients : Disconnect(ClientsOf(S))[d].proc = "alive" =>
             /\ d \notin ClientsOf(S) /\ client[d].proc = "alive"
             /\ Disconnect(ClientsOf(S))[d] = client[d]
    BY <1>1, DisconnectKeeps
  <2>2. Created(Transport(s)) \in Client
        /\ (Created(Transport(s)).proc = "alive" => Created(Transport(s)).attached)
    BY ClientShapes
  <2> HIDE DEF S
  <2>3. /\ client' \in [Clients -> Client]
        /\ client'[c] = Created(Transport(s))
        /\ \A d \in Clients \ {c} : client'[d] = Disconnect(ClientsOf(S))[d]
    BY <2>1, <2>2
  <2> QED BY <2>1, <2>2, <2>3, <1>1 DEF Attached, Running
<1> HIDE DEF W
<1>5. /\ RejectPending(now.wait, W) \in [Tasks -> Await]
      /\ \A u \in Tasks : /\ RejectPending(now.wait, W)[u].on = now.wait[u].on
                          /\ now.wait[u].got # "waiting" => RejectPending(now.wait, W)[u] = now.wait[u]
  BY <1>2, RejectKeeps
<1>6. /\ wait' \in [Tasks -> Await] /\ wait'[t].on = c
      /\ \A u \in Tasks \ {t} : /\ wait'[u].on = now.wait[u].on
                                /\ now.wait[u] = Idle => wait'[u] = Idle
  <2>1. Idle.got # "waiting" /\ Ask(c) \in Await /\ Ask(c).on = c
    BY DEF Idle, Ask, Await
  <2> QED BY <2>1, <1>5
<1>7. new \in Job /\ new.does = "connect" /\ new.server = s
  BY DEF Job
<1> HIDE DEF new
<1>8. /\ job' \in [Tasks -> Job] /\ job'[t] = new
      /\ \A u \in Tasks \ {t} : job'[u] = now.job[u]
  BY <1>7
<1>9. /\ mclients' \in [Servers -> Clients \cup {NoClient}]
      /\ mclients'[s] = NoClient
      /\ \A r \in Servers \ {s} : mclients'[r] = mclients[r]
      /\ configs' \subseteq Servers /\ timers' \subseteq Timer
      /\ status' \in [Servers -> Statuses]
  BY <1>1 DEF Drop, Set, Cancelled, ManagerTypeOK, Statuses
<1>10. /\ overlapped \subseteq overlapped' /\ overlapped' \subseteq Clients
       /\ \A u \in Tasks : Opening(u) /\ job[u].server = s =>
            c \in overlapped' /\ wait[u].on \in overlapped'
  <2>1. \A u \in Tasks : Opening(u) => wait[u].on \in Clients
    BY DEF ManagerInv, JobsWait
  <2>2. Connecting(s) = {u \in Tasks : Opening(u) /\ job[u].server = s}
    BY DEF Connecting, Opening
  <2> QED BY <2>1, <2>2, <1>1 DEF Overlap, ManagerTypeOK
<1>11. ASSUME NEW u \in Tasks \ {t}, Opening(u)'
       PROVE  Opening(u) /\ job'[u] = job[u] /\ wait'[u].on = wait[u].on
  <2>1. now.job[u].does \in {"connect", "list"}
    BY <1>8, <1>11 DEF Opening
  <2> QED BY <2>1, <1>6, <1>8 DEF Opening
<1>12. Opening(t)' /\ job'[t].server = s /\ ~Opening(t)
  <2>1. Free.does = "idle"
    BY DEF Free
  <2>2. ~Opening(t)
    BY <2>1 DEF Opening
  <2> QED BY <2>2, <1>7, <1>8 DEF Opening
<1>13. ManagerTypeOK'
  BY <1>1, <1>4, <1>6, <1>8, <1>9, <1>10 DEF ManagerTypeOK, ClientsTypeOK
<1>14. JobsWait'
  <2>1. job'[t] # Free
    BY <1>7, <1>8 DEF Free
  <2>2. \A u \in Tasks : job'[u] = Free => wait'[u] = Idle
    BY <2>1, <1>6, <1>8
  <2>3. \A u \in Tasks : Opening(u)' => job'[u].server \in Servers /\ wait'[u].on \in Clients
    BY <1>6, <1>11, <1>12 DEF ManagerInv, JobsWait
  <2>4. \A u \in Tasks : job'[u].does = "health" => Len(job'[u].queue) > 0
    BY <1>7, <1>8
  <2> QED BY <2>2, <2>3, <2>4 DEF JobsWait
<1>15. Overlapping'
  <2>1. ASSUME NEW u \in Tasks, Opening(u)', mclients'[job'[u].server] \in Clients
        PROVE  mclients'[job'[u].server] \in overlapped'
    <3>1. u # t
      BY <2>1, <1>9, <1>12, McpClientsAssumption
    <3>2. Opening(u) /\ job'[u] = job[u] /\ job[u].server \in Servers \ {s}
      BY <2>1, <3>1, <1>9, <1>11, McpClientsAssumption DEF ManagerInv, JobsWait
    <3> QED BY <2>1, <3>2, <1>9, <1>10 DEF ManagerInv, Overlapping
  <2>2. ASSUME NEW u \in Tasks, NEW v \in Tasks, u # v, Opening(u)', Opening(v)',
               job'[u].server = job'[v].server
        PROVE  wait'[u].on \in overlapped'
    <3>1. CASE u = t
      <4>1. Opening(v) /\ job[v].server = s
        BY <2>2, <3>1, <1>11, <1>12
      <4> QED BY <3>1, <4>1, <1>6, <1>10
    <3>2. CASE v = t
      <4>1. Opening(u) /\ job[u].server = s /\ wait'[u].on = wait[u].on
        BY <2>2, <3>2, <1>11, <1>12
      <4> QED BY <4>1, <1>10
    <3>3. CASE u # t /\ v # t
      <4>1. /\ Opening(u) /\ Opening(v) /\ job[u].server = job[v].server
            /\ wait'[u].on = wait[u].on
        BY <2>2, <3>3, <1>11
      <4> QED BY <2>2, <4>1, <1>10 DEF ManagerInv, Overlapping
    <3> QED BY <3>1, <3>2, <3>3
  <2> QED BY <2>1, <2>2 DEF Overlapping
<1>16. Kept'
  <2>1. ASSUME NEW d \in Clients, Running(d)'
        PROVE  \/ d \in overlapped'
               \/ \E r \in Servers : mclients'[r] = d
               \/ \E u \in Tasks : wait'[u].on = d /\ Opening(u)'
    <3>1. CASE d = c
      BY <3>1, <1>6, <1>12
    <3>2. CASE d # c
      <4>1. Running(d) /\ d \notin ClientsOf(S)
        BY <2>1, <3>2, <1>4
      <4>2. CASE \E r \in Servers : mclients[r] = d
        BY <4>1, <4>2, <1>3, <1>9
      <4>3. CASE \E u \in Tasks : wait[u].on = d /\ Opening(u)
        <5>1. PICK u \in Tasks : wait[u].on = d /\ Opening(u)
          BY <4>3
        <5>2. u # t /\ now.job[u] = job[u] /\ now.wait[u] = wait[u]
          BY <5>1, <1>12
        <5> QED BY <5>1, <5>2, <1>6, <1>8 DEF Opening
      <4> QED BY <4>1, <4>2, <4>3, <1>10 DEF ManagerInv, Kept
    <3> QED BY <3>1, <3>2
  <2> QED BY <2>1 DEF Kept
<1> QED BY <1>4, <1>13, <1>14, <1>15, <1>16 DEF ManagerInv


(* A step in which no connect begins, no process starts, and a server lets *)
(* go only of a client that runs no more, keeps the invariant.             *)
LEMMA ManagerStep ==
  ASSUME ManagerInv, ManagerTypeOK', Attached', JobsWait', overlapped' = overlapped,
         \A c \in Clients : Running(c)' => Running(c),
         \A s \in Servers : mclients'[s] = mclients[s] \/
           (mclients'[s] = NoClient /\ client'[mclients[s]].proc # "alive"),
         \A u \in Tasks : Opening(u)' =>
           Opening(u) /\ job'[u].server = job[u].server /\ wait'[u].on = wait[u].on,
         \A u \in Tasks : Opening(u) =>
           (Opening(u)' /\ wait'[u].on = wait[u].on) \/ client'[wait[u].on].proc # "alive"
  PROVE  ManagerInv'
<1>1. ASSUME NEW u \in Tasks, Opening(u)', mclients'[job'[u].server] \in Clients
      PROVE  mclients'[job'[u].server] \in overlapped'
  <2>1. Opening(u) /\ job'[u].server = job[u].server /\ job[u].server \in Servers
    BY <1>1 DEF ManagerInv, JobsWait
  <2>2. mclients'[job[u].server] = mclients[job[u].server]
    BY <1>1, <2>1, McpClientsAssumption
  <2> QED BY <1>1, <2>1, <2>2 DEF ManagerInv, Overlapping
<1>2. ASSUME NEW u \in Tasks, NEW v \in Tasks, u # v, Opening(u)', Opening(v)',
             job'[u].server = job'[v].server
      PROVE  wait'[u].on \in overlapped'
  BY <1>2 DEF ManagerInv, Overlapping
<1>3. ASSUME NEW d \in Clients, Running(d)'
      PROVE  \/ d \in overlapped'
             \/ \E r \in Servers : mclients'[r] = d
             \/ \E u \in Tasks : wait'[u].on = d /\ Opening(u)'
  <2>1. Running(d) /\ client'[d].proc = "alive"
    BY <1>3 DEF Running
  <2>2. CASE \E r \in Servers : mclients[r] = d
    BY <2>1, <2>2
  <2>3. CASE \E u \in Tasks : wait[u].on = d /\ Opening(u)
    <3>1. PICK u \in Tasks : wait[u].on = d /\ Opening(u)
      BY <2>3
    <3>2. (Opening(u)' /\ wait'[u].on = wait[u].on) \/ client'[wait[u].on].proc # "alive"
      BY <3>1
    <3> QED BY <2>1, <3>1, <3>2
  <2> QED BY <2>1, <2>2, <2>3 DEF ManagerInv, Kept
<1> QED BY <1>1, <1>2, <1>3 DEF ManagerInv, Overlapping, Kept

(* The continuation of a connect whose initialize was answered.            *)
LEMMA ConnectedKeeps ==
  ASSUME ManagerInv, NEW t \in Tasks, Connected(t)
  PROVE  ManagerInv'
<1>1. ManagerTypeOK /\ ClientsTypeOK /\ Attached
  BY DEF ManagerInv, ManagerTypeOK
<1>2. /\ job[t].does = "connect" /\ job' = [job EXCEPT ![t].does = "list"]
      /\ client' = Initialized(wait[t].on)
      /\ wait' = [wait EXCEPT ![t] = Refused(@.on)] \/ wait' = [wait EXCEPT ![t] = Ask(@.on)]
      /\ UNCHANGED <<tracking, started, overlapped>>
  BY DEF Connected
<1>3. Opening(t) /\ wait[t].on \in Clients
  BY <1>2 DEF Opening, ManagerInv, JobsWait
<1>4. /\ client' \in [Clients -> Client] /\ Attached'
      /\ \A c \in Clients : Running(c)' => Running(c)
  BY <1>1, <1>2, InitializedKeeps
<1>5. /\ wait' \in [Tasks -> Await]
      /\ \A u \in Tasks : wait'[u].on = wait[u].on /\ (u # t => wait'[u] = wait[u])
  BY <1>1, <1>2, <1>3 DEF ClientsTypeOK, Await, Refused, Ask
<1>6. /\ job' \in [Tasks -> Job] /\ job'[t].does = "list" /\ job'[t].server = job[t].server
      /\ \A u \in Tasks \ {t} : job'[u] = job[u]
  BY <1>1, <1>2 DEF ManagerTypeOK, Job
<1>7. \A u \in Tasks : Opening(u)' <=> Opening(u)
  BY <1>3, <1>6 DEF Opening
<1>8. ManagerTypeOK'
  BY <1>1, <1>2, <1>4, <1>5, <1>6 DEF ManagerTypeOK, ClientsTypeOK, tracking
<1>9. JobsWait'
  <2>1. job'[t] # Free
    BY <1>6 DEF Free
  <2> QED BY <2>1, <1>3, <1>5, <1>6, <1>7 DEF ManagerInv, JobsWait
<1>10. \A u \in Tasks : Opening(u)' =>
         Opening(u) /\ job'[u].server = job[u].server /\ wait'[u].on = wait[u].on
  BY <1>5, <1>6, <1>7
<1> QED BY <1>2, <1>4, <1>5, <1>7, <1>8, <1>9, <1>10, ManagerStep DEF tracking

(* A connect that fails closes its client, and a retry is scheduled.       *)
LEMMA ConnectFailsKeeps ==
  ASSUME ManagerInv, NEW t \in Tasks, ConnectFails(t)
  PROVE  ManagerInv'
<1> DEFINE s == job[t].server
<1>1. ManagerTypeOK /\ ClientsTypeOK /\ Attached
  BY DEF ManagerInv, ManagerTypeOK
<1>2. /\ job[t].does \in {"connect", "list"} /\ job' = [job EXCEPT ![t] = Free]
      /\ client' = Disconnect({wait[t].on}) /\ wait' = [wait EXCEPT ![t] = Idle]
      /\ status' = [status EXCEPT ![s] = "error"]
      /\ UNCHANGED <<mclients, configs, started, overlapped>>
  BY DEF ConnectFails
<1>3. Opening(t) /\ wait[t].on \in Clients /\ s \in Servers
  BY <1>2 DEF Opening, ManagerInv, JobsWait
<1>4. /\ client' \in [Clients -> Client]
      /\ \A d \in Clients : client'[d].proc = "alive" =>
           d \notin {wait[t].on} /\ client[d].proc = "alive" /\ client'[d] = client[d]
  BY <1>1, <1>2, DisconnectKeeps
<1>5. /\ Attached' /\ client'[wait[t].on].proc # "alive"
      /\ \A d \in Clients : Running(d)' => Running(d)
  BY <1>1, <1>3, <1>4 DEF Attached, Running
<1>6. wait' \in [Tasks -> Await] /\ wait'[t] = Idle
      /\ \A u \in Tasks \ {t} : wait'[u] = wait[u]
  BY <1>1, <1>2, ClientShapes DEF ClientsTypeOK
<1>7. Free \in Job /\ Free.does = "idle"
  BY FreeIsJob
<1>8. /\ job' \in [Tasks -> Job] /\ job'[t] = Free
      /\ \A u \in Tasks \ {t} : job'[u] = job[u]
  BY <1>1, <1>2, <1>7 DEF ManagerTypeOK
<1>9. timers' \subseteq Timer
  <2>1. timers \subseteq Timer /\ job[t].attempt \in 0..MAX_RECONNECT
    BY <1>1 DEF ManagerTypeOK, Job
  <2>2. CASE job[t].attempt = 0
    BY <2>1, <2>2 DEF ConnectFails
  <2>3. CASE job[t].attempt # 0
    <3>1. timers' = {[x EXCEPT !.tracked = @ /\ x.server # s] : x \in timers} \cup
                    {[server |-> s, attempt |-> job[t].attempt + 1, tracked |-> TRUE]}
      BY <2>3 DEF ConnectFails
    <3>2. job[t].attempt + 1 \in 2..(MAX_RECONNECT + 1)
      BY <2>1, <2>3, McpServerManagerAssumption
    <3>3. [server |-> s, attempt |-> job[t].attempt + 1, tracked |-> TRUE] \in Timer
      BY <1>3, <3>2 DEF Timer
    <3>4. ASSUME NEW x \in timers
          PROVE  [x EXCEPT !.tracked = @ /\ x.server # s] \in Timer
      <4>1. x \in Timer
        BY <2>1
      <4> DEFINE b == x.tracked /\ x.server # s
      <4>2. b \in BOOLEAN
        OBVIOUS
      <4>3. [x EXCEPT !.tracked = @ /\ x.server # s] = [x EXCEPT !.tracked = b]
        BY Zenon
      <4> HIDE DEF b
      <4>4. [x EXCEPT !.tracked = b] \in Timer
        BY <4>1, <4>2 DEF Timer
      <4> QED BY <4>3, <4>4
    <3> QED BY <3>1, <3>3, <3>4
  <2> QED BY <2>2, <2>3
<1>10. \A u \in Tasks : Opening(u)' <=> Opening(u) /\ u # t
  BY <1>7, <1>8 DEF Opening
<1>11. status' \in [Servers -> Statuses]
  BY <1>1, <1>2 DEF ManagerTypeOK, Statuses
<1>12. ManagerTypeOK'
  BY <1>1, <1>2, <1>4, <1>6, <1>8, <1>9, <1>11 DEF ManagerTypeOK, ClientsTypeOK
<1>13. JobsWait'
  BY <1>6, <1>7, <1>8, <1>10 DEF ManagerInv, JobsWait
<1>14. \A u \in Tasks : Opening(u)' =>
         Opening(u) /\ job'[u].server = job[u].server /\ wait'[u].on = wait[u].on
  BY <1>6, <1>8, <1>10
<1>15. \A u \in Tasks : Opening(u) =>
         (Opening(u)' /\ wait'[u].on = wait[u].on) \/ client'[wait[u].on].proc # "alive"
  BY <1>5, <1>6, <1>10
<1> QED BY <1>2, <1>5, <1>12, <1>13, <1>14, <1>15, ManagerStep

(* The server gets the client; the one it may have had overlapped.         *)
LEMMA ListedKeeps ==
  ASSUME ManagerInv, NEW t \in Tasks, Listed(t)
  PROVE  ManagerInv'
<1> DEFINE s == job[t].server
           c == wait[t].on
<1>1. ManagerTypeOK /\ ClientsTypeOK /\ Attached
  BY DEF ManagerInv, ManagerTypeOK
<1>2. Opening(t) /\ c \in Clients /\ s \in Servers
  BY DEF Listed, Opening, ManagerInv, JobsWait
<1>3. /\ mclients' \in [Servers -> Clients \cup {NoClient}] /\ mclients'[s] = c
      /\ \A r \in Servers \ {s} : mclients'[r] = mclients[r]
  BY <1>1, <1>2 DEF ManagerTypeOK, Listed
<1>4. wait' \in [Tasks -> Await] /\ wait'[t] = Idle
      /\ \A u \in Tasks \ {t} : wait'[u] = wait[u]
  BY <1>1, ClientShapes DEF ClientsTypeOK, Listed
<1>5. Free \in Job /\ Free.does = "idle"
  BY FreeIsJob
<1>6. /\ job' \in [Tasks -> Job] /\ job'[t] = Free
      /\ \A u \in Tasks \ {t} : job'[u] = job[u]
  BY <1>1, <1>5 DEF ManagerTypeOK, Listed
<1>7. \A u \in Tasks : Opening(u)' <=> Opening(u) /\ u # t
  BY <1>5, <1>6 DEF Opening
<1>8. UNCHANGED <<client, timers, started, overlapped>>
  BY DEF Listed
<1>9. configs' \subseteq Servers /\ status' \in [Servers -> Statuses]
  BY <1>1, <1>2 DEF Listed, ManagerTypeOK, Statuses
<1>10. ManagerTypeOK' /\ Attached'
  BY <1>1, <1>3, <1>4, <1>6, <1>8, <1>9 DEF ManagerTypeOK, ClientsTypeOK, Attached, Running
<1>11. JobsWait'
  BY <1>4, <1>5, <1>6, <1>7 DEF ManagerInv, JobsWait
<1>12. \A u \in Tasks : u # t /\ Opening(u) /\ job[u].server = s => c \in overlapped
  BY <1>2 DEF ManagerInv, Overlapping
<1>13. Overlapping'
  <2>1. ASSUME NEW u \in Tasks, Opening(u)', mclients'[job'[u].server] \in Clients
        PROVE  mclients'[job'[u].server] \in overlapped'
    <3>1. u # t /\ Opening(u) /\ job'[u] = job[u] /\ job[u].server \in Servers
      BY <2>1, <1>6, <1>7 DEF ManagerInv, JobsWait
    <3>2. CASE job[u].server = s
      BY <3>1, <3>2, <1>3, <1>8, <1>12
    <3>3. CASE job[u].server # s
      BY <2>1, <3>1, <3>3, <1>3, <1>8 DEF ManagerInv, Overlapping
    <3> QED BY <3>2, <3>3
  <2>2. ASSUME NEW u \in Tasks, NEW v \in Tasks, u # v, Opening(u)', Opening(v)',
               job'[u].server = job'[v].server
        PROVE  wait'[u].on \in overlapped'
    <3>1. /\ Opening(u) /\ Opening(v) /\ job[u].server = job[v].server
          /\ wait'[u].on = wait[u].on
      BY <2>2, <1>4, <1>6, <1>7
    <3> QED BY <2>2, <3>1, <1>8 DEF ManagerInv, Overlapping
  <2> QED BY <2>1, <2>2 DEF Overlapping
<1>14. Kept'
  <2>1. ASSUME NEW d \in Clients, Running(d)'
        PROVE  \/ d \in overlapped'
               \/ \E r \in Servers : mclients'[r] = d
               \/ \E u \in Tasks : wait'[u].on = d /\ Opening(u)'
    <3>1. Running(d)
      BY <2>1, <1>8 DEF Running
    <3>2. CASE d = c
      BY <3>2, <1>2, <1>3
    <3>3. CASE \E r \in Servers : mclients[r] = d
      BY <3>3, <1>2, <1>3, <1>8 DEF ManagerInv, Overlapping
    <3>4. CASE d # c /\ \E u \in Tasks : wait[u].on = d /\ Opening(u)
      BY <3>4, <1>4, <1>7
    <3> QED BY <3>1, <3>2, <3>3, <3>4, <1>8 DEF ManagerInv, Kept
  <2> QED BY <2>1 DEF Kept
<1> QED BY <1>10, <1>11, <1>13, <1>14 DEF ManagerInv


(* disconnect() and stop() close the clients of the servers they drop.     *)
LEMMA DropKeeps ==
  ASSUME ManagerInv, NEW S \in SUBSET Servers, NEW now,
         now.status = status, now.timers \subseteq timers, Drop(now, S),
         client' = Disconnect(ClientsOf(S)),
         wait' = RejectPending(wait, Stdio(ClientsOf(S))),
         started' \in BOOLEAN, UNCHANGED <<job, overlapped>>
  PROVE  ManagerInv'
<1> DEFINE W == Stdio(ClientsOf(S))
<1>1. ManagerTypeOK /\ ClientsTypeOK /\ Attached
  BY DEF ManagerInv, ManagerTypeOK
<1>2. /\ client' \in [Clients -> Client]
      /\ \A d \in Clients : client'[d].proc = "alive" =>
           d \notin ClientsOf(S) /\ client[d].proc = "alive" /\ client'[d] = client[d]
  BY <1>1, DisconnectKeeps
<1>3. Attached' /\ \A d \in Clients : Running(d)' => Running(d)
  BY <1>1, <1>2 DEF Attached, Running
<1>4. W \in SUBSET (Clients \cup {NoClient}) /\ wait' = RejectPending(wait, W)
  BY DEF Stdio, ClientsOf
<1> HIDE DEF W
<1>5. /\ wait' \in [Tasks -> Await]
      /\ \A u \in Tasks : wait'[u].on = wait[u].on /\ (wait[u] = Idle => wait'[u] = Idle)
  <2>1. Idle.got # "waiting"
    BY DEF Idle
  <2> QED BY <1>1, <1>4, <2>1, RejectKeeps DEF ClientsTypeOK
<1>6. /\ mclients' \in [Servers -> Clients \cup {NoClient}]
      /\ \A s \in Servers : mclients'[s] = IF s \in S THEN NoClient ELSE mclients[s]
      /\ configs' \subseteq Servers /\ timers' \subseteq Timer
      /\ status' \in [Servers -> Statuses]
  BY <1>1 DEF Drop, Set, Cancelled, ManagerTypeOK, Statuses
<1>7. \A s \in Servers : mclients'[s] = mclients[s] \/
        (mclients'[s] = NoClient /\ client'[mclients[s]].proc # "alive")
  <2>1. ASSUME NEW s \in S, mclients[s] # NoClient PROVE client'[mclients[s]].proc # "alive"
    <3>1. mclients[s] \in ClientsOf(S) /\ mclients[s] \in Clients
      BY <2>1, <1>1 DEF ClientsOf, ManagerTypeOK
    <3> QED BY <3>1, <1>2
  <2> QED BY <2>1, <1>6
<1>8. ManagerTypeOK'
  BY <1>1, <1>2, <1>5, <1>6 DEF ManagerTypeOK, ClientsTypeOK
<1>9. \A u \in Tasks : Opening(u)' <=> Opening(u)
  BY DEF Opening
<1>10. JobsWait'
  BY <1>5, <1>9 DEF ManagerInv, JobsWait
<1> QED BY <1>3, <1>5, <1>7, <1>8, <1>9, <1>10, ManagerStep

(* What the environment and start() do to the manager.                     *)
LEMMA ManagerEnvironmentKeeps ==
  ASSUME ManagerInv,
         \/ Environment /\ UNCHANGED <<tracking, started, job, overlapped>>
         \/ StartManager
  PROVE  ManagerInv'
<1>1. ManagerTypeOK /\ ClientsTypeOK /\ Attached
  BY DEF ManagerInv, ManagerTypeOK
<1>2. /\ ClientsTypeOK' /\ Attached'
      /\ \A c \in Clients : Running(c)' => Running(c)
      /\ \A t \in Tasks : wait'[t].on = wait[t].on /\ (wait[t] = Idle => wait'[t] = Idle)
  <2>1. CASE Environment
    BY <1>1, <2>1, EnvironmentKeeps
  <2>2. CASE StartManager
    BY <1>1, <2>2 DEF StartManager, connections, ClientsTypeOK, Attached, Running
  <2> QED BY <2>1, <2>2
<1>3. UNCHANGED <<tracking, job, overlapped>> /\ started' \in BOOLEAN
  BY <1>1 DEF StartManager, ManagerTypeOK
<1>4. \A u \in Tasks : Opening(u)' <=> Opening(u)
  BY <1>3 DEF Opening
<1>5. ManagerTypeOK'
  BY <1>1, <1>2, <1>3 DEF ManagerTypeOK, tracking
<1>6. JobsWait'
  BY <1>2, <1>3, <1>4 DEF ManagerInv, JobsWait
<1> QED BY <1>2, <1>3, <1>4, <1>5, <1>6, ManagerStep DEF tracking

(* What is collected nobody refers to.                                     *)
LEMMA CollectClientKeeps ==
  ASSUME ManagerInv, NEW c \in Clients, CollectClient(c)
  PROVE  ManagerInv'
<1>1. ManagerTypeOK /\ ClientsTypeOK /\ Attached
  BY DEF ManagerInv, ManagerTypeOK
<1>2. /\ \A s \in Servers : mclients[s] # c
      /\ \A t \in Tasks : wait[t].on # c
      /\ client' = [client EXCEPT ![c] = Unused] /\ overlapped' = overlapped \ {c}
      /\ UNCHANGED <<wait, tracking, started, job>>
  BY DEF CollectClient, Collect, Garbage
<1>3. /\ client' \in [Clients -> Client] /\ Attached'
      /\ \A d \in Clients : Running(d)' => Running(d) /\ d # c
  BY <1>1, <1>2, ClientShapes DEF ClientsTypeOK, Attached, Running, Unused
<1>4. ManagerTypeOK'
  BY <1>1, <1>2, <1>3 DEF ManagerTypeOK, ClientsTypeOK, tracking
<1>5. \A u \in Tasks : Opening(u)' <=> Opening(u)
  BY <1>2 DEF Opening
<1>6. JobsWait'
  BY <1>2, <1>5 DEF ManagerInv, JobsWait
<1>7. Overlapping'
  <2>1. \A u \in Tasks : Opening(u) => job[u].server \in Servers
    BY DEF ManagerInv, JobsWait
  <2> QED BY <1>2, <1>5, <2>1 DEF ManagerInv, Overlapping, tracking
<1>8. Kept'
  BY <1>2, <1>3, <1>5 DEF ManagerInv, Kept, tracking
<1> QED BY <1>3, <1>4, <1>6, <1>7, <1>8 DEF ManagerInv

(* A step of a health check, and a reconnect that is given up: a task      *)
(* changes what it waits for, and no connect is touched.                   *)
LEMMA HealthStep ==
  ASSUME ManagerInv, NEW t \in Tasks, UNCHANGED <<client, mclients, configs, started, overlapped>>,
         status' \in [Servers -> Statuses], timers' \subseteq Timer,
         wait' \in [Tasks -> Await], job' \in [Tasks -> Job], ~Opening(t), ~Opening(t)',
         \A u \in Tasks \ {t} : job'[u] = job[u] /\ wait'[u] = wait[u],
         job'[t] = Free => wait'[t] = Idle, job'[t].does = "health" => Len(job'[t].queue) > 0
  PROVE  ManagerInv'
<1>1. ManagerTypeOK' /\ Attached'
  BY DEF ManagerInv, ManagerTypeOK, ClientsTypeOK, Attached, Running
<1>2. \A u \in Tasks : (Opening(u)' <=> Opening(u)) /\ (Opening(u) => u # t)
  BY DEF Opening
<1>3. JobsWait'
  BY <1>2 DEF ManagerInv, JobsWait
<1>4. \A c \in Clients : Running(c)' => Running(c)
  BY DEF Running
<1> QED BY <1>1, <1>2, <1>3, <1>4, ManagerStep

(* A probe of a server waits for the client it has.                        *)
LEMMA ProbeIsAwait ==
  ASSUME ManagerTypeOK, NEW s \in Servers
  PROVE  Probe(s) \in Await
BY DEF Probe, Request, Ask, Refused, Await, ManagerTypeOK

(* What a health check goes on with.                                       *)
LEMMA NextKeeps ==
  ASSUME ManagerInv, NEW t \in Tasks, job[t].does = "health"
  PROVE  /\ Head(job[t].queue) \in Servers
         /\ NextJob(t) \in Job /\ NextWait(t) \in Await
         /\ NextJob(t).does \in {"idle", "health"}
         /\ NextJob(t) = Free => NextWait(t) = Idle
         /\ NextJob(t).does = "health" => Len(NextJob(t).queue) > 0
<1> DEFINE q == job[t].queue
<1>1. ManagerTypeOK /\ job[t] \in Job /\ q \in Seq(Servers) /\ Len(q) > 0
  BY DEF ManagerInv, ManagerTypeOK, JobsWait, Job
<1>2. Head(q) \in Servers /\ Len(q) \in Nat
  BY <1>1
<1>3. CASE Len(q) = 1
  BY <1>2, <1>3, FreeIsJob, ClientShapes DEF NextJob, NextWait
<1>4. CASE Len(q) # 1
  <2>1. q[2] \in Servers /\ Tail(q) \in Seq(Servers) /\ Len(Tail(q)) > 0
    <3>1. q \in Seq(Servers) /\ Len(q) \in Nat /\ Len(q) > 1
      <4>1. q \in Seq(Servers) /\ Len(q) > 0 /\ Len(q) # 1 /\ Len(q) \in Nat
        BY <1>1, <1>2, <1>4
      <4> HIDE DEF q
      <4> QED BY ONLY <4>1
    <3> HIDE DEF q
    <3> QED BY ONLY <3>1
  <2>2. NextJob(t) = [job[t] EXCEPT !.queue = Tail(q)] /\ NextWait(t) = Probe(q[2])
    BY <1>4 DEF NextJob, NextWait
  <2> DEFINE tail == Tail(q)
  <2>3. tail \in Seq(Servers) /\ Len(tail) > 0
    BY <2>1
  <2> HIDE DEF tail
  <2>4. [job[t] EXCEPT !.queue = tail] \in Job /\ [job[t] EXCEPT !.queue = tail].does = "health"
        /\ [job[t] EXCEPT !.queue = tail].queue = tail
    BY <1>1, <2>3 DEF Job
  <2>5. NextJob(t) \in Job /\ NextJob(t).does = "health" /\ NextJob(t).queue = tail
    BY <2>2, <2>4 DEF tail
  <2>6. NextWait(t) \in Await
    BY <1>1, <2>1, <2>2, ProbeIsAwait
  <2> QED BY <1>2, <2>3, <2>5, <2>6, FreeIsJob
<1> QED BY <1>3, <1>4


(* A health check starts with the servers that have a client.              *)
LEMMA HealthStartKeeps ==
  ASSUME ManagerInv, NEW t \in Tasks, HealthStart(t)
  PROVE  ManagerInv'
<1> DEFINE S == {s \in Servers : mclients[s] # NoClient}
<1>1. ManagerTypeOK /\ ClientsTypeOK
  BY DEF ManagerInv, ManagerTypeOK
<1> PICK q \in SetToSeqs(S) \ {<<>>} :
      /\ job' = [job EXCEPT ![t] = [Free EXCEPT !.does = "health", !.queue = q]]
      /\ wait' = [wait EXCEPT ![t] = Probe(Head(q))]
  BY DEF HealthStart
<1>2. UNCHANGED <<client, tracking, started, overlapped>> /\ job[t] = Free
  BY DEF HealthStart
<1>3. q \in Seq(Servers) /\ Len(q) > 0
  <2>1. IsFiniteSet(S)
    BY McpServerManagerAssumption, FS_Subset
  <2>2. Cardinality(S) \in Nat
    BY <2>1, FS_CardinalityType
  <2>3. q \in [1..Cardinality(S) -> S]
    BY DEF SetToSeqs
  <2>4. q \in Seq(S)
    BY <2>2, <2>3, SeqDef
  <2>5. q \in Seq(Servers)
    <3>1. S \subseteq Servers
      OBVIOUS
    <3> HIDE DEF S
    <3> QED BY <2>4, <3>1
  <2> QED BY <2>5
<1>4. Head(q) \in Servers
  BY <1>3
<1> DEFINE new == [Free EXCEPT !.does = "health", !.queue = q]
<1>5. new \in Job /\ new.does = "health" /\ new.queue = q
  <2>1. q \in Seq(Servers) /\ 0 \in 0..MAX_RECONNECT
    BY <1>3, McpServerManagerAssumption
  <2> QED BY ONLY <2>1 DEF Free, Job
<1> HIDE DEF new
<1>6. job' = [job EXCEPT ![t] = new]
  BY DEF new
<1>7. /\ job' \in [Tasks -> Job] /\ job'[t] = new
      /\ \A u \in Tasks \ {t} : job'[u] = job[u]
  BY <1>1, <1>5, <1>6 DEF ManagerTypeOK
<1>8. /\ wait' \in [Tasks -> Await]
      /\ \A u \in Tasks \ {t} : wait'[u] = wait[u]
  <2>1. Probe(Head(q)) \in Await
    BY <1>1, <1>4, ProbeIsAwait
  <2> QED BY <1>1, <2>1 DEF ClientsTypeOK
<1>9. ~Opening(t) /\ ~Opening(t)' /\ job'[t] # Free
  BY <1>2, <1>5, <1>7, FreeIsJob DEF Opening
<1>10. status' \in [Servers -> Statuses] /\ timers' \subseteq Timer
  BY <1>1, <1>2 DEF ManagerTypeOK, tracking
<1> QED BY <1>2, <1>3, <1>5, <1>7, <1>8, <1>9, <1>10, HealthStep DEF tracking

(* An answer marks the server as connected and the check goes on.          *)
LEMMA HealthGoodKeeps ==
  ASSUME ManagerInv, NEW t \in Tasks, HealthGood(t)
  PROVE  ManagerInv'
<1>1. ManagerTypeOK /\ ClientsTypeOK
  BY DEF ManagerInv, ManagerTypeOK
<1>2. /\ job[t].does = "health"
      /\ job' = [job EXCEPT ![t] = NextJob(t)] /\ wait' = [wait EXCEPT ![t] = NextWait(t)]
      /\ UNCHANGED <<client, mclients, configs, timers, started, overlapped>>
  BY DEF HealthGood
<1>3. /\ job' \in [Tasks -> Job] /\ job'[t] = NextJob(t)
      /\ wait' \in [Tasks -> Await] /\ wait'[t] = NextWait(t)
      /\ \A u \in Tasks \ {t} : job'[u] = job[u] /\ wait'[u] = wait[u]
  BY <1>1, <1>2, NextKeeps DEF ManagerTypeOK, ClientsTypeOK
<1>4. status' \in [Servers -> Statuses] /\ timers' \subseteq Timer
  BY <1>1, <1>2 DEF HealthGood, ManagerTypeOK, Statuses
<1>5. ~Opening(t) /\ ~Opening(t)'
  BY <1>2, <1>3, NextKeeps DEF Opening
<1> QED BY <1>2, <1>3, <1>4, <1>5, NextKeeps, HealthStep

(* An error schedules nothing: it reconnects at once, with the first       *)
(* attempt, unless the server's config is gone.                            *)
LEMMA HealthBadKeeps ==
  ASSUME ManagerInv, NEW t \in Tasks, HealthBad(t)
  PROVE  ManagerInv'
<1> DEFINE s == Head(job[t].queue)
           now == [job |-> [job EXCEPT ![t] = NextJob(t)],
                   wait |-> [wait EXCEPT ![t] = NextWait(t)],
                   status |-> [status EXCEPT ![s] = "error"], timers |-> timers]
<1>1. ManagerTypeOK /\ ClientsTypeOK
  BY DEF ManagerInv, ManagerTypeOK
<1>2. job[t].does = "health" /\ UNCHANGED started /\ \E u \in Tasks : Reconnect(now, u, s, 1)
  BY DEF HealthBad
<1>3. /\ now.job \in [Tasks -> Job] /\ now.job[t] = NextJob(t)
      /\ now.wait \in [Tasks -> Await] /\ now.wait[t] = NextWait(t)
      /\ \A u \in Tasks \ {t} : now.job[u] = job[u] /\ now.wait[u] = wait[u]
      /\ now.status \in [Servers -> Statuses] /\ now.timers \subseteq Timer
      /\ now.timers = timers
  BY <1>1, <1>2, NextKeeps DEF ManagerTypeOK, ClientsTypeOK, Statuses
<1>4. s \in Servers /\ 1 \in 0..MAX_RECONNECT
  BY <1>2, NextKeeps, McpServerManagerAssumption
<1> PICK u \in Tasks : Reconnect(now, u, s, 1)
  BY <1>2
<1> HIDE DEF now, s
<1>5. ~Opening(t) /\ NextJob(t).does \notin {"connect", "list"}
  BY <1>2, NextKeeps DEF Opening
<1>6. CASE Open(now, u, s, 1)
  <2>1. \A v \in Tasks : now.job[v] = Free => now.wait[v] = Idle
    BY <1>2, <1>3, NextKeeps DEF ManagerInv, JobsWait
  <2>2. \A v \in Tasks : now.job[v].does \in {"connect", "list"} =>
          now.job[v] = job[v] /\ now.wait[v] = wait[v]
    BY <1>3, <1>5
  <2>3. \A v \in Tasks : Opening(v) => now.job[v] = job[v] /\ now.wait[v] = wait[v]
    BY <1>3, <1>5
  <2>4. \A v \in Tasks : now.job[v].does = "health" => Len(now.job[v].queue) > 0
    BY <1>2, <1>3, NextKeeps DEF ManagerInv, JobsWait
  <2> QED BY <1>2, <1>3, <1>4, <1>6, <2>1, <2>2, <2>3, <2>4, OpenKeeps
<1>7. CASE /\ status' = IF s \in configs \cap Enabled THEN [now.status EXCEPT ![s] = "error"]
                        ELSE now.status
           /\ timers' = now.timers /\ wait' = now.wait /\ job' = now.job
           /\ UNCHANGED <<client, mclients, configs, overlapped>>
  <2>1. status' \in [Servers -> Statuses]
    BY <1>3, <1>7 DEF Statuses
  <2>2. ~Opening(t)'
    BY <1>3, <1>5, <1>7 DEF Opening
  <2> QED BY <1>2, <1>3, <1>5, <1>7, <2>1, <2>2, NextKeeps, HealthStep
<1> QED BY <1>6, <1>7 DEF Reconnect

(* A timer that fires is gone, and reconnects with the attempt it carries. *)
LEMMA TimerFiresKeeps ==
  ASSUME ManagerInv, NEW u \in Tasks, TimerFires(u)
  PROVE  ManagerInv'
<1>1. ManagerTypeOK /\ ClientsTypeOK /\ UNCHANGED started
  BY DEF ManagerInv, ManagerTypeOK, TimerFires
<1> PICK x \in timers : Reconnect([Now EXCEPT !.timers = @ \ {x}], u, x.server, x.attempt)
  BY DEF TimerFires
<1> DEFINE now == [Now EXCEPT !.timers = @ \ {x}]
           s == x.server
           n == x.attempt
<1>2. /\ now.job = job /\ now.wait = wait /\ now.status = status
      /\ now.timers = timers \ {x}
  BY DEF Now
<1>3. s \in Servers /\ n \in 2..(MAX_RECONNECT + 1)
  BY <1>1 DEF ManagerTypeOK, Timer
<1>4. Reconnect(now, u, s, n)
  OBVIOUS
<1> HIDE DEF now, s, n
<1>5. /\ now.job \in [Tasks -> Job] /\ now.wait \in [Tasks -> Await]
      /\ now.status \in [Servers -> Statuses] /\ now.timers \subseteq Timer
  BY <1>1, <1>2 DEF ManagerTypeOK, ClientsTypeOK
<1>6. CASE n <= MAX_RECONNECT /\ Open(now, u, s, n)
  <2>1. n \in 0..MAX_RECONNECT
    BY <1>3, <1>6, McpServerManagerAssumption
  <2>2. /\ \A v \in Tasks : now.job[v] = Free => now.wait[v] = Idle
        /\ \A v \in Tasks : now.job[v].does = "health" => Len(now.job[v].queue) > 0
    BY <1>2 DEF ManagerInv, JobsWait
  <2>3. now.job = job /\ now.wait = wait
    BY <1>2
  <2> QED BY <1>1, <1>3, <1>5, <1>6, <2>1, <2>2, <2>3, OpenKeeps
<1>7. CASE /\ status' = IF s \in configs \cap Enabled THEN [now.status EXCEPT ![s] = "error"]
                        ELSE now.status
           /\ timers' = now.timers /\ wait' = now.wait /\ job' = now.job
           /\ UNCHANGED <<client, mclients, configs, overlapped>>
  <2>1. ManagerTypeOK'
    BY <1>1, <1>2, <1>5, <1>7 DEF ManagerTypeOK, ClientsTypeOK, Statuses
  <2>2. \A v \in Tasks : Opening(v)' <=> Opening(v)
    BY <1>2, <1>7 DEF Opening
  <2>3. JobsWait'
    BY <1>2, <1>7, <2>2 DEF ManagerInv, JobsWait
  <2>4. Attached' /\ \A c \in Clients : Running(c)' => Running(c)
    BY <1>7 DEF ManagerInv, Attached, Running
  <2> QED BY <1>2, <1>7, <2>1, <2>2, <2>3, <2>4, ManagerStep
<1> QED BY <1>4, <1>6, <1>7 DEF Reconnect

(* Every step of the manager keeps the invariant.                          *)
LEMMA ManagerNextKeeps ==
  ASSUME ManagerInv, ManagerNext
  PROVE  ManagerInv'
<1>1. ManagerTypeOK /\ ClientsTypeOK
  BY DEF ManagerInv, ManagerTypeOK
<1>2. ASSUME NEW t \in Tasks, Connect(t) PROVE ManagerInv'
  <2>1. PICK s \in Servers : Open(Now, t, s, 0) /\ UNCHANGED started
    BY <1>2 DEF Connect
  <2>2. /\ Now.job = job /\ Now.wait = wait /\ Now.status = status /\ Now.timers = timers
    BY DEF Now
  <2>3. /\ job \in [Tasks -> Job] /\ wait \in [Tasks -> Await]
        /\ status \in [Servers -> Statuses] /\ timers \subseteq Timer
    BY <1>1 DEF ManagerTypeOK, ClientsTypeOK
  <2>4. 0 \in 0..MAX_RECONNECT
    BY McpServerManagerAssumption
  <2>5. /\ \A u \in Tasks : job[u] = Free => wait[u] = Idle
        /\ \A u \in Tasks : job[u].does = "health" => Len(job[u].queue) > 0
    BY DEF ManagerInv, JobsWait
  <2> QED BY <2>1, <2>2, <2>3, <2>4, <2>5, OpenKeeps
<1>3. ASSUME NEW s \in Servers, Close(s) PROVE ManagerInv'
  <2>1. Now.status = status /\ Now.timers = timers
    BY DEF Now
  <2>2. {s} \in SUBSET Servers /\ started' \in BOOLEAN
    BY <1>1, <1>3 DEF Close, ManagerTypeOK
  <2> QED BY <1>3, <2>1, <2>2, DropKeeps DEF Close
<1>4. CASE Stop
  <2> DEFINE S == {s \in Servers : mclients[s] # NoClient}
             now == [Now EXCEPT !.timers = Cancelled(Servers, timers)]
  <2>1. now.status = status /\ now.timers \subseteq timers
    BY DEF Now, Cancelled
  <2>2. S \in SUBSET Servers /\ started' \in BOOLEAN
    BY <1>4 DEF Stop
  <2>3. /\ Drop(now, S) /\ client' = Disconnect(ClientsOf(S))
        /\ wait' = RejectPending(wait, Stdio(ClientsOf(S))) /\ UNCHANGED <<job, overlapped>>
    BY <1>4 DEF Stop
  <2> HIDE DEF now, S
  <2> QED BY <2>1, <2>2, <2>3, DropKeeps
<1>5. ASSUME NEW t \in Tasks, ManagerContinue(t) PROVE ManagerInv'
  BY <1>5, ConnectedKeeps, ListedKeeps, ConnectFailsKeeps, HealthGoodKeeps, HealthBadKeeps
  DEF ManagerContinue
<1> QED
  BY <1>2, <1>3, <1>4, <1>5, TimerFiresKeeps, HealthStartKeeps, CollectClientKeeps,
     ManagerEnvironmentKeeps DEF ManagerNext


-----------------------------------------------------------------------------
(* The stdio client.                                                       *)

(* A request that is pending has a process and no shutdown before it: the  *)
(* cleanup that would drop it silently comes after one that rejected it.   *)
StdioInv ==
    /\ StdioTypeOK /\ NothingLeftBehind
    /\ \A r \in Requests : request[r] = "pending" => proc # NoProc /\ ~shuttingDown
    /\ stopping # NoProc => shuttingDown

(* cleanup() of settled requests leaves nothing behind.                    *)
LEMMA CleanupKeeps ==
  ASSUME StdioTypeOK, NEW promises \in [Requests -> Promises], NEW processes \in [Procs -> ProcStates],
         \A r \in Requests : promises[r] \notin {"pending", "forgotten"},
         \A p \in Procs : processes[p] = "alive" => p = proc,
         Cleanup(promises, processes)
  PROVE  /\ proc' = NoProc /\ up' \in BOOLEAN /\ handlers' \in BOOLEAN
         /\ os' \in [Procs -> ProcStates] /\ request' \in [Requests -> Promises]
         /\ NothingLeftBehind'
         /\ \A r \in Requests : request'[r] # "pending"
<1>1. /\ os' \in [Procs -> ProcStates] /\ \A p \in Procs : os'[p] # "alive"
  BY DEF Cleanup, ProcStates
<1>2. /\ request' \in [Requests -> Promises]
      /\ \A r \in Requests : request'[r] \notin {"pending", "forgotten"}
  BY DEF Cleanup, Cleared, Promises
<1> QED BY <1>1, <1>2 DEF Cleanup, NothingLeftBehind

(* rejectAllPending settles what is pending.                               *)
LEMMA RejectAllSettles ==
  ASSUME StdioTypeOK, NothingLeftBehind
  PROVE  /\ RejectAll \in [Requests -> Promises]
         /\ \A r \in Requests : RejectAll[r] \notin {"pending", "forgotten"}
BY DEF StdioTypeOK, NothingLeftBehind, RejectAll, Settle, Promises

(* Every step of the client keeps the invariant.                           *)
LEMMA StdioNextKeeps ==
  ASSUME StdioInv, StdioNext
  PROVE  StdioInv'
<1>1. /\ StdioTypeOK /\ NothingLeftBehind /\ os \in [Procs -> ProcStates]
      /\ request \in [Requests -> Promises]
      /\ \A p \in Procs : os[p] = "alive" => p = proc
      /\ proc \in Procs \cup {NoProc} /\ stopping \in Procs \cup {NoProc}
      /\ shuttingDown \in BOOLEAN
      /\ stopping # NoProc => shuttingDown
  BY DEF StdioInv, StdioTypeOK, NothingLeftBehind
<1>2. /\ RejectAll \in [Requests -> Promises]
      /\ \A r \in Requests : RejectAll[r] \notin {"pending", "forgotten"}
  BY <1>1, RejectAllSettles
<1>3. ASSUME NEW promises \in [Requests -> Promises], NEW processes \in [Procs -> ProcStates],
             \A r \in Requests : promises[r] \notin {"pending", "forgotten"},
             \A p \in Procs : processes[p] = "alive" => p = proc,
             Cleanup(promises, processes), shuttingDown' \in BOOLEAN,
             stopping' \in Procs \cup {NoProc}, stopping' # NoProc => shuttingDown'
      PROVE  StdioInv'
  BY <1>1, <1>3, CleanupKeeps DEF StdioInv, StdioTypeOK
<1>4. (proc = NoProc \/ shuttingDown) => \A r \in Requests : request[r] \notin {"pending", "forgotten"}
  BY DEF StdioInv, NothingLeftBehind
<1>5. CASE StdioStart
  <2>1. \A p \in Procs : os[p] # "alive"
    BY <1>1, <1>5, StdioAssumption DEF StdioStart
  <2>2. PICK p \in Procs : proc' = p /\ os' = [os EXCEPT ![p] = "alive"]
    BY <1>5 DEF StdioStart
  <2>3. os' \in [Procs -> ProcStates] /\ \A q \in Procs : os'[q] = "alive" => q = proc'
    BY <1>1, <2>1, <2>2 DEF ProcStates
  <2>4. UNCHANGED <<shuttingDown, stopping, handlers, request>> /\ up' = TRUE /\ proc = NoProc
    BY <1>5 DEF StdioStart
  <2>5. StdioTypeOK'
    BY <2>2, <2>3, <2>4, <1>1 DEF StdioTypeOK
  <2>6. NothingLeftBehind'
    BY <2>3, <2>4, <1>1 DEF NothingLeftBehind
  <2> QED BY <1>1, <1>4, <2>4, <2>5, <2>6 DEF StdioInv
<1>6. CASE StdioStartFails
  BY <1>1, <1>3, <1>4, <1>6 DEF StdioStartFails
<1>7. CASE Register
  BY <1>7 DEF Register, StdioInv, StdioTypeOK, NothingLeftBehind
<1>8. CASE StdioStop
  <2>1. CASE proc = NoProc /\ Cleanup(RejectAll, os) /\ UNCHANGED stopping
    BY <1>1, <1>2, <1>3, <1>8, <2>1 DEF StdioStop
  <2>2. CASE /\ proc # NoProc
             /\ os' = [os EXCEPT ![proc] = IF @ = "alive" THEN "signalled" ELSE @]
             /\ stopping' = proc /\ request' = RejectAll
             /\ UNCHANGED <<proc, up, handlers>>
    <3>1. os' \in [Procs -> ProcStates] /\ \A p \in Procs : os'[p] = "alive" => os[p] = "alive"
      BY <1>1, <2>2 DEF ProcStates
    <3>2. shuttingDown' = TRUE
      BY <1>8 DEF StdioStop
    <3>3. StdioTypeOK'
      BY <1>1, <1>2, <2>2, <3>1, <3>2 DEF StdioTypeOK
    <3>4. NothingLeftBehind'
      BY <1>1, <1>2, <2>2, <3>1 DEF NothingLeftBehind
    <3> QED BY <1>2, <2>2, <3>2, <3>3, <3>4 DEF StdioInv
  <2> QED BY <1>8, <2>1, <2>2 DEF StdioStop
<1>9. CASE ShutdownTimeout
  BY <1>1, <1>3, <1>4, <1>9 DEF ShutdownTimeout
<1>10. ASSUME NEW p \in Procs, Exit(p) \/ ProcessError(p) PROVE StdioInv'
  <2> DEFINE exited == [os EXCEPT ![p] = "gone"]
  <2>1. exited \in [Procs -> ProcStates] /\ \A q \in Procs : exited[q] = "alive" => q = proc
    BY <1>1 DEF ProcStates
  <2> HIDE DEF exited
  <2>2. CASE Exit(p)
    <3>1. Cleanup(RejectAll, exited) /\ UNCHANGED shuttingDown
          /\ stopping' = IF stopping = p THEN NoProc ELSE stopping
      BY <2>2 DEF Exit, exited
    <3> QED BY <1>1, <1>2, <1>3, <2>1, <3>1
  <2>3. CASE ProcessError(p)
    <3>1. /\ Cleanup(RejectAll, os) \/ Cleanup(RejectAll, exited)
          /\ UNCHANGED <<shuttingDown, stopping>>
      BY <2>3 DEF ProcessError, exited
    <3> QED BY <1>1, <1>2, <1>3, <2>1, <3>1
  <2> QED BY <1>10, <2>2, <2>3
<1>11. ASSUME NEW r \in Requests, Send(r) \/ Respond(r) PROVE StdioInv'
  BY <1>11 DEF Send, Respond, StdioInv, StdioTypeOK, NothingLeftBehind, Promises
<1> QED BY <1>5, <1>6, <1>7, <1>8, <1>9, <1>10, <1>11 DEF StdioNext

-----------------------------------------------------------------------------
(* The executor.                                                           *)

(* Where an execution is tells what its trace, its error and its entries   *)
(* in the history can be.                                                  *)
Traced(e) ==
    LET x == run[e] IN
    /\ x.at \in {"new", "refused"} <=> trace[e] = "none"
    /\ x.at \in {"new", "refused"} => history[e] = 0
    /\ x.at = "new" => x.thrown = "none"
    /\ x.at \in {"attempt", "backoff"} => x.attempt > 0 /\ history[e] <= 1
    /\ x.at \in {"attempt", "ok"} => x.thrown = "none"
    /\ x.at = "backoff" => x.thrown = "retryable" /\ x.attempt < maxRetries
    /\ (trace[e] = "started") <=> x.at \in {"attempt", "backoff"}
    /\ (trace[e] = "completed") <=> x.at = "ok"
    /\ (trace[e] = "failed") <=> x.at = "failed"
    /\ x.at = "failed" => x.thrown = "final" \/ x.attempt = maxRetries

ExecutorInv == ExecutorTypeOK /\ \A e \in Executions : Traced(e)

(* A step of one execution touches no other.                               *)
LEMMA ExecutionStep ==
  ASSUME ExecutorInv, NEW e \in Executions, UNCHANGED <<registered, checks>>,
         NEW x \in Execution, NEW y \in {"none", "started", "completed", "failed"}, NEW n \in 0..2,
         run' = [run EXCEPT ![e] = x], trace' = [trace EXCEPT ![e] = y],
         history' = [history EXCEPT ![e] = n], Traced(e)'
  PROVE  ExecutorInv'
<1>1. ExecutorTypeOK'
  BY DEF ExecutorInv, ExecutorTypeOK
<1>2. ASSUME NEW f \in Executions, f # e PROVE Traced(f)'
  BY <1>2 DEF ExecutorInv, ExecutorTypeOK, Traced
<1> QED BY <1>1, <1>2 DEF ExecutorInv

(* Every step of the executor keeps the invariant.                         *)
LEMMA ExecutorNextKeeps ==
  ASSUME ExecutorInv, ExecutorNext
  PROVE  ExecutorInv'
<1>1. ExecutorTypeOK /\ maxRetries \in Nat \ {0}
  BY ExecutorAssumption DEF ExecutorInv
<1>2. ASSUME NEW n \in ToolNames, RegisterTool(n) \/ RegisterPolicy(n) \/ UnregisterTool(n)
      PROVE  ExecutorInv'
  <2>1. UNCHANGED <<run, trace, history>>
    BY <1>2 DEF RegisterTool, RegisterPolicy, UnregisterTool
  <2>2. registered' \in [ToolNames -> ToolSources \cup {"none"}] /\ checks' \in [ToolNames -> Checks]
    BY <1>1, <1>2
    DEF RegisterTool, RegisterPolicy, UnregisterTool, ExecutorTypeOK, AdapterPolicy, Checks
  <2>3. ExecutorTypeOK'
    BY <1>1, <2>1, <2>2 DEF ExecutorTypeOK
  <2> QED BY <2>1, <2>3 DEF ExecutorInv, Traced
<1>3. CASE ClearExecutionHistory
  <2>1. /\ UNCHANGED <<registered, checks, run, trace>>
        /\ history' = [e \in Executions |-> 0]
    BY <1>3 DEF ClearExecutionHistory
  <2>2. ExecutorTypeOK'
    BY <1>1, <2>1 DEF ExecutorTypeOK
  <2> QED BY <2>1, <2>2 DEF ExecutorInv, Traced
<1>4. ASSUME NEW e \in Executions,
             \/ ExecuteRefused(e) \/ ExecuteStarts(e) \/ AttemptSucceeds(e)
             \/ AttemptFails(e) \/ BackoffEnds(e)
      PROVE  ExecutorInv'
  <2>1. /\ run[e] \in Execution /\ Traced(e) /\ run \in [Executions -> Execution]
        /\ trace[e] \in {"none", "started", "completed", "failed"}
        /\ history[e] \in 0..2 /\ trace = [trace EXCEPT ![e] = trace[e]]
        /\ history = [history EXCEPT ![e] = history[e]]
        /\ DOMAIN trace = Executions /\ DOMAIN history = Executions
    BY <1>1 DEF ExecutorInv, ExecutorTypeOK
  <2> DEFINE y == trace[e]
             h == history[e]
  <2>1a. ASSUME NEW x \in Execution, UNCHANGED <<registered, checks, trace, history>>,
               run' = [run EXCEPT ![e] = x], Traced(e)'
        PROVE  ExecutorInv'
    <3>1. trace' = [trace EXCEPT ![e] = y] /\ history' = [history EXCEPT ![e] = h]
      BY <2>1, <2>1a
    <3>2. y \in {"none", "started", "completed", "failed"} /\ h \in 0..2
      BY <2>1
    <3> HIDE DEF y, h
    <3> QED BY <2>1a, <3>1, <3>2, ExecutionStep
  <2>2. CASE ExecuteRefused(e)
    <3>1. PICK n \in ToolNames :
            run' = [run EXCEPT ![e] = [New EXCEPT !.at = "refused", !.tool = n, !.thrown = "final"]]
      BY <2>2 DEF ExecuteRefused
    <3> DEFINE x == [New EXCEPT !.at = "refused", !.tool = n, !.thrown = "final"]
    <3>2. x \in Execution /\ x.at = "refused" /\ x.thrown = "final"
      <4>1. 0 \in 0..maxRetries
        BY <1>1
      <4>2. New \in Execution
        BY <1>1 DEF New, Execution
      <4>3. New.attempt = 0 /\ New.thrown = "none"
        BY DEF New
      <4> QED BY <4>1, <4>2, <4>3 DEF Execution, Errors
    <3>3. run[e] = New /\ UNCHANGED <<registered, checks, trace, history>>
      BY <2>2 DEF ExecuteRefused
    <3>4. trace[e] = "none" /\ history[e] = 0
      BY <2>1, <3>3 DEF Traced, New
    <3> HIDE DEF x
    <3>5. run'[e] = x
      BY <2>1, <3>1 DEF x
    <3>6. Traced(e)'
      BY <3>2, <3>3, <3>4, <3>5 DEF Traced
    <3>7. run' = [run EXCEPT ![e] = x]
      BY <3>1 DEF x
    <3> QED BY <2>1a, <3>2, <3>3, <3>6, <3>7
  <2>3. CASE ExecuteStarts(e)
    <3>1. PICK n \in ToolNames :
            run' = [run EXCEPT ![e] = [New EXCEPT !.at = "attempt", !.tool = n, !.attempt = 1]]
      BY <2>3 DEF ExecuteStarts
    <3> DEFINE x == [New EXCEPT !.at = "attempt", !.tool = n, !.attempt = 1]
    <3>2. x \in Execution /\ x.at = "attempt" /\ x.attempt = 1 /\ x.thrown = "none"
      <4>1. 1 \in 0..maxRetries
        BY <1>1
      <4>2. New \in Execution
        BY <1>1 DEF New, Execution
      <4>3. New.attempt = 0 /\ New.thrown = "none"
        BY DEF New
      <4> QED BY <4>1, <4>2, <4>3 DEF Execution, Errors
    <3>3. /\ UNCHANGED <<registered, checks>>
          /\ trace' = [trace EXCEPT ![e] = "started"] /\ history' = [history EXCEPT ![e] = 1]
      BY <2>3 DEF ExecuteStarts
    <3> HIDE DEF x
    <3>4. run'[e] = x /\ trace'[e] = "started" /\ history'[e] = 1
      BY <2>1, <3>1, <3>3 DEF x
    <3>5. Traced(e)'
      BY <3>2, <3>4 DEF Traced
    <3>6. run' = [run EXCEPT ![e] = x] /\ 1 \in 0..2
      BY <3>1 DEF x
    <3> QED BY <3>2, <3>3, <3>5, <3>6, ExecutionStep
  <2>4. CASE AttemptSucceeds(e)
    <3> DEFINE x == [run[e] EXCEPT !.at = "ok"]
    <3>1. /\ run[e].at = "attempt" /\ run' = [run EXCEPT ![e] = x]
          /\ UNCHANGED <<registered, checks>>
          /\ trace' = [trace EXCEPT ![e] = "completed"]
          /\ history' = [history EXCEPT ![e] = history[e] + 1]
      BY <2>4 DEF AttemptSucceeds, Recorded
    <3>2. x \in Execution /\ x.at = "ok" /\ x.thrown = "none"
      BY <2>1, <3>1 DEF Execution, Traced
    <3>3. history[e] + 1 \in 0..2
      BY <2>1, <3>1 DEF Traced
    <3> HIDE DEF x
    <3>4. run'[e] = x /\ trace'[e] = "completed" /\ history'[e] = history[e] + 1
      BY <2>1, <3>1
    <3>5. Traced(e)'
      BY <3>2, <3>4 DEF Traced
    <3> QED BY <3>1, <3>2, <3>3, <3>5, ExecutionStep
  <2>5. CASE AttemptFails(e)
    <3>1. PICK error \in Errors :
            \/ /\ error = "retryable" /\ run[e].attempt < maxRetries
               /\ run' = [run EXCEPT ![e].at = "backoff", ![e].thrown = error]
               /\ UNCHANGED <<trace, history>>
            \/ /\ error = "final" \/ run[e].attempt >= maxRetries
               /\ run' = [run EXCEPT ![e].at = "failed", ![e].thrown = error]
               /\ Recorded(e, "failed")
      BY <2>5 DEF AttemptFails
    <3>2. run[e].at = "attempt" /\ UNCHANGED <<registered, checks>>
          /\ run[e].attempt > 0 /\ run[e].attempt \in 0..maxRetries
          /\ history[e] <= 1 /\ trace[e] = "started"
      BY <2>1, <2>5 DEF AttemptFails, Traced, Execution
    <3>3. CASE /\ error = "retryable" /\ run[e].attempt < maxRetries
               /\ run' = [run EXCEPT ![e].at = "backoff", ![e].thrown = error]
               /\ UNCHANGED <<trace, history>>
      <4> DEFINE x == [run[e] EXCEPT !.at = "backoff", !.thrown = error]
      <4>1. /\ x \in Execution /\ x.at = "backoff" /\ x.thrown = error
            /\ x.attempt = run[e].attempt
        BY <2>1 DEF Execution
      <4>1a. run' = [run EXCEPT ![e] = x]
        BY <3>3
      <4> HIDE DEF x
      <4>2. run'[e] = x
        BY <2>1, <4>1a
      <4>3. Traced(e)'
        BY <3>2, <3>3, <4>1, <4>2 DEF Traced
      <4> QED BY <2>1a, <3>2, <3>3, <4>1, <4>3, <4>1a
    <3>4. CASE /\ error = "final" \/ run[e].attempt >= maxRetries
               /\ run' = [run EXCEPT ![e].at = "failed", ![e].thrown = error]
               /\ Recorded(e, "failed")
      <4> DEFINE x == [run[e] EXCEPT !.at = "failed", !.thrown = error]
      <4>1. /\ x \in Execution /\ x.at = "failed" /\ x.thrown = error
            /\ x.attempt = run[e].attempt
        BY <2>1 DEF Execution
      <4>1a. run' = [run EXCEPT ![e] = x]
        BY <3>4
      <4> HIDE DEF x
      <4>2. /\ trace' = [trace EXCEPT ![e] = "failed"]
            /\ history' = [history EXCEPT ![e] = history[e] + 1]
            /\ history[e] + 1 \in 0..2
        BY <2>1, <3>2, <3>4 DEF Recorded
      <4>3. run'[e] = x /\ trace'[e] = "failed"
        BY <2>1, <4>2, <4>1a
      <4>4. x.thrown = "final" \/ x.attempt = maxRetries
        BY <1>1, <3>2, <3>4, <4>1
      <4>5. Traced(e)'
        BY <4>1, <4>3, <4>4 DEF Traced
      <4> QED BY <3>2, <4>1, <4>2, <4>5, <4>1a, ExecutionStep
    <3> QED BY <3>1, <3>3, <3>4
  <2>6. CASE BackoffEnds(e)
    <3>1. /\ run[e].at = "backoff" /\ UNCHANGED <<registered, checks, trace, history>>
          /\ run' = [run EXCEPT ![e].at = "attempt", ![e].attempt = @ + 1, ![e].thrown = "none"]
      BY <2>6 DEF BackoffEnds
    <3>2. run[e].attempt + 1 \in 0..maxRetries /\ history[e] <= 1 /\ trace[e] = "started"
      BY <1>1, <2>1, <3>1 DEF Traced, Execution
    <3> DEFINE x == [run[e] EXCEPT !.at = "attempt", !.attempt = @ + 1, !.thrown = "none"]
    <3>3. /\ x \in Execution /\ x.at = "attempt" /\ x.thrown = "none"
          /\ x.attempt = run[e].attempt + 1
      BY <2>1, <3>2 DEF Execution
    <3>6. run' = [run EXCEPT ![e] = x]
      BY <3>1
    <3> HIDE DEF x
    <3>4. run'[e] = x /\ x.attempt > 0
      BY <2>1, <3>2, <3>3, <3>6 DEF Execution
    <3>5. Traced(e)'
      BY <3>1, <3>2, <3>3, <3>4 DEF Traced
    <3> QED BY <2>1a, <3>1, <3>3, <3>5, <3>6
  <2> QED BY <1>4, <2>2, <2>3, <2>4, <2>5, <2>6
<1> QED BY <1>2, <1>3, <1>4 DEF ExecutorNext

-----------------------------------------------------------------------------
(* The four together.                                                      *)

(* Connections belong to the broker or to the manager, whichever runs; the *)
(* rest of each class is its own, so what holds of it stays as it is while *)
(* another one runs.                                                       *)
ToolsInv ==
    /\ part \in {"broker", "manager", "stdio", "executor"}
    /\ BrokerTypeOK /\ ManagerTypeOK /\ ToolsGuarded /\ StdioInv /\ ExecutorInv
    /\ part = "broker" => BrokerInv
    /\ part = "manager" => ManagerInv

(* As they are created, all four satisfy it.                               *)
LEMMA ToolsInit == Init => ToolsInv
<1> SUFFICES ASSUME Init PROVE ToolsInv
  OBVIOUS
<1>1. part \in {"broker", "manager", "stdio", "executor"}
  BY DEF Init
<1>2. /\ ClientsTypeOK /\ Attached
      /\ \A c \in Clients : ~Running(c)
      /\ \A t \in Tasks : wait[t] = Idle
  <2>1. client = [c \in Clients |-> Unused] /\ wait = [t \in Tasks |-> Idle]
    BY DEF Init, BrokerInit, ClientsInit
  <2>2. Unused.proc = "none"
    BY DEF Unused
  <2> QED BY <2>1, <2>2, ClientShapes DEF ClientsTypeOK, Attached, Running
<1>3. BrokerTypeOK /\ ToolsGuarded /\ OpsWait /\ Overtaken
  <2>1. /\ tools = [n \in Names |-> IF n \in OwnNames THEN "local" ELSE "unknown"]
        /\ policies = [n \in Names |-> IF n \in OwnNames THEN Guard(n \in SensitiveNames)
                                                        ELSE NoPolicy]
        /\ mcpClients = [s \in Servers |-> NoClient] /\ mcpServerTools = [s \in Servers |-> {}]
        /\ op = [t \in Tasks |-> Nothing] /\ lost = [c \in Clients |-> {}]
    BY DEF Init, BrokerInit
  <2>2. Nothing \in Operation /\ Nothing.does = "idle"
    BY DEF Nothing, Operation, BrokerOps
  <2>3. tools \in [Names -> Sources] /\ policies \in [Names -> Policies]
    BY <2>1, GuardIsPolicy DEF Sources
  <2>4. BrokerTypeOK
    BY <1>2, <2>1, <2>2, <2>3 DEF BrokerTypeOK
  <2>5. ToolsGuarded
    BY <2>1, <2>2 DEF ToolsGuarded
  <2>6. OpsWait /\ Overtaken
    BY <1>2, <2>1, <2>2 DEF OpsWait, Overtaken, Connects
  <2> QED BY <2>4, <2>5, <2>6
<1>4. ManagerTypeOK /\ JobsWait /\ Overlapping
  <2>1. /\ mclients = [s \in Servers |-> NoClient] /\ configs = {}
        /\ status = [s \in Servers |-> "none"] /\ timers = {} /\ started = TRUE
        /\ job = [t \in Tasks |-> Free] /\ overlapped = {}
    BY DEF Init, ManagerInit
  <2>2. ManagerTypeOK
    BY <1>2, <2>1, FreeIsJob DEF ManagerTypeOK, Statuses
  <2> QED BY <1>2, <2>1, <2>2, FreeIsJob DEF JobsWait, Overlapping, Opening
<1>5. StdioInv
  BY DEF Init, StdioInit, StdioInv, StdioTypeOK, NothingLeftBehind, ProcStates, Promises
<1>6. ExecutorInv
  <2>1. /\ registered = [n \in ToolNames |-> "none"] /\ checks = [n \in ToolNames |-> "none"]
        /\ run = [e \in Executions |-> New] /\ trace = [e \in Executions |-> "none"]
        /\ history = [e \in Executions |-> 0]
    BY DEF Init, ExecutorInit
  <2>2. 0 \in 0..maxRetries
    BY ExecutorAssumption
  <2>3. New \in Execution /\ New.at = "new" /\ New.thrown = "none"
    BY <2>2 DEF New, Execution, Errors
  <2>4. ExecutorTypeOK
    BY <2>1, <2>3 DEF ExecutorTypeOK, Checks
  <2>5. \A e \in Executions : run[e].at = "new" /\ run[e].thrown = "none"
                              /\ trace[e] = "none" /\ history[e] = 0
    BY <2>1, <2>3
  <2> QED BY <2>4, <2>5 DEF ExecutorInv, Traced
<1>7. Owned /\ Kept
  BY <1>2 DEF Owned, Kept
<1> QED BY <1>1, <1>2, <1>3, <1>4, <1>5, <1>6, <1>7 DEF ToolsInv, BrokerInv, ManagerInv

(* What a class keeps to itself does not change while another one runs.    *)
LEMMA OthersKept ==
  ASSUME ToolsInv
  PROVE  /\ UNCHANGED brokerOwn => ToolsGuarded' /\ (ClientsTypeOK' => BrokerTypeOK')
         /\ UNCHANGED managerOwn /\ ClientsTypeOK' => ManagerTypeOK'
         /\ UNCHANGED stdioVars => StdioInv'
         /\ UNCHANGED executorVars => ExecutorInv'
<1>1. UNCHANGED brokerOwn => ToolsGuarded' /\ (ClientsTypeOK' => BrokerTypeOK')
  BY DEF ToolsInv, brokerOwn, registry, ToolsGuarded, BrokerTypeOK
<1>2. UNCHANGED managerOwn /\ ClientsTypeOK' => ManagerTypeOK'
  BY DEF ToolsInv, managerOwn, tracking, ManagerTypeOK
<1>3. UNCHANGED stdioVars => StdioInv'
  BY DEF ToolsInv, stdioVars, StdioInv, StdioTypeOK, NothingLeftBehind
<1>4. UNCHANGED executorVars => ExecutorInv'
  BY DEF ToolsInv, executorVars, ExecutorInv, ExecutorTypeOK, Traced
<1> QED BY <1>1, <1>2, <1>3, <1>4

(* Every step of the four keeps it.                                        *)
LEMMA ToolsStep == ToolsInv /\ [Next]_vars => ToolsInv'
<1> SUFFICES ASSUME ToolsInv, [Next]_vars PROVE ToolsInv'
  OBVIOUS
<1>1. /\ part \in {"broker", "manager", "stdio", "executor"} /\ ClientsTypeOK
      /\ StdioInv /\ ExecutorInv
      /\ part = "broker" => BrokerInv
      /\ part = "manager" => ManagerInv
  BY DEF ToolsInv, BrokerTypeOK
<1>2. UNCHANGED connections => ClientsTypeOK'
  BY <1>1 DEF connections, ClientsTypeOK
<1>3. CASE Broker(BrokerNext)
  <2>1. BrokerInv' /\ UNCHANGED <<part, managerOwn, stdioVars, executorVars>> /\ part = "broker"
    BY <1>1, <1>3, BrokerNextKeeps DEF Broker
  <2> QED BY <2>1, OthersKept DEF ToolsInv, BrokerInv, BrokerTypeOK
<1>4. CASE Manager(ManagerNext)
  <2>1. ManagerInv' /\ UNCHANGED <<part, brokerOwn, stdioVars, executorVars>> /\ part = "manager"
    BY <1>1, <1>4, ManagerNextKeeps DEF Manager
  <2> QED BY <2>1, OthersKept DEF ToolsInv, ManagerInv, ManagerTypeOK
<1>5. CASE Stdio_(StdioNext)
  <2>1. /\ StdioInv' /\ part = "stdio"
        /\ UNCHANGED <<part, connections, brokerOwn, managerOwn, executorVars>>
    BY <1>1, <1>5, StdioNextKeeps DEF Stdio_
  <2> QED BY <1>2, <2>1, OthersKept DEF ToolsInv
<1>6. CASE Executor(ExecutorNext)
  <2>1. /\ ExecutorInv' /\ part = "executor"
        /\ UNCHANGED <<part, connections, brokerOwn, managerOwn, stdioVars>>
    BY <1>1, <1>6, ExecutorNextKeeps DEF Executor
  <2> QED BY <1>2, <2>1, OthersKept DEF ToolsInv
<1>7. CASE UNCHANGED vars
  <2>1. UNCHANGED <<part, connections, brokerOwn, managerOwn, stdioVars, executorVars>>
    BY <1>7 DEF vars
  <2>2. part = "broker" => BrokerInv'
    BY <1>1, <1>2, <2>1, OthersKept
    DEF BrokerInv, Attached, Running, OpsWait, Overtaken, Owned, Connects, Tests, connections,
        brokerOwn, registry
  <2>3. part = "manager" => ManagerInv'
    BY <1>1, <1>2, <2>1, OthersKept
    DEF ManagerInv, Attached, Running, JobsWait, Overlapping, Kept, Opening, connections,
        managerOwn, tracking
  <2> QED BY <1>1, <1>2, <2>1, <2>2, <2>3, OthersKept DEF ToolsInv
<1> QED BY <1>3, <1>4, <1>5, <1>6, <1>7 DEF Next

(* The invariant holds in every state of every behaviour.                  *)
THEOREM ToolsInvariance == Spec => []ToolsInv
BY ToolsInit, ToolsStep, PTL DEF Spec

(* The fields of the four classes hold what they are declared to hold: a   *)
(* server's entry is a client or none, a task waits on a client or none.   *)
THEOREM ToolsTyped == Spec => []TypeOK
<1>1. ToolsInv => TypeOK
  BY DEF ToolsInv, TypeOK, StdioInv, ExecutorInv
<1> QED BY <1>1, ToolsInvariance, PTL

(* However connects, disconnects, registrations and calls of different     *)
(* tasks interleave, a registered tool has the policy of its name, and a   *)
(* call of a sensitive tool was made by somebody who may, or approved.     *)
THEOREM ToolsAlwaysGuarded == Spec => []ToolsGuarded
<1>1. ToolsInv => ToolsGuarded
  BY DEF ToolsInv
<1> QED BY <1>1, ToolsInvariance, PTL

(* The two ways to lose a child process that the code has, a connect that  *)
(* throws after it spawned one and two connects of one server at a time,   *)
(* are the only ones: any other that runs is within reach.                 *)
THEOREM OrphansHaveCause == Spec => []OrphansExplained
<1>1. ToolsInv => OrphansExplained
  BY DEF ToolsInv, OrphansExplained, BrokerInv, ManagerInv, Owned, Kept,
         BrokerOrphansExplained, ManagerOrphansExplained
<1> QED BY <1>1, ToolsInvariance, PTL

(* Start, stop, its timeout, exits and errors of the process in any order: *)
(* the stdio client never loses a process that runs, and no request is     *)
(* dropped without its promise being settled.                              *)
THEOREM StdioLeavesNothing == Spec => []NothingLeftBehind
<1>1. ToolsInv => NothingLeftBehind
  BY DEF ToolsInv, StdioInv
<1> QED BY <1>1, ToolsInvariance, PTL

(* For any number of attempts, a trace says how its execution went, also   *)
(* when its history was cleared meanwhile.                                 *)
THEOREM TracesAlwaysTell == Spec => []TracesTellOutcome
<1>1. ToolsInv => TracesTellOutcome
  <2> SUFFICES ASSUME ToolsInv, NEW e \in Executions
               PROVE  TracesTellOutcome!(e)
    BY DEF TracesTellOutcome
  <2>1. Traced(e) /\ run[e] \in Execution /\ history[e] \in 0..2
        /\ trace[e] \in {"none", "started", "completed", "failed"}
    BY DEF ToolsInv, ExecutorInv, ExecutorTypeOK
  <2> QED BY <2>1 DEF Traced, Execution, Errors
<1> QED BY <1>1, ToolsInvariance, PTL
=============================================================================
