----------------------------- MODULE McpClients -----------------------------
(***************************************************************************)
(* The clients of mcp-client.ts, one object per connection, and the tasks  *)
(* (async calls) that wait on them.  A stdio client owns a child process;  *)
(* an HTTP client only has a flag.                                         *)
(*                                                                         *)
(* A request of a stdio client is one await of its caller: sent in one     *)
(* step, settled in a second (an answer, an error, the 30 s timeout, the   *)
(* end of the process or disconnect()), and its continuation is the        *)
(* caller's next step.  A POST is two awaits: the timeout covers that of   *)
(* the headers, and nothing covers that of the body.  A pending entry that *)
(* outlives its timeout has no observer and is left out.                   *)
(***************************************************************************)
EXTENDS Naturals, FiniteSets

CONSTANTS
    Clients,        \* bound: the client objects there are at a time
    Tasks,          \* async calls of the process
    Servers,        \* server ids
    NoClient,
    HttpServers     \* the servers whose config says transport http

ASSUME McpClientsAssumption ==
    /\ NoClient \notin Clients
    /\ HttpServers \subseteq Servers

Transports == {"stdio", "http"}
Transport(s) == IF s \in HttpServers THEN "http" ELSE "stdio"

Processes == {"none", "alive", "signalled", "gone"}
Client == [kind : Transports \cup {"unused"}, proc : Processes,
           attached : BOOLEAN, connected : BOOLEAN]
Await == [on : Clients \cup {NoClient}, got : {"none", "waiting", "body", "ok", "rejected"}]

VARIABLES
    client,         \* client -> its fields and its child process
    wait            \* task -> the request it waits on

connections == <<client, wait>>

Idle == [on |-> NoClient, got |-> "none"]
Unused ==
    [kind |-> "unused", proc |-> "none", attached |-> FALSE, connected |-> FALSE]

ClientsTypeOK ==
    /\ client \in [Clients -> Client]
    /\ wait \in [Tasks -> Await]

ClientsInit ==
    /\ client = [c \in Clients |-> Unused]
    /\ wait = [t \in Tasks |-> Idle]

(* The factory: a stdio client spawns its process when it connects.        *)
Created(kind) ==
    [kind |-> kind, proc |-> IF kind = "stdio" THEN "alive" ELSE "none",
     attached |-> kind = "stdio", connected |-> FALSE]

Fresh(c) == client[c] = Unused

(* A process that runs and that nobody has asked to stop.                  *)
Running(c) == client[c].proc = "alive"

(* assertConnected and the check of stdin in sendRequest.                  *)
Usable(c) ==
    client[c].connected /\ (client[c].kind = "stdio" => client[c].attached)

Ask(c) == [on |-> c, got |-> "waiting"]
Refused(c) == [on |-> c, got |-> "rejected"]
Request(c) == IF Usable(c) THEN Ask(c) ELSE Refused(c)

(* rejectAllPending on the clients of S, w being the requests there are.   *)
RejectPending(w, S) ==
    [t \in Tasks |-> IF w[t].on \in S /\ w[t].got = "waiting"
                     THEN Refused(w[t].on) ELSE w[t]]

(* disconnect(): kills the process of a stdio client and rejects what it   *)
(* has pending; a fetch of an HTTP client goes on.                         *)
Closed(cl) ==
    [cl EXCEPT !.connected = FALSE, !.attached = FALSE,
               !.proc = IF cl.attached /\ @ = "alive" THEN "signalled" ELSE @]
Disconnect(S) ==
    [c \in Clients |-> IF c \in S THEN Closed(client[c]) ELSE client[c]]
Stdio(S) == {c \in S : client[c].kind = "stdio"}

(* The continuation of connect() after a good initialize answer.           *)
Initialized(c) == [client EXCEPT ![c].connected = TRUE]

(* A client that nobody refers to and whose process was stopped or ended   *)
(* can have no effect any more: its name is free for another one.          *)
Garbage(c) ==
    /\ ~Fresh(c) /\ ~Running(c)
    /\ \A t \in Tasks : wait[t].on # c
Collect(c) ==
    /\ Garbage(c)
    /\ client' = [client EXCEPT ![c] = Unused]
    /\ UNCHANGED wait

-----------------------------------------------------------------------------
(* What the servers, the processes and the clock do.                       *)

(* Mutant: a request has no timeout.                                       *)
NoTimeout(t) == FALSE /\ UNCHANGED connections

(* withTimeout: of a POST, around the fetch only.                          *)
Timeout(t) ==
    /\ wait[t].got = "waiting"
    /\ wait' = [wait EXCEPT ![t] = Refused(@.on)]
    /\ UNCHANGED client

(* "rejected" stands for an error field, a status that is not ok, and a    *)
(* result that cannot be used.                                             *)
Answered(t) ==
    /\ wait[t].got = "waiting"
    /\ \E got \in {"ok", "rejected"} : wait' = [wait EXCEPT ![t].got = got]
    /\ UNCHANGED client

(* A line of the child's stdout.                                           *)
HandleResponse(t) ==
    /\ Answered(t)
    /\ client[wait[t].on].proc \in {"alive", "signalled"}

(* The headers of the response to a POST: the fetch failed, the status is  *)
(* not ok, or the body is read, which may take any time.                   *)
PostHeaders(t) ==
    /\ wait[t].got = "waiting" /\ client[wait[t].on].kind = "http"
    /\ \E got \in {"body", "rejected"} : wait' = [wait EXCEPT ![t].got = got]
    /\ UNCHANGED client
PostBody(t) ==
    /\ wait[t].got = "body"
    /\ \E got \in {"ok", "rejected"} : wait' = [wait EXCEPT ![t].got = got]
    /\ UNCHANGED client

(* "exit" rejects what is pending and marks the client as closed.          *)
ProcessExit(c) ==
    /\ client[c].proc \in {"alive", "signalled"}
    /\ client' = [client EXCEPT ![c].proc = "gone", ![c].connected = FALSE]
    /\ wait' = RejectPending(wait, {c})

(* "error" without "exit": the command could not be spawned.               *)
SpawnError(c) ==
    /\ client[c].proc = "alive" /\ ~client[c].connected
    /\ client' = [client EXCEPT ![c].proc = "gone"]
    /\ wait' = RejectPending(wait, {c})

Environment ==
    \/ \E t \in Tasks :
         Timeout(t) \/ HandleResponse(t) \/ PostHeaders(t) \/ PostBody(t)
    \/ \E c \in Clients : ProcessExit(c) \/ SpawnError(c)
=============================================================================
