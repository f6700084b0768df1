----------------------------- MODULE A2AGateway -----------------------------
(***************************************************************************)
(* packages/a2a-gateway: submitTask routes a task to an agent and retries  *)
(* it; cancelTask, registrations and the health checks run in between its  *)
(* awaits.  A task is one call of submitTask with a requestId of its own.  *)
(*                                                                         *)
(* The maps of the code are read in insertion order, and the round-robin   *)
(* index picks among the matches: here any match may be picked.            *)
(***************************************************************************)
EXTENDS Naturals

CONSTANTS
    Tasks,          \* request ids
    Agents,         \* agent ids
    Capable,        \* agents whose card has a capability of the payloads
    MaxRetries,     \* config.maxRetries
    MaxClients,     \* bound: registrations of remote agents
    None            \* no agent

ASSUME A2AGatewayAssumption ==
    /\ Capable \subseteq Agents
    /\ MaxRetries \in Nat \ {0}
    /\ MaxClients \in Nat
    /\ None \notin Agents

VARIABLES
    local,      \* localCards: agents with a local card
    remote,     \* remoteAgents: agent -> number of its client, 0 without one
    clients,    \* clients created so far
    health,     \* agentHealth: agent -> "none", "healthy" or "unhealthy"
    probed,     \* agents whose health check is in flight
    pc,         \* task -> where its submitTask is
    status,     \* task -> status of its A2ATaskState, "none" before it
    routedTo,   \* task -> the agent of its routing decision, or None
    attempts,   \* task -> attempts counted in its state
    client,     \* task -> the client its request was sent with
    result,     \* task -> "none", "accepted" or "failed": what the call returns
    sends,      \* task -> requests sent to agents (history)
    cancelled   \* tasks for which cancelTask returned true (history)

registry == <<local, remote, clients, health, probed>>
task == <<pc, status, routedTo, attempts, client, result, sends, cancelled>>
vars == <<registry, task>>

Settled == {"completed", "failed"}

Init ==
    /\ local = {}
    /\ remote = [a \in Agents |-> 0]
    /\ clients = 0
    /\ health = [a \in Agents |-> "none"]
    /\ probed = {}
    /\ pc = [t \in Tasks |-> "idle"]
    /\ status = [t \in Tasks |-> "none"]
    /\ routedTo = [t \in Tasks |-> None]
    /\ attempts = [t \in Tasks |-> 0]
    /\ client = [t \in Tasks |-> 0]
    /\ result = [t \in Tasks |-> "none"]
    /\ sends = [t \in Tasks |-> 0]
    /\ cancelled = {}

-----------------------------------------------------------------------------
(* The registry.                                                           *)

RegisterCard(a) ==
    /\ local' = local \cup {a}
    /\ UNCHANGED <<remote, clients, health, probed, task>>

(* Mutant: the client of the agent stays.                                  *)
HalfUnregisterCard(a) ==
    /\ local' = local \ {a}
    /\ health' = [health EXCEPT ![a] = "none"]
    /\ UNCHANGED <<remote, clients, probed, task>>

UnregisterCard(a) ==
    /\ local' = local \ {a}
    /\ remote' = [remote EXCEPT ![a] = 0]
    /\ health' = [health EXCEPT ![a] = "none"]
    /\ UNCHANGED <<clients, probed, task>>

(* Mutant: a state of health nobody knows.                                 *)
UnknownRegisterRemoteAgent(a) ==
    /\ clients < MaxClients
    /\ clients' = clients + 1
    /\ remote' = [remote EXCEPT ![a] = clients + 1]
    /\ health' = [health EXCEPT ![a] = "unknown"]
    /\ UNCHANGED <<local, probed, task>>

RegisterRemoteAgent(a) ==
    /\ clients < MaxClients
    /\ clients' = clients + 1
    /\ remote' = [remote EXCEPT ![a] = clients + 1]
    /\ health' = [health EXCEPT ![a] = "healthy"]
    /\ UNCHANGED <<local, probed, task>>

(* runHealthChecks: the answer is recorded under the id the check started  *)
(* with, whatever became of the agent meanwhile.  A round may overtake the *)
(* one before it, so any agents may be under check together.               *)
StartHealthCheck(a) ==
    /\ remote[a] # 0 /\ a \notin probed
    /\ probed' = probed \cup {a}
    /\ UNCHANGED <<local, remote, clients, health, task>>

EndHealthCheck(a) ==
    /\ a \in probed
    /\ probed' = probed \ {a}
    /\ \E h \in {"healthy", "unhealthy"} : health' = [health EXCEPT ![a] = h]
    /\ UNCHANGED <<local, remote, clients, task>>

-----------------------------------------------------------------------------
(* Routing.                                                                *)

IsAgentHealthy(a) ==
    \/ a \in local /\ remote[a] = 0
    \/ health[a] = "healthy"

ListHealthyAgents ==
    {a \in Agents : health[a] = "healthy" \/ (a \in local /\ health[a] = "none")}

Matching == {a \in Capable : (a \in local \/ remote[a] # 0) /\ IsAgentHealthy(a)}

(* The candidates of determineRouting.  Only a remote agent has a client:  *)
(* reading the endpoint of any other throws.                               *)
Candidates(target) ==
    IF remote[target] # 0 /\ IsAgentHealthy(target) THEN {target}
    ELSE IF Matching # {} THEN Matching
    ELSE ListHealthyAgents

(* submitTask up to its first await.                                       *)
SubmitTask(t, target) ==
    /\ pc[t] = "idle"
    /\ status' = [status EXCEPT ![t] = "pending"]
    /\ \/ /\ Candidates(target) = {}
          /\ pc' = [pc EXCEPT ![t] = "unrouted"]
          /\ UNCHANGED routedTo
       \/ \E a \in Candidates(target) :
            IF remote[a] = 0
              THEN /\ pc' = [pc EXCEPT ![t] = "unrouted"]
                   /\ UNCHANGED routedTo
              ELSE /\ pc' = [pc EXCEPT ![t] = "routed"]
                   /\ routedTo' = [routedTo EXCEPT ![t] = a]
    /\ UNCHANGED <<registry, attempts, client, result, sends, cancelled>>

(* ROUTING_FAILED, or the error routing threw: the state stays as it is.   *)
Unrouted(t) ==
    /\ pc[t] = "unrouted"
    /\ pc' = [pc EXCEPT ![t] = "done"]
    /\ result' = [result EXCEPT ![t] = "failed"]
    /\ UNCHANGED <<registry, status, routedTo, attempts, client, sends, cancelled>>

-----------------------------------------------------------------------------
(* executeTaskWithRetries.                                                 *)

(* Mutant: every result completes the task.                                *)
BlindFinish(t, res) ==
    /\ pc' = [pc EXCEPT ![t] = "done"]
    /\ result' = [result EXCEPT ![t] = res]
    /\ status' = [status EXCEPT ![t] = "completed"]
    /\ UNCHANGED <<registry, routedTo, client, cancelled>>

(* The call returns: its result and the final status are set together.     *)
Finish(t, res) ==
    /\ pc' = [pc EXCEPT ![t] = "done"]
    /\ result' = [result EXCEPT ![t] = res]
    /\ status' = [status EXCEPT ![t] = IF res = "failed" THEN "failed" ELSE "completed"]
    /\ UNCHANGED <<registry, routedTo, client, cancelled>>

(* The next attempt counts, sets the status, and only then looks at it: a  *)
(* cancellation is overwritten before the test that should find it.        *)
Attempt(t) ==
    LET a == routedTo[t] IN
    /\ attempts' = [attempts EXCEPT ![t] = @ + 1]
    /\ CASE a \in local ->
              Finish(t, "accepted") /\ UNCHANGED sends
         [] a \notin local /\ remote[a] = 0 ->
              Finish(t, "failed") /\ UNCHANGED sends
         [] OTHER ->
              /\ status' = [status EXCEPT ![t] =
                              IF attempts[t] = 0 THEN "accepted" ELSE "in_progress"]
              /\ pc' = [pc EXCEPT ![t] = "sent"]
              /\ client' = [client EXCEPT ![t] = remote[a]]
              /\ sends' = [sends EXCEPT ![t] = @ + 1]
              /\ UNCHANGED <<registry, routedTo, result, cancelled>>

(* Mutant: one attempt too many.                                           *)
LaxMayRetry(t) == attempts[t] <= MaxRetries

MayRetry(t) == attempts[t] < MaxRetries

GiveUp(t) == Finish(t, "failed") /\ UNCHANGED <<attempts, sends>>

Routed(t) == pc[t] = "routed" /\ Attempt(t)

(* The answer is an event stream: sendTask returns the promise of its end  *)
(* without awaiting it, so its finally forgets the abort controller while  *)
(* the stream is still being read.                                         *)
Streams(t) ==
    /\ pc[t] = "sent"
    /\ pc' = [pc EXCEPT ![t] = "streaming"]
    /\ UNCHANGED <<registry, status, routedTo, attempts, client, result, sends, cancelled>>

(* The request, or the stream it was answered with, is still open.         *)
Answering(t) == pc[t] \in {"sent", "streaming"}

(* The agent accepted or completed the task.                               *)
Accepted(t) ==
    /\ Answering(t)
    /\ Finish(t, "accepted")
    /\ UNCHANGED <<attempts, sends>>

(* The agent answered "failed": AGENT_REJECTED is retried at once.         *)
Refused(t) ==
    /\ Answering(t)
    /\ IF MayRetry(t) THEN Attempt(t) ELSE GiveUp(t)

(* Mutant: nobody hears of an aborted request.                             *)
DeafTimedOut(t) ==
    /\ pc[t] = "sent"
    /\ pc' = [pc EXCEPT ![t] = "sleeping"]
    /\ UNCHANGED <<registry, status, routedTo, attempts, client, result, sends, cancelled>>

(* A timeout, an abort or ECONNREFUSED: retried after a sleep.             *)
TimedOut(t) ==
    /\ pc[t] \in {"sent", "aborted"}
    /\ pc' = [pc EXCEPT ![t] = "sleeping"]
    /\ UNCHANGED <<registry, status, routedTo, attempts, client, result, sends, cancelled>>

(* Any other error, an HTTP status among them: not retryable.              *)
Errored(t) == Answering(t) /\ GiveUp(t)

Wake(t) ==
    /\ pc[t] = "sleeping"
    /\ IF MayRetry(t) THEN Attempt(t) ELSE GiveUp(t)

(* Mutant: any task can be cancelled.                                      *)
EagerCancelTask(t) ==
    /\ status[t] # "none"
    /\ status' = [status EXCEPT ![t] = "rejected"]
    /\ cancelled' = cancelled \cup {t}
    /\ pc' = [pc EXCEPT ![t] = IF @ = "sent" THEN "aborted" ELSE @]
    /\ UNCHANGED <<registry, routedTo, attempts, client, result, sends>>

(* cancelTask: marks the state and aborts the request of the client that   *)
(* is registered now, unless it is answered with a stream.                 *)
CancelTask(t) ==
    /\ status[t] \notin Settled \cup {"none"}
    /\ status' = [status EXCEPT ![t] = "rejected"]
    /\ cancelled' = cancelled \cup {t}
    /\ IF /\ pc[t] = "sent"
          /\ remote[routedTo[t]] = client[t]
         THEN pc' = [pc EXCEPT ![t] = "aborted"]
         ELSE UNCHANGED pc
    /\ UNCHANGED <<registry, routedTo, attempts, client, result, sends>>

-----------------------------------------------------------------------------
Proceed(t) ==
    \/ Unrouted(t) \/ Routed(t) \/ Streams(t) \/ Accepted(t) \/ Refused(t)
    \/ TimedOut(t) \/ Errored(t) \/ Wake(t)

Next ==
    \/ \E a \in Agents :
         \/ RegisterCard(a) \/ UnregisterCard(a) \/ RegisterRemoteAgent(a)
         \/ StartHealthCheck(a) \/ EndHealthCheck(a)
    \/ \E t \in Tasks : CancelTask(t) \/ Proceed(t) \/ \E a \in Agents : SubmitTask(t, a)

(* Timers fire, and a request is answered or times out.  The timeout of    *)
(* sendTask covers the headers: that an agent ends the body or the stream  *)
(* it began is assumed of the agent.                                                   *)
Spec == Init /\ [][Next]_vars /\ \A t \in Tasks : WF_vars(Proceed(t))

-----------------------------------------------------------------------------
(* Properties.                                                             *)

TypeOK ==
    /\ local \subseteq Agents
    /\ remote \in [Agents -> 0..MaxClients]
    /\ clients \in 0..MaxClients
    /\ health \in [Agents -> {"none", "healthy", "unhealthy"}]
    /\ probed \subseteq Agents
    /\ pc \in [Tasks -> {"idle", "unrouted", "routed", "sent", "streaming",
                         "aborted", "sleeping", "done"}]
    /\ status \in [Tasks -> {"none", "pending", "accepted", "in_progress",
                             "rejected"} \cup Settled]
    /\ routedTo \in [Tasks -> Agents \cup {None}]
    /\ attempts \in [Tasks -> 0..MaxRetries]
    /\ client \in [Tasks -> 0..MaxClients]
    /\ result \in [Tasks -> {"none", "accepted", "failed"}]
    /\ sends \in [Tasks -> 0..MaxRetries]
    /\ cancelled \subseteq Tasks

(* A task that was routed ends with the status of the result its caller    *)
(* got, whatever was cancelled, registered or found ill meanwhile, and is  *)
(* not settled before.                                                     *)
SettledAsReturned ==
    \A t \in Tasks :
        /\ pc[t] = "done" /\ routedTo[t] # None =>
             status[t] = IF result[t] = "failed" THEN "failed" ELSE "completed"
        /\ pc[t] # "done" => status[t] \notin Settled

(* An agent gets a task at most MaxRetries times, cancelled or not.        *)
SendsBounded == \A t \in Tasks : sends[t] <= attempts[t] /\ attempts[t] <= MaxRetries

(* A registered remote agent has a health record, so that isAgentHealthy   *)
(* can find it: no order of registration, removal and late health checks   *)
(* leaves one without.                                                     *)
RemoteHasHealth == \A a \in Agents : remote[a] # 0 => health[a] # "none"

(* What getTaskStatus once reported as settled is never changed.           *)
SettledIsFinal ==
    [][\A t \in Tasks : status[t] \in Settled => status'[t] = status[t]]_vars

(* Every submitTask returns: the retries are finite.                       *)
EverySubmitReturns == \A t \in Tasks : pc[t] # "idle" ~> pc[t] = "done"
=============================================================================
