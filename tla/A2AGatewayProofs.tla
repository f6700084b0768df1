-------------------------- MODULE A2AGatewayProofs --------------------------
(***************************************************************************)
(* Proofs about A2AGateway, for any tasks, agents and number of retries.   *)
(*                                                                         *)
(* IInv says where a task can be with which status and attempts.  One      *)
(* lemma per group of actions shows that a step keeps it.                  *)
(***************************************************************************)
EXTENDS A2AGateway, TLAPS

(* What the state of one task says about itself: an unrouted one has no    *)
(* agent, a routed one has one and begins with no attempt, and only a call *)
(* that is over has settled.                                               *)
Sane(t) ==
    /\ pc[t] \in {"idle", "unrouted"} => routedTo[t] = None
    /\ pc[t] \in {"routed", "sent", "streaming", "aborted", "sleeping"} => routedTo[t] \in Agents
    /\ pc[t] \in {"idle", "unrouted", "routed"} => attempts[t] = 0
    /\ sends[t] <= attempts[t]
    /\ pc[t] = "done" /\ routedTo[t] # None =>
         status[t] = IF result[t] = "failed" THEN "failed" ELSE "completed"
    /\ pc[t] # "done" => status[t] \notin Settled

IInv ==
    /\ TypeOK
    /\ \A t \in Tasks : Sane(t)
    /\ RemoteHasHealth

-----------------------------------------------------------------------------
(* The initial state is sane.                                              *)
LEMMA InitInv == Init => IInv
  BY A2AGatewayAssumption DEF Init, IInv, TypeOK, Sane, RemoteHasHealth, Settled

(* Registering and unregistering agents and the answers of health checks   *)
(* leave the tasks alone, and every remote agent keeps a health record.    *)
LEMMA RegistryKeeps ==
  ASSUME IInv, NEW a \in Agents,
         \/ RegisterCard(a) \/ UnregisterCard(a) \/ RegisterRemoteAgent(a)
         \/ StartHealthCheck(a) \/ EndHealthCheck(a)
  PROVE  IInv'
<1> USE A2AGatewayAssumption DEF task, IInv, RemoteHasHealth
<1>1. CASE RegisterCard(a)
  BY <1>1 DEF RegisterCard, TypeOK, Sane
<1>2. CASE UnregisterCard(a)
  BY <1>2 DEF UnregisterCard, TypeOK, Sane
<1>3. CASE RegisterRemoteAgent(a)
  BY <1>3 DEF RegisterRemoteAgent, TypeOK, Sane
<1>4. CASE StartHealthCheck(a)
  BY <1>4 DEF StartHealthCheck, TypeOK, Sane
<1>5. CASE EndHealthCheck(a)
  BY <1>5 DEF EndHealthCheck, TypeOK, Sane
<1> QED BY <1>1, <1>2, <1>3, <1>4, <1>5

(* submitTask starts with no attempt and no result.                        *)
LEMMA SubmitKeeps ==
  ASSUME IInv, NEW t \in Tasks, NEW a \in Agents, SubmitTask(t, a)
  PROVE  IInv'
<1> USE A2AGatewayAssumption DEF registry, IInv, RemoteHasHealth
<1>1. Candidates(a) \subseteq Agents
  BY DEF Candidates, Matching, ListHealthyAgents, TypeOK
<1>2. CASE pc' = [pc EXCEPT ![t] = "unrouted"] /\ UNCHANGED routedTo
  BY <1>2 DEF SubmitTask, TypeOK, Sane, Settled
<1>3. CASE \E b \in Agents : /\ pc' = [pc EXCEPT ![t] = "routed"]
                             /\ routedTo' = [routedTo EXCEPT ![t] = b]
  BY <1>3 DEF SubmitTask, TypeOK, Sane, Settled
<1> QED BY <1>1, <1>2, <1>3 DEF SubmitTask

(* A call that is about to return settles its task with its result.        *)
LEMMA FinishKeeps ==
  ASSUME IInv, NEW t \in Tasks, NEW res \in {"accepted", "failed"},
         pc[t] \in {"routed", "sent", "streaming", "sleeping"}, Finish(t, res),
         \/ UNCHANGED attempts
         \/ attempts[t] < MaxRetries /\ attempts' = [attempts EXCEPT ![t] = @ + 1],
         UNCHANGED sends
  PROVE  IInv'
<1> USE A2AGatewayAssumption DEF registry, IInv, RemoteHasHealth
<1>1. TypeOK'
  BY DEF Finish, TypeOK, Settled
<1>2. ASSUME NEW u \in Tasks PROVE Sane(u)'
  BY <1>2 DEF Finish, TypeOK, Sane, Settled
<1> QED BY <1>1, <1>2 DEF Finish

(* An attempt is made only while one is left.                              *)
LEMMA AttemptKeeps ==
  ASSUME IInv, NEW t \in Tasks, pc[t] \in {"routed", "sent", "streaming", "sleeping"},
         attempts[t] < MaxRetries, Attempt(t)
  PROVE  IInv'
<1> USE A2AGatewayAssumption DEF registry, IInv, RemoteHasHealth
<1>1. CASE /\ attempts' = [attempts EXCEPT ![t] = @ + 1]
           /\ Finish(t, "accepted") /\ UNCHANGED sends
  BY <1>1, FinishKeeps
<1>2. CASE /\ attempts' = [attempts EXCEPT ![t] = @ + 1]
           /\ Finish(t, "failed") /\ UNCHANGED sends
  BY <1>2, FinishKeeps
<1>3. CASE /\ attempts' = [attempts EXCEPT ![t] = @ + 1]
           /\ status' = [status EXCEPT ![t] =
                           IF attempts[t] = 0 THEN "accepted" ELSE "in_progress"]
           /\ pc' = [pc EXCEPT ![t] = "sent"]
           /\ client' = [client EXCEPT ![t] = remote[routedTo[t]]]
           /\ sends' = [sends EXCEPT ![t] = @ + 1]
           /\ remote[routedTo[t]] \in 0..MaxClients
           /\ UNCHANGED <<registry, routedTo, result, cancelled>>
  <2>1. TypeOK'
    BY <1>3 DEF TypeOK, Sane
  <2>2. ASSUME NEW u \in Tasks PROVE Sane(u)'
    BY <1>3, <2>2 DEF TypeOK, Sane, Settled
  <2> QED BY <1>3, <2>1, <2>2
<1>4. remote[routedTo[t]] \in 0..MaxClients
  BY DEF TypeOK, Sane
<1> QED BY <1>1, <1>2, <1>3, <1>4 DEF Attempt

(* The last failure is the result.                                         *)
LEMMA GiveUpKeeps ==
  ASSUME IInv, NEW t \in Tasks, pc[t] \in {"sent", "streaming", "sleeping"}, GiveUp(t)
  PROVE  IInv'
BY FinishKeeps DEF GiveUp

(* Every step of executeTaskWithRetries and of its caller.                 *)
LEMMA ProceedKeeps ==
  ASSUME IInv, NEW t \in Tasks, Proceed(t)
  PROVE  IInv'
<1> USE A2AGatewayAssumption
<1>1. CASE Unrouted(t)
  BY <1>1 DEF Unrouted, registry, IInv, RemoteHasHealth, TypeOK, Sane, Settled
<1>2. CASE Routed(t)
  <2>1. attempts[t] < MaxRetries
    BY <1>2 DEF Routed, IInv, Sane
  <2> QED BY <1>2, <2>1, AttemptKeeps DEF Routed
<1>3. CASE Accepted(t)
  BY <1>3, FinishKeeps DEF Accepted, Answering
<1>4. CASE Refused(t)
  BY <1>4, AttemptKeeps, GiveUpKeeps DEF Refused, MayRetry, Answering
<1>5. CASE TimedOut(t)
  BY <1>5 DEF TimedOut, registry, IInv, RemoteHasHealth, TypeOK, Sane, Settled
<1>6. CASE Errored(t)
  BY <1>6, GiveUpKeeps DEF Errored, Answering
<1>7. CASE Wake(t)
  BY <1>7, AttemptKeeps, GiveUpKeeps DEF Wake, MayRetry
<1>8. CASE Streams(t)
  BY <1>8 DEF Streams, registry, IInv, RemoteHasHealth, TypeOK, Sane, Settled
<1> QED BY <1>1, <1>2, <1>3, <1>4, <1>5, <1>6, <1>7, <1>8 DEF Proceed

(* A cancellation touches only a task that has not settled.                *)
LEMMA CancelKeeps ==
  ASSUME IInv, NEW t \in Tasks, CancelTask(t)
  PROVE  IInv'
<1> USE A2AGatewayAssumption
<1>1. TypeOK'
  BY DEF CancelTask, registry, IInv, TypeOK
<1>2. ASSUME NEW u \in Tasks PROVE Sane(u)'
  BY <1>2 DEF CancelTask, registry, IInv, TypeOK, Sane, Settled
<1> QED BY <1>1, <1>2 DEF CancelTask, registry, IInv, RemoteHasHealth

(* Every step keeps the invariant.                                         *)
LEMMA NextInv == IInv /\ [Next]_vars => IInv'
<1> SUFFICES ASSUME IInv, [Next]_vars PROVE IInv'
  OBVIOUS
<1>1. CASE \E a \in Agents :
             \/ RegisterCard(a) \/ UnregisterCard(a) \/ RegisterRemoteAgent(a)
             \/ StartHealthCheck(a) \/ EndHealthCheck(a)
  BY <1>1, RegistryKeeps
<1>2. CASE \E t \in Tasks : CancelTask(t)
  BY <1>2, CancelKeeps
<1>3. CASE \E t \in Tasks : Proceed(t)
  BY <1>3, ProceedKeeps
<1>4. CASE \E t \in Tasks, a \in Agents : SubmitTask(t, a)
  BY <1>4, SubmitKeeps
<1>5. CASE UNCHANGED vars
  BY <1>5 DEF vars, registry, task, IInv, RemoteHasHealth, TypeOK, Sane
<1> QED BY <1>1, <1>2, <1>3, <1>4, <1>5 DEF Next

(* The invariant holds in every reachable state of submitTask, cancelTask, *)
(* the registry and the health checks.                                     *)
THEOREM Invariance == Spec => []IInv
BY InitInv, NextInv, PTL DEF Spec

-----------------------------------------------------------------------------
(* The maps of the gateway and the task states keep their types, the       *)
(* counter of attempts within config.maxRetries.                           *)
THEOREM TypeCorrect == Spec => []TypeOK
BY Invariance, PTL DEF IInv

(* No agent is sent a task more often than config.maxRetries, however      *)
(* refusals, timeouts and cancellations follow each other.                 *)
THEOREM SendsAreBounded == Spec => []SendsBounded
<1>1. ASSUME IInv, NEW t \in Tasks
      PROVE  sends[t] <= attempts[t] /\ attempts[t] <= MaxRetries
  <2>1. attempts[t] \in 0..MaxRetries /\ sends[t] <= attempts[t]
    BY <1>1 DEF IInv, TypeOK, Sane
  <2> QED BY <2>1, A2AGatewayAssumption
<1>2. IInv => SendsBounded
  BY <1>1 DEF SendsBounded
<1> QED BY <1>2, Invariance, PTL

(* A routed call that has returned left the status of its result, and no   *)
(* task settles before its call returns.                                   *)
THEOREM SettledWithResult == Spec => []SettledAsReturned
<1>1. IInv => SettledAsReturned
  BY DEF IInv, Sane, SettledAsReturned
<1> QED BY <1>1, Invariance, PTL

(* Every registered remote agent has a health record, whatever health      *)
(* checks were in flight when it came or went.                             *)
THEOREM HealthRecorded == Spec => []RemoteHasHealth
BY Invariance, PTL DEF IInv

(* A settled status is never changed: neither by a late cancellation nor   *)
(* by a retry.                                                             *)
THEOREM Finality == Spec => SettledIsFinal
<1>1. ASSUME IInv, [Next]_vars, NEW t \in Tasks, status[t] \in Settled
      PROVE  status'[t] = status[t]
  <2> USE <1>1
  <2>1. pc[t] = "done"
    BY DEF IInv, Sane
  <2>2. status[t] # "none"
    BY DEF Settled
  <2>3. ASSUME NEW u \in Tasks, Proceed(u) PROVE status'[t] = status[t]
    <3>1. u # t
      BY <2>1, <2>3 DEF Proceed, Unrouted, Routed, Accepted, Refused, TimedOut,
                        Errored, Wake, Streams, Answering
    <3>2. \/ UNCHANGED status
          \/ \E v : status' = [status EXCEPT ![u] = v]
      BY <2>3 DEF Proceed, Unrouted, Routed, Accepted, Refused, TimedOut,
                  Errored, Wake, Streams, Attempt, GiveUp, Finish
    <3> QED BY <3>1, <3>2 DEF IInv, TypeOK
  <2>4. ASSUME NEW u \in Tasks, CancelTask(u) PROVE status'[t] = status[t]
    BY <2>4 DEF CancelTask, IInv, TypeOK
  <2>5. ASSUME NEW u \in Tasks, NEW a \in Agents, SubmitTask(u, a)
        PROVE  status'[t] = status[t]
    BY <2>1, <2>5 DEF SubmitTask, IInv, TypeOK
  <2>6. ASSUME NEW a \in Agents,
               \/ RegisterCard(a) \/ UnregisterCard(a) \/ RegisterRemoteAgent(a)
               \/ StartHealthCheck(a) \/ EndHealthCheck(a)
        PROVE  status'[t] = status[t]
    BY <2>6 DEF RegisterCard, UnregisterCard, RegisterRemoteAgent,
                StartHealthCheck, EndHealthCheck, task
  <2>7. UNCHANGED vars => status'[t] = status[t]
    BY DEF vars, task
  <2> QED BY <2>3, <2>4, <2>5, <2>6, <2>7 DEF Next
<1>2. IInv /\ [Next]_vars => [\A t \in Tasks :
        status[t] \in Settled => status'[t] = status[t]]_vars
  BY <1>1
<1> QED BY <1>2, Invariance, PTL DEF Spec, SettledIsFinal
=============================================================================
