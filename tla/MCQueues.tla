------------------------------ MODULE MCQueues ------------------------------
EXTENDS Workers, WorkerManager, TeamHierarchy, TLC

CONSTANTS t1, t2, t3
MCRules == {[condition |-> "low", target |-> t3, priority |-> 1, enabled |-> TRUE],
            [condition |-> "low", target |-> t2, priority |-> 2, enabled |-> FALSE]}

VARIABLE part
allVars == <<part, queueVars, workerOwn, managerVars, teamVars>>

r1 == "r1"
b1 == "b1"
b10 == "b10"
MCItems == [b \in {b1, b10} |-> IF b = b1 THEN 3 ELSE 1]
MCBeginsWith == {<<b1, b1>>, <<b10, b10>>, <<b10, b1>>}
MCJobIds == {<<"team", r1>>, <<"complete", r1>>, <<"failed", r1>>, <<"approval", r1>>,
             <<"batch", b1, 0>>, <<"batch", b1, 1>>, <<"batch", b10, 0>>, <<"tool", "t1">>}
OfPart(id) == part = CASE id[1] = "batch" -> "batches" [] id[1] = "tool" -> "tools" [] OTHER -> "teams"

Init ==
    /\ part \in {"teams", "batches", "tools", "manager", "hierarchy"}
    /\ WorkerInit /\ ManagerInit /\ TeamInit

OfWorkers == UNCHANGED <<part, managerVars, teamVars>>
Jobs(A) == part \in {"teams", "batches", "tools"} /\ A /\ OfWorkers
Submit ==
    \/ \E id \in JobIds : OfPart(id) /\ AddJob(id)
    \/ \E name \in {b1, b10} : part = "batches" /\ AddBatch(name)
Mend(id) ==
    \/ Promote(id) /\ UNCHANGED workerOwn
    \/ Expire(id)
Trouble ==
    \/ \E s \in Slots : Crash(s)
    \/ \E id \in JobIds : Stall(id)
    \/ \E id \in JobIds : (CancelJob(id) \/ RetryJob(id)) /\ UNCHANGED workerOwn
    \/ \E name \in {b1, b10} : CancelBatch(Chunks(name)) /\ UNCHANGED workerOwn
    \/ (CleanJobs \/ PauseResume) /\ UNCHANGED workerOwn

Progressing ==
    \/ \E s \in Slots : Process(s) \/ \E id \in JobIds : Take(s, id)
    \/ \E id \in JobIds : Mend(id)

OfManager(A) == part = "manager" /\ A /\ UNCHANGED <<part, queueVars, workerOwn, teamVars>>
OfTeams(A) == part = "hierarchy" /\ A /\ UNCHANGED <<part, queueVars, workerOwn, managerVars>>

Next ==
    \/ Jobs(Submit) \/ Jobs(Trouble) \/ Jobs(Progressing)
    \/ OfManager(ManagerNext) \/ OfTeams(TeamNext)

(* The workers take the jobs that wait and go on with those they took; the *)
(* queue promotes delayed jobs and notices expired locks by itself.        *)
Fairness == WF_allVars(Jobs(Progressing))

Spec == Init /\ [][Next]_allVars /\ Fairness

(* The state of every part is of its type.                                 *)
TypeOK == WorkerTypeOK /\ ManagerTypeOK /\ TeamTypeOK

(* Work is done as it was asked for, by the workers and the teams it is    *)
(* given to: every run, chunk, notice and sub-task is accounted for once   *)
(* and its result is told, whatever is retried, stalls or fails on the way.*)
WorkAccounted ==
    NoticesMatch /\ JobsRunOnce /\ ItemsProcessed /\ WorkersOwned /\ LinksAgree /\ SummariesAddUp

(* What is found by going through the hierarchy is the same from above and *)
(* from below.                                                             *)
HierarchyTold == PathsAgree /\ StatisticsAddUp
=============================================================================
