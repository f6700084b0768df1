----------------------------- MODULE JobQueues -----------------------------
(***************************************************************************)
(* The four BullMQ queues of db/src/queue, as their wrappers and the queue *)
(* routes use them.  A job is known by its id: the run of a team, a notice *)
(* about a run, a chunk of a batch, a call of a tool.  An id that a queue  *)
(* still has is not added again.                                           *)
(***************************************************************************)
EXTENDS Naturals, FiniteSets, Sequences

CONSTANTS
    JobIds,         \* <<queue, name>> or <<queue, name, chunk>>
    Slots,          \* jobs the workers process at a time
    NoSlot,
    attempts,       \* of the default job options
    maxStalledCount,
    MaxMishaps      \* bound: failures, crashes, lost locks, removals

Queues == {"team", "complete", "failed", "approval", "batch", "tool"}
Notices == {"complete", "failed", "approval"}   \* of the notification queue

ASSUME QueueAssumption ==
    /\ \A id \in JobIds : id[1] \in Queues
    /\ IsFiniteSet(JobIds) /\ IsFiniteSet(Slots) /\ NoSlot \notin Slots
    /\ attempts \in Nat \ {0} /\ maxStalledCount \in Nat /\ MaxMishaps \in Nat

VARIABLES
    jobs,           \* id -> job
    paused,         \* the queues are paused
    mishaps

queueVars == <<jobs, paused, mishaps>>

States == {"absent", "waiting", "active", "delayed", "completed", "failed"}
Outcomes == {"none", "completed", "failed"}
(* started: the attempts begun, made: those that were rejected.            *)
Job == [state : States, owner : Slots \cup {NoSlot}, started : Nat, made : Nat,
        stalls : 0..MaxMishaps, outcome : Outcomes]
NoJob == [state |-> "absent", owner |-> NoSlot, started |-> 0, made |-> 0, stalls |-> 0,
          outcome |-> "none"]

QueueTypeOK == jobs \in [JobIds -> Job] /\ paused \in BOOLEAN /\ mishaps \in 0..MaxMishaps

QueueInit == jobs = [id \in JobIds |-> NoJob] /\ paused = FALSE /\ mishaps = 0

Mishap == mishaps < MaxMishaps /\ mishaps' = mishaps + 1
Is(id, state) == jobs[id].state = state

-----------------------------------------------------------------------------
(* Mutant: a job of the same id is replaced.                               *)
ReplaceAdded(id) == [jobs EXCEPT ![id] = [NoJob EXCEPT !.state = "waiting"]]

(* Queue.add with a jobId.                                                 *)
Added(id) == IF Is(id, "absent") THEN [jobs EXCEPT ![id] = [NoJob EXCEPT !.state = "waiting"]]
             ELSE jobs

(* cancelJob, which only two of the queues have: a job that a worker has   *)
(* locked cannot be removed, which rejects the request.                    *)
Removable(id) == jobs[id].state \notin {"absent", "active"}
Removed(ids) == [id \in JobIds |-> IF id \in ids /\ Removable(id) THEN NoJob ELSE jobs[id]]
CancelJob(id) ==
    /\ id[1] \in {"team", "tool"}
    /\ Removable(id) /\ Mishap
    /\ jobs' = Removed({id})
    /\ UNCHANGED paused

(* cancelBatch removes what it finds, chunk by chunk; one that is locked   *)
(* rejects the whole without undoing the rest.                             *)
CancelBatch(ids) ==
    /\ \E id \in ids : Removable(id)
    /\ Mishap
    /\ jobs' = Removed(ids)
    /\ UNCHANGED paused

(* job.retry(), of a failed job only: it keeps the attempts it has made.   *)
RetryJob(id) ==
    /\ id[1] = "team" /\ Is(id, "failed")
    /\ jobs' = [jobs EXCEPT ![id].state = "waiting"]
    /\ UNCHANGED <<paused, mishaps>>

(* cleanJobs, and the age limits of the default options.                   *)
CleanJobs ==
    /\ \E id \in JobIds : jobs[id].state \in {"completed", "failed"}
    /\ Mishap
    /\ jobs' = [id \in JobIds |-> IF jobs[id].state \in {"completed", "failed"} THEN NoJob
                                  ELSE jobs[id]]
    /\ UNCHANGED paused

PauseResume == Mishap /\ paused' = ~paused /\ UNCHANGED jobs

-----------------------------------------------------------------------------
(* What BullMQ does by itself.                                             *)
Taken(id, s) == [jobs EXCEPT ![id].state = "active", ![id].owner = s, ![id].started = @ + 1]

(* The backoff of a failed attempt is over.                                *)
Promote(id) ==
    /\ Is(id, "delayed")
    /\ jobs' = [jobs EXCEPT ![id].state = "waiting"]
    /\ UNCHANGED <<paused, mishaps>>

(* A job whose lock was not renewed is waiting again, or has failed.       *)
Stalled(id) ==
    IF jobs[id].stalls < maxStalledCount
    THEN [jobs EXCEPT ![id].state = "waiting", ![id].owner = NoSlot, ![id].stalls = @ + 1]
    ELSE [jobs EXCEPT ![id].state = "failed", ![id].owner = NoSlot, ![id].stalls = @ + 1]

(* The processor of slot s has ended; without the lock nothing comes of it.*)
Settled(id, s, result) ==
    IF jobs[id].owner # s THEN jobs
    ELSE [jobs EXCEPT ![id].state = "completed", ![id].owner = NoSlot, ![id].outcome = result]
Rejected(id, s) ==
    IF jobs[id].owner # s THEN jobs
    ELSE IF jobs[id].made + 1 < attempts
    THEN [jobs EXCEPT ![id].state = "delayed", ![id].owner = NoSlot, ![id].made = @ + 1]
    ELSE [jobs EXCEPT ![id].state = "failed", ![id].owner = NoSlot, ![id].made = @ + 1]
=============================================================================
