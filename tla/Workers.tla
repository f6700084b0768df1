------------------------------ MODULE Workers ------------------------------
(***************************************************************************)
(* The processors of infra/workers on top of JobQueues: the team worker,   *)
(* which sends a notice of what became of a run, the notification worker,  *)
(* which delivers it channel by channel, the batch worker, which goes      *)
(* through the items of a chunk, and the tool worker.                      *)
(***************************************************************************)
EXTENDS JobQueues, FiniteSetsExt, Functions

CONSTANTS
    Items,          \* batch -> how many items it has
    chunkSize,
    BeginsWith      \* pairs of batches: the ids of the first begin with that of the second

(* A run has an id for both of its notices; a batch has one for each chunk *)
(* that addBatchWithChunking cuts, and no other.                           *)
ASSUME WorkerAssumption ==
    /\ chunkSize \in Nat \ {0}
    /\ \A id \in JobIds : id[1] = "team" =>
         <<"complete", id[2]>> \in JobIds /\ <<"failed", id[2]>> \in JobIds
    /\ \A id \in JobIds : id[1] = "batch" =>
         /\ Items[id[2]] \in Nat /\ <<id[2], id[2]>> \in BeginsWith
         /\ id[3] \in Nat /\ id = <<"batch", id[2], id[3]>> /\ id[3] * chunkSize < Items[id[2]]
         /\ \A k \in 0..Items[id[2]] : k * chunkSize < Items[id[2]] => <<"batch", id[2], k>> \in JobIds

VARIABLES
    slot,           \* slot -> what its processor is doing
    added,          \* the ids that were ever added (history)
    runs,           \* id -> how often a processor has started on it (history)
    delivered,      \* <<notice, channel>> -> how often it was sent (history)
    counts          \* chunk -> the items its result counts, done and failed

workerOwn == <<slot, added, runs, delivered, counts>>

(* Default channels of the notices.                                        *)
Channels(id) == IF id[1] = "complete" THEN <<"in_app">> ELSE <<"in_app", "email">>
Deliveries == {<<id, ch>> : id \in {i \in JobIds : i[1] \in Notices}, ch \in {"in_app", "email"}}

(* addBatchWithChunking: chunk k has the items from k * chunkSize on.      *)
Cut(name) == {id \in JobIds : id[1] = "batch" /\ id[2] = name}
ChunkItems(id) == Min({chunkSize, Items[id[2]] - id[3] * chunkSize})

(* getJobsByBatchId: the jobs of every batch whose id begins with this one.*)
Chunks(name) == {id \in JobIds : id[1] = "batch" /\ <<id[2], name>> \in BeginsWith}

NoJobId == <<"none">>
Work == [at : {"idle", "begin", "notify", "finish", "apologize", "send", "item", "tool"},
         job : JobIds \cup {NoJobId}, done : Nat, failed : Nat]
Idle == [at |-> "idle", job |-> NoJobId, done |-> 0, failed |-> 0]
MaxRuns == 2 + MaxMishaps

WorkerTypeOK ==
    /\ QueueTypeOK
    /\ slot \in [Slots -> Work] /\ added \subseteq JobIds
    /\ runs \in [JobIds -> 0..MaxRuns] /\ delivered \in [Deliveries -> 0..MaxRuns]
    /\ counts \in [JobIds -> [done : Nat, failed : Nat]]

WorkerInit ==
    /\ QueueInit
    /\ slot = [s \in Slots |-> Idle] /\ added = {}
    /\ runs = [id \in JobIds |-> 0] /\ delivered = [d \in Deliveries |-> 0]
    /\ counts = [id \in JobIds |-> [done |-> 0, failed |-> 0]]

-----------------------------------------------------------------------------
(* The routes that submit a job; sendApprovalRequiredNotification.         *)
AddJob(id) ==
    /\ id[1] \in {"team", "tool", "approval"}
    /\ jobs' = Added(id) /\ added' = added \cup {id}
    /\ UNCHANGED <<paused, mishaps, slot, runs, delivered, counts>>

(* The chunks are added at the same time; some adds may be rejected.       *)
AddBatch(name) ==
    /\ Cut(name) # {}
    /\ \E ok \in SUBSET Cut(name) :
         /\ IF ok = Cut(name) THEN UNCHANGED mishaps ELSE Mishap
         /\ added' = added \cup ok
         /\ jobs' = [id \in JobIds |-> IF id \in ok THEN Added(id)[id] ELSE jobs[id]]
    /\ UNCHANGED <<paused, slot, runs, delivered, counts>>

FirstStep(id) == CASE id[1] = "team" -> "begin" [] id[1] = "tool" -> "tool"
                   [] id[1] = "batch" -> "item" [] OTHER -> "send"

Take(s, id) ==
    /\ slot[s] = Idle /\ Is(id, "waiting") /\ ~paused
    /\ jobs' = Taken(id, s)
    /\ slot' = [slot EXCEPT ![s] = [Idle EXCEPT !.at = FirstStep(id), !.job = id]]
    /\ runs' = [runs EXCEPT ![id] = @ + 1]
    /\ UNCHANGED <<paused, mishaps, added, delivered, counts>>

-----------------------------------------------------------------------------
(* TeamExecutionWorker.processJob.                                         *)
Id(s) == slot[s].job
At(s, step) == slot[s].at = step
Goes(s, step) == slot' = [slot EXCEPT ![s].at = step]
Ends(s, result) == slot' = [slot EXCEPT ![s] = Idle] /\ jobs' = Settled(Id(s), s, result)

(* The progress updates and the work between them.                         *)
Begin(s) ==
    /\ At(s, "begin")
    /\ \/ Goes(s, "notify") /\ UNCHANGED mishaps
       \/ Goes(s, "apologize") /\ Mishap
    /\ UNCHANGED <<jobs, paused, added, runs, delivered, counts>>

Notice(s, kind) == <<kind, Id(s)[2]>>
Sends(id) == jobs' = Added(id) /\ added' = added \cup {id}

SendRunComplete(s) ==
    /\ At(s, "notify")
    /\ \/ Sends(Notice(s, "complete")) /\ Goes(s, "finish") /\ UNCHANGED mishaps
       \/ Mishap /\ Goes(s, "apologize") /\ UNCHANGED <<jobs, added>>
    /\ UNCHANGED <<paused, runs, delivered, counts>>

(* The last progress update, after the notice: it may still fail.          *)
Finish(s) ==
    /\ At(s, "finish")
    /\ \/ Ends(s, "completed") /\ UNCHANGED mishaps
       \/ Goes(s, "apologize") /\ Mishap /\ UNCHANGED jobs
    /\ UNCHANGED <<paused, added, runs, delivered, counts>>

(* Mutant: the failure is returned without a notice.                       *)
SilentSendRunFailed(s) ==
    /\ At(s, "apologize")
    /\ Ends(s, "failed")
    /\ UNCHANGED <<paused, mishaps, added, runs, delivered, counts>>

(* A failure is a result, not an error: the job counts as completed.  Only *)
(* when the notice fails too does the attempt fail.                        *)
SendRunFailed(s) ==
    /\ At(s, "apologize")
    /\ LET notice == Notice(s, "failed") IN
       \/ /\ jobs' = [Settled(Id(s), s, "failed") EXCEPT ![notice] = Added(notice)[notice]]
          /\ added' = added \cup {notice}
          /\ UNCHANGED mishaps
       \/ Mishap /\ jobs' = Rejected(Id(s), s) /\ UNCHANGED added
    /\ slot' = [slot EXCEPT ![s] = Idle]
    /\ UNCHANGED <<paused, runs, delivered, counts>>

-----------------------------------------------------------------------------
(* Mutant: an e-mail that nobody acknowledges is awaited for ever.         *)
ForeverSendNotification(s) ==
    /\ At(s, "send") /\ slot[s].done = 0
    /\ delivered' = [delivered EXCEPT ![<<Id(s), "in_app">>] = @ + 1]
    /\ IF Len(Channels(Id(s))) = 1 THEN Ends(s, "completed")
       ELSE slot' = [slot EXCEPT ![s].done = @ + 1] /\ UNCHANGED jobs
    /\ UNCHANGED <<paused, mishaps, added, runs, counts>>

(* NotificationWorker: a channel that fails is noted and the next is tried.*)
SendNotification(s) ==
    LET ch == Channels(Id(s))[slot[s].done + 1]
        last == slot[s].done + 1 = Len(Channels(Id(s)))
    IN
    /\ At(s, "send")
    /\ \/ delivered' = [delivered EXCEPT ![<<Id(s), ch>>] = @ + 1] /\ UNCHANGED mishaps
       \/ Mishap /\ UNCHANGED delivered
    /\ IF last THEN Ends(s, "completed")
       ELSE slot' = [slot EXCEPT ![s].done = @ + 1] /\ UNCHANGED jobs
    /\ UNCHANGED <<paused, added, runs, counts>>

(* An item is done or has failed; the results of the last go to the job,   *)
(* if it is still its own.                                                 *)
Item(s, kind) == [slot[s] EXCEPT ![kind] = @ + 1]
Ended(work) == work.done + work.failed = ChunkItems(work.job)
Returns(s, work) ==
    /\ Ends(s, IF work.failed = 0 THEN "completed" ELSE "failed")
    /\ counts' = IF jobs[Id(s)].owner # s THEN counts
                 ELSE [counts EXCEPT ![Id(s)] = [done |-> work.done, failed |-> work.failed]]

(* Mutant: an item that fails ends the batch.                              *)
AbortProcessItem(s) ==
    /\ At(s, "item")
    /\ \E kind \in {"done", "failed"} :
         /\ IF kind = "done" THEN UNCHANGED mishaps ELSE Mishap
         /\ IF kind = "failed" \/ Ended(Item(s, kind)) THEN Returns(s, Item(s, kind))
            ELSE slot' = [slot EXCEPT ![s] = Item(s, kind)] /\ UNCHANGED <<jobs, counts>>
    /\ UNCHANGED <<paused, added, runs, delivered>>

(* BatchProcessingWorker: an item is done or failed, and the next is tried.*)
ProcessItem(s) ==
    /\ At(s, "item")
    /\ \E kind \in {"done", "failed"} :
         /\ IF kind = "done" THEN UNCHANGED mishaps ELSE Mishap
         /\ IF Ended(Item(s, kind)) THEN Returns(s, Item(s, kind))
            ELSE slot' = [slot EXCEPT ![s] = Item(s, kind)] /\ UNCHANGED <<jobs, counts>>
    /\ UNCHANGED <<paused, added, runs, delivered>>

ExecuteTool(s) ==
    /\ At(s, "tool")
    /\ \/ Ends(s, "completed") /\ UNCHANGED mishaps
       \/ Ends(s, "failed") /\ Mishap
    /\ UNCHANGED <<paused, added, runs, delivered, counts>>

(* The lock is lost while the processor goes on, or the process dies.      *)
Stall(id) ==
    /\ Is(id, "active") /\ Mishap
    /\ jobs' = Stalled(id)
    /\ UNCHANGED <<paused, workerOwn>>

Crash(s) ==
    /\ ~At(s, "idle") /\ Mishap
    /\ slot' = [slot EXCEPT ![s] = Idle]
    /\ UNCHANGED <<jobs, paused, added, runs, delivered, counts>>

(* The lock of a job that nobody processes expires: no mishap of its own.  *)
Expire(id) ==
    /\ Is(id, "active") /\ \A s \in Slots : slot[s].job # id
    /\ jobs' = Stalled(id)
    /\ UNCHANGED <<paused, mishaps, workerOwn>>

Process(s) ==
    \/ Begin(s) \/ SendRunComplete(s) \/ Finish(s) \/ SendRunFailed(s)
    \/ SendNotification(s) \/ ProcessItem(s) \/ ExecuteTool(s)

Wrappers ==
    \/ \E id \in JobIds : CancelJob(id) \/ RetryJob(id) \/ Promote(id)
    \/ CleanJobs \/ PauseResume

WorkersNext ==
    \/ \E s \in Slots : Process(s) \/ Crash(s) \/ \E id \in JobIds : Take(s, id)
    \/ \E id \in JobIds : AddJob(id) \/ Stall(id) \/ Expire(id)
    \/ \E name \in {id[2] : id \in JobIds} :
         \/ AddBatch(name)
         \/ CancelBatch(Chunks(name)) /\ UNCHANGED workerOwn
    \/ Wrappers /\ UNCHANGED workerOwn

-----------------------------------------------------------------------------
(* Whoever waits for a run hears how it ended, and nothing else: when its  *)
(* job is completed the notice of that result was added, and a run of which*)
(* nothing failed and whose worker did not stall is not said to have       *)
(* failed.                                                                 *)
NoticesMatch == \A id \in JobIds : id[1] = "team" =>
    /\ jobs[id].outcome = "completed" => <<"complete", id[2]>> \in added
    /\ jobs[id].outcome = "failed" => <<"failed", id[2]>> \in added
    /\ <<"failed", id[2]>> \in added => mishaps > 0

(* A job is processed once, however often it is added, and once more for   *)
(* each of its own attempts that was rejected and each lock it lost, never *)
(* for the trouble of another job; an active job has one owner, which is   *)
(* working on it unless something went wrong; and no channel gets a notice *)
(* more often than its job was processed.                                  *)
JobsRunOnce == \A id \in JobIds :
    /\ jobs[id].started = jobs[id].made + jobs[id].stalls
                            + (IF jobs[id].state \in {"active", "completed"} THEN 1 ELSE 0)
    /\ runs[id] <= 1 + mishaps
    /\ Is(id, "active") <=> jobs[id].owner # NoSlot
    /\ \A s \in Slots : jobs[id].owner = s /\ mishaps = 0 => slot[s].job = id
    /\ id[1] \in Notices => \A ch \in {"in_app", "email"} : delivered[<<id, ch>>] <= runs[id]

(* getBatchProgress: the items of the jobs found, and those their results  *)
(* count; a job has a result when it is completed.                         *)
Found(name) == {id \in Chunks(name) : ~Is(id, "absent")}
TotalItems(name) == SumFunctionOnSet([id \in JobIds |-> IF id[1] = "batch" THEN ChunkItems(id) ELSE 0],
                                     Found(name))
Progress(name, kind) == SumFunctionOnSet([id \in JobIds |-> counts[id][kind]],
                                         {id \in Found(name) : Is(id, "completed")})

(* The progress of a batch never exceeds the items it says there are, and  *)
(* reaches them when all the jobs found are completed, in whatever order,  *)
(* by whichever workers and how often they were processed; and unless its  *)
(* id begins that of another batch (batch-processing-queue.ts:107), these  *)
(* are its own items, each of them once.                                   *)
ItemsProcessed == \A name \in {id[2] : id \in JobIds} :
    LET sum == Progress(name, "done") + Progress(name, "failed") IN
    /\ sum <= TotalItems(name)
    /\ (\A id \in Found(name) : Is(id, "completed")) => sum = TotalItems(name)
    /\ Chunks(name) = Cut(name) /\ Cut(name) # {} =>
         /\ TotalItems(name) <= Items[name]
         /\ Found(name) = Cut(name) => TotalItems(name) = Items[name]

(* A job that waits comes to an end, unless the queues are paused.         *)
JobsSettle == \A id \in JobIds :
    Is(id, "waiting") ~> (jobs[id].state \in {"completed", "failed", "absent"} \/ paused)
=============================================================================
