----------------------------- MODULE RunService -----------------------------
(***************************************************************************)
(* The run handlers of apps/api over the tables runs, run_events and       *)
(* run_checkpoints.  Each replica of the API has its own orchestrator,     *)
(* whose checkpoints are in memory; the tables are shared.                 *)
(*                                                                         *)
(* A handler is a chain of awaits.  Every await is one statement of the    *)
(* database or one call of the orchestrator, so it is one action here, and *)
(* other handlers run in between: the row read by getRun may be stale when *)
(* upsertRun writes it back whole.                                         *)
(***************************************************************************)
EXTENDS Naturals, Sequences, SequencesExt

CONSTANTS
    Handlers,       \* requests
    Replicas,       \* processes of the API
    Runs,           \* run ids
    Kinds,          \* the routes that are called, a subset of Routes
    MaxFailures,    \* bound: awaits that reject
    MaxCrashes      \* bound: crashes of a replica

Routes == {"run", "approve", "resume", "cancel", "tool"}

ASSUME RunServiceAssumption ==
    /\ Kinds \subseteq Routes
    /\ MaxFailures \in Nat
    /\ MaxCrashes \in Nat

Finals == {"completed", "failed"}
Terminal == Finals \cup {"cancelled"}
Statuses == {"running", "waiting_approval"} \cup Terminal

(* "gate" stands for the events of the graph up to the approval gate,      *)
(* "work" for those after it; the others are pushed by a handler.          *)
Events == {"gate", "work", "run.resumed", "run.cancelled", "tool"}
Row == [status : Statuses, events : Seq(Events)]
Paused == [status |-> "waiting_approval", events |-> <<"gate">>]
(* Mutant: a status outside the union of RunState.                         *)
OddFinished(status) == [status |-> "done", events |-> <<"gate", "work">>]

Finished(status) == [status |-> status, events |-> <<"gate", "work">>]

(* A row, or a thread of a checkpointer, that is not there.                *)
Absent == [status |-> "absent", events |-> <<>>]

VARIABLES
    rows,           \* runs: status and payload.events
    log,            \* run_events, in the order of their ids
    checkpoint,     \* run_checkpoints: the status of the latest one
    threads,        \* replica -> run -> latest state in its MemorySaver
    pc,             \* handler -> the await it is at
    at,             \* handler -> its replica
    kind,           \* handler -> its route
    about,          \* handler -> its run id
    copy,           \* handler -> its run object: loaded, then to be written
    todo,           \* handler -> events it still has to append
    overlaps,       \* run -> routes that were active together (history)
    hurt,           \* run -> TRUE once a handler of it failed (history)
    failures, crashes

tables == <<rows, log, checkpoint>>
request == <<at, kind, about>>
history == <<overlaps, hurt, failures, crashes>>
vars == <<tables, threads, pc, request, copy, todo, history>>

Active(h) == pc[h] \notin {"idle", "ok", "error"}
Busy(r) == \E h \in Handlers : Active(h) /\ about[h] = r

Init ==
    /\ rows = [r \in Runs |-> Absent]
    /\ log = [r \in Runs |-> <<>>]
    /\ checkpoint = [r \in Runs |-> "absent"]
    /\ threads = [p \in Replicas |-> [r \in Runs |-> Absent]]
    /\ pc = [h \in Handlers |-> "idle"]
    /\ at \in [Handlers -> Replicas]
    /\ kind \in [Handlers -> Kinds]
    /\ about \in [Handlers -> Runs]
    /\ copy = [h \in Handlers |-> Absent]
    /\ todo = [h \in Handlers |-> <<>>]
    /\ overlaps = [r \in Runs |-> {}]
    /\ hurt = [r \in Runs |-> FALSE]
    /\ failures = 0 /\ crashes = 0

-----------------------------------------------------------------------------
(* A request arrives.  Everything up to the second await is one step: what *)
(* getRun returned decides where the handler goes.                         *)

Enter(h, next, c, events) ==
    /\ pc[h] = "idle"
    /\ pc' = [pc EXCEPT ![h] = next]
    /\ copy' = [copy EXCEPT ![h] = c]
    /\ todo' = [todo EXCEPT ![h] = events]
    /\ overlaps' = [overlaps EXCEPT ![about[h]] = @ \cup
         {{kind[h], kind[g]} : g \in {g \in Handlers : Active(g) /\ about[g] = about[h]}}]
    /\ UNCHANGED <<tables, threads, request, hurt, failures, crashes>>

(* The id is the clock's: distinct calls are taken to get distinct ids.    *)
Create(h) ==
    /\ kind[h] = "run"
    /\ \A g \in Handlers \ {h} : kind[g] = "run" /\ about[g] = about[h] => pc[g] = "idle"
    /\ Enter(h, "graph", Absent, <<>>)

(* Both routes resume a waiting run; resume() loads the replica's thread.  *)
ApproveWaiting(h) ==
    /\ kind[h] \in {"approve", "resume"}
    /\ rows[about[h]].status = "waiting_approval"
    /\ Enter(h, "graph", threads[at[h]][about[h]], <<>>)

(* 404, and 400 where the route looks at the status.                       *)
Refuse(h) ==
    /\ kind[h] # "run"
    /\ \/ rows[about[h]] = Absent
       \/ kind[h] = "approve" /\ rows[about[h]].status # "waiting_approval"
       \/ kind[h] = "cancel" /\ rows[about[h]].status \in Terminal
    /\ Enter(h, "error", Absent, <<>>)

(* Mutant: the run object is written back without the event.               *)
SilentPush(h, status, event) ==
    LET row == rows[about[h]] IN
    /\ row # Absent
    /\ Enter(h, "upsert", [status |-> status, events |-> row.events], <<event>>)

(* The handler pushes an event to the run object it read.                  *)
Push(h, status, event) ==
    LET row == rows[about[h]] IN
    /\ row # Absent
    /\ Enter(h, "upsert", [status |-> status, events |-> Append(row.events, event)],
             <<event>>)

ResumeOther(h) ==
    /\ kind[h] = "resume"
    /\ rows[about[h]].status # "waiting_approval"
    /\ Push(h, "running", "run.resumed")

Cancel(h) ==
    /\ kind[h] = "cancel"
    /\ rows[about[h]].status \notin Terminal
    /\ Push(h, "cancelled", "run.cancelled")

ToolApprove(h) ==
    /\ kind[h] = "tool"
    /\ Push(h, rows[about[h]].status, "tool")

-----------------------------------------------------------------------------
(* The orchestrator answers.                                               *)

Local(h, next) ==
    /\ pc' = [pc EXCEPT ![h] = next]
    /\ UNCHANGED <<request, history>>

(* run() pauses at the gate or ends.                                       *)
GraphRun(h) ==
    /\ pc[h] = "graph" /\ kind[h] = "run"
    /\ \E state \in {Paused} \cup {Finished(s) : s \in Finals} :
         /\ copy' = [copy EXCEPT ![h] = state]
         /\ threads' = [threads EXCEPT ![at[h]][about[h]] = state]
    /\ Local(h, "upsert")
    /\ UNCHANGED <<tables, todo>>

(* resume() without a checkpoint throws; of a run that ended it returns    *)
(* what the thread holds.                                                  *)
GraphResume(h) ==
    /\ pc[h] = "graph" /\ kind[h] # "run"
    /\ IF copy[h] = Absent
         THEN /\ Local(h, "error")
              /\ UNCHANGED <<copy, threads>>
         ELSE /\ \E state \in IF copy[h] = Paused THEN {Finished(s) : s \in Finals}
                                                  ELSE {copy[h]} :
                   /\ copy' = [copy EXCEPT ![h] = state]
                   /\ threads' = [threads EXCEPT ![at[h]][about[h]] = state]
              /\ Local(h, "upsert")
    /\ UNCHANGED <<tables, todo>>

-----------------------------------------------------------------------------
(* The statements of the repository.                                       *)

(* Mutant: the conflict clause updates the status and not the payload.     *)
StatusUpsertRun(h) ==
    /\ pc[h] = "upsert"
    /\ rows' = [rows EXCEPT ![about[h]] =
                  IF @ = Absent THEN copy[h] ELSE [@ EXCEPT !.status = copy[h].status]]
    /\ Local(h, IF todo[h] = <<>> THEN "delete" ELSE "append")
    /\ UNCHANGED <<log, checkpoint, threads, copy, todo>>

UpsertRun(h) ==
    /\ pc[h] = "upsert"
    /\ rows' = [rows EXCEPT ![about[h]] = copy[h]]
    /\ Local(h, IF todo[h] = <<>> THEN "delete" ELSE "append")
    /\ UNCHANGED <<log, checkpoint, threads, copy, todo>>

(* Mutants: no DELETE; only what came after the gate is inserted again.    *)
KeepingDeleteRunEvents(h) ==
    /\ pc[h] = "delete"
    /\ todo' = [todo EXCEPT ![h] = copy[h].events]
    /\ Local(h, "append")
    /\ UNCHANGED <<rows, log, checkpoint, threads, copy>>

TailDeleteRunEvents(h) ==
    /\ pc[h] = "delete"
    /\ log' = [log EXCEPT ![about[h]] = <<>>]
    /\ todo' = [todo EXCEPT ![h] = IF Len(copy[h].events) = 1 THEN copy[h].events
                                                             ELSE Tail(copy[h].events)]
    /\ Local(h, "append")
    /\ UNCHANGED <<rows, checkpoint, threads, copy>>

(* replaceRunEvents: a DELETE, then one INSERT for each event.             *)
DeleteRunEvents(h) ==
    /\ pc[h] = "delete"
    /\ log' = [log EXCEPT ![about[h]] = <<>>]
    /\ todo' = [todo EXCEPT ![h] = copy[h].events]
    /\ Local(h, "append")
    /\ UNCHANGED <<rows, checkpoint, threads, copy>>

AppendRunEvent(h) ==
    /\ pc[h] = "append"
    /\ log' = [log EXCEPT ![about[h]] = Append(@, Head(todo[h]))]
    /\ todo' = [todo EXCEPT ![h] = Tail(@)]
    /\ Local(h, IF Tail(todo[h]) = <<>> THEN "checkpoint" ELSE "append")
    /\ UNCHANGED <<rows, checkpoint, threads, copy>>

SaveCheckpoint(h) ==
    /\ pc[h] = "checkpoint"
    /\ checkpoint' = [checkpoint EXCEPT ![about[h]] = copy[h].status]
    /\ Local(h, "ok")
    /\ copy' = [copy EXCEPT ![h] = Absent]
    /\ UNCHANGED <<rows, log, threads, todo>>

-----------------------------------------------------------------------------
(* Failures: an await rejects and the error handler answers 500; a replica *)
(* crashes with its handlers and its threads.  Nothing is rolled back.     *)

Forget(gone) ==
    /\ pc' = [h \in Handlers |-> IF h \in gone THEN "error" ELSE pc[h]]
    /\ copy' = [h \in Handlers |-> IF h \in gone THEN Absent ELSE copy[h]]
    /\ todo' = [h \in Handlers |-> IF h \in gone THEN <<>> ELSE todo[h]]
    /\ hurt' = [r \in Runs |-> hurt[r] \/ \E h \in gone : about[h] = r]
    /\ UNCHANGED <<tables, request, overlaps>>

Fail(h) ==
    /\ Active(h)
    /\ failures < MaxFailures
    /\ failures' = failures + 1
    /\ Forget({h})
    /\ UNCHANGED <<threads, crashes>>

Crash(p) ==
    /\ crashes < MaxCrashes
    /\ crashes' = crashes + 1
    /\ threads' = [threads EXCEPT ![p] = [r \in Runs |-> Absent]]
    /\ Forget({h \in Handlers : Active(h) /\ at[h] = p})
    /\ UNCHANGED failures

-----------------------------------------------------------------------------
Arrive(h) ==
    \/ Create(h) \/ ApproveWaiting(h) \/ Refuse(h)
    \/ ResumeOther(h) \/ Cancel(h) \/ ToolApprove(h)

Continue(h) ==
    \/ GraphRun(h) \/ GraphResume(h) \/ UpsertRun(h) \/ DeleteRunEvents(h)
    \/ AppendRunEvent(h) \/ SaveCheckpoint(h)

Next ==
    \/ \E h \in Handlers : Arrive(h) \/ Continue(h) \/ Fail(h)
    \/ \E p \in Replicas : Crash(p)

Spec == Init /\ [][Next]_vars

-----------------------------------------------------------------------------
(* Properties.                                                             *)

TypeOK ==
    /\ rows \in [Runs -> Row \cup {Absent}]
    /\ log \in [Runs -> Seq(Events)]
    /\ checkpoint \in [Runs -> Statuses \cup {"absent"}]
    /\ threads \in [Replicas -> [Runs -> Row \cup {Absent}]]
    /\ pc \in [Handlers -> {"idle", "graph", "upsert", "delete", "append",
                            "checkpoint", "ok", "error"}]
    /\ at \in [Handlers -> Replicas]
    /\ kind \in [Handlers -> Kinds]
    /\ about \in [Handlers -> Runs]
    /\ copy \in [Handlers -> Row \cup {Absent}]
    /\ todo \in [Handlers -> Seq(Events)]

(* When the handlers of a run came one after the other and none failed,    *)
(* the three tables agree as soon as the last one has answered.            *)
SerialTablesAgree ==
    \A r \in Runs :
        ~Busy(r) /\ ~hurt[r] /\ overlaps[r] = {} =>
            log[r] = rows[r].events /\ checkpoint[r] = rows[r].status

(* A row is written whole: however handlers interleave, fail or crash, its *)
(* status is one its own events account for.                               *)
RowExplained ==
    \A r \in Runs :
        LET events == ToSet(rows[r].events) IN
        /\ rows[r].status = "waiting_approval" =>
             "work" \notin events /\ "run.cancelled" \notin events
        /\ rows[r].status \in Finals => "work" \in events
        /\ rows[r].status = "cancelled" => "run.cancelled" \in events
        /\ rows[r].status = "running" => "run.resumed" \in events

(* Approvals of one run that race, and nothing else, may repeat events in  *)
(* the log but lose none: the last to delete writes all of them again.     *)
RacingApprovalsLoseNoEvent ==
    \A r \in Runs :
        ~Busy(r) /\ ~hurt[r] /\ overlaps[r] \subseteq {{"approve"}} =>
            ToSet(rows[r].events) \subseteq ToSet(log[r])

(* Handlers and replicas are interchangeable for TLC: no property names    *)
(* one.                                                                    *)
Symmetry == Permutations(Handlers) \cup Permutations(Replicas)

(* docs/GLOSSARY.md: completed, failed and cancelled end the lifecycle.    *)
TerminalIsFinal ==
    [][\A r \in Runs : rows[r].status \in Terminal => rows'[r].status = rows[r].status]_vars
=============================================================================
