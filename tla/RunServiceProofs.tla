-------------------------- MODULE RunServiceProofs --------------------------
(***************************************************************************)
(* Proofs about RunService, for any number of requests, replicas and runs, *)
(* and for any interleaving, failure and crash.                            *)
(*                                                                         *)
(* A run object is copied between the row, the thread and the handlers, so *)
(* RowExplained is inductive only when it is said of every copy.           *)
(***************************************************************************)
EXTENDS RunService, TLAPS

Has(row, event) == \E i \in DOMAIN row.events : row.events[i] = event

(* The status of a run object is one its own events account for.           *)
Explained(row) ==
    /\ row.status = "waiting_approval" => ~Has(row, "work") /\ ~Has(row, "run.cancelled")
    /\ row.status \in Finals => Has(row, "work")
    /\ row.status = "cancelled" => Has(row, "run.cancelled")
    /\ row.status = "running" => Has(row, "run.resumed")

Kept(row) == row \in Row /\ Len(row.events) > 0 /\ Explained(row)

Objects ==
    /\ \A r \in Runs : rows[r] = Absent \/ Kept(rows[r])
    /\ \A p \in Replicas, r \in Runs : threads[p][r] = Absent \/ Kept(threads[p][r])
    /\ \A h \in Handlers : copy[h] = Absent \/ Kept(copy[h])

(* A handler that has something to write holds the run object, and one     *)
(* that appends still has an event to append.                              *)
Writing(h) ==
    /\ pc[h] \in {"upsert", "delete", "append", "checkpoint"} => copy[h] # Absent
    /\ pc[h] = "append" => Len(todo[h]) > 0

IInv == TypeOK /\ Objects /\ \A h \in Handlers : Writing(h)

-----------------------------------------------------------------------------
(* No object is a row by the name of Absent.                               *)
LEMMA AbsentIsNoRow == Absent \notin Row
  BY DEF Absent, Row, Statuses, Terminal, Finals

(* What the graph returns at the gate and at its end accounts for itself.  *)
LEMMA GraphExplained ==
  /\ Kept(Paused)
  /\ \A s \in Finals : Kept(Finished(s))
<1>1. <<"gate">> \in Seq(Events) /\ <<"gate", "work">> \in Seq(Events)
  BY DEF Events
<1>2. Kept(Paused)
  BY <1>1 DEF Kept, Paused, Row, Explained, Has, Statuses, Terminal, Finals
<1>3. ASSUME NEW s \in Finals PROVE Kept(Finished(s))
  <2>1. Finished(s) \in Row /\ Len(Finished(s).events) > 0
    BY <1>1, <1>3 DEF Finished, Row, Statuses, Terminal
  <2>2. Has(Finished(s), "work")
    <3>1. 2 \in DOMAIN <<"gate", "work">> /\ <<"gate", "work">>[2] = "work"
      OBVIOUS
    <3> QED BY <3>1 DEF Has, Finished
  <2> QED BY <1>3, <2>1, <2>2 DEF Kept, Explained, Finished, Finals
<1> QED BY <1>2, <1>3

(* Pushing an event keeps the others.                                      *)
LEMMA PushedHas ==
  ASSUME NEW row \in Row, NEW event \in Events, NEW status, NEW e \in Events
  PROVE  Has([status |-> status, events |-> Append(row.events, event)], e)
           <=> e = event \/ Has(row, e)
<1> DEFINE new == Append(row.events, event)
<1>1. row.events \in Seq(Events)
  BY DEF Row
<1>2. /\ new \in Seq(Events)
      /\ Len(new) = Len(row.events) + 1
      /\ \A i \in 1..Len(row.events) : new[i] = row.events[i]
      /\ new[Len(row.events) + 1] = event
  BY <1>1
<1>3. DOMAIN new = 1..(Len(row.events) + 1) /\ DOMAIN row.events = 1..Len(row.events)
      /\ Len(row.events) \in Nat
  BY <1>1, <1>2
<1> HIDE DEF new
<1>4. (\E i \in DOMAIN new : new[i] = e) <=> e = event \/ Has(row, e)
  BY <1>2, <1>3 DEF Has
<1> QED BY <1>4 DEF Has, new

-----------------------------------------------------------------------------
(* The actions.                                                            *)

(* A request that arrives takes a copy that accounts for itself.           *)
LEMMA EnterKeeps ==
  ASSUME IInv, NEW h \in Handlers, NEW next \in {"graph", "error", "upsert"},
         NEW c, c = Absent \/ Kept(c), next = "upsert" => c # Absent,
         NEW events \in Seq(Events), Enter(h, next, c, events)
  PROVE  IInv'
<1> USE DEF Enter, tables, request
<1>1. TypeOK'
  BY DEF IInv, TypeOK, Kept
<1>2. Objects'
  BY DEF IInv, TypeOK, Objects
<1>3. ASSUME NEW g \in Handlers PROVE Writing(g)'
  BY <1>3 DEF IInv, TypeOK, Writing
<1> QED BY <1>1, <1>2, <1>3 DEF IInv

(* So does the run object after a push.                                    *)
LEMMA PushKeeps ==
  ASSUME IInv, NEW h \in Handlers, NEW status \in Statuses, NEW event \in Events,
         \/ status = "running" /\ event = "run.resumed"
         \/ status = "cancelled" /\ event = "run.cancelled"
         \/ status = rows[about[h]].status /\ event = "tool",
         Push(h, status, event)
  PROVE  IInv'
<1> DEFINE row == rows[about[h]]
           new == [status |-> status, events |-> Append(row.events, event)]
<1>1. row # Absent /\ Kept(row)
  BY DEF Push, IInv, TypeOK, Objects
<1>2. row \in Row /\ Explained(row)
  BY <1>1 DEF Kept
<1>3. \A e \in Events : Has(new, e) <=> e = event \/ Has(row, e)
  BY <1>2, PushedHas
<1>4. row.events \in Seq(Events)
  BY <1>2 DEF Row
<1>5. Append(row.events, event) \in Seq(Events) /\ Len(Append(row.events, event)) > 0
  BY <1>4
<1>6. new \in Row /\ Len(new.events) > 0
  BY <1>5 DEF Row
<1>7. new.status = status
  OBVIOUS
<1>8. {"work", "run.cancelled", "run.resumed", "tool"} \subseteq Events
  BY DEF Events
<1>9. Enter(h, "upsert", new, <<event>>) /\ <<event>> \in Seq(Events)
  BY DEF Push
<1> HIDE DEF row, new
<1>10. Explained(new)
  <2>1. CASE status = "running" /\ event = "run.resumed"
    BY <2>1, <1>3, <1>7, <1>8 DEF Explained, Finals
  <2>2. CASE status = "cancelled" /\ event = "run.cancelled"
    BY <2>2, <1>3, <1>7, <1>8 DEF Explained, Finals
  <2>3. CASE status = row.status /\ event = "tool"
    BY <2>3, <1>2, <1>3, <1>7, <1>8 DEF Explained, Finals
  <2> QED BY <2>1, <2>2, <2>3 DEF row
<1>11. Kept(new) /\ new # Absent
  BY <1>6, <1>10, AbsentIsNoRow DEF Kept
<1> QED BY <1>9, <1>11, EnterKeeps

(* Every route keeps the invariant when its request arrives.               *)
LEMMA ArriveKeeps ==
  ASSUME IInv, NEW h \in Handlers, Arrive(h)
  PROVE  IInv'
<1>1. <<>> \in Seq(Events)
  OBVIOUS
<1>2. CASE Create(h)
  BY <1>1, <1>2, EnterKeeps DEF Create
<1>3. CASE ApproveWaiting(h)
  <2>1. threads[at[h]][about[h]] = Absent \/ Kept(threads[at[h]][about[h]])
    BY DEF IInv, TypeOK, Objects
  <2> QED BY <1>1, <1>3, <2>1, EnterKeeps DEF ApproveWaiting
<1>4. CASE Refuse(h)
  BY <1>1, <1>4, EnterKeeps DEF Refuse
<1>5. CASE ResumeOther(h)
  BY <1>5, PushKeeps DEF ResumeOther, Statuses, Events
<1>6. CASE Cancel(h)
  BY <1>6, PushKeeps DEF Cancel, Statuses, Terminal, Events
<1>7. CASE ToolApprove(h)
  <2>1. rows[about[h]] # Absent
    BY <1>7 DEF ToolApprove, Push
  <2>2. rows[about[h]].status \in Statuses
    BY <2>1 DEF IInv, TypeOK, Row
  <2> QED BY <1>7, <2>2, PushKeeps DEF ToolApprove, Events
<1> QED BY <1>2, <1>3, <1>4, <1>5, <1>6, <1>7 DEF Arrive

(* The orchestrator hands the handler and its thread the same state.       *)
LEMMA GraphKeeps ==
  ASSUME IInv, NEW h \in Handlers, NEW state, Kept(state),
         copy' = [copy EXCEPT ![h] = state],
         threads' = [threads EXCEPT ![at[h]][about[h]] = state],
         Local(h, "upsert"), UNCHANGED <<tables, todo>>
  PROVE  IInv'
<1> USE DEF Local, tables, request, history
<1>1. state \in Row /\ state # Absent
  BY AbsentIsNoRow DEF Kept
<1>2. at[h] \in Replicas /\ about[h] \in Runs
  BY DEF IInv, TypeOK
<1>3. TypeOK'
  BY <1>1, <1>2 DEF IInv, TypeOK
<1>4. ASSUME NEW p \in Replicas, NEW r \in Runs
      PROVE  threads'[p][r] = Absent \/ Kept(threads'[p][r])
  <2>1. threads[p][r] = Absent \/ Kept(threads[p][r])
    BY DEF IInv, Objects
  <2>2. threads'[p][r] = threads[p][r] \/ threads'[p][r] = state
    BY <1>2 DEF IInv, TypeOK
  <2> QED BY <2>1, <2>2
<1>5. Objects'
  BY <1>4 DEF IInv, TypeOK, Objects
<1>6. ASSUME NEW g \in Handlers PROVE Writing(g)'
  BY <1>1, <1>6 DEF IInv, TypeOK, Writing
<1> QED BY <1>3, <1>5, <1>6 DEF IInv

(* Every await that answers keeps the invariant.                           *)
LEMMA ContinueKeeps ==
  ASSUME IInv, NEW h \in Handlers, Continue(h)
  PROVE  IInv'
<1>1. CASE GraphRun(h)
  <2>1. PICK state \in {Paused} \cup {Finished(s) : s \in Finals} :
          /\ copy' = [copy EXCEPT ![h] = state]
          /\ threads' = [threads EXCEPT ![at[h]][about[h]] = state]
    BY <1>1 DEF GraphRun
  <2>2. Kept(state)
    BY <2>1, GraphExplained
  <2> QED BY <1>1, <2>1, <2>2, GraphKeeps DEF GraphRun
<1>2. CASE GraphResume(h) /\ copy[h] = Absent
  BY <1>2 DEF GraphResume, Local, tables, request, history, IInv, TypeOK, Objects, Writing
<1>3. CASE GraphResume(h) /\ copy[h] # Absent
  <2>1. PICK state \in IF copy[h] = Paused THEN {Finished(s) : s \in Finals}
                                           ELSE {copy[h]} :
          /\ copy' = [copy EXCEPT ![h] = state]
          /\ threads' = [threads EXCEPT ![at[h]][about[h]] = state]
    BY <1>3 DEF GraphResume
  <2>2. Kept(state)
    BY <1>3, <2>1, GraphExplained DEF IInv, Objects
  <2> QED BY <1>3, <2>1, <2>2, GraphKeeps DEF GraphResume
<1> USE DEF Local, tables, request, history
<1>4. CASE UpsertRun(h)
  <2>1. copy[h] # Absent /\ Kept(copy[h])
    BY <1>4 DEF UpsertRun, IInv, Writing, Objects
  <2>2. TypeOK'
    BY <1>4 DEF UpsertRun, IInv, TypeOK
  <2>3. Objects'
    BY <1>4, <2>1 DEF UpsertRun, IInv, TypeOK, Objects
  <2>4. todo[h] \in Seq(Events) /\ (todo[h] # <<>> => Len(todo[h]) > 0)
    BY DEF IInv, TypeOK
  <2>5. ASSUME NEW g \in Handlers PROVE Writing(g)'
    BY <1>4, <2>1, <2>4 DEF UpsertRun, IInv, TypeOK, Writing
  <2> QED BY <2>2, <2>3, <2>5 DEF IInv
<1>5. CASE DeleteRunEvents(h)
  <2>1. copy[h] # Absent /\ Kept(copy[h])
    BY <1>5 DEF DeleteRunEvents, IInv, Writing, Objects
  <2>2. copy[h].events \in Seq(Events) /\ Len(copy[h].events) > 0
    BY <2>1 DEF Kept, Row
  <2>3. TypeOK'
    BY <1>5, <2>2 DEF DeleteRunEvents, IInv, TypeOK
  <2>4. ASSUME NEW g \in Handlers PROVE Writing(g)'
    BY <1>5, <2>1, <2>2 DEF DeleteRunEvents, IInv, TypeOK, Writing
  <2> QED BY <1>5, <2>3, <2>4 DEF DeleteRunEvents, IInv, Objects
<1>6. CASE AppendRunEvent(h)
  <2>1. todo[h] \in Seq(Events) /\ Len(todo[h]) > 0
    BY <1>6 DEF AppendRunEvent, IInv, TypeOK, Writing
  <2>2. /\ Head(todo[h]) \in Events
        /\ Tail(todo[h]) \in Seq(Events)
        /\ Tail(todo[h]) # <<>> => Len(Tail(todo[h])) > 0
    BY <2>1
  <2>3. log[about[h]] \in Seq(Events)
    BY DEF IInv, TypeOK
  <2>4. Append(log[about[h]], Head(todo[h])) \in Seq(Events)
    BY <2>2, <2>3
  <2>5. TypeOK'
    BY <1>6, <2>2, <2>4 DEF AppendRunEvent, IInv, TypeOK
  <2>6. ASSUME NEW g \in Handlers PROVE Writing(g)'
    BY <1>6, <2>2 DEF AppendRunEvent, IInv, TypeOK, Writing
  <2> QED BY <1>6, <2>5, <2>6 DEF AppendRunEvent, IInv, Objects
<1>7. CASE SaveCheckpoint(h)
  <2>1. copy[h] # Absent /\ Kept(copy[h])
    BY <1>7 DEF SaveCheckpoint, IInv, Writing, Objects
  <2>2. copy[h].status \in Statuses
    BY <2>1 DEF Kept, Row
  <2>3. TypeOK'
    BY <1>7, <2>2 DEF SaveCheckpoint, IInv, TypeOK
  <2>4. Objects'
    BY <1>7 DEF SaveCheckpoint, IInv, TypeOK, Objects
  <2>5. ASSUME NEW g \in Handlers PROVE Writing(g)'
    BY <1>7 DEF SaveCheckpoint, IInv, TypeOK, Writing
  <2> QED BY <2>3, <2>4, <2>5 DEF IInv
<1> QED BY <1>1, <1>2, <1>3, <1>4, <1>5, <1>6, <1>7 DEF Continue

(* A failed await and a crash forget what handlers and threads held.       *)
LEMMA ForgetKeeps ==
  ASSUME IInv, NEW gone, Forget(gone),
         \/ UNCHANGED threads
         \/ \E p \in Replicas :
              threads' = [threads EXCEPT ![p] = [r \in Runs |-> Absent]]
  PROVE  IInv'
<1> USE DEF Forget, tables, request
<1> DEFINE empty == [r \in Runs |-> Absent]
<1>1. threads \in [Replicas -> [Runs -> Row \cup {Absent}]]
  BY DEF IInv, TypeOK
<1>2. /\ threads' \in [Replicas -> [Runs -> Row \cup {Absent}]]
      /\ \A q \in Replicas : threads'[q] = threads[q] \/ threads'[q] = empty
  <2>1. empty \in [Runs -> Row \cup {Absent}]
    OBVIOUS
  <2>2. CASE UNCHANGED threads
    BY <1>1, <2>2
  <2>3. CASE \E p \in Replicas : threads' = [threads EXCEPT ![p] = empty]
    <3> HIDE DEF empty
    <3> QED BY <1>1, <2>1, <2>3
  <2> QED BY <2>2, <2>3
<1>3. ASSUME NEW q \in Replicas, NEW r \in Runs
      PROVE  threads'[q][r] = threads[q][r] \/ threads'[q][r] = Absent
  BY <1>2
<1>4. <<>> \in Seq(Events)
  OBVIOUS
<1>5. /\ todo' \in [Handlers -> Seq(Events)]
      /\ copy' \in [Handlers -> Row \cup {Absent}]
  BY <1>4 DEF IInv, TypeOK
<1>6. TypeOK'
  BY <1>2, <1>5 DEF IInv, TypeOK
<1>7. ASSUME NEW h \in Handlers PROVE copy'[h] = copy[h] \/ copy'[h] = Absent
  BY DEF IInv, TypeOK
<1>8. Objects'
  BY <1>3, <1>7 DEF IInv, Objects, Kept, Explained, Has
<1>9. ASSUME NEW g \in Handlers PROVE Writing(g)'
  BY <1>9 DEF IInv, TypeOK, Writing
<1> QED BY <1>6, <1>8, <1>9 DEF IInv

-----------------------------------------------------------------------------
(* Theorems.                                                               *)

(* The invariant holds in every state the handlers reach, on any number of *)
(* replicas, with any awaits failing and any replicas crashing.            *)
THEOREM Invariance == Spec => []IInv
<1>1. Init => IInv
  BY DEF Init, IInv, TypeOK, Objects, Writing
<1>2. ASSUME IInv, [Next]_vars PROVE IInv'
  <2> USE <1>2
  <2>1. ASSUME NEW h \in Handlers, Arrive(h) PROVE IInv'
    BY <2>1, ArriveKeeps
  <2>2. ASSUME NEW h \in Handlers, Continue(h) PROVE IInv'
    BY <2>2, ContinueKeeps
  <2>3. ASSUME NEW h \in Handlers, Fail(h) PROVE IInv'
    BY <2>3, ForgetKeeps DEF Fail
  <2>4. ASSUME NEW p \in Replicas, Crash(p) PROVE IInv'
    BY <2>4, ForgetKeeps DEF Crash
  <2>5. CASE UNCHANGED vars
    BY <2>5 DEF vars, tables, request, history, IInv, TypeOK, Objects, Writing
  <2> QED BY <2>1, <2>2, <2>3, <2>4, <2>5 DEF Next
<1> QED BY <1>1, <1>2, PTL DEF Spec

(* The tables, the threads and the handlers keep their types.              *)
THEOREM TypeCorrect == Spec => []TypeOK
BY Invariance, PTL DEF IInv

(* Whatever handlers interleave, fail or crash, a stored row has a status  *)
(* that its own events account for.                                        *)
THEOREM RowsExplained == Spec => []RowExplained
<1>1. ASSUME IInv, NEW r \in Runs
      PROVE  LET events == ToSet(rows[r].events) IN
             /\ rows[r].status = "waiting_approval" =>
                  "work" \notin events /\ "run.cancelled" \notin events
             /\ rows[r].status \in Finals => "work" \in events
             /\ rows[r].status = "cancelled" => "run.cancelled" \in events
             /\ rows[r].status = "running" => "run.resumed" \in events
  <2>1. CASE rows[r] = Absent
    BY <2>1 DEF Absent, Finals
  <2>2. CASE Explained(rows[r])
    BY <2>2 DEF Explained, Has, ToSet
  <2> QED BY <1>1, <2>1, <2>2 DEF IInv, Objects, Kept
<1>2. IInv => RowExplained
  BY <1>1 DEF RowExplained
<1> QED BY <1>2, Invariance, PTL

-----------------------------------------------------------------------------
(* The three tables.  What a handler has still to write depends on the     *)
(* await it is at, so the agreement of the tables is inductive only        *)
(* together with the stage of every handler that is under way.             *)

Elements(s) == {s[i] : i \in DOMAIN s}

(* What the orchestrator can hand to a handler.                            *)
Returned == {Absent, Paused} \cup {Finished(s) : s \in Finals}

Writes == {"upsert", "delete", "append", "checkpoint"}

HistoryOK ==
    /\ overlaps \in [Runs -> SUBSET SUBSET Kinds]
    /\ hurt \in [Runs -> BOOLEAN]

(* An approval writes what the graph returned at its end, and no event of  *)
(* its own.                                                                *)
FromGraph ==
    /\ \A p \in Replicas, r \in Runs : threads[p][r] \in Returned
    /\ \A h \in Handlers : pc[h] = "graph" => copy[h] \in Returned /\ todo[h] = <<>>
    /\ \A h \in Handlers : kind[h] = "approve" =>
         /\ pc[h] \in Writes => copy[h].events = <<"gate", "work">>
         /\ pc[h] = "upsert" => todo[h] = <<>>

Under(h, r) == Active(h) /\ about[h] = r

Agree(r) == log[r] = rows[r].events /\ checkpoint[r] = rows[r].status

(* A handler that has the run to itself.                                   *)
Stage(h, r) ==
    /\ pc[h] \in {"graph", "upsert"} => Agree(r)
    /\ pc[h] = "upsert" =>
         todo[h] = <<>> \/ copy[h].events = rows[r].events \o todo[h]
    /\ pc[h] \in {"delete", "append", "checkpoint"} => rows[r] = copy[h]
    /\ pc[h] = "append" => log[r] \o todo[h] = copy[h].events
    /\ pc[h] = "checkpoint" => log[r] = copy[h].events

Serial(r) == ~hurt[r] /\ overlaps[r] = {}

SerialAt(r) ==
    /\ ~Busy(r) => Agree(r)
    /\ \A g, h \in Handlers : Under(g, r) /\ Under(h, r) => g = h
    /\ \A h \in Handlers : Under(h, r) => Stage(h, r)

SerialInv == \A r \in Runs : Serial(r) => SerialAt(r)

(* Handlers that share the run with approvals only.  Every event of the    *)
(* row is in the log, or somebody will write all of them again, or is      *)
(* about to append what is missing.                                        *)
Covers(h, r) ==
    \/ pc[h] = "delete"
    \/ pc[h] = "append" /\ Elements(rows[r].events) \subseteq Elements(log[r]) \cup Elements(todo[h])

Covered(r) ==
    \/ Elements(rows[r].events) \subseteq Elements(log[r])
    \/ \E h \in Handlers : about[h] = r /\ Covers(h, r)

Racing(r) == ~hurt[r] /\ overlaps[r] \subseteq {{"approve"}}

(* What the handler has written agrees with what it still holds.           *)
Holds(h, r) ==
    /\ pc[h] \in {"delete", "append", "checkpoint"} => rows[r].events = copy[h].events
    /\ pc[h] = "upsert" /\ todo[h] # <<>> => copy[h].events = rows[r].events \o todo[h]

RacingAt(r) ==
    /\ \A g, h \in Handlers : Under(g, r) /\ Under(h, r) =>
         g = h \/ (kind[g] = "approve" /\ kind[h] = "approve")
    /\ \A h \in Handlers : about[h] = r => Holds(h, r)
    /\ Covered(r)

RacingInv == \A r \in Runs : Racing(r) => RacingAt(r)

TablesInv == IInv /\ HistoryOK /\ FromGraph /\ SerialInv /\ RacingInv

-----------------------------------------------------------------------------
(* Lemmas about sequences of events.                                       *)

(* An appended event is the only new element.                              *)
LEMMA AppendElements ==
  ASSUME NEW S, NEW s \in Seq(S), NEW e \in S
  PROVE  Elements(Append(s, e)) = Elements(s) \cup {e}
<1> DEFINE new == Append(s, e)
<1>1. /\ new \in Seq(S) /\ Len(new) = Len(s) + 1
      /\ \A i \in 1..Len(s) : new[i] = s[i]
      /\ new[Len(s) + 1] = e
      /\ Len(s) \in Nat
  OBVIOUS
<1>2. DOMAIN new = 1..(Len(s) + 1) /\ DOMAIN s = 1..Len(s)
  BY <1>1
<1> HIDE DEF new
<1>3. Elements(new) = Elements(s) \cup {e}
  BY <1>1, <1>2 DEF Elements
<1> QED BY <1>3 DEF new

(* What concatenation is, index by index.                                  *)
LEMMA ConcatFacts ==
  ASSUME NEW S, NEW s \in Seq(S), NEW t \in Seq(S)
  PROVE  /\ s \o t \in Seq(S) /\ Len(s \o t) = Len(s) + Len(t)
         /\ \A i \in 1..Len(s) : (s \o t)[i] = s[i]
         /\ \A i \in 1..Len(t) : (s \o t)[Len(s) + i] = t[i]
  OBVIOUS

(* A concatenation has the elements of both parts.                         *)
LEMMA ConcatElements ==
  ASSUME NEW S, NEW s \in Seq(S), NEW t \in Seq(S)
  PROVE  Elements(s \o t) = Elements(s) \cup Elements(t)
<1> DEFINE new == s \o t
<1>1. /\ new \in Seq(S) /\ Len(new) = Len(s) + Len(t)
      /\ \A i \in 1..Len(s) : new[i] = s[i]
      /\ \A i \in 1..Len(t) : new[Len(s) + i] = t[i]
      /\ Len(s) \in Nat /\ Len(t) \in Nat
  OBVIOUS
<1>2. DOMAIN new = 1..(Len(s) + Len(t)) /\ DOMAIN s = 1..Len(s) /\ DOMAIN t = 1..Len(t)
  BY <1>1
<1> HIDE DEF new
<1>3. ASSUME NEW i \in DOMAIN new PROVE new[i] \in Elements(s) \cup Elements(t)
  <2>1. CASE i \in 1..Len(s)
    BY <2>1, <1>1, <1>2 DEF Elements
  <2>2. CASE i \notin 1..Len(s)
    <3>1. i - Len(s) \in 1..Len(t) /\ i = Len(s) + (i - Len(s))
      BY <2>2, <1>1, <1>2
    <3> QED BY <3>1, <1>1, <1>2 DEF Elements
  <2> QED BY <2>1, <2>2
<1>4. ASSUME NEW i \in DOMAIN t PROVE t[i] \in Elements(new)
  <2>1. Len(s) + i \in DOMAIN new /\ new[Len(s) + i] = t[i]
    BY <1>1, <1>2
  <2> QED BY <2>1 DEF Elements
<1>5. Elements(s) \subseteq Elements(new)
  BY <1>1, <1>2 DEF Elements
<1>6. Elements(new) \subseteq Elements(s) \cup Elements(t)
  BY <1>3 DEF Elements
<1>7. Elements(t) \subseteq Elements(new)
  BY <1>4 DEF Elements
<1> QED BY <1>5, <1>6, <1>7 DEF new

(* A sequence has the elements of its head and of its tail.                *)
LEMMA HeadTail ==
  ASSUME NEW S, NEW s \in Seq(S), Len(s) > 0
  PROVE  /\ Head(s) \in S /\ Tail(s) \in Seq(S)
         /\ Elements(s) = {Head(s)} \cup Elements(Tail(s))
<1>1. /\ Head(s) \in S /\ Tail(s) \in Seq(S) /\ Head(s) = s[1]
      /\ Len(Tail(s)) = Len(s) - 1 /\ Len(s) \in Nat
      /\ \A i \in 1..(Len(s) - 1) : Tail(s)[i] = s[i + 1]
  OBVIOUS
<1> DEFINE t == Tail(s)
<1>2. DOMAIN t = 1..(Len(s) - 1) /\ DOMAIN s = 1..Len(s)
  BY <1>1
<1>3. /\ t \in Seq(S) /\ \A i \in 1..(Len(s) - 1) : t[i] = s[i + 1]
  BY <1>1
<1> HIDE DEF t
<1>4. Elements(t) \subseteq Elements(s)
  BY <1>2, <1>3, <1>1 DEF Elements
<1>5. ASSUME NEW i \in DOMAIN s PROVE s[i] = s[1] \/ s[i] \in Elements(t)
  <2>1. CASE i = 1
    BY <2>1
  <2>2. CASE i # 1
    <3>1. i - 1 \in 1..(Len(s) - 1) /\ i = (i - 1) + 1
      BY <2>2, <1>1, <1>2
    <3>2. t[i - 1] = s[i] /\ i - 1 \in DOMAIN t
      BY <3>1, <1>2, <1>3
    <3> QED BY <3>2 DEF Elements
  <2> QED BY <2>1, <2>2
<1>6. s[1] \in Elements(s)
  BY <1>1, <1>2 DEF Elements
<1>7. Elements(s) \subseteq {s[1]} \cup Elements(t)
  BY <1>5 DEF Elements
<1> QED BY <1>1, <1>4, <1>6, <1>7 DEF t

(* An INSERT moves the first event to the log and changes nothing of what  *)
(* the log will be.                                                        *)
LEMMA MoveHead ==
  ASSUME NEW S, NEW s \in Seq(S), NEW t \in Seq(S), Len(t) > 0
  PROVE  Append(s, Head(t)) \o Tail(t) = s \o t
<1>1. /\ Head(t) \in S /\ Tail(t) \in Seq(S) /\ Len(Tail(t)) = Len(t) - 1
      /\ Head(t) = t[1] /\ \A i \in 1..(Len(t) - 1) : Tail(t)[i] = t[i + 1]
      /\ Len(s) \in Nat /\ Len(t) \in Nat
  OBVIOUS
<1> DEFINE a == Append(s, Head(t))  u == Tail(t)
<1>2. /\ a \in Seq(S) /\ Len(a) = Len(s) + 1 /\ a[Len(s) + 1] = t[1]
      /\ \A i \in 1..Len(s) : a[i] = s[i]
  BY <1>1
<1>3. u \in Seq(S) /\ Len(u) = Len(t) - 1 /\ \A i \in 1..(Len(t) - 1) : u[i] = t[i + 1]
  BY <1>1
<1> HIDE DEF a, u
<1> DEFINE l == a \o u  r == s \o t
<1>4. /\ l \in Seq(S) /\ Len(l) = Len(s) + Len(t)
      /\ \A i \in 1..(Len(s) + 1) : l[i] = a[i]
      /\ \A i \in 1..(Len(t) - 1) : l[Len(s) + 1 + i] = u[i]
  <2>0. a \in Seq(S) /\ u \in Seq(S)
    BY <1>2, <1>3
  <2>1. /\ l \in Seq(S) /\ Len(l) = Len(a) + Len(u)
        /\ \A i \in 1..Len(a) : l[i] = a[i]
        /\ \A i \in 1..Len(u) : l[Len(a) + i] = u[i]
    BY ONLY <2>0, ConcatFacts
  <2> HIDE DEF l
  <2> QED BY <2>1, <1>1, <1>2, <1>3
<1>5. /\ r \in Seq(S) /\ Len(r) = Len(s) + Len(t)
      /\ \A i \in 1..Len(s) : r[i] = s[i]
      /\ \A i \in 1..Len(t) : r[Len(s) + i] = t[i]
  BY <1>1
<1> HIDE DEF l, r
<1>6. ASSUME NEW i \in 1..(Len(s) + Len(t)) PROVE l[i] = r[i]
  <2>1. CASE i \in 1..Len(s)
    BY <2>1, <1>1, <1>2, <1>4, <1>5
  <2>2. CASE i = Len(s) + 1
    <3>1. r[i] = t[1]
      BY <2>2, <1>1, <1>5
    <3> QED BY <2>2, <3>1, <1>1, <1>2, <1>4
  <2>3. CASE i > Len(s) + 1
    <3> DEFINE j == i - Len(s) - 1
    <3>1. j \in 1..(Len(t) - 1) /\ i = Len(s) + 1 + j /\ i = Len(s) + (j + 1)
          /\ j + 1 \in 1..Len(t)
      BY <2>3, <1>1
    <3> HIDE DEF j
    <3>2. l[i] = u[j] /\ r[i] = t[j + 1] /\ u[j] = t[j + 1]
      BY <3>1, <1>3, <1>4, <1>5
    <3> QED BY <3>2
  <2> QED BY <2>1, <2>2, <2>3, <1>1
<1>7. l = r
  BY <1>1, <1>4, <1>5, <1>6
<1> QED BY <1>7 DEF l, r, a, u

(* The empty sequence is neutral.                                          *)
LEMMA EmptyConcat ==
  ASSUME NEW S, NEW s \in Seq(S)
  PROVE  <<>> \o s = s /\ s \o <<>> = s
  OBVIOUS

(* push() is concatenation with the pushed event.                          *)
LEMMA AppendIsConcat ==
  ASSUME NEW S, NEW s \in Seq(S), NEW e \in S
  PROVE  Append(s, e) = s \o <<e>>
  OBVIOUS

-----------------------------------------------------------------------------
(* Steps of one handler.                                                   *)

(* Nothing of run r, and no handler of it, is touched.                     *)
Elsewhere(r) ==
    /\ rows'[r] = rows[r] /\ log'[r] = log[r] /\ checkpoint'[r] = checkpoint[r]
    /\ overlaps'[r] = overlaps[r] /\ hurt'[r] = hurt[r]
    /\ UNCHANGED request
    /\ \A g \in Handlers : about[g] = r =>
         pc'[g] = pc[g] /\ copy'[g] = copy[g] /\ todo'[g] = todo[g]

(* Of the handlers of run r, only h takes a step.                          *)
Alone(h) ==
    /\ UNCHANGED request
    /\ \A g \in Handlers \ {h} :
         pc'[g] = pc[g] /\ copy'[g] = copy[g] /\ todo'[g] = todo[g]
    /\ \A r \in Runs \ {about[h]} :
         rows'[r] = rows[r] /\ log'[r] = log[r] /\ checkpoint'[r] = checkpoint[r]

(* A run whose rows and handlers a step leaves alone keeps its stages.     *)
LEMMA ElsewhereKept ==
  ASSUME NEW r \in Runs, Elsewhere(r)
  PROVE  /\ (Serial(r) => SerialAt(r)) => (Serial(r) => SerialAt(r))'
         /\ (Racing(r) => RacingAt(r)) => (Racing(r) => RacingAt(r))'
<1> USE DEF Elsewhere, request
<1>1. \A g \in Handlers : Under(g, r)' <=> Under(g, r)
  BY DEF Under, Active
<1>2. Serial(r)' <=> Serial(r)
  BY DEF Serial
<1>3. Racing(r)' <=> Racing(r)
  BY DEF Racing
<1>4. Agree(r)' <=> Agree(r)
  BY DEF Agree
<1>5. Busy(r)' <=> Busy(r)
  BY DEF Busy, Active
<1>6. \A g \in Handlers : Under(g, r) => (Stage(g, r)' <=> Stage(g, r))
  BY <1>4 DEF Under, Stage
<1>7. SerialAt(r) => SerialAt(r)'
  BY <1>1, <1>4, <1>5, <1>6 DEF SerialAt
<1>8. \A g \in Handlers : about[g] = r => (Holds(g, r)' <=> Holds(g, r))
  BY DEF Holds
<1>9. \A g \in Handlers : about[g] = r => (Covers(g, r)' <=> Covers(g, r))
  BY DEF Covers
<1>10. Covered(r)' <=> Covered(r)
  BY <1>9 DEF Covered
<1>11. RacingAt(r) => RacingAt(r)'
  BY <1>1, <1>8, <1>10 DEF RacingAt
<1> QED BY <1>2, <1>3, <1>7, <1>11

(* Alone with its run, a handler that steps to its next stage keeps the    *)
(* agreement.                                                              *)
LEMMA SerialStep ==
  ASSUME IInv, NEW h \in Handlers, NEW r \in Runs, about[h] = r, Active(h), Alone(h),
         SerialAt(r), Active(h)' => Stage(h, r)', ~Active(h)' => Agree(r)'
  PROVE  SerialAt(r)'
<1> USE DEF Alone, request
<1>1. Under(h, r)
  BY DEF Under
<1>2. \A g \in Handlers : Under(g, r) => g = h
  BY <1>1 DEF SerialAt
<1>3. \A g \in Handlers : Under(g, r)' => g = h
  BY <1>2 DEF Under, Active
<1>4. \A g \in Handlers : Under(g, r)' => Stage(g, r)'
  BY <1>3 DEF Under
<1>5. ~Busy(r)' => ~Active(h)'
  BY DEF Busy
<1> QED BY <1>3, <1>4, <1>5 DEF SerialAt

(* A step of a handler does not change who else is under way.              *)
LEMMA RacingStep ==
  ASSUME IInv, NEW h \in Handlers, NEW r \in Runs, about[h] = r, Active(h), Alone(h),
         RacingAt(r), \A g \in Handlers : about[g] = r => Holds(g, r)', Covered(r)'
  PROVE  RacingAt(r)'
<1> USE DEF Alone, request
<1>1. \A g \in Handlers : Under(g, r)' => Under(g, r)
  BY DEF Under, Active
<1>2. \A g, k \in Handlers : Under(g, r)' /\ Under(k, r)' =>
        g = k \/ (kind[g] = "approve" /\ kind[k] = "approve")
  BY <1>1 DEF RacingAt
<1> QED BY <1>2 DEF RacingAt

(* The events of the graph are what an approval writes.                    *)
LEMMA FinishedEvents ==
  ASSUME NEW row \in Returned, row # Absent, row # Paused
  PROVE  row.events = <<"gate", "work">>
BY DEF Returned, Finished

(* A request that arrives finds the tables of a quiet run in agreement, or *)
(* is seen to overlap with another.                                        *)
LEMMA EnterTables ==
  ASSUME TablesInv, IInv', NEW h \in Handlers, NEW next \in {"graph", "error", "upsert"},
         NEW c, NEW events \in Seq(Events), Enter(h, next, c, events),
         next = "graph" => c \in Returned /\ events = <<>>,
         next = "upsert" =>
           kind[h] # "approve" /\ c.events = rows[about[h]].events \o events
  PROVE  TablesInv'
<1> DEFINE r == about[h]
           with == {g \in Handlers : Active(g) /\ about[g] = about[h]}
           pairs == {{kind[h], kind[g]} : g \in with}
<1> USE DEF Enter, tables, request
<1>1. r \in Runs /\ IInv /\ TypeOK /\ HistoryOK
  BY DEF TablesInv, IInv, TypeOK
<1>2. overlaps'[r] = overlaps[r] \cup pairs
  BY <1>1 DEF HistoryOK
<1>3. HistoryOK'
  <2>1. \A g \in Handlers : kind[g] \in Kinds
    BY <1>1 DEF TypeOK
  <2>2. \A x \in pairs : x \in SUBSET Kinds
    BY <2>1
  <2>3. overlaps' = [overlaps EXCEPT ![r] = overlaps[r] \cup pairs]
    OBVIOUS
  <2> HIDE DEF pairs, r
  <2>4. overlaps[r] \cup pairs \in SUBSET SUBSET Kinds
    BY <1>1, <2>2 DEF HistoryOK
  <2>5. hurt' \in [Runs -> BOOLEAN]
    BY <1>1 DEF HistoryOK
  <2> QED BY <1>1, <2>3, <2>4, <2>5 DEF HistoryOK
<1>4. /\ pc'[h] = next /\ copy'[h] = c /\ todo'[h] = events
      /\ \A g \in Handlers \ {h} :
           pc'[g] = pc[g] /\ copy'[g] = copy[g] /\ todo'[g] = todo[g]
  BY <1>1 DEF TypeOK
<1>5. pc[h] = "idle"
  OBVIOUS
<1>6. FromGraph'
  <2>1. FromGraph
    BY DEF TablesInv
  <2>2. \A p \in Replicas, s \in Runs : threads'[p][s] \in Returned
    BY <2>1 DEF FromGraph
  <2>3. ASSUME NEW g \in Handlers
        PROVE  pc'[g] = "graph" => copy'[g] \in Returned /\ todo'[g] = <<>>
    BY <2>1, <1>4 DEF FromGraph
  <2>4. ASSUME NEW g \in Handlers, kind'[g] = "approve"
        PROVE  /\ pc'[g] \in Writes => copy'[g].events = <<"gate", "work">>
               /\ pc'[g] = "upsert" => todo'[g] = <<>>
    <3>1. CASE g = h
      BY <3>1, <2>4, <1>4 DEF Writes
    <3>2. CASE g # h
      BY <3>2, <2>1, <2>4, <1>4 DEF FromGraph
    <3> QED BY <3>1, <3>2
  <2> QED BY <2>2, <2>3, <2>4 DEF FromGraph
<1>7. ASSUME NEW s \in Runs, s # r
      PROVE  /\ Serial(s)' => SerialAt(s)'
             /\ Racing(s)' => RacingAt(s)'
  <2>1. Elsewhere(s)
    BY <1>1, <1>4, <1>7 DEF Elsewhere, HistoryOK
  <2>2. (Serial(s) => SerialAt(s)) /\ (Racing(s) => RacingAt(s))
    BY DEF TablesInv, SerialInv, RacingInv
  <2> QED BY <2>1, <2>2, ElsewhereKept
<1>8. ASSUME Serial(r)' PROVE SerialAt(r)'
  <2>1. overlaps[r] = {} /\ pairs = {} /\ ~hurt[r]
    BY <1>2, <1>8 DEF Serial
  <2>2. \A g \in Handlers : ~Under(g, r)
    BY <2>1 DEF Under
  <2>3. Agree(r)
    BY <1>1, <2>1, <2>2 DEF TablesInv, SerialInv, Serial, SerialAt, Busy, Under
  <2>4. Agree(r)'
    BY <2>3 DEF Agree
  <2>5. \A g \in Handlers : Under(g, r)' => g = h
    BY <2>2, <1>4 DEF Under, Active
  <2>6. Under(h, r)' => Stage(h, r)'
    BY <1>4, <2>4 DEF Under, Active, Stage
  <2> QED BY <2>4, <2>5, <2>6 DEF SerialAt
<1>9. ASSUME Racing(r)' PROVE RacingAt(r)'
  <2>1. Racing(r) /\ pairs \subseteq {{"approve"}}
    BY <1>2, <1>9 DEF Racing
  <2>2. RacingAt(r)
    BY <1>1, <2>1 DEF TablesInv, RacingInv
  <2>3. ASSUME NEW g \in Handlers, Under(g, r)
        PROVE  kind[g] = "approve" /\ kind[h] = "approve"
    <3>1. {kind[h], kind[g]} \in pairs
      BY <2>3 DEF Under
    <3>2. {kind[h], kind[g]} = {"approve"}
      BY <2>1, <3>1
    <3> QED BY <3>2
  <2>4. ASSUME NEW g \in Handlers, NEW k \in Handlers, Under(g, r)', Under(k, r)', g # k
        PROVE  kind'[g] = "approve" /\ kind'[k] = "approve"
    <3>1. g # h => Under(g, r)
      BY <2>4, <1>4 DEF Under, Active
    <3>2. k # h => Under(k, r)
      BY <2>4, <1>4 DEF Under, Active
    <3> QED BY <2>2, <2>3, <2>4, <3>1, <3>2 DEF RacingAt
  <2>5. ASSUME NEW g \in Handlers, about'[g] = r PROVE Holds(g, r)'
    <3>1. CASE g = h
      BY <3>1, <1>4 DEF Holds
    <3>2. CASE g # h
      BY <3>2, <2>2, <2>5, <1>4 DEF Holds, RacingAt
    <3> QED BY <3>1, <3>2
  <2>6. ~Covers(h, r)
    BY <1>5 DEF Covers
  <2>7. \A g \in Handlers \ {h} : Covers(g, r) => Covers(g, r)'
    BY <1>4 DEF Covers
  <2>8. Covered(r)'
    BY <2>2, <2>6, <2>7 DEF RacingAt, Covered
  <2> QED BY <2>4, <2>5, <2>8 DEF RacingAt
<1>10. SerialInv' /\ RacingInv'
  BY <1>7, <1>8, <1>9 DEF SerialInv, RacingInv
<1> QED BY <1>3, <1>6, <1>10 DEF TablesInv

(* A handler that pushes holds the events of the row and the pushed one.   *)
LEMMA PushTables ==
  ASSUME TablesInv, IInv', NEW h \in Handlers, NEW status, NEW event \in Events,
         kind[h] # "approve", Push(h, status, event)
  PROVE  TablesInv'
<1> DEFINE row == rows[about[h]]
           new == [status |-> status, events |-> Append(row.events, event)]
<1>1. row # Absent /\ Kept(row)
  BY DEF Push, TablesInv, IInv, TypeOK, Objects
<1>2. row.events \in Seq(Events)
  BY <1>1 DEF Kept, Row
<1>3. <<event>> \in Seq(Events) /\ Append(row.events, event) = row.events \o <<event>>
  <2> HIDE DEF row
  <2> QED BY ONLY <1>2, event \in Events, AppendIsConcat
<1>4. Enter(h, "upsert", new, <<event>>)
  BY DEF Push
<1> QED BY <1>3, <1>4, EnterTables

(* Every route keeps the stages when its request arrives.                  *)
LEMMA ArriveTables ==
  ASSUME TablesInv, IInv', NEW h \in Handlers, Arrive(h)
  PROVE  TablesInv'
<1>1. <<>> \in Seq(Events) /\ Absent \in Returned
  BY DEF Returned
<1>2. CASE Create(h)
  BY <1>1, <1>2, EnterTables DEF Create
<1>3. CASE ApproveWaiting(h)
  <2>1. threads[at[h]][about[h]] \in Returned
    BY DEF TablesInv, IInv, TypeOK, FromGraph
  <2> QED BY <1>1, <1>3, <2>1, EnterTables DEF ApproveWaiting
<1>4. CASE Refuse(h)
  BY <1>1, <1>4, EnterTables DEF Refuse
<1>5. CASE ResumeOther(h)
  BY <1>5, PushTables DEF ResumeOther, Events
<1>6. CASE Cancel(h)
  BY <1>6, PushTables DEF Cancel, Events
<1>7. CASE ToolApprove(h)
  BY <1>7, PushTables DEF ToolApprove, Events
<1> QED BY <1>2, <1>3, <1>4, <1>5, <1>6, <1>7 DEF Arrive

(* A handler under way disturbs no run but its own.                        *)
LEMMA AloneKept ==
  ASSUME TablesInv, NEW h \in Handlers, Alone(h), UNCHANGED history,
         NEW r \in Runs, r = about[h],
         Serial(r) => SerialAt(r)',
         Racing(r) => RacingAt(r)'
  PROVE  SerialInv' /\ RacingInv'
<1>2. ASSUME NEW s \in Runs, s # r
      PROVE  /\ Serial(s)' => SerialAt(s)'
             /\ Racing(s)' => RacingAt(s)'
  <2>1. Elsewhere(s)
    BY <1>2 DEF Alone, Elsewhere, history, request
  <2>2. (Serial(s) => SerialAt(s)) /\ (Racing(s) => RacingAt(s))
    BY DEF TablesInv, SerialInv, RacingInv
  <2> QED BY <2>1, <2>2, ElsewhereKept
<1>3. Serial(r)' <=> Serial(r)
  BY DEF Serial, history, Alone, request
<1>4. Racing(r)' <=> Racing(r)
  BY DEF Racing, history, Alone, request
<1>6. \A s \in Runs : Serial(s)' => SerialAt(s)'
  BY <1>2, <1>3
<1>7. \A s \in Runs : Racing(s)' => RacingAt(s)'
  BY <1>2, <1>4
<1> QED BY <1>6, <1>7 DEF SerialInv, RacingInv

(* The orchestrator answers: no table is written.                          *)
LEMMA GraphTables ==
  ASSUME TablesInv, IInv', NEW h \in Handlers, GraphRun(h) \/ GraphResume(h),
         NEW r \in Runs, r = about[h]
  PROVE  TablesInv'
<1> USE DEF Local, request, tables
<1>1. /\ at[h] \in Replicas /\ pc[h] = "graph" /\ TypeOK /\ HistoryOK
      /\ copy[h] \in Returned /\ todo[h] = <<>> /\ FromGraph
  BY DEF TablesInv, IInv, TypeOK, FromGraph, GraphRun, GraphResume
<1>2. \/ /\ pc' = [pc EXCEPT ![h] = "error"] /\ UNCHANGED <<copy, threads>>
      \/ \E state \in Returned :
           /\ pc' = [pc EXCEPT ![h] = "upsert"]
           /\ copy' = [copy EXCEPT ![h] = state]
           /\ threads' = [threads EXCEPT ![at[h]][about[h]] = state]
           /\ kind[h] = "approve" => state.events = <<"gate", "work">>
  <2>1. CASE GraphRun(h)
    <3>1. PICK state \in {Paused} \cup {Finished(s) : s \in Finals} :
            /\ copy' = [copy EXCEPT ![h] = state]
            /\ threads' = [threads EXCEPT ![at[h]][about[h]] = state]
      BY <2>1 DEF GraphRun
    <3>2. state \in Returned /\ kind[h] # "approve"
      BY <2>1, <3>1 DEF Returned, GraphRun
    <3> QED BY <2>1, <3>1, <3>2 DEF GraphRun
  <2>2. CASE GraphResume(h) /\ copy[h] = Absent
    BY <2>2 DEF GraphResume
  <2>3. CASE GraphResume(h) /\ copy[h] # Absent
    <3>1. PICK state \in IF copy[h] = Paused THEN {Finished(s) : s \in Finals}
                                             ELSE {copy[h]} :
            /\ copy' = [copy EXCEPT ![h] = state]
            /\ threads' = [threads EXCEPT ![at[h]][about[h]] = state]
      BY <2>3 DEF GraphResume
    <3>2. state \in Returned
      BY <1>1, <3>1 DEF Returned
    <3>3. state.events = <<"gate", "work">>
      BY <1>1, <2>3, <3>1, FinishedEvents DEF Finished
    <3> QED BY <2>3, <3>1, <3>2, <3>3 DEF GraphResume
  <2> QED BY <2>1, <2>2, <2>3
<1>3. UNCHANGED <<tables, todo, request, history>>
  BY DEF GraphRun, GraphResume
<1>4. /\ pc'[h] \in {"error", "upsert"}
      /\ pc'[h] = "upsert" /\ kind[h] = "approve" => copy'[h].events = <<"gate", "work">>
      /\ \A g \in Handlers \ {h} : pc'[g] = pc[g] /\ copy'[g] = copy[g]
  BY <1>1, <1>2 DEF TypeOK
<1>5. HistoryOK'
  BY <1>1, <1>3 DEF HistoryOK, history
<1>6. \A p \in Replicas, s \in Runs : threads'[p][s] \in Returned
  <2>1. \A p \in Replicas, s \in Runs : threads[p][s] \in Returned
    BY <1>1 DEF FromGraph
  <2>2. CASE UNCHANGED threads
    BY <2>1, <2>2
  <2>3. CASE \E state \in Returned : threads' = [threads EXCEPT ![at[h]][about[h]] = state]
    <3>1. PICK state \in Returned : threads' = [threads EXCEPT ![at[h]][about[h]] = state]
      BY <2>3
    <3>2. ASSUME NEW p \in Replicas, NEW s \in Runs
          PROVE  threads'[p][s] = state \/ threads'[p][s] = threads[p][s]
      BY <1>1, <3>1 DEF TypeOK
    <3> QED BY <2>1, <3>1, <3>2
  <2> QED BY <1>2, <2>2, <2>3
<1>7. FromGraph'
  <2>1. ASSUME NEW g \in Handlers
        PROVE  /\ pc'[g] = "graph" => copy'[g] \in Returned /\ todo'[g] = <<>>
               /\ kind'[g] = "approve" =>
                    /\ pc'[g] \in Writes => copy'[g].events = <<"gate", "work">>
                    /\ pc'[g] = "upsert" => todo'[g] = <<>>
    <3>1. CASE g = h
      BY <3>1, <1>1, <1>3, <1>4 DEF Writes
    <3>2. CASE g # h
      BY <3>2, <1>1, <1>3, <1>4 DEF FromGraph
    <3> QED BY <3>1, <3>2
  <2> QED BY <1>6, <2>1 DEF FromGraph
<1>8. Alone(h) /\ Active(h)
  BY <1>1, <1>3, <1>4 DEF Alone, Active
<1>9. ASSUME Serial(r) PROVE SerialAt(r)'
  <2>1. SerialAt(r) /\ Under(h, r)
    BY <1>1, <1>8, <1>9 DEF TablesInv, SerialInv, Under
  <2>2. Agree(r)
    BY <1>1, <2>1 DEF SerialAt, Stage
  <2>3. Agree(r)'
    BY <1>3, <2>2 DEF Agree
  <2>4. Stage(h, r)'
    BY <1>1, <1>3, <1>4, <2>3 DEF Stage
  <2> QED BY <1>1, <1>8, <2>1, <2>3, <2>4, SerialStep DEF TablesInv
<1>10. ASSUME Racing(r) PROVE RacingAt(r)'
  <2>1. RacingAt(r)
    BY <1>1, <1>10 DEF TablesInv, RacingInv
  <2>2. \A g \in Handlers : about[g] = r => Holds(g, r)'
    BY <1>1, <1>3, <1>4, <2>1 DEF Holds, RacingAt
  <2>3. \A g \in Handlers : Covers(g, r) => Covers(g, r)'
    BY <1>1, <1>3, <1>4 DEF Covers
  <2>4. Covered(r)'
    BY <1>3, <2>1, <2>3 DEF RacingAt, Covered
  <2> QED BY <1>1, <1>8, <2>1, <2>2, <2>4, RacingStep DEF TablesInv
<1>11. SerialInv' /\ RacingInv'
  BY <1>3, <1>8, <1>9, <1>10, AloneKept
<1> QED BY <1>5, <1>7, <1>11 DEF TablesInv

(* A statement of the repository leaves the threads and the histories, and *)
(* is never that of an approval that has lost the events of the graph.     *)
LEMMA StatementFromGraph ==
  ASSUME TablesInv, NEW h \in Handlers, Alone(h), UNCHANGED <<threads, history>>,
         pc[h] \in Writes, pc'[h] \in {"delete", "append", "checkpoint", "ok"},
         pc'[h] # "ok" => copy'[h] = copy[h]
  PROVE  HistoryOK' /\ FromGraph'
<1> USE DEF Alone, request
<1>1. HistoryOK /\ FromGraph
  BY DEF TablesInv
<1>2. HistoryOK'
  BY <1>1 DEF HistoryOK, history
<1>3. ASSUME NEW g \in Handlers
      PROVE  /\ pc'[g] = "graph" => copy'[g] \in Returned /\ todo'[g] = <<>>
             /\ kind'[g] = "approve" =>
                  /\ pc'[g] \in Writes => copy'[g].events = <<"gate", "work">>
                  /\ pc'[g] = "upsert" => todo'[g] = <<>>
  <2>1. CASE g = h
    BY <2>1, <1>1 DEF FromGraph, Writes
  <2>2. CASE g # h
    BY <2>2, <1>1 DEF FromGraph
  <2> QED BY <2>1, <2>2
<1>4. FromGraph'
  BY <1>1, <1>3 DEF FromGraph
<1> QED BY <1>2, <1>4

(* The row is written whole: what the log lacks is still to be appended,   *)
(* or everything is about to be written again.                             *)
LEMMA UpsertTables ==
  ASSUME TablesInv, IInv', NEW h \in Handlers, UpsertRun(h), NEW r \in Runs, r = about[h]
  PROVE  TablesInv'
<1> USE DEF UpsertRun, Local
<1>1. /\ IInv /\ TypeOK /\ HistoryOK /\ FromGraph /\ copy[h] # Absent /\ Kept(copy[h])
      /\ todo[h] \in Seq(Events) /\ pc[h] = "upsert"
  BY DEF TablesInv, IInv, TypeOK, Objects, Writing
<1>2. /\ rows'[r] = copy[h] /\ log' = log /\ checkpoint' = checkpoint
      /\ UNCHANGED <<threads, copy, todo, history>>
      /\ pc'[h] = IF todo[h] = <<>> THEN "delete" ELSE "append"
      /\ \A g \in Handlers \ {h} : pc'[g] = pc[g]
  BY <1>1 DEF TypeOK
<1>3. Alone(h) /\ Active(h) /\ Active(h)'
  BY <1>1, <1>2 DEF Alone, Active, TypeOK
<1>4. HistoryOK' /\ FromGraph'
  BY <1>2, <1>3, StatementFromGraph DEF Writes
<1> HIDE DEF UpsertRun, Local
<1>5. ASSUME Serial(r) PROVE SerialAt(r)'
  <2>1. SerialAt(r) /\ Under(h, r)
    BY <1>3, <1>5 DEF TablesInv, SerialInv, Under
  <2>2. log[r] = rows[r].events /\ (todo[h] = <<>> \/ copy[h].events = rows[r].events \o todo[h])
    BY <2>1, <1>1 DEF SerialAt, Stage, Agree
  <2>3. Stage(h, r)'
    BY <1>2, <2>2 DEF Stage
  <2> QED BY <1>1, <1>3, <2>1, <2>3, SerialStep
<1>6. ASSUME Racing(r) PROVE RacingAt(r)'
  <2>1. RacingAt(r) /\ Under(h, r)
    BY <1>3, <1>6 DEF TablesInv, RacingInv, Under
  <2>2. ASSUME NEW g \in Handlers, about[g] = r PROVE Holds(g, r)'
    <3>1. CASE g = h
      BY <3>1, <1>2 DEF Holds
    <3>2. CASE g # h /\ Under(g, r)
      <4>1. kind[g] = "approve" /\ kind[h] = "approve"
        BY <3>2, <2>1 DEF RacingAt
      <4>2. copy[h].events = <<"gate", "work">>
        BY <4>1, <1>1 DEF FromGraph, Writes
      <4>3. /\ pc[g] \in Writes => copy[g].events = <<"gate", "work">>
            /\ pc[g] = "upsert" => todo[g] = <<>>
        BY <4>1, <1>1 DEF FromGraph
      <4> QED BY <3>2, <4>2, <4>3, <1>2 DEF Holds, Writes
    <3>3. CASE g # h /\ ~Under(g, r)
      BY <2>2, <3>3, <1>2 DEF Holds, Under, Active
    <3> QED BY <3>1, <3>2, <3>3
  <2>3. Covered(r)'
    <3>1. CASE todo[h] = <<>>
      BY <3>1, <1>2, <1>3 DEF Covered, Covers, Alone, request
    <3>2. CASE todo[h] # <<>>
      <4>1. kind[h] # "approve"
        BY <3>2, <1>1 DEF FromGraph
      <4>2. \A g \in Handlers : Under(g, r) => g = h
        BY <4>1, <2>1 DEF RacingAt
      <4>3. \A g \in Handlers : about[g] = r => ~Covers(g, r)
        BY <4>2, <1>1 DEF Under, Active, Covers
      <4>4. Elements(rows[r].events) \subseteq Elements(log[r])
        BY <2>1, <4>3 DEF RacingAt, Covered
      <4>5. copy[h].events = rows[r].events \o todo[h]
        BY <2>1, <3>2, <1>1 DEF RacingAt, Holds
      <4>6. rows[r].events \in Seq(Events)
        <5>1. rows[r] = Absent \/ rows[r] \in Row
          BY <1>1 DEF TypeOK
        <5>2. Absent.events = <<>> /\ <<>> \in Seq(Events)
          BY DEF Absent
        <5>3. rows[r] \in Row => rows[r].events \in Seq(Events)
          BY DEF Row
        <5> QED BY <5>1, <5>2, <5>3
      <4>7. Elements(copy[h].events) = Elements(rows[r].events) \cup Elements(todo[h])
        BY <1>1, <4>5, <4>6, ConcatElements
      <4>8. Elements(rows'[r].events) \subseteq Elements(log'[r]) \cup Elements(todo'[h])
        BY <4>4, <4>7, <1>2
      <4>9. Covers(h, r)'
        BY <3>2, <4>8, <1>2 DEF Covers
      <4> QED BY <4>9, <1>3 DEF Covered, Alone, request
    <3> QED BY <3>1, <3>2
  <2> QED BY <1>1, <1>3, <2>1, <2>2, <2>3, RacingStep
<1>7. SerialInv' /\ RacingInv'
  BY <1>2, <1>3, <1>5, <1>6, AloneKept
<1> QED BY <1>4, <1>7 DEF TablesInv

(* The log is emptied by a handler that is about to write all of it.       *)
LEMMA DeleteTables ==
  ASSUME TablesInv, IInv', NEW h \in Handlers, DeleteRunEvents(h), NEW r \in Runs, r = about[h]
  PROVE  TablesInv'
<1> USE DEF DeleteRunEvents, Local
<1>1. /\ IInv /\ TypeOK /\ HistoryOK /\ copy[h] # Absent /\ Kept(copy[h])
      /\ pc[h] = "delete"
  BY DEF TablesInv, IInv, Objects, Writing
<1>2. /\ rows' = rows /\ log'[r] = <<>> /\ checkpoint' = checkpoint
      /\ UNCHANGED <<threads, copy, history>>
      /\ pc'[h] = "append" /\ todo'[h] = copy[h].events
      /\ \A g \in Handlers \ {h} : pc'[g] = pc[g] /\ todo'[g] = todo[g]
  BY <1>1 DEF TypeOK
<1>3. Alone(h) /\ Active(h) /\ Active(h)'
  BY <1>1, <1>2 DEF Alone, Active, TypeOK
<1>4. HistoryOK' /\ FromGraph'
  BY <1>2, <1>3, StatementFromGraph DEF Writes
<1> HIDE DEF DeleteRunEvents, Local
<1>5. copy[h].events \in Seq(Events) /\ <<>> \o copy[h].events = copy[h].events
  <2>1. copy[h].events \in Seq(Events)
    BY <1>1 DEF Kept, Row
  <2> QED BY <2>1, EmptyConcat
<1>6. ASSUME Serial(r) PROVE SerialAt(r)'
  <2>1. SerialAt(r) /\ Under(h, r)
    BY <1>3, <1>6 DEF TablesInv, SerialInv, Under
  <2>2. rows[r] = copy[h]
    BY <2>1, <1>1 DEF SerialAt, Stage
  <2>3. log'[r] \o todo'[h] = copy[h].events
    BY <1>2, <1>5
  <2>4. Stage(h, r)'
    BY <1>2, <2>2, <2>3 DEF Stage
  <2> QED BY <1>1, <1>3, <2>1, <2>4, SerialStep
<1>7. ASSUME Racing(r) PROVE RacingAt(r)'
  <2>1. RacingAt(r) /\ Holds(h, r)
    BY <1>7 DEF TablesInv, RacingInv, RacingAt
  <2>2. rows[r].events = copy[h].events
    BY <2>1, <1>1 DEF Holds
  <2>3. \A g \in Handlers : about[g] = r => Holds(g, r)'
    BY <1>2, <2>1, <2>2 DEF Holds, RacingAt
  <2>4. Covers(h, r)'
    BY <1>2, <2>2 DEF Covers
  <2>5. Covered(r)'
    BY <2>4, <1>3 DEF Covered, Alone, request
  <2> QED BY <1>1, <1>3, <2>1, <2>3, <2>5, RacingStep
<1>8. SerialInv' /\ RacingInv'
  BY <1>2, <1>3, <1>6, <1>7, AloneKept
<1> QED BY <1>4, <1>8 DEF TablesInv

(* The first event to be appended moves to the log.                        *)
LEMMA AppendTables ==
  ASSUME TablesInv, IInv', NEW h \in Handlers, AppendRunEvent(h), NEW r \in Runs, r = about[h]
  PROVE  TablesInv'
<1> USE DEF AppendRunEvent, Local
<1>1. /\ IInv /\ TypeOK /\ HistoryOK /\ todo[h] \in Seq(Events) /\ Len(todo[h]) > 0
      /\ log[r] \in Seq(Events) /\ pc[h] = "append"
  BY DEF TablesInv, IInv, TypeOK, Writing
<1>2. /\ rows' = rows /\ log'[r] = Append(log[r], Head(todo[h])) /\ checkpoint' = checkpoint
      /\ UNCHANGED <<threads, copy, history>>
      /\ pc'[h] = (IF Tail(todo[h]) = <<>> THEN "checkpoint" ELSE "append")
      /\ todo'[h] = Tail(todo[h])
      /\ \A g \in Handlers \ {h} : pc'[g] = pc[g] /\ todo'[g] = todo[g]
  BY <1>1 DEF TypeOK
<1>3. Alone(h) /\ Active(h) /\ Active(h)'
  BY <1>1, <1>2 DEF Alone, Active, TypeOK
<1>4. HistoryOK' /\ FromGraph'
  BY <1>2, <1>3, StatementFromGraph DEF Writes
<1> HIDE DEF AppendRunEvent, Local
<1>5. /\ log'[r] \o todo'[h] = log[r] \o todo[h]
      /\ Elements(log'[r]) = Elements(log[r]) \cup {Head(todo[h])}
      /\ Elements(todo[h]) = {Head(todo[h])} \cup Elements(todo'[h])
  <2>1. /\ Head(todo[h]) \in Events
        /\ Elements(todo[h]) = {Head(todo[h])} \cup Elements(Tail(todo[h]))
    BY <1>1, HeadTail
  <2>2. Elements(Append(log[r], Head(todo[h]))) = Elements(log[r]) \cup {Head(todo[h])}
    BY <1>1, <2>1, AppendElements
  <2>3. Append(log[r], Head(todo[h])) \o Tail(todo[h]) = log[r] \o todo[h]
    BY <1>1, MoveHead
  <2> QED BY <1>2, <2>1, <2>2, <2>3
<1>6. log'[r] \in Seq(Events)
  BY DEF IInv, TypeOK
<1>7. ASSUME Serial(r) PROVE SerialAt(r)'
  <2>1. SerialAt(r) /\ Under(h, r)
    BY <1>3, <1>7 DEF TablesInv, SerialInv, Under
  <2>2. rows[r] = copy[h] /\ log'[r] \o todo'[h] = copy[h].events
    BY <2>1, <1>5, <1>1 DEF SerialAt, Stage
  <2>3. todo'[h] = <<>> => log'[r] = copy[h].events
    BY <1>6, <2>2, EmptyConcat
  <2>4. Stage(h, r)'
    BY <1>2, <2>2, <2>3 DEF Stage
  <2> QED BY <1>1, <1>3, <2>1, <2>4, SerialStep
<1>8. ASSUME Racing(r) PROVE RacingAt(r)'
  <2>1. RacingAt(r) /\ Holds(h, r)
    BY <1>8 DEF TablesInv, RacingInv, RacingAt
  <2>2. \A g \in Handlers : about[g] = r => Holds(g, r)'
    BY <1>2, <2>1, <1>1 DEF Holds, RacingAt
  <2>3. \A g \in Handlers \ {h} : Covers(g, r) => Covers(g, r)'
    BY <1>2, <1>5 DEF Covers
  <2>4. Covers(h, r) => Covers(h, r)' \/ Elements(rows'[r].events) \subseteq Elements(log'[r])
    <3>1. Elements(<<>>) = {}
      BY DEF Elements
    <3> QED BY <3>1, <1>2, <1>5, <1>1 DEF Covers
  <2>5. Covered(r)'
    BY <2>1, <2>3, <2>4, <1>2, <1>3, <1>5 DEF RacingAt, Covered, Alone, request
  <2> QED BY <1>1, <1>3, <2>1, <2>2, <2>5, RacingStep
<1>9. SerialInv' /\ RacingInv'
  BY <1>2, <1>3, <1>7, <1>8, AloneKept
<1> QED BY <1>4, <1>9 DEF TablesInv

(* With the checkpoint the three tables agree.                             *)
LEMMA SaveTables ==
  ASSUME TablesInv, IInv', NEW h \in Handlers, SaveCheckpoint(h), NEW r \in Runs, r = about[h]
  PROVE  TablesInv'
<1> USE DEF SaveCheckpoint, Local
<1>1. IInv /\ TypeOK /\ HistoryOK /\ pc[h] = "checkpoint"
  BY DEF TablesInv, IInv
<1>2. /\ rows' = rows /\ log' = log /\ checkpoint'[r] = copy[h].status
      /\ UNCHANGED <<threads, todo, history>>
      /\ pc'[h] = "ok" /\ copy'[h] = Absent
      /\ \A g \in Handlers \ {h} : pc'[g] = pc[g] /\ copy'[g] = copy[g]
  BY <1>1 DEF TypeOK
<1>3. Alone(h) /\ Active(h) /\ ~Active(h)'
  BY <1>1, <1>2 DEF Alone, Active, TypeOK
<1>4. HistoryOK' /\ FromGraph'
  BY <1>2, <1>3, StatementFromGraph DEF Writes
<1> HIDE DEF SaveCheckpoint, Local
<1>5. ASSUME Serial(r) PROVE SerialAt(r)'
  <2>1. SerialAt(r) /\ Under(h, r)
    BY <1>3, <1>5 DEF TablesInv, SerialInv, Under
  <2>2. rows[r] = copy[h] /\ log[r] = copy[h].events
    BY <2>1, <1>1 DEF SerialAt, Stage
  <2>3. Agree(r)'
    BY <1>2, <2>2 DEF Agree
  <2> QED BY <1>1, <1>3, <2>1, <2>3, SerialStep
<1>6. ASSUME Racing(r) PROVE RacingAt(r)'
  <2>1. RacingAt(r)
    BY <1>6 DEF TablesInv, RacingInv
  <2>2. \A g \in Handlers : about[g] = r => Holds(g, r)'
    BY <1>2, <2>1 DEF Holds, RacingAt
  <2>3. \A g \in Handlers : Covers(g, r) => Covers(g, r)'
    BY <1>2, <1>1 DEF Covers
  <2>4. Covered(r)'
    BY <2>1, <2>3, <1>2, <1>3 DEF RacingAt, Covered, Alone, request
  <2> QED BY <1>1, <1>3, <2>1, <2>2, <2>4, RacingStep
<1>7. SerialInv' /\ RacingInv'
  BY <1>2, <1>3, <1>5, <1>6, AloneKept
<1> QED BY <1>4, <1>7 DEF TablesInv

(* A handler that is gone has hurt its run; the others are left alone.     *)
LEMMA ForgetTables ==
  ASSUME TablesInv, IInv', NEW gone \in SUBSET Handlers, Forget(gone),
         \A h \in gone : Active(h),
         \/ UNCHANGED threads
         \/ \E p \in Replicas :
              threads' = [threads EXCEPT ![p] = [r \in Runs |-> Absent]]
  PROVE  TablesInv'
<1> USE DEF Forget, tables, request
<1>1. IInv /\ TypeOK /\ HistoryOK /\ FromGraph
  BY DEF TablesInv, IInv
<1>2. HistoryOK'
  BY <1>1 DEF HistoryOK
<1>3. \A p \in Replicas, r \in Runs : threads'[p][r] \in Returned
  <2>1. CASE UNCHANGED threads
    BY <1>1, <2>1 DEF FromGraph
  <2>2. CASE \E p \in Replicas : threads' = [threads EXCEPT ![p] = [r \in Runs |-> Absent]]
    <3>1. PICK p \in Replicas : threads' = [threads EXCEPT ![p] = [r \in Runs |-> Absent]]
      BY <2>2
    <3>2. ASSUME NEW q \in Replicas, NEW s \in Runs
          PROVE  threads'[q][s] = Absent \/ threads'[q][s] = threads[q][s]
      BY <1>1, <3>1 DEF TypeOK
    <3> QED BY <1>1, <3>2 DEF FromGraph, Returned
  <2> QED BY <2>1, <2>2
<1>4. ASSUME NEW g \in Handlers
      PROVE  \/ g \in gone /\ pc'[g] = "error"
             \/ g \notin gone /\ pc'[g] = pc[g] /\ copy'[g] = copy[g] /\ todo'[g] = todo[g]
  BY <1>4
<1>5. FromGraph'
  BY <1>1, <1>3, <1>4 DEF FromGraph, Writes
<1>6. ASSUME NEW r \in Runs, ~hurt'[r]
      PROVE  /\ Serial(r)' => SerialAt(r)'
             /\ Racing(r)' => RacingAt(r)'
  <2>1. ~hurt[r] /\ \A h \in gone : about[h] # r
    BY <1>6
  <2>2. hurt'[r] = hurt[r]
    BY <1>1, <2>1, <1>6 DEF HistoryOK
  <2>3. Elsewhere(r)
    BY <1>4, <2>1, <2>2 DEF Elsewhere
  <2> QED BY <2>3, ElsewhereKept DEF TablesInv, SerialInv, RacingInv
<1>7. SerialInv' /\ RacingInv'
  BY <1>6 DEF SerialInv, RacingInv, Serial, Racing
<1> QED BY <1>2, <1>5, <1>7 DEF TablesInv

(* In every state the handlers reach, each one's stage tells how far its   *)
(* run's tables have come.                                                 *)
THEOREM TablesInvariance == Spec => []TablesInv
<1>1. Init => TablesInv
  <2> SUFFICES ASSUME Init PROVE TablesInv
    OBVIOUS
  <2>1. IInv /\ HistoryOK
    BY DEF Init, IInv, TypeOK, Objects, Writing, HistoryOK
  <2>2. \A h \in Handlers : ~Active(h) /\ pc[h] = "idle"
    BY DEF Init, Active
  <2>3. FromGraph
    BY <2>2 DEF Init, FromGraph, Returned, Writes
  <2>4. \A r \in Runs : SerialAt(r)
    BY <2>2 DEF Init, SerialAt, Busy, Under, Agree, Absent
  <2>5. \A r \in Runs : RacingAt(r)
    <3>1. Elements(<<>>) = {}
      BY DEF Elements
    <3> QED BY <2>2, <3>1 DEF Init, RacingAt, Under, Holds, Covered, Absent
  <2> QED BY <2>1, <2>3, <2>4, <2>5 DEF TablesInv, SerialInv, RacingInv
<1>2. ASSUME TablesInv, IInv', [Next]_vars PROVE TablesInv'
  <2> USE <1>2
  <2>1. ASSUME NEW h \in Handlers, Arrive(h) PROVE TablesInv'
    BY <2>1, ArriveTables
  <2>2. ASSUME NEW h \in Handlers, Continue(h) PROVE TablesInv'
    <3>1. about[h] \in Runs
      BY DEF TablesInv, IInv, TypeOK
    <3> QED
      BY <2>2, <3>1, GraphTables, UpsertTables, DeleteTables, AppendTables, SaveTables
      DEF Continue
  <2>3. ASSUME NEW h \in Handlers, Fail(h) PROVE TablesInv'
    BY <2>3, ForgetTables DEF Fail
  <2>4. ASSUME NEW p \in Replicas, Crash(p) PROVE TablesInv'
    BY <2>4, ForgetTables DEF Crash
  <2>5. CASE UNCHANGED vars
    <3>1. \A r \in Runs : Elsewhere(r)
      BY <2>5 DEF vars, tables, request, history, Elsewhere
    <3>2. SerialInv' /\ RacingInv'
      BY <3>1, ElsewhereKept DEF TablesInv, SerialInv, RacingInv
    <3>3. HistoryOK' /\ FromGraph'
      BY <2>5 DEF vars, tables, request, history, TablesInv, HistoryOK, FromGraph
    <3> QED BY <3>2, <3>3 DEF TablesInv
  <2> QED BY <2>1, <2>2, <2>3, <2>4, <2>5 DEF Next
<1> QED BY <1>1, <1>2, Invariance, PTL DEF Spec

(* When the handlers of a run came one after the other and none failed,    *)
(* its row, its events and its checkpoint agree once the last has answered.*)
THEOREM SerialHandlersAgree == Spec => []SerialTablesAgree
<1>1. TablesInv => SerialTablesAgree
  BY DEF TablesInv, SerialInv, SerialAt, Serial, Agree, SerialTablesAgree
<1> QED BY <1>1, TablesInvariance, PTL

(* Approvals of one run that race lose no event of its row from the log.   *)
THEOREM RacingApprovalsKeepEvents == Spec => []RacingApprovalsLoseNoEvent
<1>1. ASSUME TablesInv, NEW r \in Runs, ~Busy(r), Racing(r)
      PROVE  ToSet(rows[r].events) \subseteq ToSet(log[r])
  <2>1. Covered(r)
    BY <1>1 DEF TablesInv, RacingInv, RacingAt
  <2>2. \A h \in Handlers : about[h] = r => ~Covers(h, r)
    BY <1>1 DEF Busy, Active, Covers
  <2>3. Elements(rows[r].events) \subseteq Elements(log[r])
    BY <2>1, <2>2 DEF Covered
  <2>4. \A s : ToSet(s) = Elements(s)
    BY DEF ToSet, Elements
  <2> QED BY <2>3, <2>4
<1>2. TablesInv => RacingApprovalsLoseNoEvent
  BY <1>1 DEF RacingApprovalsLoseNoEvent, Racing
<1> QED BY <1>2, TablesInvariance, PTL
=============================================================================
