--------------------------- MODULE TeamHierarchy ---------------------------
(***************************************************************************)
(* agent-core/hierarchical/orchestrator.ts: teams and the teams below      *)
(* them, the delegation of a task to the teams below, and the results of   *)
(* the sub-tasks put together.                                             *)
(***************************************************************************)
EXTENDS Naturals, FiniteSets, SequencesExt, FiniteSetsExt

CONSTANTS
    Teams, NoTeam,
    maxLevels,
    maxChildrenPerTeam,
    Rules,          \* the delegation rules that are added
    MaxChanges      \* bound: changes of the hierarchy

Complexities == {"low", "high"}
Strategies == {"parallel", "sequential", "voting"}

(* A rule holds for one complexity.                                        *)
ASSUME TeamAssumption ==
    /\ NoTeam \notin Teams /\ maxLevels \in Nat /\ maxChildrenPerTeam \in Nat /\ MaxChanges \in Nat
    /\ Rules \subseteq [condition : Complexities, target : Teams, priority : Nat,
                        enabled : BOOLEAN]

VARIABLES
    teamHierarchy,  \* team -> its record
    changes,
    again,          \* a team was registered again (history)
    looped,         \* a team was put below itself (history)
    exec,           \* the sub-tasks under way
    tally           \* team -> its sub-tasks in subTaskResults, by status

teamVars == <<teamHierarchy, changes, again, looped, exec, tally>>

Unregistered == [known |-> FALSE, parent |-> NoTeam, level |-> 0, children |-> <<>>,
                 rules |-> <<>>]
Statuses == {"pending", "in_progress", "completed", "failed"}
NoResult == [completed |-> 0, failed |-> 0, total |-> 0, positive |-> FALSE]
NoExec == [strategy |-> "none", team |-> NoTeam, to |-> <<>>, status |-> <<>>,
           result |-> NoResult]

Record == [known : BOOLEAN, parent : Teams \cup {NoTeam}, level : 0..(maxLevels + MaxChanges),
           children : Seq(Teams), rules : Seq(Rules)]
Result == [completed : Nat, failed : Nat, total : Nat, positive : BOOLEAN]
Exec == [strategy : Strategies \cup {"none"}, team : Teams \cup {NoTeam}, to : Seq(Teams),
         status : Seq(Statuses), result : Result]

TeamTypeOK ==
    /\ teamHierarchy \in [Teams -> Record]
    /\ changes \in 0..MaxChanges /\ again \in BOOLEAN /\ looped \in BOOLEAN
    /\ exec \in Exec
    /\ tally \in [Teams -> [completed : Nat, failed : Nat]]

TeamInit ==
    /\ teamHierarchy = [t \in Teams |-> Unregistered]
    /\ changes = 0 /\ again = FALSE /\ looped = FALSE
    /\ exec = NoExec
    /\ tally = [t \in Teams |-> [completed |-> 0, failed |-> 0]]

In(t) == teamHierarchy[t].known
Children(t) == teamHierarchy[t].children
Parent(t) == teamHierarchy[t].parent
Full(t) == Len(Children(t)) >= maxChildrenPerTeam
Change == changes < MaxChanges /\ changes' = changes + 1

-----------------------------------------------------------------------------
(* getTeamPath, from the team up; it would not end in a loop, so that it   *)
(* is cut off here after as many steps as there are teams.                 *)
Path(t) ==
    LET up[n \in 0..Cardinality(Teams)] ==
          IF n = 0 THEN <<t>>
          ELSE LET top == Parent(Last(up[n - 1])) IN
               IF top = NoTeam THEN up[n - 1] ELSE Append(up[n - 1], top)
    IN up[Cardinality(Teams)]

(* getDescendants: the queue of children, level by level.                  *)
Descendants(t) ==
    LET below[n \in 0..Cardinality(Teams)] ==
          IF n = 0 THEN Children(t)
          ELSE FlattenSeq([i \in DOMAIN below[n - 1] |-> Children(below[n - 1][i])])
    IN FlattenSeq([n \in 1..(Cardinality(Teams) + 1) |-> below[n - 1]])

(* registerTeam: a new record, even when the team has one.                 *)
RegisterTeam(t, parent, level) ==
    /\ Change
    /\ level <= maxLevels
    /\ parent # NoTeam => In(parent) /\ ~Full(parent)
    /\ LET new == [teamHierarchy EXCEPT ![t] = [Unregistered EXCEPT !.known = TRUE,
                       !.parent = parent, !.level = level]]
       IN teamHierarchy' = IF parent = NoTeam THEN new
                           (* The record of a parent that is the team itself *)
                           (* was replaced: its child goes to the old one.   *)
                           ELSE IF parent = t THEN new
                           ELSE [new EXCEPT ![parent].children = Append(@, t)]
    /\ again' = (again \/ In(t))
    /\ looped' = (looped \/ parent = t)
    /\ UNCHANGED <<exec, tally>>

(* children.filter(id => id !== childId)                                   *)
Without(s, x) ==
    LET kept[n \in 0..Len(s)] ==
          IF n = 0 THEN <<>>
          ELSE IF s[n] = x THEN kept[n - 1] ELSE Append(kept[n - 1], s[n])
    IN kept[Len(s)]

(* Mutant: the old parent keeps the child.                                 *)
KeptBySetParentChild(p, c) ==
    /\ Change
    /\ In(p) /\ In(c) /\ ~Full(p)
    /\ teamHierarchy' = [teamHierarchy EXCEPT ![c].parent = p, ![c].level = teamHierarchy[p].level + 1,
                                              ![p].children = Append(@, c)]
    /\ looped' = (looped \/ c \in ToSet(Path(p)))
    /\ UNCHANGED <<again, exec, tally>>

(* setParentChildRelationship: neither the levels below the child nor      *)
(* whether the parent is below it is looked at.                            *)
SetParentChild(p, c) ==
    /\ Change
    /\ In(p) /\ In(c) /\ ~Full(p)
    /\ LET old == Parent(c)
           left == IF old = NoTeam THEN teamHierarchy
                   ELSE [teamHierarchy EXCEPT ![old].children = Without(@, c)]
       IN teamHierarchy' = [left EXCEPT ![c].parent = p, ![c].level = left[p].level + 1,
                                        ![p].children = Append(@, c)]
    /\ looped' = (looped \/ c \in ToSet(Path(p)))
    /\ UNCHANGED <<again, exec, tally>>

AddRule(t, r) ==
    /\ Change /\ In(t)
    /\ teamHierarchy' = [teamHierarchy EXCEPT ![t].rules = Append(@, r)]
    /\ UNCHANGED <<again, looped, exec, tally>>

RemoveRule(t, i) ==
    /\ Change /\ i \in DOMAIN teamHierarchy[t].rules
    /\ teamHierarchy' = [teamHierarchy EXCEPT ![t].rules = RemoveAt(@, i)]
    /\ UNCHANGED <<again, looped, exec, tally>>

-----------------------------------------------------------------------------
(* evaluateDelegation: the first enabled rule of the highest priority that *)
(* matches, or else the first child for a task of high complexity.         *)
Matching(t, complexity) ==
    LET rules == teamHierarchy[t].rules IN
    {i \in DOMAIN rules : rules[i].enabled /\ rules[i].condition = complexity}
Best(t, matching) ==
    LET rules == teamHierarchy[t].rules IN
    CHOOSE i \in matching : \A j \in matching :
      \/ rules[i].priority > rules[j].priority
      \/ rules[i].priority = rules[j].priority /\ i <= j
EvaluateDelegation(t, complexity) ==
    IF ~In(t) \/ Children(t) = <<>> THEN NoTeam
    ELSE LET matching == Matching(t, complexity) IN
         IF matching # {} THEN teamHierarchy[t].rules[Best(t, matching)].target
         ELSE IF complexity = "high" THEN Children(t)[1] ELSE NoTeam

(* splitTask: every child gets a part of a complex task, the first child   *)
(* gets any other; the team that was chosen above plays no part in it.     *)
SplitTask(t, complexity) ==
    IF ~In(t) \/ Children(t) = <<>> THEN <<>>
    ELSE IF complexity = "high" THEN Children(t) ELSE <<Children(t)[1]>>

Begun(strategy, n) ==
    [i \in 1..n |-> IF strategy = "sequential" /\ i > 1 THEN "pending" ELSE "in_progress"]
ExecuteSubTasks(t, complexity, strategy) ==
    /\ exec.strategy = "none"
    /\ EvaluateDelegation(t, complexity) # NoTeam
    /\ LET to == SplitTask(t, complexity) IN
       exec' = [NoExec EXCEPT !.strategy = strategy, !.team = t, !.to = to,
                              !.status = Begun(strategy, Len(to))]
    /\ UNCHANGED <<teamHierarchy, changes, again, looped, tally>>

Count(s, x) == Cardinality({i \in DOMAIN s : s[i] = x})

(* aggregateResults; all results are alike, so that they vote as one.      *)
AggregateResults(strategy, status) ==
    LET completed == Count(status, "completed") failed == Count(status, "failed") IN
    [completed |-> completed, failed |-> failed, total |-> completed + failed,
     positive |-> IF strategy = "voting" THEN 2 * completed > completed + failed
                  ELSE failed = 0]

(* Mutant: a failure does not stop the sequence.                           *)
GoingAfter(strategy, status, i) ==
    IF strategy = "sequential" /\ i < Len(status)
    THEN [status EXCEPT ![i + 1] = "in_progress"] ELSE status

(* The sub-task after one that has ended, of a sequence.                   *)
After(strategy, status, i) ==
    IF strategy = "sequential" /\ i < Len(status) /\ status[i] = "completed"
    THEN [status EXCEPT ![i + 1] = "in_progress"] ELSE status

ExecuteSubTask(i, outcome) ==
    /\ i \in DOMAIN exec.status /\ exec.status[i] = "in_progress"
    /\ LET status == After(exec.strategy, [exec.status EXCEPT ![i] = outcome], i) IN
       exec' = [exec EXCEPT !.status = status,
                            !.result = IF Count(status, "in_progress") = 0
                                       THEN AggregateResults(exec.strategy, status) ELSE @]
    /\ tally' = [tally EXCEPT ![exec.to[i]][outcome] = @ + 1]
    /\ UNCHANGED <<teamHierarchy, changes, again, looped>>

TeamNext ==
    \/ \E t \in Teams :
         \/ RegisterTeam(t, NoTeam, 0)
         \/ \E p \in Teams : RegisterTeam(t, p, teamHierarchy[p].level + 1)
         \/ \E p \in Teams : SetParentChild(p, t)
         \/ \E r \in Rules : AddRule(t, r)
         \/ \E i \in 1..MaxChanges : RemoveRule(t, i)
         \/ \E x \in Complexities, s \in Strategies : ExecuteSubTasks(t, x, s)
    \/ \E i \in 1..(maxChildrenPerTeam + 1) :
         \E outcome \in {"completed", "failed"} : ExecuteSubTask(i, outcome)

(* getTeamStats: what the team and those below it did.                     *)
SubTasksBelow(t, status) ==
    MapThenSumSet(LAMBDA u : tally[u][status], {t} \cup ToSet(Descendants(t)))

-----------------------------------------------------------------------------
(* A team is in the list of the team that it says is above it, once, and   *)
(* in no other list, however teams were moved; no team has more children   *)
(* than it may.  (A team that is registered again keeps its place in the   *)
(* old list: that is a hazard of this code.)                               *)
LinksAgree ==
    /\ \A t \in Teams : Len(Children(t)) <= maxChildrenPerTeam
    /\ ~again /\ ~looped => \A t \in Teams :
         IsInjective(Children(t)) /\ ToSet(Children(t)) = {u \in Teams : Parent(u) = t}

(* Going up and going down find the same teams, each once: a team is below *)
(* another exactly when that one is on its path.  (A team under itself has *)
(* no end of ancestors.)                                                   *)
PathsAgree == ~again /\ ~looped => \A t \in Teams :
    /\ IsInjective(Descendants(t))
    /\ ToSet(Descendants(t)) = {d \in Teams \ {t} : t \in ToSet(Path(d))}

(* The summary of a delegation counts every sub-task that ran, once: all   *)
(* of them, or those up to the first failure in a sequence; and it is not  *)
(* called a success unless most of them were.                              *)
SummariesAddUp == exec.strategy # "none" /\ Count(exec.status, "in_progress") = 0 =>
    LET r == exec.result
        failures == {i \in DOMAIN exec.status : exec.status[i] = "failed"}
    IN /\ r.total = IF exec.strategy = "sequential" /\ failures # {}
                    THEN CHOOSE i \in failures : \A j \in failures : i <= j
                    ELSE Len(exec.to)
       /\ r.positive => 2 * r.completed > r.total

(* Every sub-task that has ended is in the statistics of exactly one team  *)
(* without parent.                                                         *)
StatisticsAddUp == ~again /\ ~looped => \A status \in {"completed", "failed"} :
    MapThenSumSet(LAMBDA t : SubTasksBelow(t, status),
                  {t \in Teams : In(t) /\ Parent(t) = NoTeam})
      = MapThenSumSet(LAMBDA t : tally[t][status], Teams)
=============================================================================
