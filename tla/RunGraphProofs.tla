--------------------------- MODULE RunGraphProofs ---------------------------
(***************************************************************************)
(* Theorems about RunGraph, for every set of invocations, threads, roles,  *)
(* plans and tools, with and without an LLM client.                        *)
(*                                                                         *)
(* What has to be known of a channel state is the same wherever it is      *)
(* held, in the MemorySaver or in an invocation, so the inductive          *)
(* invariant is one predicate, Sound(s, t), over both.                     *)
(***************************************************************************)
EXTENDS RunGraph, TLAPS

(* Before the planner ran nothing has been produced.                       *)
PreNodes == {"START", "intake", "profile", "template_select", "team_design",
             "model_route", "tools_allocate", "skills_load", "approval_gate",
             "human_feedback"}

WorkNodes == {"planner", "specialists_parallel", "tool_executor",
              "aggregate", "verifier"}

Fresh(s) ==
    /\ s.revisionCount = 0 /\ s.revised = {} /\ s.planned = {}
    /\ s.results = {} /\ s.toolRuns = {} /\ s.verification = "none"

(* D is what resume() has been given for the thread so far.                *)
Cleared(s, D) == s.mode = "approval" => s.approvalGranted /\ "approve" \in D

Worked(s) == s.planned # {} \/ s.results # {} \/ s.toolRuns # {}

(* Where the verdict has been given in favour of the run.                  *)
Accepted(s) == s.next \in {"finalizer", "END"} /\ s.verification = "passed"

Covered(s) ==
    /\ s.planned # {}
    /\ \A c \in ToolCalls(s) :
         \E e \in s.toolRuns : e.result = c[1] /\ e.tool = c[2]

OutputOf(s) == IF s.results = {} THEN "no_results" ELSE "success"

Sound(s, D) ==
    /\ s.next \in PreNodes => Fresh(s)
    /\ s.next \in WorkNodes \/ Worked(s) => Cleared(s, D)
    /\ FailureRouted(s)
    /\ RevisionsBounded(s)
    /\ s.next = "planner" => s.revisionCount < MAX_REVISIONS /\ s.revisionCount \notin s.planned
    /\ \A k \in s.planned : k <= s.revisionCount
    /\ s.next \in {"planner", "specialists_parallel", "tool_executor"}
         => \A e \in s.toolRuns : e.rev # s.revisionCount
    /\ s.next \in {"specialists_parallel", "tool_executor"}
         => s.revisionCount \in s.planned
    /\ s.next \in {"aggregate", "verifier"} \/ Accepted(s) => Covered(s)
    /\ s.next = "verifier" \/ Accepted(s) => s.output = OutputOf(s)
    /\ s.next = "END" => (s.status = "completed" <=> s.verification = "passed")

IInv ==
    /\ TypeOK
    /\ \A i \in Invocations : phase[i] = "idle" => resumeWith[i] = "none"
    /\ \A i \in Invocations :
         resumeWith[i] # "none" => resumeWith[i] \in decided[thread[i]]
    /\ \A t \in Threads : Sound(saved[t], decided[t])
    /\ \A i \in Invocations : Sound(st[i], decided[thread[i]])

-----------------------------------------------------------------------------
(* Lemmas.                                                                 *)

(* The record a run starts from is well typed and sound.                   *)
LEMMA InputSound ==
    ASSUME NEW mode \in Modes, NEW roles \in SUBSET Roles, NEW D
    PROVE  /\ InputState(mode, roles) \in ChannelState
           /\ Sound(InputState(mode, roles), D)
<1>1. InputState(mode, roles) \in ChannelState
  BY DEF InputState, ChannelState, Modes, Statuses, Nodes
<1>2. Sound(InputState(mode, roles), D)
  BY DEF InputState, Sound, PreNodes, WorkNodes, Fresh, Worked, Cleared,
         FailureRouted, RevisionsBounded, MAX_REVISIONS, Accepted
<1> QED BY <1>1, <1>2

(* So is the record of a thread without a checkpoint.                      *)
LEMMA BlankSound ==
    ASSUME NEW D
    PROVE  Blank \in ChannelState /\ Sound(Blank, D)
<1>1. "auto" \in Modes /\ {} \in SUBSET Roles
  BY DEF Modes
<1>2. Blank \in ChannelState
  BY <1>1, InputSound DEF Blank, ChannelState, Nodes
<1>3. Sound(Blank, D)
  BY DEF Blank, InputState, Sound, PreNodes, WorkNodes, Fresh, Worked, Cleared,
         FailureRouted, RevisionsBounded, MAX_REVISIONS, Accepted
<1> QED BY <1>2, <1>3

(* A further decision never takes the soundness of a state away.           *)
LEMMA SoundMonotone ==
    ASSUME NEW s, NEW D, NEW E, D \subseteq E, Sound(s, D)
    PROVE  Sound(s, E)
  BY DEF Sound, Cleared

(* A node whose update is well typed and sound keeps the invariant.        *)
LEMMA ApplyKeeps ==
    ASSUME IInv, NEW i \in Invocations, NEW s \in ChannelState,
           Sound(s, decided[thread[i]]), Apply(i, s)
    PROVE  IInv'
<1> USE DEF IInv, TypeOK, Apply
<1>1. TypeOK'
  OBVIOUS
<1>2. \A t \in Threads : Sound(saved'[t], decided'[t])
  OBVIOUS
<1>3. \A j \in Invocations : Sound(st'[j], decided'[thread'[j]])
  OBVIOUS
<1> QED BY <1>1, <1>2, <1>3

(* A node that throws leaves the checkpoint as it was.                     *)
LEMMA ThrowKeeps ==
    ASSUME IInv, NEW i \in Invocations, phase[i] = "active", Throw(i)
    PROVE  IInv'
  BY DEF IInv, TypeOK, Throw

-----------------------------------------------------------------------------
(* Each node, as a fact about the record it is given.                      *)

(* Nothing announced and nothing planned is within the bounds.             *)
LEMMA FreshBounded ==
    ASSUME NEW s, Fresh(s)
    PROVE  /\ RevisionsBounded(s) /\ s.revisionCount < MAX_REVISIONS /\ ~Worked(s)
           /\ s.planned = {} /\ s.toolRuns = {}
  BY DEF Fresh, RevisionsBounded, MAX_REVISIONS, Worked

(* The preparation nodes, up to the gate: nothing is produced yet, and a   *)
(* run leaves them for the planner only when it needs no approval.         *)
LEMMA PreparationSound ==
    ASSUME NEW s \in ChannelState, NEW D, Sound(s, D), s.next \in PreNodes,
           NEW u \in ChannelState,
           u.next \in PreNodes \/ (u.next = "planner" /\ Cleared(u, D)),
           u.status # "failed",
           \A f \in {"revisionCount", "revised", "planned", "results",
                     "toolRuns", "verification"} : u[f] = s[f]
    PROVE  Sound(u, D)
<1>1. Fresh(s)
  BY DEF Sound
<1>2. Fresh(u)
  BY <1>1 DEF Fresh, ChannelState
<1>3. u.next \notin {"specialists_parallel", "tool_executor", "aggregate",
                     "verifier", "finalizer", "END"}
  BY DEF PreNodes
<1>4. u.next \in WorkNodes => Cleared(u, D)
  BY DEF PreNodes, WorkNodes
<1>5. /\ RevisionsBounded(u) /\ u.revisionCount < MAX_REVISIONS /\ ~Worked(u)
      /\ u.planned = {} /\ u.toolRuns = {}
  BY <1>2, FreshBounded
<1> QED BY <1>2, <1>3, <1>4, <1>5
        DEF Sound, FailureRouted, Accepted

(* human_feedback, approved: "approve" is one of the thread's decisions.   *)
LEMMA ApproveSound ==
    ASSUME NEW s \in ChannelState, NEW D, Sound(s, D), s.next = "human_feedback",
           "approve" \in D,
           NEW u, u = [s EXCEPT !.approvalGranted = TRUE, !.status = "running",
                                !.next = "planner"]
    PROVE  u \in ChannelState /\ Sound(u, D)
<1>1. u \in ChannelState
  BY DEF ChannelState, Statuses, Nodes
<1>2. Fresh(s)
  BY DEF Sound, PreNodes
<1>3. Fresh(u) /\ u.next = "planner" /\ u.status = "running" /\ u.approvalGranted
  BY <1>2 DEF Fresh, ChannelState
<1>4. /\ RevisionsBounded(u) /\ u.revisionCount < MAX_REVISIONS
      /\ u.planned = {} /\ u.toolRuns = {}
  BY <1>3, FreshBounded
<1>5. Cleared(u, D)
  BY <1>3 DEF Cleared
<1> QED BY <1>1, <1>3, <1>4, <1>5 DEF Sound, PreNodes, FailureRouted, Accepted

(* human_feedback, rejected: the run is on its way to fail.                *)
LEMMA RejectSound ==
    ASSUME NEW s \in ChannelState, NEW D, Sound(s, D), s.next = "human_feedback",
           NEW u, u = [s EXCEPT !.approvalGranted = FALSE, !.status = "failed",
                                !.next = "finalizer"]
    PROVE  u \in ChannelState /\ Sound(u, D)
<1>1. u \in ChannelState
  BY DEF ChannelState, Statuses, Nodes
<1>2. Fresh(s)
  BY DEF Sound, PreNodes
<1>3. Fresh(u) /\ u.next = "finalizer" /\ u.status = "failed"
  BY <1>2 DEF Fresh, ChannelState
<1>4. /\ RevisionsBounded(u) /\ ~Worked(u)
      /\ u.planned = {} /\ u.toolRuns = {}
  BY <1>3, FreshBounded
<1>5. FailureRouted(u) /\ ~Accepted(u)
  BY <1>3 DEF Fresh, FailureRouted, Accepted
<1> QED BY <1>1, <1>3, <1>4, <1>5 DEF Sound, PreNodes, WorkNodes

(* planner: it runs only in an approved run, once per revision.            *)
LEMMA PlanSound ==
    ASSUME NEW s \in ChannelState, NEW D, Sound(s, D), s.next = "planner",
           NEW p \in ParsedPlans,
           NEW u, u = [s EXCEPT !.plan = p.plan, !.readable = p.readable,
                                !.planned = @ \cup {s.revisionCount},
                                !.next = "specialists_parallel"]
    PROVE  u \in ChannelState /\ Sound(u, D)
<1>1. Plans \subseteq Seq(SUBSET (Roles \cup StepIds))
  <2>1. DefaultPlan \in Seq(SUBSET (Roles \cup StepIds))
    BY DEF DefaultPlan
  <2>2. \A n \in 0..MaxGroups : [1..n -> Groups] \subseteq Seq(SUBSET (Roles \cup StepIds))
    BY RunGraphAssumption
  <2> QED BY <2>1, <2>2 DEF Plans
<1>2. u \in ChannelState
  <2>1. p.plan \in Seq(SUBSET (Roles \cup StepIds)) /\ p.readable \in BOOLEAN
    <3>1. <<>> \in Seq(SUBSET (Roles \cup StepIds))
      OBVIOUS
    <3>2. CASE p \in {[plan |-> q, readable |-> TRUE] : q \in Plans}
      <4>1. PICK q \in Plans : p = [plan |-> q, readable |-> TRUE]
        BY <3>2
      <4>2. q \in Seq(SUBSET (Roles \cup StepIds)) /\ p.plan = q /\ p.readable = TRUE
        BY <1>1, <4>1
      <4> QED BY <4>2
    <3>3. CASE p = [plan |-> <<>>, readable |-> FALSE]
      BY <3>1, <3>3
    <3> QED BY <3>2, <3>3 DEF ParsedPlans
  <2> QED BY <2>1 DEF ChannelState, Nodes
<1>3. /\ u.next = "specialists_parallel" /\ u.status = s.status
      /\ u.planned = s.planned \cup {s.revisionCount}
      /\ u.revisionCount = s.revisionCount /\ u.revised = s.revised
      /\ u.results = s.results /\ u.mode = s.mode /\ u.toolRuns = s.toolRuns
      /\ u.approvalGranted = s.approvalGranted
  BY DEF ChannelState
<1>4. s.revisionCount < MAX_REVISIONS /\ s.revisionCount \in Nat
  BY DEF Sound, ChannelState
<1>5. Cleared(u, D)
  BY <1>3 DEF Sound, WorkNodes, Cleared
<1>6. RevisionsBounded(u)
  BY <1>3, <1>4 DEF Sound, RevisionsBounded, MAX_REVISIONS
<1>7. /\ \A k \in u.planned : k <= u.revisionCount
      /\ \A e \in u.toolRuns : e.rev # u.revisionCount
  BY <1>3, <1>4 DEF Sound
<1> QED BY <1>2, <1>3, <1>5, <1>6, <1>7
        DEF Sound, PreNodes, FailureRouted, Accepted

(* A specialist's result, built from its parts, has its type.              *)
LEMMA ResultTyped ==
    ASSUME NEW r \in Roles, NEW v \in Nat, NEW g \in Nat,
           NEW T \in SUBSET Tools, NEW o \in Outcomes
    PROVE  [role |-> r, rev |-> v, group |-> g, tools |-> T, status |-> o] \in Result
  BY DEF Result

(* specialists_parallel: the new results belong to the planned revision.   *)
LEMMA SpecialistsSound ==
    ASSUME NEW s \in ChannelState, NEW D, Sound(s, D),
           s.next = "specialists_parallel",
           NEW answer \in [Selected(s) -> UNION {Answers(r) : r \in Roles}],
           \A x \in Selected(s) : answer[x] \in Answers(x[2]),
           NEW u, u = [s EXCEPT
                   !.results = @ \cup
                       {[role |-> x[2], rev |-> s.revisionCount,
                         group |-> x[1], tools |-> answer[x].tools,
                         status |-> answer[x].status] : x \in Selected(s)},
                   !.next = "tool_executor"]
    PROVE  u \in ChannelState /\ Sound(u, D)
<1> DEFINE new(x) == [role |-> x[2], rev |-> s.revisionCount, group |-> x[1],
                      tools |-> answer[x].tools, status |-> answer[x].status]
<1>1. \A x \in Selected(s) : new(x) \in Result
  <2> SUFFICES ASSUME NEW x \in Selected(s) PROVE new(x) \in Result
    OBVIOUS
  <2>1. s.assigned \in SUBSET Roles /\ s.revisionCount \in Nat
        /\ s.plan \in Seq(SUBSET (Roles \cup StepIds))
    BY DEF ChannelState
  <2>2. x[2] \in Roles /\ x[1] \in Nat
    BY <2>1 DEF Selected
  <2>3. \A r \in Roles : RoleTools[r] \subseteq Tools
    BY DEF Tools
  <2>4. answer[x].tools \in SUBSET Tools /\ answer[x].status \in Outcomes
    BY <2>2, <2>3 DEF Answers, Outcomes
  <2> QED BY <2>1, <2>2, <2>4, ResultTyped
<1>2. u.results = s.results \cup {new(x) : x \in Selected(s)}
  BY DEF ChannelState
<1>3. u \in ChannelState
  <2> DEFINE R == s.results \cup {new(x) : x \in Selected(s)}
  <2>1. R \in SUBSET Result
    BY <1>1 DEF ChannelState
  <2>2. u = [s EXCEPT !.results = R, !.next = "tool_executor"]
    OBVIOUS
  <2> HIDE DEF R
  <2> QED BY <2>1, <2>2 DEF ChannelState, Nodes
<1>4. /\ u.next = "tool_executor" /\ u.status = s.status
      /\ u.planned = s.planned
      /\ u.revisionCount = s.revisionCount /\ u.revised = s.revised
      /\ u.mode = s.mode /\ u.approvalGranted = s.approvalGranted
      /\ u.toolRuns = s.toolRuns /\ s.results \subseteq u.results
  BY <1>2 DEF ChannelState
<1>5. Cleared(u, D)
  BY <1>4 DEF Sound, WorkNodes, Cleared
<1>6. \A r \in u.results : r.rev \in u.planned
  BY <1>2, <1>4 DEF Sound, RevisionsBounded
<1>7. RevisionsBounded(u)
  BY <1>4, <1>6 DEF Sound, RevisionsBounded
<1> QED BY <1>3, <1>4, <1>5, <1>7
        DEF Sound, PreNodes, FailureRouted, Accepted

(* tool_executor: afterwards every call has an outcome.                    *)
LEMMA ToolsSound ==
    ASSUME NEW s \in ChannelState, NEW D, Sound(s, D), s.next = "tool_executor",
           NEW outcome \in [ToolCalls(s) -> Outcomes],
           NEW u, u = [s EXCEPT
                   !.toolRuns = @ \cup
                       {[result |-> c[1], tool |-> c[2],
                         rev |-> s.revisionCount, status |-> outcome[c]]
                          : c \in ToolCalls(s)},
                   !.next = "aggregate"]
    PROVE  u \in ChannelState /\ Sound(u, D)
<1> DEFINE new(c) == [result |-> c[1], tool |-> c[2],
                      rev |-> s.revisionCount, status |-> outcome[c]]
           R == s.toolRuns \cup {new(c) : c \in ToolCalls(s)}
<1>1. R \in SUBSET ToolRun
  <2>1. \A c \in ToolCalls(s) : new(c) \in ToolRun
    BY DEF ToolCalls, ToolRun, ChannelState
  <2> QED BY <2>1 DEF ChannelState
<1>2. u = [s EXCEPT !.toolRuns = R, !.next = "aggregate"]
  OBVIOUS
<1>3. \A c \in ToolCalls(s) : \E e \in R : e.result = c[1] /\ e.tool = c[2]
  <2> SUFFICES ASSUME NEW c \in ToolCalls(s)
               PROVE  \E e \in R : e.result = c[1] /\ e.tool = c[2]
    OBVIOUS
  <2>1. new(c) \in R /\ new(c).result = c[1] /\ new(c).tool = c[2]
    OBVIOUS
  <2> QED BY <2>1
<1> HIDE DEF R
<1>4. u \in ChannelState
  BY <1>1, <1>2 DEF ChannelState, Nodes
<1>5. /\ u.next = "aggregate" /\ u.status = s.status /\ u.planned = s.planned
      /\ u.revisionCount = s.revisionCount /\ u.revised = s.revised
      /\ u.results = s.results /\ u.mode = s.mode /\ u.toolRuns = R
      /\ u.approvalGranted = s.approvalGranted
  BY <1>2 DEF ChannelState
<1>6. Cleared(u, D)
  BY <1>5 DEF Sound, WorkNodes, Cleared
<1>7. RevisionsBounded(u)
  <2> DEFINE Old(e) == e \in s.toolRuns
             New(e) == \E c \in ToolCalls(s) : e = new(c)
  <2>1. s.revisionCount \in s.planned /\ \A r \in s.results : r.rev <= s.revisionCount
    BY DEF Sound, RevisionsBounded
  <2>2. \A e \in R : Old(e) \/ New(e)
    BY DEF R
  <2>3. ASSUME NEW e, New(e)
        PROVE  /\ e.result \in s.results /\ e.rev = s.revisionCount
               /\ e = new(<<e.result, e.tool>>)
    <3>1. PICK c \in ToolCalls(s) : e = new(c)
      BY <2>3
    <3>2. c \in s.results \X Tools /\ c = <<c[1], c[2]>>
      BY DEF ToolCalls
    <3>3. e.result = c[1] /\ e.tool = c[2] /\ e.rev = s.revisionCount
      BY <3>1
    <3> QED BY <3>1, <3>2, <3>3
  <2>4. ASSUME NEW e, Old(e)
        PROVE  /\ e.result \in s.results /\ e.rev \in s.planned /\ e.result.rev <= e.rev
               /\ e.rev # s.revisionCount
    BY <2>4 DEF Sound, RevisionsBounded
  <2>5. \A e \in R : e.result \in s.results /\ e.rev \in s.planned /\ e.result.rev <= e.rev
    BY <2>1, <2>2, <2>3, <2>4
  <2> HIDE DEF Old, New, new
  <2>6. ASSUME NEW e \in R, NEW f \in R,
               e.result = f.result, e.tool = f.tool, e.rev = f.rev
        PROVE  e = f
    <3>1. CASE Old(e) /\ Old(f)
      BY <2>6, <3>1 DEF Sound, RevisionsBounded, Old
    <3>2. CASE New(e) /\ New(f)
      <4>1. e = new(<<e.result, e.tool>>)
        BY <2>3, <3>2
      <4>2. f = new(<<f.result, f.tool>>)
        BY <2>3, <3>2
      <4>3. <<e.result, e.tool>> = <<f.result, f.tool>>
        BY <2>6
      <4> QED BY <4>1, <4>2, <4>3, Zenon
    <3> QED BY <2>2, <2>3, <2>4, <2>6, <3>1, <3>2
  <2> QED BY <1>5, <2>5, <2>6 DEF Sound, RevisionsBounded
<1>8. Covered(u)
  <2>1. u.planned # {}
    BY <1>5 DEF Sound
  <2>2. ToolCalls(u) = ToolCalls(s)
    BY <1>5 DEF ToolCalls
  <2> QED BY <1>3, <1>5, <2>1, <2>2 DEF Covered
<1> QED BY <1>4, <1>5, <1>6, <1>7, <1>8
        DEF Sound, PreNodes, FailureRouted, Accepted

(* aggregate: the output says whether there are results.                   *)
LEMMA AggregateSound ==
    ASSUME NEW s \in ChannelState, NEW D, Sound(s, D), s.next = "aggregate",
           NEW u, u = [s EXCEPT
                   !.output = IF s.results = {} THEN "no_results" ELSE "success",
                   !.next = "verifier"]
    PROVE  u \in ChannelState /\ Sound(u, D)
<1>1. u \in ChannelState
  BY DEF ChannelState, Nodes
<1>2. /\ u.next = "verifier" /\ u.status = s.status /\ u.planned = s.planned
      /\ u.revisionCount = s.revisionCount /\ u.revised = s.revised
      /\ u.results = s.results /\ u.mode = s.mode /\ u.toolRuns = s.toolRuns
      /\ u.approvalGranted = s.approvalGranted /\ u.output = OutputOf(s)
  BY DEF ChannelState, OutputOf
<1>3. Cleared(u, D)
  BY <1>2 DEF Sound, WorkNodes, Cleared
<1>4. RevisionsBounded(u)
  BY <1>2 DEF Sound, RevisionsBounded
<1>5. Covered(u)
  BY <1>2 DEF Sound, Covered, ToolCalls
<1>6. u.output = OutputOf(u)
  BY <1>2 DEF OutputOf
<1> QED BY <1>1, <1>2, <1>3, <1>4, <1>5, <1>6
        DEF Sound, PreNodes, FailureRouted, Accepted

(* verifier: v, c, x, R and n are the verdict, the count, the status, the  *)
(* revisions and the node it leaves.                                       *)
Judged(s, v, c, x, R, n) ==
    [s EXCEPT !.verification = v, !.revisionCount = c, !.status = x,
              !.revised = R, !.next = n]

PassVerdict(s, v, c, x, R, n) ==
    /\ v = "passed" /\ c = s.revisionCount /\ R = s.revised
    /\ x = "running" /\ n = "finalizer"

FailVerdict(s, v, c, x, R, n) ==
    /\ v = "failed" /\ R = 1..c
    /\ \/ s.revisionCount < MAX_REVISIONS /\ c = s.revisionCount + 1
       \/ s.revisionCount >= MAX_REVISIONS /\ c = s.revisionCount
    /\ \/ c >= MAX_REVISIONS /\ x = "failed" /\ n = "finalizer"
       \/ c < ROUTER_LIMIT /\ x = "running" /\ n = "planner"

(* Sound because the limits, MAX_REVISIONS and ROUTER_LIMIT, agree.        *)
LEMMA VerdictSound ==
    ASSUME NEW s \in ChannelState, NEW D, Sound(s, D), s.next = "verifier",
           NEW v, NEW c, NEW x, NEW R, NEW n,
           PassVerdict(s, v, c, x, R, n) \/ FailVerdict(s, v, c, x, R, n)
    PROVE  /\ Judged(s, v, c, x, R, n) \in ChannelState
           /\ Sound(Judged(s, v, c, x, R, n), D)
<1> DEFINE u == Judged(s, v, c, x, R, n)
<1> USE DEF PassVerdict, FailVerdict
<1>1. s.revisionCount \in Nat /\ s.revisionCount <= MAX_REVISIONS
      /\ s.revised = 1..s.revisionCount
  BY DEF ChannelState, Sound, RevisionsBounded
<1>2. c \in Nat /\ c <= MAX_REVISIONS /\ R = 1..c
  <2>1. CASE c = s.revisionCount
    BY <1>1, <2>1
  <2>2. CASE s.revisionCount < MAX_REVISIONS /\ c = s.revisionCount + 1
    BY <1>1, <2>2 DEF MAX_REVISIONS
  <2> QED BY <2>1, <2>2
<1>3. u \in ChannelState
  <2>1. v \in {"passed", "failed"} /\ x \in Statuses /\ n \in Nodes
    BY DEF Nodes, Statuses
  <2>2. c \in Nat /\ R \in SUBSET Nat
    BY <1>2
  <2> QED BY <2>1, <2>2 DEF ChannelState, Judged
<1>4. /\ u.next = n /\ u.revisionCount = c /\ u.status = x /\ u.revised = R
      /\ u.verification = v
      /\ u.planned = s.planned /\ u.results = s.results /\ u.mode = s.mode
      /\ u.toolRuns = s.toolRuns /\ u.approvalGranted = s.approvalGranted
      /\ u.output = s.output
  BY DEF ChannelState, Judged
<1> HIDE DEF u
<1>5. Cleared(u, D)
  BY <1>4 DEF Sound, WorkNodes, Cleared
<1>6. RevisionsBounded(u)
  <2>1. s.planned \ {0} \subseteq R
    BY <1>1, <1>2 DEF Sound, RevisionsBounded, MAX_REVISIONS
  <2> QED BY <1>2, <1>4, <2>1 DEF Sound, RevisionsBounded
<1>7. Covered(u) /\ u.output = OutputOf(u)
  BY <1>4 DEF Sound, Covered, ToolCalls, OutputOf
<1>8. /\ FailureRouted(u)
      /\ u.next \in {"finalizer", "planner"}
      /\ u.next = "planner" => u.revisionCount < MAX_REVISIONS
  BY <1>4 DEF FailureRouted, ROUTER_LIMIT, MAX_REVISIONS
<1>9. \A k \in u.planned : k <= u.revisionCount
  <2>1. \A k \in s.planned : k \in Nat /\ k <= s.revisionCount
    BY DEF Sound, ChannelState
  <2>2. s.revisionCount <= c
    BY <1>1
  <2> QED BY <1>1, <1>2, <1>4, <2>1, <2>2
<1>10. ASSUME n = "planner"
       PROVE  c \notin u.planned /\ \A e \in u.toolRuns : e.rev # c
  <2>1. c = s.revisionCount + 1
    BY <1>1, <1>10 DEF MAX_REVISIONS, ROUTER_LIMIT
  <2>2. \A k \in s.planned : k \in Nat /\ k <= s.revisionCount
    BY DEF Sound, ChannelState
  <2>3. \A e \in s.toolRuns : e.rev \in s.planned
    BY DEF Sound, RevisionsBounded
  <2>4. \A k \in s.planned : k # c
    BY <1>1, <2>1, <2>2
  <2> QED BY <1>4, <2>3, <2>4
<1> QED BY <1>3, <1>4, <1>5, <1>6, <1>7, <1>8, <1>9, <1>10 DEF Sound, PreNodes, u

(* finalizer: completed exactly when the verdict passed.                   *)
LEMMA FinalSound ==
    ASSUME NEW s \in ChannelState, NEW D, Sound(s, D), s.next = "finalizer",
           NEW u, u = [s EXCEPT
                   !.status = IF s.verification = "passed"
                                THEN "completed" ELSE "failed",
                   !.next = "END"]
    PROVE  u \in ChannelState /\ Sound(u, D)
<1>1. u \in ChannelState
  BY DEF ChannelState, Nodes, Statuses
<1>2. /\ u.next = "END" /\ u.planned = s.planned /\ u.output = s.output
      /\ u.revisionCount = s.revisionCount /\ u.revised = s.revised
      /\ u.results = s.results /\ u.mode = s.mode /\ u.toolRuns = s.toolRuns
      /\ u.approvalGranted = s.approvalGranted /\ u.verification = s.verification
      /\ u.status = IF s.verification = "passed" THEN "completed" ELSE "failed"
  BY DEF ChannelState
<1>3. Worked(u) => Cleared(u, D)
  BY <1>2 DEF Sound, Worked, Cleared
<1>4. RevisionsBounded(u)
  BY <1>2 DEF Sound, RevisionsBounded
<1>5. Accepted(u) => Covered(u) /\ u.output = OutputOf(u)
  BY <1>2 DEF Sound, Accepted, Covered, ToolCalls, OutputOf
<1>6. FailureRouted(u)
  BY <1>2 DEF FailureRouted
<1> QED BY <1>1, <1>2, <1>3, <1>4, <1>5, <1>6 DEF Sound, PreNodes, WorkNodes
-----------------------------------------------------------------------------
(* The actions.                                                            *)

(* An update of a preparation node that leaves what runs produce alone.    *)
LEMMA PreparationKeeps ==
    ASSUME IInv, NEW i \in Invocations, st[i].next \in PreNodes,
           NEW u \in ChannelState, Apply(i, u),
           u.next \in PreNodes
             \/ (u.next = "planner" /\ Cleared(u, decided[thread[i]])),
           u.status # "failed",
           \A f \in {"revisionCount", "revised", "planned", "results",
                     "toolRuns", "verification"} : u[f] = st[i][f]
    PROVE  IInv'
<1>1. st[i] \in ChannelState /\ Sound(st[i], decided[thread[i]])
  BY DEF IInv, TypeOK
<1>2. Sound(u, decided[thread[i]])
  BY <1>1, PreparationSound
<1> QED BY <1>2, ApplyKeeps

(* Every step of an invocation, a node or an interrupt, keeps it.          *)
LEMMA StepKeeps ==
    ASSUME IInv, NEW i \in Invocations, Step(i)
    PROVE  IInv'
<1> DEFINE s == st[i]
           D == decided[thread[i]]
<1>1. s \in ChannelState /\ Sound(s, D)
  BY DEF IInv, TypeOK
<1>2. ASSUME At(i, s.next), Throw(i) PROVE IInv'
  BY <1>2, ThrowKeeps DEF At
<1>3. s.next \in PreNodes => s.status # "failed"
  BY <1>1 DEF Sound, FailureRouted, PreNodes
<1>4. CASE IntakeNode(i)
  <2>1. CASE Throw(i)
    BY <1>4, <2>1, ThrowKeeps DEF IntakeNode, At
  <2>2. CASE Apply(i, [s EXCEPT !.status = "running", !.next = "profile"])
    BY <1>1, <1>4, <2>2, PreparationKeeps
       DEF IntakeNode, At, ChannelState, Nodes, Statuses, PreNodes
  <2> QED BY <1>4, <2>1, <2>2 DEF IntakeNode
<1>5. CASE ProfileNode(i)
  BY <1>1, <1>3, <1>5, PreparationKeeps
     DEF ProfileNode, At, ChannelState, Nodes, PreNodes
<1>6. CASE TemplateSelectNode(i)
  <2>1. CASE Throw(i)
    BY <1>6, <2>1, ThrowKeeps DEF TemplateSelectNode, At
  <2>2. CASE Apply(i, [s EXCEPT !.next = "team_design"])
    BY <1>1, <1>3, <1>6, <2>2, PreparationKeeps
       DEF TemplateSelectNode, At, ChannelState, Nodes, PreNodes
  <2> QED BY <1>6, <2>1, <2>2 DEF TemplateSelectNode
<1>7. CASE TeamDesignNode(i)
  BY <1>1, <1>3, <1>7, PreparationKeeps
     DEF TeamDesignNode, At, ChannelState, Nodes, PreNodes
<1>8. CASE ModelRouteNode(i)
  <2>1. CASE Throw(i)
    BY <1>8, <2>1, ThrowKeeps DEF ModelRouteNode, At
  <2>2. CASE Apply(i, [s EXCEPT !.next = "tools_allocate"])
    BY <1>1, <1>3, <1>8, <2>2, PreparationKeeps
       DEF ModelRouteNode, At, ChannelState, Nodes, PreNodes
  <2> QED BY <1>8, <2>1, <2>2 DEF ModelRouteNode
<1>9. CASE ToolsAllocateNode(i)
  BY <1>1, <1>3, <1>9, PreparationKeeps
     DEF ToolsAllocateNode, At, ChannelState, Nodes, PreNodes
<1>10. CASE SkillsLoadNode(i)
  <2>1. CASE Throw(i)
    BY <1>10, <2>1, ThrowKeeps DEF SkillsLoadNode, At
  <2>2. CASE Apply(i, [s EXCEPT !.next = "approval_gate"])
    BY <1>1, <1>3, <1>10, <2>2, PreparationKeeps
       DEF SkillsLoadNode, At, ChannelState, Nodes, PreNodes
  <2> QED BY <1>10, <2>1, <2>2 DEF SkillsLoadNode
<1>11. CASE ApprovalGateNode(i)
  <2>1. s.next = "approval_gate"
    BY <1>11 DEF ApprovalGateNode, At
  <2>2. CASE s.mode = "approval"
    <3> DEFINE u == [s EXCEPT !.approvalGranted = FALSE,
                       !.status = "waiting_approval", !.next = "human_feedback"]
    <3>1. Apply(i, u)
      BY <1>11, <2>2 DEF ApprovalGateNode
    <3>2. u \in ChannelState
      BY <1>1 DEF ChannelState, Nodes, Statuses
    <3> QED BY <1>1, <2>1, <3>1, <3>2, PreparationKeeps DEF ChannelState, PreNodes
  <2>3. CASE s.mode # "approval"
    <3> DEFINE u == [s EXCEPT !.approvalGranted = TRUE,
                       !.status = "running", !.next = "planner"]
    <3>1. Apply(i, u)
      BY <1>11, <2>3 DEF ApprovalGateNode
    <3>2. u \in ChannelState
      BY <1>1 DEF ChannelState, Nodes, Statuses
    <3>3. Cleared(u, D)
      BY <1>1, <2>3 DEF Cleared, ChannelState
    <3> QED BY <1>1, <2>1, <3>1, <3>2, <3>3, PreparationKeeps DEF ChannelState, PreNodes
  <2> QED BY <2>2, <2>3
<1>12. CASE HumanFeedbackInterrupt(i)
  BY <1>12 DEF IInv, TypeOK, HumanFeedbackInterrupt, At
<1>13. CASE HumanFeedbackNode(i)
  <2>1. s.next = "human_feedback" /\ resumeWith[i] \in D
    BY <1>13 DEF HumanFeedbackNode, At, IInv
  <2>2. CASE resumeWith[i] = "approve"
    <3>1. Apply(i, [s EXCEPT !.approvalGranted = TRUE, !.status = "running",
                             !.next = "planner"])
      BY <1>13, <2>2 DEF HumanFeedbackNode
    <3> QED BY <1>1, <2>1, <2>2, <3>1, ApproveSound, ApplyKeeps
  <2>3. CASE resumeWith[i] # "approve"
    <3>1. Apply(i, [s EXCEPT !.approvalGranted = FALSE, !.status = "failed",
                             !.next = "finalizer"])
      BY <1>13, <2>3 DEF HumanFeedbackNode
    <3> QED BY <1>1, <2>1, <3>1, RejectSound, ApplyKeeps
  <2> QED BY <2>2, <2>3
<1>14. CASE PlannerNode(i)
  <2>1. CASE s.assigned = {}
    BY <1>14, <2>1, ThrowKeeps DEF PlannerNode, At
  <2>2. CASE s.assigned # {}
    <3>1. s.next = "planner"
      BY <1>14 DEF PlannerNode, At
    <3>2. PICK p \in ParsedPlans :
            Apply(i, [s EXCEPT !.plan = p.plan, !.readable = p.readable,
                               !.planned = @ \cup {s.revisionCount},
                               !.next = "specialists_parallel"])
      BY <1>14, <2>2 DEF PlannerNode
    <3> QED BY <1>1, <3>1, <3>2, PlanSound, ApplyKeeps
  <2> QED BY <2>1, <2>2
<1>15. CASE SpecialistsParallelNode(i)
  <2>1. CASE s.assigned = {} \/ ~s.readable
    BY <1>15, <2>1, ThrowKeeps DEF SpecialistsParallelNode, At
  <2>2. CASE ~(s.assigned = {} \/ ~s.readable)
    <3>1. s.next = "specialists_parallel"
      BY <1>15 DEF SpecialistsParallelNode, At
    <3> DEFINE after(answer) == [s EXCEPT
                   !.results = @ \cup
                       {[role |-> x[2], rev |-> s.revisionCount,
                         group |-> x[1], tools |-> answer[x].tools,
                         status |-> answer[x].status] : x \in Selected(s)},
                   !.next = "tool_executor"]
    <3>2. PICK answer \in [Selected(s) -> UNION {Answers(r) : r \in Roles}] :
            /\ \A x \in Selected(s) : answer[x] \in Answers(x[2])
            /\ Apply(i, after(answer))
      BY <1>15, <2>2 DEF SpecialistsParallelNode
    <3>3. after(answer) \in ChannelState /\ Sound(after(answer), D)
      BY <1>1, <3>1, <3>2, SpecialistsSound
    <3> QED BY <3>2, <3>3, ApplyKeeps
  <2> QED BY <2>1, <2>2
<1>16. CASE ToolExecutorNode(i)
  <2>1. s.next = "tool_executor"
    BY <1>16 DEF ToolExecutorNode, At
  <2> DEFINE after(outcome) == [s EXCEPT
                 !.toolRuns = @ \cup
                     {[result |-> c[1], tool |-> c[2],
                       rev |-> s.revisionCount, status |-> outcome[c]]
                        : c \in ToolCalls(s)},
                 !.next = "aggregate"]
  <2>2. PICK outcome \in [ToolCalls(s) -> Outcomes] : Apply(i, after(outcome))
    BY <1>16 DEF ToolExecutorNode
  <2>3. after(outcome) \in ChannelState /\ Sound(after(outcome), D)
    BY <1>1, <2>1, ToolsSound
  <2> QED BY <2>2, <2>3, ApplyKeeps
<1>17. CASE AggregateNode(i)
  BY <1>1, <1>17, AggregateSound, ApplyKeeps DEF AggregateNode, At
<1>18. CASE VerifierNode(i)
  <2>1. s.next = "verifier"
    BY <1>18 DEF VerifierNode, At
  <2> DEFINE k == s.revisionCount
             after(v, c, x, R, n) == Judged(s, v, c, x, R, n)
  <2>2. s.revised = 1..k /\ k \in Nat
    BY <1>1 DEF Sound, RevisionsBounded, ChannelState
  <2>3. CASE Apply(i, after("passed", k, "running", s.revised, "finalizer"))
    <3>1. PassVerdict(s, "passed", k, "running", s.revised, "finalizer")
      BY DEF PassVerdict
    <3> QED BY <1>1, <2>1, <2>3, <3>1, VerdictSound, ApplyKeeps
  <2>4. CASE /\ k >= MAX_REVISIONS
             /\ Apply(i, after("failed", k, "failed", 1..k, "finalizer"))
    <3>1. FailVerdict(s, "failed", k, "failed", 1..k, "finalizer")
      BY <2>4 DEF FailVerdict
    <3> QED BY <1>1, <2>1, <2>4, <3>1, VerdictSound, ApplyKeeps
  <2>5. CASE /\ k < MAX_REVISIONS /\ k + 1 >= MAX_REVISIONS
             /\ Apply(i, after("failed", k + 1, "failed", 1..(k + 1), "finalizer"))
    <3>1. FailVerdict(s, "failed", k + 1, "failed", 1..(k + 1), "finalizer")
      BY <2>5 DEF FailVerdict
    <3> QED BY <1>1, <2>1, <2>5, <3>1, VerdictSound, ApplyKeeps
  <2>6. CASE /\ k < MAX_REVISIONS /\ k + 1 < ROUTER_LIMIT
             /\ Apply(i, after("failed", k + 1, "running", 1..(k + 1), "planner"))
    <3>1. FailVerdict(s, "failed", k + 1, "running", 1..(k + 1), "planner")
      BY <2>6 DEF FailVerdict
    <3> QED BY <1>1, <2>1, <2>6, <3>1, VerdictSound, ApplyKeeps
  <2>7. PICK passed \in Verdicts(s) :
          LET revise == ~passed /\ k < MAX_REVISIONS
              c == IF revise THEN k + 1 ELSE k
          IN Apply(i, after(IF passed THEN "passed" ELSE "failed", c,
                            IF ~passed /\ c >= MAX_REVISIONS
                              THEN "failed" ELSE "running",
                            s.revised \cup (IF revise THEN {c} ELSE {}),
                            RouteAfterVerifier(passed, c)))
    BY <1>18 DEF VerifierNode, Judged
  <2>8. s.revised \cup {} = s.revised /\ s.revised \cup {k + 1} = 1..(k + 1)
    BY <2>2
  <2>9. CASE passed
    BY <2>3, <2>7, <2>8, <2>9 DEF RouteAfterVerifier
  <2>10. CASE ~passed /\ k >= MAX_REVISIONS
    <3>1. ~(k < MAX_REVISIONS) /\ k >= ROUTER_LIMIT
      BY <2>2, <2>10 DEF MAX_REVISIONS, ROUTER_LIMIT
    <3>2. Apply(i, after("failed", k, "failed", s.revised, "finalizer"))
      BY <2>7, <2>8, <2>10, <3>1 DEF RouteAfterVerifier
    <3> QED BY <2>2, <2>4, <2>10, <3>2
  <2>11. CASE ~passed /\ k < MAX_REVISIONS /\ k + 1 >= MAX_REVISIONS
    <3>1. k + 1 >= ROUTER_LIMIT
      BY <2>11 DEF MAX_REVISIONS, ROUTER_LIMIT
    <3>2. Apply(i, after("failed", k + 1, "failed", s.revised \cup {k + 1}, "finalizer"))
      BY <2>7, <2>11, <3>1 DEF RouteAfterVerifier
    <3> QED BY <2>5, <2>8, <2>11, <3>2
  <2>12. CASE ~passed /\ k < MAX_REVISIONS /\ ~(k + 1 >= MAX_REVISIONS)
    <3>1. ~(k + 1 >= ROUTER_LIMIT) /\ k + 1 < ROUTER_LIMIT
      BY <2>2, <2>12 DEF MAX_REVISIONS, ROUTER_LIMIT
    <3>2. Apply(i, after("failed", k + 1, "running", s.revised \cup {k + 1}, "planner"))
      BY <2>7, <2>12, <3>1 DEF RouteAfterVerifier
    <3> QED BY <2>6, <2>8, <2>12, <3>1, <3>2
  <2> QED BY <2>2, <2>9, <2>10, <2>11, <2>12 DEF MAX_REVISIONS
<1>19. CASE FinalizerNode(i)
  BY <1>1, <1>19, FinalSound, ApplyKeeps DEF FinalizerNode, At
<1>20. CASE Return(i)
  BY <1>20 DEF IInv, TypeOK, Return, At
<1> QED BY <1>4, <1>5, <1>6, <1>7, <1>8, <1>9, <1>10, <1>11, <1>12, <1>13,
           <1>14, <1>15, <1>16, <1>17, <1>18, <1>19, <1>20 DEF Step

(* run() starts from a sound record on a thread of its own.                *)
LEMMA RunKeeps ==
    ASSUME IInv, NEW i \in Invocations, NEW t \in Threads,
           NEW mode \in Modes, NEW roles \in SUBSET Roles, Run(i, t, mode, roles)
    PROVE  IInv'
<1> DEFINE u == InputState(mode, roles)
<1>1. u \in ChannelState /\ \A D : Sound(u, D)
  BY InputSound
<1>2. resumeWith[i] = "none"
  BY DEF IInv, Run
<1> HIDE DEF u
<1>3. /\ phase' = [phase EXCEPT ![i] = "active"]
      /\ thread' = [thread EXCEPT ![i] = t]
      /\ st' = [st EXCEPT ![i] = u]
      /\ saved' = [saved EXCEPT ![t] = u]
      /\ UNCHANGED <<resumeWith, decided, restarts>>
  BY DEF Run, u
<1>4. TypeOK'
  BY <1>1, <1>3 DEF IInv, TypeOK
<1>5. \A j \in Invocations : phase'[j] = "idle" => resumeWith'[j] = "none"
  BY <1>3 DEF IInv, TypeOK
<1>6. \A j \in Invocations :
        resumeWith'[j] # "none" => resumeWith'[j] \in decided'[thread'[j]]
  BY <1>2, <1>3 DEF IInv, TypeOK
<1>7. \A r \in Threads : Sound(saved'[r], decided'[r])
  BY <1>1, <1>3 DEF IInv, TypeOK
<1>8. \A j \in Invocations : Sound(st'[j], decided'[thread'[j]])
  BY <1>1, <1>3 DEF IInv, TypeOK
<1> QED BY <1>4, <1>5, <1>6, <1>7, <1>8 DEF IInv

(* resume() starts from the checkpoint, and its decision is remembered.    *)
LEMMA ResumeKeeps ==
    ASSUME IInv, NEW i \in Invocations, NEW t \in Threads,
           NEW decision \in Decisions, Resume(i, t, decision)
    PROVE  IInv'
<1> USE DEF IInv, TypeOK, Resume
<1>1. TypeOK'
  OBVIOUS
<1>2. \A r \in Threads : decided[r] \subseteq decided'[r]
  OBVIOUS
<1>3. decision \in decided'[t] /\ decision # "none"
  BY DEF Decisions
<1>4. \A j \in Invocations : phase'[j] = "idle" => resumeWith'[j] = "none"
  OBVIOUS
<1>5. \A j \in Invocations :
        resumeWith'[j] # "none" => resumeWith'[j] \in decided'[thread'[j]]
  BY <1>2, <1>3
<1>6. \A r \in Threads : Sound(saved'[r], decided'[r])
  BY <1>2, SoundMonotone
<1>7. \A j \in Invocations : Sound(st'[j], decided'[thread'[j]])
  BY <1>2, <1>6, SoundMonotone
<1> QED BY <1>1, <1>4, <1>5, <1>6, <1>7

(* A restart forgets every checkpoint and every invocation.                *)
LEMMA RestartKeeps == ASSUME IInv, Restart PROVE IInv'
<1>1. Blank \in ChannelState /\ \A D : Sound(Blank, D)
  BY BlankSound
<1>2. TypeOK'
  BY <1>1, RunGraphAssumption DEF IInv, TypeOK, Restart
<1>3. \A t \in Threads : Sound(saved'[t], decided'[t])
  BY <1>1 DEF Restart
<1> QED BY <1>2, <1>3 DEF IInv, TypeOK, Restart

(* The invariant holds before the first call.                              *)
LEMMA InitSound == Init => IInv
<1> SUFFICES ASSUME Init PROVE IInv
  OBVIOUS
<1>1. Blank \in ChannelState /\ \A D : Sound(Blank, D)
  BY BlankSound
<1>2. (CHOOSE t \in Threads : TRUE) \in Threads
  BY RunGraphAssumption
<1>3. TypeOK
  BY <1>1, <1>2, RunGraphAssumption DEF Init, TypeOK
<1> QED BY <1>1, <1>2, <1>3 DEF Init, IInv

(* Every step keeps the invariant.                                         *)
LEMMA IInvKept == IInv /\ [Next]_vars => IInv'
<1> SUFFICES ASSUME IInv, [Next]_vars PROVE IInv'
  OBVIOUS
<1>1. CASE UNCHANGED vars
  BY <1>1 DEF vars, IInv, TypeOK
<1>2. CASE Restart
  BY <1>2, RestartKeeps
<1>3. ASSUME NEW i \in Invocations, Call(i) PROVE IInv'
  BY <1>3, RunKeeps, ResumeKeeps DEF Call
<1>4. ASSUME NEW i \in Invocations, Step(i) PROVE IInv'
  BY <1>4, StepKeeps
<1> QED BY <1>1, <1>2, <1>3, <1>4 DEF Next

-----------------------------------------------------------------------------
(* Theorems.                                                               *)

(* The invariant holds in every behaviour of the graph: whatever the       *)
(* callers do, however invocations of a thread interleave, and whenever    *)
(* the process restarts.                                                   *)
THEOREM Invariance == Spec => []IInv
BY InitSound, IInvKept, PTL DEF Spec

(* The channels keep the types OrchestratorState gives them.               *)
THEOREM TypeCorrect == Spec => []TypeOK
<1>1. IInv => TypeOK
  BY DEF IInv
<1> QED BY <1>1, Invariance, PTL

(* No plan, specialist or tool runs in an approval-mode run that none of   *)
(* its resume() callers approved.                                          *)
THEOREM ApprovalSafety == Spec => []WorkNeedsApproval
<1>1. IInv => WorkNeedsApproval
  BY DEF IInv, Sound, Cleared, Worked, WorkNeedsApproval, WorkApproved
<1> QED BY <1>1, Invariance, PTL

(* MAX_REVISIONS in verifier.ts and the literal in routeAfterVerifier      *)
(* never disagree about where a failing run goes.                          *)
THEOREM LimitAgreement == Spec => []LimitsAgree
<1>1. IInv => LimitsAgree
  BY DEF IInv, Sound, LimitsAgree
<1> QED BY <1>1, Invariance, PTL

(* The planner runs at most MAX_REVISIONS times, once for every revision   *)
(* announced, and every result belongs to a planned revision.              *)
THEOREM RevisionSafety == Spec => []RevisionBound
<1>1. IInv => RevisionBound
  BY DEF IInv, Sound, RevisionBound
<1> QED BY <1>1, Invariance, PTL

(* "completed" means that the last verdict passed, on a planned run whose  *)
(* tool calls all have an outcome.                                         *)
THEOREM CompletionSafety == Spec => []CompletionIsVerified
<1>1. ASSUME NEW s, NEW D, Sound(s, D) PROVE Completion(s)
  BY <1>1 DEF Sound, Accepted, Covered, OutputOf, Completion
<1>2. IInv => CompletionIsVerified
  BY <1>1 DEF IInv, CompletionIsVerified
<1> QED BY <1>2, Invariance, PTL

-----------------------------------------------------------------------------
(* What one node may do to the channels, whatever the state it starts from *)
(* and the answers it gets: the reducers add, the plan grows in the planner*)
(* alone, the gate lets only a run in approval mode wait for a human.      *)
Moved(s, u) ==
    /\ u.mode = s.mode /\ u.next # "START"
    /\ s.results \subseteq u.results /\ s.toolRuns \subseteq u.toolRuns
    /\ u.revisionCount \in {s.revisionCount, s.revisionCount + 1}
    /\ IF s.next = "planner" THEN u.planned # {} ELSE u.planned = s.planned
    /\ u.next = "human_feedback" => s.mode = "approval"
    /\ u.next \in {"finalizer", "END"} =>
         s.next \in {"finalizer", "human_feedback"} \/ s.planned # {}

(* What next says about the mode and the plan.                             *)
Entered(s) ==
    /\ s.next = "START" => s.mode = "auto"
    /\ s.next = "human_feedback" => s.mode = "approval"
    /\ s.next \in {"finalizer", "END"} => s.planned # {} \/ s.mode = "approval"

(* The nodes that leave everything but the assignments, the models, the    *)
(* gate's flags and the output alone.                                      *)
LEMMA QuietMoved ==
    ASSUME NEW s \in ChannelState, NEW u, NEW n,
           n \notin {"START", "human_feedback", "finalizer", "END"}, s.next # "planner",
           u.next = n,
           \A f \in {"mode", "results", "toolRuns", "revisionCount", "planned"} : u[f] = s[f]
    PROVE  Moved(s, u)
<1>1. /\ u.mode = s.mode /\ u.results = s.results /\ u.toolRuns = s.toolRuns
      /\ u.revisionCount = s.revisionCount /\ u.planned = s.planned
  OBVIOUS
<1> QED BY <1>1 DEF Moved

(* Only an active invocation takes a step.                                 *)
LEMMA StepActive ==
    ASSUME NEW i \in Invocations, Step(i)
    PROVE  phase[i] = "active"
BY DEF Step, At, IntakeNode, ProfileNode, TemplateSelectNode, TeamDesignNode, ModelRouteNode,
       ToolsAllocateNode, SkillsLoadNode, ApprovalGateNode, HumanFeedbackInterrupt,
       HumanFeedbackNode, PlannerNode, SpecialistsParallelNode, ToolExecutorNode,
       AggregateNode, VerifierNode, FinalizerNode, Return

(* Every step of an invocation moves its channels so, or ends the call.    *)
LEMMA StepMoves ==
    ASSUME IInv, NEW i \in Invocations, Step(i)
    PROVE  \/ \E u \in ChannelState : Apply(i, u) /\ Moved(st[i], u)
           \/ Throw(i) \/ HumanFeedbackInterrupt(i) \/ Return(i)
<1> DEFINE s == st[i]
           Done == \E u \in ChannelState : Apply(i, u) /\ Moved(s, u)
<1>1. s \in ChannelState /\ Sound(s, decided[thread[i]])
  BY DEF IInv, TypeOK
<1>2. Sound(st'[i], decided'[thread'[i]]) /\ st'[i] \in ChannelState
  BY StepKeeps DEF IInv, TypeOK
<1>3. ASSUME NEW u, Apply(i, u) PROVE u \in ChannelState
  BY <1>2, <1>3 DEF Apply, IInv, TypeOK
<1>4. ASSUME NEW u, Apply(i, u), Moved(s, u) PROVE Done
  BY <1>3, <1>4
<1> HIDE DEF Done
<1>5. CASE \/ IntakeNode(i) \/ ProfileNode(i) \/ TemplateSelectNode(i)
           \/ TeamDesignNode(i) \/ ModelRouteNode(i) \/ ToolsAllocateNode(i)
           \/ SkillsLoadNode(i)
  <2>1. s.next \in PreNodes
    BY <1>5
    DEF At, IntakeNode, ProfileNode, TemplateSelectNode, TeamDesignNode, ModelRouteNode,
        ToolsAllocateNode, SkillsLoadNode, PreNodes
  <2>2. PICK u : Throw(i) \/ (Apply(i, u) /\ u \in
          {[s EXCEPT !.status = "running", !.next = "profile"],
           [s EXCEPT !.next = "template_select"], [s EXCEPT !.next = "team_design"],
           [s EXCEPT !.assigned = s.roles, !.models = {}, !.next = "model_route"],
           [s EXCEPT !.next = "tools_allocate"],
           [s EXCEPT !.assigned = s.roles, !.models = s.roles, !.next = "skills_load"],
           [s EXCEPT !.next = "approval_gate"]})
    BY <1>5
    DEF IntakeNode, ProfileNode, TemplateSelectNode, TeamDesignNode, ModelRouteNode,
        ToolsAllocateNode, SkillsLoadNode
  <2>3. CASE ~Throw(i)
    <3>1. /\ u.next \notin {"START", "human_feedback", "finalizer", "END"}
          /\ \A f \in {"mode", "results", "toolRuns", "revisionCount", "planned"} : u[f] = s[f]
      BY <1>1, <2>2, <2>3 DEF ChannelState
    <3>2. s.next # "planner"
      BY <2>1 DEF PreNodes
    <3>3. Moved(s, u)
      BY <1>1, <3>1, <3>2, QuietMoved
    <3> QED BY <1>4, <2>2, <2>3, <3>3 DEF Done
  <2> QED BY <2>3 DEF Done
<1>6. CASE ApprovalGateNode(i)
  <2> DEFINE gated == s.mode = "approval"
             u == [s EXCEPT !.approvalGranted = ~gated,
                            !.status = IF gated THEN "waiting_approval" ELSE "running",
                            !.next = IF gated THEN "human_feedback" ELSE "planner"]
  <2>1. Apply(i, u) /\ s.next = "approval_gate"
    BY <1>6 DEF ApprovalGateNode, At
  <2>2. Moved(s, u)
    BY <1>1, <2>1 DEF Moved, ChannelState
  <2> QED BY <1>4, <2>1, <2>2 DEF Done
<1>7. CASE HumanFeedbackNode(i)
  <2> DEFINE approved == resumeWith[i] = "approve"
             u == [s EXCEPT !.approvalGranted = approved,
                            !.status = IF approved THEN "running" ELSE "failed",
                            !.next = IF approved THEN "planner" ELSE "finalizer"]
  <2>1. Apply(i, u) /\ s.next = "human_feedback"
    BY <1>7 DEF HumanFeedbackNode, At
  <2>2. Moved(s, u)
    BY <1>1, <2>1 DEF Moved, ChannelState
  <2> QED BY <1>4, <2>1, <2>2 DEF Done
<1>8. CASE PlannerNode(i)
  <2>1. CASE s.assigned # {}
    <3>1. PICK p \in ParsedPlans :
            Apply(i, [s EXCEPT !.plan = p.plan, !.readable = p.readable,
                               !.planned = @ \cup {s.revisionCount},
                               !.next = "specialists_parallel"])
      BY <1>8, <2>1 DEF PlannerNode
    <3> DEFINE u == [s EXCEPT !.plan = p.plan, !.readable = p.readable,
                              !.planned = @ \cup {s.revisionCount},
                              !.next = "specialists_parallel"]
    <3>2. Moved(s, u)
      BY <1>1, <1>8 DEF Moved, ChannelState, PlannerNode, At
    <3> QED BY <1>4, <3>1, <3>2 DEF Done
  <2> QED BY <1>8, <2>1 DEF PlannerNode
<1>9. CASE SpecialistsParallelNode(i)
  <2>1. CASE ~(s.assigned = {} \/ ~s.readable)
    <3>1. PICK R : Apply(i, [s EXCEPT !.results = @ \cup R, !.next = "tool_executor"])
      BY <1>9, <2>1 DEF SpecialistsParallelNode
    <3> DEFINE u == [s EXCEPT !.results = @ \cup R, !.next = "tool_executor"]
    <3>2. Moved(s, u)
      BY <1>1, <1>9 DEF Moved, ChannelState, SpecialistsParallelNode, At
    <3> QED BY <1>4, <3>1, <3>2 DEF Done
  <2> QED BY <1>9, <2>1 DEF SpecialistsParallelNode
<1>10. CASE ToolExecutorNode(i)
  <2>1. PICK R : Apply(i, [s EXCEPT !.toolRuns = @ \cup R, !.next = "aggregate"])
    BY <1>10 DEF ToolExecutorNode
  <2> DEFINE u == [s EXCEPT !.toolRuns = @ \cup R, !.next = "aggregate"]
  <2>2. Moved(s, u)
    BY <1>1, <1>10 DEF Moved, ChannelState, ToolExecutorNode, At
  <2> QED BY <1>4, <2>1, <2>2 DEF Done
<1>11. CASE AggregateNode(i)
  <2> DEFINE u == [s EXCEPT !.output = IF s.results = {} THEN "no_results" ELSE "success",
                            !.next = "verifier"]
  <2>1. Apply(i, u) /\ s.next = "aggregate"
    BY <1>11 DEF AggregateNode, At
  <2>2. Moved(s, u)
    BY <1>1, <2>1 DEF Moved, ChannelState
  <2> QED BY <1>4, <2>1, <2>2 DEF Done
<1>12. CASE VerifierNode(i)
  <2>1. s.next = "verifier" /\ s.planned # {}
    BY <1>1, <1>12 DEF VerifierNode, At, Sound, Covered
  <2>2. PICK v, c, x, R, n :
          /\ Apply(i, Judged(s, v, c, x, R, n))
          /\ c \in {s.revisionCount, s.revisionCount + 1}
          /\ n \in {"finalizer", "planner"}
    BY <1>12 DEF VerifierNode, Judged, RouteAfterVerifier
  <2>3. Moved(s, Judged(s, v, c, x, R, n))
    BY <1>1, <2>1, <2>2 DEF Moved, ChannelState, Judged
  <2> QED BY <1>4, <2>2, <2>3 DEF Done
<1>13. CASE FinalizerNode(i)
  <2> DEFINE u == [s EXCEPT !.status = IF s.verification = "passed"
                                         THEN "completed" ELSE "failed",
                            !.next = "END"]
  <2>1. Apply(i, u) /\ s.next = "finalizer"
    BY <1>13 DEF FinalizerNode, At
  <2>2. Moved(s, u)
    BY <1>1, <2>1 DEF Moved, ChannelState
  <2> QED BY <1>4, <2>1, <2>2 DEF Done
<1> QED BY <1>5, <1>6, <1>7, <1>8, <1>9, <1>10, <1>11, <1>12, <1>13 DEF Step, Done

-----------------------------------------------------------------------------
(* Refinement of RunLifecycle, and the action property.                    *)

(* A call that is active has begun, and its thread has a checkpoint.       *)
Begun(i) ==
    /\ phase[i] = "idle" => st[i].next = "START"
    /\ phase[i] = "active" => st[i].next # "START" /\ saved[thread[i]].next # "START"

LifecycleInv ==
    /\ IInv
    /\ \A t \in Threads : Entered(saved[t])
    /\ \A i \in Invocations : Entered(st[i]) /\ Begun(i)

(* A node keeps it.                                                        *)
LEMMA ApplyKeepsBegun ==
    ASSUME LifecycleInv, NEW i \in Invocations, NEW u \in ChannelState,
           phase[i] = "active", Apply(i, u), Moved(st[i], u), IInv'
    PROVE  LifecycleInv'
<1>1. /\ st' = [st EXCEPT ![i] = u] /\ saved' = [saved EXCEPT ![thread[i]] = u]
      /\ UNCHANGED <<phase, thread>>
  BY DEF Apply
<1>2. /\ st \in [Invocations -> ChannelState] /\ saved \in [Threads -> ChannelState]
      /\ thread \in [Invocations -> Threads]
  BY DEF LifecycleInv, IInv, TypeOK
<1>3. Sound(st[i], decided[thread[i]])
  BY DEF LifecycleInv, IInv
<1>4. Entered(u)
  <2>1. u.planned = st[i].planned \/ u.planned # {}
    BY DEF Moved
  <2> QED BY <2>1 DEF LifecycleInv, Entered, Moved
<1>5. \A t \in Threads : Entered(saved'[t])
  BY <1>1, <1>2, <1>4 DEF LifecycleInv
<1>6. \A j \in Invocations : Entered(st'[j])
  BY <1>1, <1>2, <1>4 DEF LifecycleInv
<1>7. u.mode = st[i].mode /\ u.next # "START"
  BY DEF Moved
<1>8. ASSUME NEW j \in Invocations PROVE Begun(j)'
  <2>1. Begun(i) /\ Begun(j)
    BY DEF LifecycleInv
  <2>2. CASE j = i
    BY <1>1, <1>2, <1>7, <2>1, <2>2 DEF Begun
  <2>3. CASE j # i /\ thread[j] # thread[i]
    BY <1>1, <1>2, <2>1, <2>3 DEF Begun
  <2>4. CASE j # i /\ thread[j] = thread[i]
    BY <1>1, <1>2, <1>7, <2>1, <2>4 DEF Begun
  <2> QED BY <2>2, <2>3, <2>4
<1> QED BY <1>5, <1>6, <1>8 DEF LifecycleInv

(* Every step keeps it.                                                    *)
LEMMA LifecycleInvKept == LifecycleInv /\ [Next]_vars => LifecycleInv'
<1> SUFFICES ASSUME LifecycleInv, [Next]_vars PROVE LifecycleInv'
  OBVIOUS
<1>1. IInv'
  BY IInvKept DEF LifecycleInv
<1>2. /\ st \in [Invocations -> ChannelState] /\ saved \in [Threads -> ChannelState]
      /\ thread \in [Invocations -> Threads]
      /\ phase \in [Invocations -> {"idle", "active", "returned", "threw", "lost"}]
      /\ \A t \in Threads : Entered(saved[t])
      /\ \A i \in Invocations : Entered(st[i]) /\ Begun(i)
  BY DEF LifecycleInv, IInv, TypeOK
<1>3. Entered(Blank) /\ Blank.next = "START"
  BY DEF Blank, InputState, Entered
<1>4. ASSUME NEW i \in Invocations, UNCHANGED <<saved, thread, st>>,
             NEW p \in {"returned", "threw"}, phase[i] = "active",
             phase' = [phase EXCEPT ![i] = p]
      PROVE  LifecycleInv'
  BY <1>1, <1>2, <1>4 DEF LifecycleInv, Begun
<1>5. CASE UNCHANGED vars
  BY <1>1, <1>2, <1>5 DEF vars, LifecycleInv, Begun
<1>6. CASE Restart
  <2>1. /\ UNCHANGED <<thread, st>> /\ saved' = [t \in Threads |-> Blank]
        /\ \A i \in Invocations : /\ phase'[i] # "active"
                                  /\ phase'[i] = "idle" => phase[i] = "idle"
    BY <1>2, <1>6 DEF Restart
  <2> QED BY <1>1, <1>2, <1>3, <2>1 DEF LifecycleInv, Begun
<1>7. ASSUME NEW i \in Invocations, NEW t \in Threads, NEW mode \in Modes,
             NEW roles \in SUBSET Roles, Run(i, t, mode, roles)
      PROVE  LifecycleInv'
  <2> DEFINE u == InputState(mode, roles)
  <2>1. Entered(u) /\ u.next = "intake"
    BY DEF InputState, Entered
  <2> HIDE DEF u
  <2>2. /\ st' = [st EXCEPT ![i] = u] /\ saved' = [saved EXCEPT ![t] = u]
        /\ phase' = [phase EXCEPT ![i] = "active"] /\ thread' = [thread EXCEPT ![i] = t]
    BY <1>7 DEF Run, u
  <2>3. ASSUME NEW j \in Invocations PROVE Begun(j)'
    <3>1. CASE j = i
      BY <1>2, <2>1, <2>2, <3>1 DEF Begun
    <3>2. CASE j # i /\ phase[j] = "idle"
      BY <1>2, <2>1, <2>2, <3>2 DEF Begun
    <3>3. CASE j # i /\ phase[j] # "idle"
      BY <1>2, <2>1, <2>2, <3>3 DEF Begun
    <3> QED BY <3>1, <3>2, <3>3
  <2> QED BY <1>1, <1>2, <2>1, <2>2, <2>3 DEF LifecycleInv
<1>8. ASSUME NEW i \in Invocations, NEW t \in Threads, NEW decision \in Decisions,
             Resume(i, t, decision)
      PROVE  LifecycleInv'
  <2>1. /\ st' = [st EXCEPT ![i] = saved[t]] /\ saved' = saved
        /\ phase' = [phase EXCEPT ![i] = IF saved[t].next = "START" THEN "threw" ELSE "active"]
        /\ thread' = [thread EXCEPT ![i] = t]
    BY <1>8 DEF Resume
  <2>2. ASSUME NEW j \in Invocations PROVE Begun(j)'
    <3>1. CASE j = i
      BY <1>2, <2>1, <3>1 DEF Begun
    <3>2. CASE j # i
      BY <1>2, <2>1, <3>2 DEF Begun
    <3> QED BY <3>1, <3>2
  <2> QED BY <1>1, <1>2, <2>1, <2>2 DEF LifecycleInv
<1>9. ASSUME NEW i \in Invocations, Step(i) PROVE LifecycleInv'
  <2>1. phase[i] = "active"
    BY <1>9, StepActive
  <2>2. CASE \E u \in ChannelState : Apply(i, u) /\ Moved(st[i], u)
    BY <1>1, <2>1, <2>2, ApplyKeepsBegun
  <2>3. CASE Throw(i) \/ HumanFeedbackInterrupt(i) \/ Return(i)
    BY <1>4, <2>1, <2>3 DEF Throw, HumanFeedbackInterrupt, Return
  <2> QED BY <1>9, <2>2, <2>3, StepMoves DEF LifecycleInv
<1> QED BY <1>5, <1>6, <1>7, <1>8, <1>9 DEF Next, Call

(* It holds before the first call.                                         *)
LEMMA LifecycleInvInit == Init => LifecycleInv
<1> SUFFICES ASSUME Init PROVE LifecycleInv
  OBVIOUS
<1>1. Entered(Blank) /\ Blank.next = "START"
  BY DEF Blank, InputState, Entered
<1> QED BY <1>1, InitSound DEF Init, LifecycleInv, Begun

(* In every state: the graph's invariant, what the channels hold once a    *)
(* node was entered, and a checkpoint for every call that goes on.         *)
THEOREM LifecycleInvariance == Spec => []LifecycleInv
BY LifecycleInvInit, LifecycleInvKept, PTL DEF Spec

(* A node other than the planner is a stutter of the lifecycle, the planner*)
(* is its Work: an approval-mode run was approved by then.                 *)
LEMMA ApplyRefines ==
    ASSUME LifecycleInv, NEW i \in Invocations, NEW u \in ChannelState,
           phase[i] = "active", Apply(i, u), Moved(st[i], u)
    PROVE  [Lifecycle!Next]_(Lifecycle!vars)
<1>1. /\ st' = [st EXCEPT ![i] = u] /\ UNCHANGED <<phase, thread, decided>>
      /\ st \in [Invocations -> ChannelState]
      /\ Sound(st[i], decided[thread[i]])
  BY DEF Apply, LifecycleInv, IInv, TypeOK
<1>2. u.mode = st[i].mode /\ \A j \in Invocations : st'[j].mode = st[j].mode
  BY <1>1 DEF Moved
<1>3. \A j \in Invocations : Reported(j)' = Reported(j)
  <2>1. ASSUME NEW j \in Invocations PROVE Reported(j)' = Reported(j)
    <3>1. CASE j = i
      BY <1>1, <3>1 DEF Reported
    <3>2. CASE j # i
      BY <1>1, <3>2 DEF Reported
    <3> QED BY <3>1, <3>2
  <2> QED BY <2>1
<1>4. CASE st[i].next # "planner"
  <2>1. \A j \in Invocations : st'[j].planned = st[j].planned
    BY <1>1, <1>4 DEF Moved
  <2> QED BY <1>1, <1>2, <1>3, <2>1 DEF Lifecycle!vars
<1>5. CASE st[i].next = "planner"
  <2>1. st[i].mode = "approval" => "approve" \in decided[thread[i]]
    BY <1>1, <1>5 DEF Sound, Cleared, WorkNodes
  <2>2. u.planned # {}
    BY <1>5 DEF Moved
  <2>3. \A j \in Invocations : j # i => st'[j].planned = st[j].planned
    BY <1>1
  <2>4. thread[i] \in Threads
    BY DEF LifecycleInv, IInv, TypeOK
  <2>5. Lifecycle!Work(i)
    BY <1>1, <1>2, <1>3, <2>1, <2>2, <2>3, <2>4 DEF Lifecycle!Work
  <2> QED BY <2>5 DEF Lifecycle!Next
<1> QED BY <1>4, <1>5

(* Every step of the graph is a step of the lifecycle, or none.            *)
LEMMA StepRefines == LifecycleInv /\ [Next]_vars => [Lifecycle!Next]_(Lifecycle!vars)
<1> SUFFICES ASSUME LifecycleInv, [Next]_vars PROVE [Lifecycle!Next]_(Lifecycle!vars)
  OBVIOUS
<1>1. /\ st \in [Invocations -> ChannelState] /\ saved \in [Threads -> ChannelState]
      /\ thread \in [Invocations -> Threads] /\ decided \in [Threads -> SUBSET Decisions]
      /\ phase \in [Invocations -> {"idle", "active", "returned", "threw", "lost"}]
      /\ \A t \in Threads : Entered(saved[t]) /\ Sound(saved[t], decided[t])
      /\ \A i \in Invocations : Entered(st[i]) /\ Begun(i) /\ Sound(st[i], decided[thread[i]])
  BY DEF LifecycleInv, IInv, TypeOK
<1>2. CASE UNCHANGED vars
  BY <1>2 DEF vars, Lifecycle!vars, Reported
<1>3. CASE Restart
  <2> PICK dying \in SUBSET Invocations : dying = {i \in Invocations : phase[i] = "active"}
    OBVIOUS
  <2>1. /\ UNCHANGED <<thread, st, decided>>
        /\ phase' = [i \in Invocations |-> IF phase[i] = "active" THEN "lost" ELSE phase[i]]
    BY <1>3 DEF Restart
  <2>2. \A i \in Invocations : Reported(i)' = Reported(i)
    BY <1>1, <2>1 DEF Reported
  <2>3. Lifecycle!Die(dying)
    BY <1>1, <2>1, <2>2 DEF Lifecycle!Die
  <2> QED BY <2>3 DEF Lifecycle!Next
<1>4. ASSUME NEW i \in Invocations, NEW t \in Threads, NEW mode \in Modes,
             NEW roles \in SUBSET Roles, Run(i, t, mode, roles)
      PROVE  Lifecycle!Next
  <2> DEFINE u == InputState(mode, roles)
  <2>1. u.mode = mode /\ u.planned = {}
    BY DEF InputState
  <2> HIDE DEF u
  <2>2. /\ st' = [st EXCEPT ![i] = u] /\ UNCHANGED decided /\ phase[i] = "idle"
        /\ phase' = [phase EXCEPT ![i] = "active"] /\ thread' = [thread EXCEPT ![i] = t]
    BY <1>4 DEF Run, u
  <2>3. st[i].planned = {}
    BY <1>1, <2>2 DEF Begun, Sound, PreNodes, Fresh
  <2>4. \A j \in Invocations : Reported(j)' = Reported(j)
    BY <1>1, <2>2 DEF Reported
  <2>5. \A j \in Invocations : (st'[j].planned # {}) = (st[j].planned # {})
    BY <1>1, <2>1, <2>2, <2>3
  <2>6. \A j \in Invocations : j # i => st'[j].mode = st[j].mode
    BY <1>1, <2>2
  <2>7. Lifecycle!Start(i, t, mode = "approval")
    BY <1>1, <2>1, <2>2, <2>4, <2>5, <2>6 DEF Lifecycle!Start
  <2>8. (mode = "approval") \in BOOLEAN
    OBVIOUS
  <2> QED BY <2>7, <2>8 DEF Lifecycle!Next
<1>5. ASSUME NEW i \in Invocations, NEW t \in Threads, NEW decision \in Decisions,
             Resume(i, t, decision)
      PROVE  Lifecycle!Next
  <2> DEFINE u == saved[t]
             yes == decision = "approve"
  <2>1. /\ st' = [st EXCEPT ![i] = u] /\ phase[i] = "idle"
        /\ phase' = [phase EXCEPT ![i] = IF u.next = "START" THEN "threw" ELSE "active"]
        /\ thread' = [thread EXCEPT ![i] = t]
        /\ decided' = [decided EXCEPT ![t] = @ \cup {decision}]
    BY <1>5 DEF Resume
  <2>5. /\ u.next = "START" => u.mode = "auto" /\ u.planned = {}
        /\ u.mode = "approval" /\ u.planned # {} => "approve" \in decided[t]
    BY <1>1 DEF Entered, Sound, PreNodes, Fresh, Worked, Cleared
  <2>6. st[i].mode = "auto" /\ st[i].planned = {} /\ st[i].next = "START"
    BY <1>1, <2>1 DEF Begun, Entered, Sound, PreNodes, Fresh
  <2> HIDE DEF u, yes
  <2>7. \A k \in Invocations : Reported(k)' = Reported(k)
    BY <1>1, <2>1 DEF Reported
  <2>8. \A k \in Invocations : k # i => st'[k] = st[k]
    BY <1>1, <2>1
  <2>9. st'[i] = u
    BY <1>1, <2>1
  <2>10. \A r \in Threads : ("approve" \in decided'[r]) = (("approve" \in decided[r]) \/ (r = t /\ yes))
    BY <1>1, <2>1 DEF yes
  <2>11. yes \in BOOLEAN
    BY DEF yes
  <2>12. Lifecycle!Resume(i, t, yes)
    <3>1. CASE u.next = "START"
      BY <1>1, <2>1, <2>5, <2>6, <2>7, <2>8, <2>9, <2>10, <3>1 DEF Lifecycle!Resume
    <3>2. CASE u.next # "START"
      <4>1. /\ (u.planned # {}) \in BOOLEAN /\ (u.mode = "approval") \in BOOLEAN
            /\ u.mode = "approval" /\ u.planned # {} => "approve" \in decided'[t]
        BY <1>1, <2>1, <2>5, <3>2
      <4> QED
        BY <1>1, <2>1, <2>7, <2>8, <2>9, <2>10, <3>2, <4>1 DEF Lifecycle!Resume
    <3> QED BY <3>1, <3>2
  <2> QED BY <2>11, <2>12 DEF Lifecycle!Next
<1>6. ASSUME NEW i \in Invocations, Step(i) PROVE [Lifecycle!Next]_(Lifecycle!vars)
  <2>1. phase[i] = "active"
    BY <1>6, StepActive
  <2>2. CASE \E u \in ChannelState : Apply(i, u) /\ Moved(st[i], u)
    BY <2>1, <2>2, ApplyRefines
  <2>3. CASE Throw(i)
    <3>1. /\ UNCHANGED <<thread, st, decided>> /\ phase' = [phase EXCEPT ![i] = "threw"]
      BY <2>3 DEF Throw
    <3>2. \A j \in Invocations : Reported(j)' = Reported(j)
      BY <1>1, <2>1, <3>1 DEF Reported
    <3>3. Lifecycle!Die({i})
      BY <1>1, <2>1, <3>1, <3>2 DEF Lifecycle!Die
    <3> QED BY <3>3 DEF Lifecycle!Next
  <2>4. ASSUME UNCHANGED <<thread, st, decided>>, phase' = [phase EXCEPT ![i] = "returned"],
               NEW x \in {"completed", "failed", "waiting_approval"},
               x = IF st[i].next = "human_feedback" THEN "waiting_approval" ELSE st[i].status,
               x = "completed" => st[i].planned # {},
               x = "failed" => st[i].planned # {} \/ st[i].mode = "approval",
               x = "waiting_approval" => st[i].planned = {} /\ st[i].mode = "approval"
        PROVE  Lifecycle!Next
    <3>1. Reported(i)' = x /\ \A j \in Invocations : j # i => Reported(j)' = Reported(j)
      BY <1>1, <2>4 DEF Reported
    <3>2. Lifecycle!Finish(i, x)
      BY <1>1, <2>1, <2>4, <3>1 DEF Lifecycle!Finish
    <3> QED BY <3>2 DEF Lifecycle!Next
  <2>5. CASE HumanFeedbackInterrupt(i)
    <3>1. st[i].next = "human_feedback" /\ UNCHANGED <<thread, st, decided>>
          /\ phase' = [phase EXCEPT ![i] = "returned"]
      BY <2>5 DEF HumanFeedbackInterrupt, At
    <3>2. st[i].mode = "approval" /\ st[i].planned = {}
      BY <1>1, <3>1 DEF Entered, Sound, PreNodes, Fresh
    <3> QED BY <2>4, <3>1, <3>2
  <2>6. CASE Return(i)
    <3>1. st[i].next = "END" /\ UNCHANGED <<thread, st, decided>>
          /\ phase' = [phase EXCEPT ![i] = "returned"]
      BY <2>6 DEF Return, At
    <3>2. IF st[i].verification = "passed" THEN st[i].status = "completed" /\ st[i].planned # {}
          ELSE st[i].status = "failed"
      BY <1>1, <3>1 DEF Sound, FailureRouted, Accepted, Covered
    <3>3. st[i].planned # {} \/ st[i].mode = "approval"
      BY <1>1, <3>1 DEF Entered
    <3> QED BY <2>4, <3>1, <3>2, <3>3
  <2> QED BY <1>6, <2>2, <2>3, <2>5, <2>6, StepMoves DEF LifecycleInv
<1> QED BY <1>2, <1>3, <1>4, <1>5, <1>6 DEF Next, Call

(* The graph keeps the promise of AgentOrchestrator's run() and resume(): a*)
(* call works on a gated run only once that run was approved, it reports   *)
(* "completed" only of a planned run, "waiting_approval" only of one that  *)
(* nothing has been done for, and nothing else becomes of a call.          *)
THEOREM LifecycleImplemented == Spec => ImplementsLifecycle
<1>1. Init => Lifecycle!Init
  <2> SUFFICES ASSUME Init PROVE Lifecycle!Init
    OBVIOUS
  <2>1. Blank.mode = "auto" /\ Blank.planned = {}
    BY DEF Blank, InputState
  <2>2. (CHOOSE t \in Threads : TRUE) \in Threads
    BY RunGraphAssumption
  <2>3. /\ thread \in [Invocations -> Threads]
        /\ \A i \in Invocations : /\ phase[i] = "idle" /\ st[i].mode = "auto"
                                 /\ st[i].planned = {} /\ Reported(i) = "none"
        /\ \A t \in Threads : decided[t] = {}
    BY <2>1, <2>2 DEF Init, Reported
  <2>4. [i \in Invocations |-> IF phase[i] \in {"threw", "lost"} THEN "dead" ELSE phase[i]]
          = [i \in Invocations |-> "idle"]
    BY <2>3
  <2>5. [i \in Invocations |-> st[i].mode = "approval"] = [i \in Invocations |-> FALSE]
    BY <2>3
  <2>6. [i \in Invocations |-> st[i].planned # {}] = [i \in Invocations |-> FALSE]
    BY <2>3
  <2>7. [i \in Invocations |-> Reported(i)] = [i \in Invocations |-> "none"]
    BY <2>3
  <2>8. [t \in Threads |-> "approve" \in decided[t]] = [t \in Threads |-> FALSE]
    <3>1. \A t \in Threads : ("approve" \in decided[t]) = FALSE
      BY <2>3
    <3> QED BY <3>1, Zenon
  <2> QED BY <2>3, <2>4, <2>5, <2>6, <2>7, <2>8 DEF Lifecycle!Init
<1> QED BY <1>1, StepRefines, LifecycleInvariance, PTL DEF Spec, ImplementsLifecycle, Lifecycle!Spec

(* Through re-plans, interrupts and resumes, an invocation that is active  *)
(* never loses a specialist's result or a tool's outcome, and a step       *)
(* counts at most one revision.                                            *)
THEOREM ResultsNeverLost == Spec => ResultsKept
<1>1. IInv /\ [Next]_vars =>
        [\A i \in Invocations : phase[i] = "active" =>
           /\ st[i].results \subseteq st'[i].results
           /\ st[i].toolRuns \subseteq st'[i].toolRuns
           /\ st'[i].revisionCount \in {st[i].revisionCount, st[i].revisionCount + 1}]_vars
  <2> SUFFICES ASSUME IInv, Next, NEW i \in Invocations, phase[i] = "active"
               PROVE  /\ st[i].results \subseteq st'[i].results
                      /\ st[i].toolRuns \subseteq st'[i].toolRuns
                      /\ st'[i].revisionCount \in {st[i].revisionCount, st[i].revisionCount + 1}
    OBVIOUS
  <2>1. st \in [Invocations -> ChannelState]
    BY DEF IInv, TypeOK
  <2>2. CASE st'[i] = st[i]
    BY <2>2
  <2>3. ASSUME NEW j \in Invocations, Call(j) PROVE st'[i] = st[i]
    BY <2>1, <2>3 DEF Call, Run, Resume
  <2>4. ASSUME NEW j \in Invocations, Step(j) PROVE st'[i] = st[i] \/ Moved(st[i], st'[i])
    <3>1. CASE \E u \in ChannelState : Apply(j, u) /\ Moved(st[j], u)
      BY <2>1, <3>1 DEF Apply
    <3>2. CASE Throw(j) \/ HumanFeedbackInterrupt(j) \/ Return(j)
      BY <3>2 DEF Throw, HumanFeedbackInterrupt, Return
    <3> QED BY <2>4, <3>1, <3>2, StepMoves
  <2>5. CASE Restart
    BY <2>2, <2>5 DEF Restart
  <2> QED BY <2>2, <2>3, <2>4, <2>5 DEF Next, Moved
<1> QED BY <1>1, Invariance, PTL DEF Spec, ResultsKept
=============================================================================
