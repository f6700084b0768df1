------------------------------ MODULE RunGraph ------------------------------
(***************************************************************************)
(* The execution graph of packages/agent-core: AgentOrchestrator.run and   *)
(* AgentOrchestrator.resume drive a LangGraph StateGraph whose channels    *)
(* are saved in an in-process MemorySaver after every node.                *)
(*                                                                         *)
(* A thread is one runId; an invocation is one call of graph.invoke, by    *)
(* run() or by resume().  Several invocations may work on one thread at    *)
(* the same time: nothing in the orchestrator stops two resume() calls     *)
(* from loading the same checkpoint.  A process restart loses the saver.   *)
(*                                                                         *)
(* LLM says whether the node factories were given a client.  buildGraph    *)
(* gives them none (LLM = FALSE); the factories accept one, and the node   *)
(* tests exercise it (LLM = TRUE).                                         *)
(***************************************************************************)
EXTENDS Naturals, FiniteSets, Sequences

CONSTANTS
    Invocations,    \* calls of run() and resume()
    Threads,        \* run ids, one thread of the checkpointer each
    Roles,          \* role ids of the templates
    StepIds,        \* the ids "step-1", "step-2", ... of a default plan
    Groups,         \* candidate groups of an LLM plan: sets of ids
    MaxGroups,      \* bound: the longest parallelGroups of an LLM plan
    RoleTools,      \* tools allocated to a role
    ViewerTools,    \* tools whose policy admits a viewer (or without one)
    ApprovalTools,  \* tools whose policy has requiresApproval
    LLM,            \* TRUE when the nodes have a client
    MaxRestarts,    \* bound: process restarts considered
    MaxClashes      \* bound: runs that may take the id of another

Tools == UNION {RoleTools[r] : r \in Roles}

ASSUME RunGraphAssumption ==
    /\ RoleTools \in [Roles -> SUBSET Tools]
    /\ Groups \subseteq SUBSET (Roles \cup StepIds)
    /\ MaxGroups \in Nat
    /\ MaxRestarts \in Nat
    /\ MaxClashes \in Nat
    /\ LLM \in BOOLEAN
    /\ Threads # {}

LaxMaxRevisions == 3    \* mutant: the verifier's limit drifts from the router's
MAX_REVISIONS == 2      \* verifier.ts
ROUTER_LIMIT == 2       \* the literal in routeAfterVerifier

Modes == {"approval", "auto"}
Decisions == {"approve", "reject"}
Statuses == {"running", "waiting_approval", "completed", "failed"}
Nodes == {"START", "intake", "profile", "template_select", "team_design",
          "model_route", "tools_allocate", "skills_load", "approval_gate",
          "human_feedback", "planner", "specialists_parallel",
          "tool_executor", "aggregate", "verifier", "finalizer", "END"}

Outcomes == {"completed", "failed"}

(* A specialist's result: the revision and the group that ran it, the      *)
(* tools found in its answer, and the status in its output.                *)
Result == [role : Roles, rev : Nat, group : Nat, tools : SUBSET Tools,
           status : Outcomes]

(* An entry of toolExecutionResults: the call (tool of a result), the      *)
(* revision in which the tool executor made it, and its status.            *)
ToolRun == [result : Result, tool : Tools, rev : Nat, status : Outcomes]

(* The channels of OrchestratorState, and the node that runs next.         *)
(* planned and revised are the events channel read as two sets: k is in    *)
(* planned after "planner.completed.iteration_k", in revised after         *)
(* "revision.k".  The concat reducers of specialistResults and             *)
(* toolExecutionResults are set unions: no entry repeats.  readable says   *)
(* whether parallelGroups is a list of lists: parsePlanFromLLM only casts. *)
ChannelState ==
    [next : Nodes, mode : Modes, roles : SUBSET Roles,
     assigned : SUBSET Roles, models : SUBSET Roles,
     approvalGranted : BOOLEAN, status : Statuses, revisionCount : Nat,
     verification : {"none", "passed", "failed"},
     plan : Seq(SUBSET (Roles \cup StepIds)), readable : BOOLEAN,
     results : SUBSET Result, toolRuns : SUBSET ToolRun,
     output : {"undefined", "no_results", "success"},
     planned : SUBSET Nat, revised : SUBSET Nat]

(* Mutant: the input carries a status outside the state's union.           *)
PendingInputState(mode, roles) ==
    [next |-> "intake", mode |-> mode, roles |-> roles,
     assigned |-> {}, models |-> {},
     approvalGranted |-> (mode = "auto"), status |-> "pending",
     revisionCount |-> 0, verification |-> "none", plan |-> <<>>,
     readable |-> TRUE, results |-> {}, toolRuns |-> {},
     output |-> "undefined", planned |-> {}, revised |-> {}]

InputState(mode, roles) ==
    [next |-> "intake", mode |-> mode, roles |-> roles,
     assigned |-> {}, models |-> {},
     approvalGranted |-> (mode = "auto"), status |-> "running",
     revisionCount |-> 0, verification |-> "none", plan |-> <<>>,
     readable |-> TRUE, results |-> {}, toolRuns |-> {},
     output |-> "undefined", planned |-> {}, revised |-> {}]

(* No checkpoint: a thread nobody ran, or one the process forgot.          *)
Blank == [InputState("auto", {}) EXCEPT !.next = "START"]

VARIABLES
    saved,      \* MemorySaver: the latest checkpoint of each thread
    phase,      \* invocation -> "idle", "active", "returned", "threw", "lost"
    thread,     \* invocation -> the thread it works on
    resumeWith, \* invocation -> the decision resume() carries, or "none"
    st,         \* invocation -> the channels it holds in memory
    decided,    \* thread -> decisions given to resume() (history)
    restarts    \* process restarts so far

vars == <<saved, phase, thread, resumeWith, st, decided, restarts>>

Init ==
    /\ saved = [t \in Threads |-> Blank]
    /\ phase = [i \in Invocations |-> "idle"]
    /\ thread = [i \in Invocations |-> CHOOSE t \in Threads : TRUE]
    /\ resumeWith = [i \in Invocations |-> "none"]
    /\ st = [i \in Invocations |-> Blank]
    /\ decided = [t \in Threads |-> {}]
    /\ restarts = 0

-----------------------------------------------------------------------------
(* Callers.                                                                *)

(* The run id is the clock in milliseconds: two runs of one instant share  *)
(* a thread.  Within that instant the first has saved its input at most.   *)
FreeThread(t) ==
    LET calls == {j \in Invocations : phase[j] # "idle" /\ thread[j] = t} IN
    /\ Cardinality(calls) <= MaxClashes
    /\ \A j \in calls : phase[j] = "active" /\ st[j].next = "intake"

(* What toRunState tells the caller of an invocation that returned:        *)
(* isInterrupted, hence "waiting_approval", or the status channel.         *)
Interrupted(i) == phase[i] = "returned" /\ st[i].next = "human_feedback"

(* The input replaces that of the other run of the instant: there is       *)
(* nothing yet for the concatenating channels to keep of it.               *)
Run(i, t, mode, roles) ==
    /\ phase[i] = "idle"
    /\ FreeThread(t)
    /\ phase' = [phase EXCEPT ![i] = "active"]
    /\ thread' = [thread EXCEPT ![i] = t]
    /\ st' = [st EXCEPT ![i] = InputState(mode, roles)]
    /\ saved' = [saved EXCEPT ![t] = InputState(mode, roles)]
    /\ UNCHANGED <<resumeWith, decided, restarts>>

(* graph.invoke(new Command({resume})): goes on from the latest checkpoint *)
(* of the thread, whatever node it waits at; without one it throws.  The   *)
(* callers resume only a run whose stored row says waiting_approval.       *)
Resume(i, t, decision) ==
    /\ phase[i] = "idle"
    /\ \E j \in Invocations : thread[j] = t /\ Interrupted(j)
    /\ thread' = [thread EXCEPT ![i] = t]
    /\ resumeWith' = [resumeWith EXCEPT ![i] = decision]
    /\ decided' = [decided EXCEPT ![t] = @ \cup {decision}]
    /\ st' = [st EXCEPT ![i] = saved[t]]
    /\ phase' = [phase EXCEPT
                   ![i] = IF saved[t].next = "START" THEN "threw" ELSE "active"]
    /\ UNCHANGED <<saved, restarts>>

(* The process restarts: its invocations die and the MemorySaver is empty. *)
Restart ==
    /\ restarts < MaxRestarts
    /\ restarts' = restarts + 1
    /\ phase' = [i \in Invocations |->
                   IF phase[i] = "active" THEN "lost" ELSE phase[i]]
    /\ saved' = [t \in Threads |-> Blank]
    /\ UNCHANGED <<thread, resumeWith, st, decided>>

-----------------------------------------------------------------------------
(* Nodes.  A node returns an update of the channels; LangGraph applies it  *)
(* and saves the checkpoint before it runs the next node.                  *)

At(i, node) == phase[i] = "active" /\ st[i].next = node

Apply(i, s) ==
    /\ st' = [st EXCEPT ![i] = s]
    /\ saved' = [saved EXCEPT ![thread[i]] = s]
    /\ UNCHANGED <<phase, thread, resumeWith, decided, restarts>>

Throw(i) ==
    /\ phase' = [phase EXCEPT ![i] = "threw"]
    /\ UNCHANGED <<saved, thread, resumeWith, st, decided, restarts>>

(* The required fields, the domain, the lengths are data: either outcome.  *)
IntakeNode(i) ==
    /\ At(i, "intake")
    /\ \/ Apply(i, [st[i] EXCEPT !.status = "running", !.next = "profile"])
       \/ Throw(i)

ProfileNode(i) ==
    /\ At(i, "profile")
    /\ Apply(i, [st[i] EXCEPT !.next = "template_select"])

(* Throws without roles, or with one that lacks its id, name or objective. *)
TemplateSelectNode(i) ==
    /\ At(i, "template_select")
    /\ \/ /\ st[i].roles # {}
          /\ Apply(i, [st[i] EXCEPT !.next = "team_design"])
       \/ Throw(i)

TeamDesignNode(i) ==
    /\ At(i, "team_design")
    /\ Apply(i, [st[i] EXCEPT !.assigned = st[i].roles, !.models = {},
                              !.next = "model_route"])

(* Throws when a role has no model left after the hard filters, or when    *)
(* the decisions name fewer than two models, as with fewer than two roles. *)
ModelRouteNode(i) ==
    /\ At(i, "model_route")
    /\ \/ /\ Cardinality(st[i].roles) >= 2
          /\ Apply(i, [st[i] EXCEPT !.next = "tools_allocate"])
       \/ Throw(i)

ToolsAllocateNode(i) ==
    /\ At(i, "tools_allocate")
    /\ Apply(i, [st[i] EXCEPT !.assigned = st[i].roles, !.models = st[i].roles,
                              !.next = "skills_load"])

SkillsLoadNode(i) ==
    /\ At(i, "skills_load")
    /\ \/ Apply(i, [st[i] EXCEPT !.next = "approval_gate"])
       \/ Throw(i)

(* Mutant: the gate marks the run but the edge always goes to the planner. *)
OpenApprovalGateNode(i) ==
    /\ At(i, "approval_gate")
    /\ LET gated == st[i].mode = "approval" IN
       Apply(i, [st[i] EXCEPT
                   !.approvalGranted = ~gated,
                   !.status = IF gated THEN "waiting_approval" ELSE "running",
                   !.next = "planner"])

ApprovalGateNode(i) ==
    /\ At(i, "approval_gate")
    /\ LET gated == st[i].mode = "approval" IN
       Apply(i, [st[i] EXCEPT
                   !.approvalGranted = ~gated,
                   !.status = IF gated THEN "waiting_approval" ELSE "running",
                   !.next = IF gated THEN "human_feedback" ELSE "planner"])

(* interrupt() ends the invocation when there is no resume value.          *)
HumanFeedbackInterrupt(i) ==
    /\ At(i, "human_feedback")
    /\ resumeWith[i] = "none"
    /\ phase' = [phase EXCEPT ![i] = "returned"]
    /\ UNCHANGED <<saved, thread, resumeWith, st, decided, restarts>>

(* Mutant: the conditional edge ignores the decision.                      *)
DeafHumanFeedbackNode(i) ==
    /\ At(i, "human_feedback")
    /\ resumeWith[i] # "none"
    /\ LET approved == resumeWith[i] = "approve" IN
       Apply(i, [st[i] EXCEPT
                   !.approvalGranted = approved,
                   !.status = IF approved THEN "running" ELSE "failed",
                   !.next = "planner"])

(* Mutant: a rejection goes back to the gate.                              *)
LoopingHumanFeedbackNode(i) ==
    /\ At(i, "human_feedback")
    /\ resumeWith[i] # "none"
    /\ LET approved == resumeWith[i] = "approve" IN
       Apply(i, [st[i] EXCEPT
                   !.approvalGranted = approved,
                   !.next = IF approved THEN "planner" ELSE "approval_gate"])

HumanFeedbackNode(i) ==
    /\ At(i, "human_feedback")
    /\ resumeWith[i] # "none"
    /\ LET approved == resumeWith[i] = "approve" IN
       Apply(i, [st[i] EXCEPT
                   !.approvalGranted = approved,
                   !.status = IF approved THEN "running" ELSE "failed",
                   !.next = IF approved THEN "planner" ELSE "finalizer"])

(* The default plan has one group, of step ids.                            *)
DefaultPlan == <<StepIds>>

(* The plan of the LLM, or the default one when its answer has no steps.   *)
Plans == {DefaultPlan} \cup
         (IF LLM THEN UNION {[1..n -> Groups] : n \in 0..MaxGroups} ELSE {})

(* What parsePlanFromLLM lets through: its parallelGroups may be no lists. *)
ParsedPlans ==
    {[plan |-> p, readable |-> TRUE] : p \in Plans}
        \cup (IF LLM THEN {[plan |-> <<>>, readable |-> FALSE]} ELSE {})

PlannerNode(i) ==
    /\ At(i, "planner")
    /\ IF st[i].assigned = {} THEN Throw(i)
       ELSE \E p \in ParsedPlans :
              Apply(i, [st[i] EXCEPT
                          !.plan = p.plan, !.readable = p.readable,
                          !.planned = @ \cup {st[i].revisionCount},
                          !.next = "specialists_parallel"])

(* The assignments a plan selects: a role runs once for every group that   *)
(* lists its role id.                                                      *)
Selected(s) ==
    {x \in (DOMAIN s.plan) \X s.assigned : x[2] \in s.plan[x[1]]}

(* What a specialist may answer: without a client it completes and names   *)
(* no tool; with one it names some of its tools, or fails.                 *)
Answers(r) ==
    IF LLM THEN [tools : SUBSET RoleTools[r], status : {"completed"}]
                \cup {[tools |-> {}, status |-> "failed"]}
    ELSE {[tools |-> {}, status |-> "completed"]}

(* Mutant: a reducer that replaces instead of concatenating.               *)
ReplacingSpecialistsNode(i) ==
    /\ At(i, "specialists_parallel")
    /\ IF st[i].assigned = {} \/ ~st[i].readable THEN Throw(i)
       ELSE \E answer \in [Selected(st[i]) -> UNION {Answers(r) : r \in Roles}] :
              /\ \A x \in Selected(st[i]) : answer[x] \in Answers(x[2])
              /\ Apply(i, [st[i] EXCEPT
                   !.results =
                       {[role |-> x[2], rev |-> st[i].revisionCount,
                         group |-> x[1], tools |-> answer[x].tools,
                         status |-> answer[x].status] : x \in Selected(st[i])},
                   !.next = "tool_executor"])

(* group.includes of a group that is no list throws, as the node itself    *)
(* does when nobody is assigned.                                           *)
SpecialistsParallelNode(i) ==
    /\ At(i, "specialists_parallel")
    /\ IF st[i].assigned = {} \/ ~st[i].readable THEN Throw(i)
       ELSE \E answer \in [Selected(st[i]) -> UNION {Answers(r) : r \in Roles}] :
              /\ \A x \in Selected(st[i]) : answer[x] \in Answers(x[2])
              /\ Apply(i, [st[i] EXCEPT
                   !.results = @ \cup
                       {[role |-> x[2], rev |-> st[i].revisionCount,
                         group |-> x[1], tools |-> answer[x].tools,
                         status |-> answer[x].status] : x \in Selected(st[i])},
                   !.next = "tool_executor"])

(* extractToolCalls: every tool of every accumulated specialist result.    *)
ToolCalls(s) == {c \in s.results \X Tools : c[2] \in c[1].tools}

(* ToolBroker.execute refuses a role outside the policy, and an unapproved *)
(* call of a gated tool.  The executor calls as a viewer and approves only *)
(* in auto mode.  Every policy of the repository that asks for an approval *)
(* admits owners and admins only, so that the role decides.                *)
BrokerPermits(tool, mode, approved) ==
    /\ tool \in ViewerTools
    /\ ~(tool \in ApprovalTools /\ mode = "approval" /\ ~approved)

ExecutorApproves(s) == s.mode = "auto"

(* Mutant: the node runs the tools of the first revision only.             *)
OnceToolExecutorNode(i) ==
    /\ At(i, "tool_executor")
    /\ Apply(i, [st[i] EXCEPT
         !.toolRuns = @ \cup
             {[result |-> c[1], tool |-> c[2], rev |-> 0, status |-> "failed"]
                : c \in {d \in ToolCalls(st[i]) : d[1].rev = 0}},
         !.next = "aggregate"])

ToolExecutorNode(i) ==
    /\ At(i, "tool_executor")
    /\ \E outcome \in [ToolCalls(st[i]) -> Outcomes] :
         /\ \A c \in ToolCalls(st[i]) :
              outcome[c] = "completed" =>
                BrokerPermits(c[2], st[i].mode, ExecutorApproves(st[i]))
         /\ Apply(i, [st[i] EXCEPT
              !.toolRuns = @ \cup
                  {[result |-> c[1], tool |-> c[2],
                    rev |-> st[i].revisionCount, status |-> outcome[c]]
                     : c \in ToolCalls(st[i])},
              !.next = "aggregate"])

AggregateNode(i) ==
    /\ At(i, "aggregate")
    /\ Apply(i, [st[i] EXCEPT
                   !.output = IF st[i].results = {} THEN "no_results"
                                                    ELSE "success",
                   !.next = "verifier"])

(* verifyBasic: no output status of aggregate is "failed" or "error".      *)
VerifyBasic(s) ==
    /\ s.assigned # {}
    /\ s.assigned \subseteq s.models
    /\ s.output # "undefined"

(* With a client the verdict is the model's, or verifyBasic's on an error. *)
Verdicts(s) == IF LLM THEN BOOLEAN ELSE {VerifyBasic(s)}

(* Mutant: an off-by-one in the router.                                    *)
LateRouteAfterVerifier(passed, count) ==
    IF passed \/ count > ROUTER_LIMIT THEN "finalizer" ELSE "planner"

RouteAfterVerifier(passed, count) ==
    IF passed \/ count >= ROUTER_LIMIT THEN "finalizer" ELSE "planner"

(* Mutant: a failed verdict counts no revision.                            *)
EndlessVerifierNode(i) ==
    /\ At(i, "verifier")
    /\ \E passed \in Verdicts(st[i]) :
         Apply(i, [st[i] EXCEPT
              !.verification = IF passed THEN "passed" ELSE "failed",
              !.status = "running",
              !.next = RouteAfterVerifier(passed, st[i].revisionCount)])

VerifierNode(i) ==
    /\ At(i, "verifier")
    /\ \E passed \in Verdicts(st[i]) :
         LET revise == ~passed /\ st[i].revisionCount < MAX_REVISIONS
             count == IF revise THEN st[i].revisionCount + 1
                                ELSE st[i].revisionCount
         IN Apply(i, [st[i] EXCEPT
              !.verification = IF passed THEN "passed" ELSE "failed",
              !.revisionCount = count,
              !.status = IF ~passed /\ count >= MAX_REVISIONS
                           THEN "failed" ELSE "running",
              !.revised = @ \cup (IF revise THEN {count} ELSE {}),
              !.next = RouteAfterVerifier(passed, count)])

(* Mutant: the finalizer forgets the verdict.                              *)
BlindFinalizerNode(i) ==
    /\ At(i, "finalizer")
    /\ Apply(i, [st[i] EXCEPT !.status = "completed", !.next = "END"])

FinalizerNode(i) ==
    /\ At(i, "finalizer")
    /\ Apply(i, [st[i] EXCEPT
                   !.status = IF st[i].verification = "passed"
                                THEN "completed" ELSE "failed",
                   !.next = "END"])

(* Nothing left to run: invoke() resolves with the channels.               *)
Return(i) ==
    /\ At(i, "END")
    /\ phase' = [phase EXCEPT ![i] = "returned"]
    /\ UNCHANGED <<saved, thread, resumeWith, st, decided, restarts>>

-----------------------------------------------------------------------------
Step(i) ==
    \/ IntakeNode(i) \/ ProfileNode(i) \/ TemplateSelectNode(i)
    \/ TeamDesignNode(i) \/ ModelRouteNode(i) \/ ToolsAllocateNode(i)
    \/ SkillsLoadNode(i) \/ ApprovalGateNode(i)
    \/ HumanFeedbackInterrupt(i) \/ HumanFeedbackNode(i)
    \/ PlannerNode(i) \/ SpecialistsParallelNode(i) \/ ToolExecutorNode(i)
    \/ AggregateNode(i) \/ VerifierNode(i) \/ FinalizerNode(i)
    \/ Return(i)

Call(i) ==
    \/ \E t \in Threads, mode \in Modes, roles \in SUBSET Roles :
         Run(i, t, mode, roles)
    \/ \E t \in Threads, decision \in Decisions : Resume(i, t, decision)

Next == Restart \/ \E i \in Invocations : Call(i) \/ Step(i)

(* The event loop runs every pending node; callers and restarts are free.  *)
Fairness == \A i \in Invocations : WF_vars(Step(i))

Spec == Init /\ [][Next]_vars /\ Fairness

-----------------------------------------------------------------------------
(* Properties.                                                             *)

TypeOK ==
    /\ saved \in [Threads -> ChannelState]
    /\ phase \in [Invocations -> {"idle", "active", "returned", "threw", "lost"}]
    /\ thread \in [Invocations -> Threads]
    /\ resumeWith \in [Invocations -> Decisions \cup {"none"}]
    /\ st \in [Invocations -> ChannelState]
    /\ decided \in [Threads -> SUBSET Decisions]
    /\ restarts \in 0..MaxRestarts

(* An approval-mode run whose plan, specialists or tools have run was      *)
(* approved by one of its resume() callers, whichever invocation holds the *)
(* state and whatever the others decided meanwhile.                        *)
WorkApproved(s, t) ==
    s.mode = "approval" /\ (s.planned # {} \/ s.results # {} \/ s.toolRuns # {})
        => s.approvalGranted /\ "approve" \in decided[t]

WorkNeedsApproval ==
    /\ \A t \in Threads : WorkApproved(saved[t], t)
    /\ \A i \in Invocations : WorkApproved(st[i], thread[i])

(* The verifier's limit (MAX_REVISIONS in verifier.ts) and the router's    *)
(* (the literal 2 in index.ts) agree: a run marked failed never re-plans,  *)
(* and one sent to the finalizer without a passed verdict is marked.       *)
FailureRouted(s) ==
    s.status = "failed" <=>
        s.next \in {"finalizer", "END"} /\ s.verification # "passed"

LimitsAgree ==
    /\ \A t \in Threads : FailureRouted(saved[t])
    /\ \A i \in Invocations : FailureRouted(st[i])

(* A run ends "completed" exactly when its last verdict passed, and then   *)
(* the verdict is about this plan: the tool calls of every specialist have *)
(* their outcome, and the aggregate saw the results.                       *)
Completion(s) ==
    s.next = "END" =>
        /\ s.status = "completed" <=> s.verification = "passed"
        /\ s.status = "completed" =>
             /\ s.planned # {}
             /\ s.output = IF s.results = {} THEN "no_results" ELSE "success"
             /\ \A c \in ToolCalls(s) :
                  \E e \in s.toolRuns : e.result = c[1] /\ e.tool = c[2]

CompletionIsVerified ==
    /\ \A t \in Threads : Completion(saved[t])
    /\ \A i \in Invocations : Completion(st[i])

(* The planner runs once per announced revision and at most MAX_REVISIONS  *)
(* times in all, and no specialist result belongs to an unplanned one.     *)
(* The tool executor makes the calls of all earlier results again: once in *)
(* a revision, in none before the result, so MAX_REVISIONS times at most.  *)
RevisionsBounded(s) ==
    /\ s.revisionCount <= MAX_REVISIONS
    /\ s.revised = 1..s.revisionCount
    /\ s.planned \subseteq 0..(MAX_REVISIONS - 1)
    /\ s.planned \ {0} \subseteq s.revised
    /\ \A r \in s.results : r.rev \in s.planned
    /\ \A e \in s.toolRuns :
         e.result \in s.results /\ e.rev \in s.planned /\ e.result.rev <= e.rev
    /\ \A e, f \in s.toolRuns :
         e.result = f.result /\ e.tool = f.tool /\ e.rev = f.rev => e = f

RevisionBound ==
    /\ \A t \in Threads : RevisionsBounded(saved[t])
    /\ \A i \in Invocations : RevisionsBounded(st[i])

(* A re-plan never loses what earlier revisions produced, and an active    *)
(* invocation's tool outcomes are never rewritten: the reducers only add.  *)
ResultsKept ==
    [][\A i \in Invocations :
         phase[i] = "active" =>
           /\ st[i].results \subseteq st'[i].results
           /\ st[i].toolRuns \subseteq st'[i].toolRuns
           /\ st'[i].revisionCount \in {st[i].revisionCount, st[i].revisionCount + 1}
      ]_vars

(* Every call of run() and resume() ends: the revision loop is finite.     *)
EveryCallEnds == \A i \in Invocations : phase[i] = "active" ~> phase[i] # "active"

(* The graph keeps the promise of RunLifecycle.                            *)
Reported(i) ==
    IF phase[i] # "returned" THEN "none"
    ELSE IF st[i].next = "human_feedback" THEN "waiting_approval"
    ELSE st[i].status

Lifecycle == INSTANCE RunLifecycle WITH
    Calls <- Invocations,
    Runs <- Threads,
    call <- [i \in Invocations |->
               IF phase[i] \in {"threw", "lost"} THEN "dead" ELSE phase[i]],
    run <- thread,
    gated <- [i \in Invocations |-> st[i].mode = "approval"],
    worked <- [i \in Invocations |-> st[i].planned # {}],
    reported <- [i \in Invocations |-> Reported(i)],
    approved <- [t \in Threads |-> "approve" \in decided[t]]

ImplementsLifecycle == Lifecycle!Spec

=============================================================================
