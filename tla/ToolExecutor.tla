---------------------------- MODULE ToolExecutor ----------------------------
(***************************************************************************)
(* ToolExecutor of tool-broker/src/executor.ts, with the errors that       *)
(* McpToolAdapter (mcp/tool-adapter.ts) lets through: an execution checks  *)
(* the tool and its policy once, then makes up to maxRetries attempts; its *)
(* trace is one object that the history of its run refers to.              *)
(***************************************************************************)
EXTENDS Naturals

CONSTANTS
    ToolNames,
    Executions,     \* bound: calls of execute()
    maxRetries      \* attempts

(* The names, by the patterns they match in the three isToolSensitive.     *)
NameClasses == {"file.read", "file.write", "job.run", "site.deploy"}

ASSUME ExecutorAssumption ==
    /\ maxRetries \in Nat \ {0}
    /\ ToolNames \subseteq NameClasses

ToolSources == {"mcp", "provider-native", "local-sandbox"}
Checks == {"none", "open", "approval"}

(* The list of ToolBroker is part of that of McpServerManager, and that of *)
(* McpToolAdapter's.                                                       *)
BrokerSensitive == {"file.write"}
ManagerSensitive == BrokerSensitive \cup {"job.run"}
AdapterSensitive == ManagerSensitive \cup {"site.deploy"}

(* generatePolicy of the adapter.                                          *)
AdapterPolicy(n) == IF n \in AdapterSensitive THEN "approval" ELSE "open"

VARIABLES
    registered,     \* tool -> its source, or "none"
    checks,         \* tool -> what its policy asks for
    run,            \* execution -> where it is
    trace,          \* execution -> the status of its trace
    history         \* execution -> how often its trace is in the history

(* thrown is what the caller got: the error of the last attempt.           *)
Errors == {"retryable", "final"}
Execution == [at : {"new", "attempt", "backoff", "ok", "failed", "refused"},
              tool : ToolNames \cup {"none"}, attempt : 0..maxRetries,
              thrown : Errors \cup {"none"}]
New == [at |-> "new", tool |-> "none", attempt |-> 0, thrown |-> "none"]
executorVars == <<registered, checks, run, trace, history>>

ExecutorTypeOK ==
    /\ registered \in [ToolNames -> ToolSources \cup {"none"}]
    /\ checks \in [ToolNames -> Checks]
    /\ run \in [Executions -> Execution]
    /\ trace \in [Executions -> {"none", "started", "completed", "failed"}]
    /\ history \in [Executions -> 0..2]

ExecutorInit ==
    /\ registered = [n \in ToolNames |-> "none"]
    /\ checks = [n \in ToolNames |-> "none"]
    /\ run = [e \in Executions |-> New]
    /\ trace = [e \in Executions |-> "none"]
    /\ history = [e \in Executions |-> 0]

-----------------------------------------------------------------------------
(* registerTool: a tool that is not an MCP tool does not replace one.      *)
RegisterTool(n) == \E source \in ToolSources :
    /\ ~(registered[n] = "mcp" /\ source # "mcp")
    /\ registered' = [registered EXCEPT ![n] = source]
    /\ UNCHANGED <<checks, run, trace, history>>

RegisterPolicy(n) ==
    /\ checks' = [checks EXCEPT ![n] = AdapterPolicy(n)]
    /\ UNCHANGED <<registered, run, trace, history>>

UnregisterTool(n) ==
    /\ registered' = [registered EXCEPT ![n] = "none"]
    /\ checks' = [checks EXCEPT ![n] = "none"]
    /\ UNCHANGED <<run, trace, history>>

(* What a policy lets through: a role that it names, and the approval it   *)
(* may ask for (or a mode that needs none).                                *)
Passes(check, allowed, approved) ==
    (check # "none" => allowed) /\ (check = "approval" => approved)

(* TOOL_NOT_FOUND, TOOL_PERMISSION_DENIED, TOOL_APPROVAL_REQUIRED.         *)
ExecuteRefused(e) == \E n \in ToolNames, allowed, approved \in BOOLEAN :
    /\ run[e] = New
    /\ registered[n] = "none" \/ ~Passes(checks[n], allowed, approved)
    /\ run' = [run EXCEPT ![e] = [New EXCEPT !.at = "refused", !.tool = n,
                                             !.thrown = "final"]]
    /\ UNCHANGED <<registered, checks, trace, history>>

ExecuteStarts(e) == \E n \in ToolNames, allowed, approved \in BOOLEAN :
    /\ run[e] = New
    /\ registered[n] # "none" /\ Passes(checks[n], allowed, approved)
    /\ run' = [run EXCEPT ![e] = [New EXCEPT !.at = "attempt", !.tool = n,
                                             !.attempt = 1]]
    /\ trace' = [trace EXCEPT ![e] = "started"]
    /\ history' = [history EXCEPT ![e] = 1]
    /\ UNCHANGED <<registered, checks>>

(* recordTrace pushes the same object again.                               *)
Recorded(e, status) ==
    /\ trace' = [trace EXCEPT ![e] = status]
    /\ history' = [history EXCEPT ![e] = @ + 1]

AttemptSucceeds(e) ==
    /\ run[e].at = "attempt"
    /\ run' = [run EXCEPT ![e].at = "ok"]
    /\ Recorded(e, "completed")
    /\ UNCHANGED <<registered, checks>>

(* Mutant: an error that is not retryable is retried.                      *)
StubbornAttemptFails(e) == \E error \in Errors :
    /\ run[e].at = "attempt"
    /\ \/ /\ run[e].attempt < maxRetries
          /\ run' = [run EXCEPT ![e].at = "backoff", ![e].thrown = error]
          /\ UNCHANGED <<trace, history>>
       \/ /\ run[e].attempt >= maxRetries
          /\ run' = [run EXCEPT ![e].at = "failed", ![e].thrown = error]
          /\ Recorded(e, "failed")
    /\ UNCHANGED <<registered, checks>>

(* Mutant: one attempt too many.                                           *)
LateAttemptFails(e) == \E error \in Errors :
    /\ run[e].at = "attempt"
    /\ \/ /\ error = "retryable" /\ run[e].attempt <= maxRetries
          /\ run' = [run EXCEPT ![e].at = "backoff", ![e].thrown = error]
          /\ UNCHANGED <<trace, history>>
       \/ /\ error = "final" \/ run[e].attempt > maxRetries
          /\ run' = [run EXCEPT ![e].at = "failed", ![e].thrown = error]
          /\ Recorded(e, "failed")
    /\ UNCHANGED <<registered, checks>>

(* The adapter throws plain errors only, which count as retryable: a tool  *)
(* that ran and reported an error is run again.                            *)
AttemptFails(e) == \E error \in Errors :
    /\ run[e].at = "attempt"
    /\ \/ /\ error = "retryable" /\ run[e].attempt < maxRetries
          /\ run' = [run EXCEPT ![e].at = "backoff", ![e].thrown = error]
          /\ UNCHANGED <<trace, history>>
       \/ /\ error = "final" \/ run[e].attempt >= maxRetries
          /\ run' = [run EXCEPT ![e].at = "failed", ![e].thrown = error]
          /\ Recorded(e, "failed")
    /\ UNCHANGED <<registered, checks>>

(* The tool was looked up before the first attempt and is not again.       *)
BackoffEnds(e) ==
    /\ run[e].at = "backoff"
    /\ run' = [run EXCEPT ![e].at = "attempt", ![e].attempt = @ + 1, ![e].thrown = "none"]
    /\ UNCHANGED <<registered, checks, trace, history>>

ClearExecutionHistory ==
    /\ history' = [e \in Executions |-> 0]
    /\ UNCHANGED <<registered, checks, run, trace>>

ExecutorNext ==
    \/ \E n \in ToolNames : RegisterTool(n) \/ RegisterPolicy(n) \/ UnregisterTool(n)
    \/ \E e \in Executions :
         \/ ExecuteRefused(e) \/ ExecuteStarts(e) \/ AttemptSucceeds(e)
         \/ AttemptFails(e) \/ BackoffEnds(e)
    \/ ClearExecutionHistory

(* A trace says how its execution went, also where the history was cleared *)
(* meanwhile: "started" while it is under way, and a failed execution used *)
(* up its attempts or met an error that is not to be retried.              *)
TracesTellOutcome == \A e \in Executions :
    LET x == run[e] IN
    /\ (trace[e] = "started") <=> x.at \in {"attempt", "backoff"}
    /\ (trace[e] = "completed") <=> x.at = "ok"
    /\ (trace[e] = "failed") <=> x.at = "failed"
    /\ x.at = "failed" => x.thrown = "final" \/ x.attempt = maxRetries
    /\ x.thrown = "final" => x.at \in {"failed", "refused"}
    /\ history[e] = 2 => trace[e] \in {"completed", "failed"}
=============================================================================
