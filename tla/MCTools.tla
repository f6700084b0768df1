------------------------------ MODULE MCTools ------------------------------
(***************************************************************************)
(* The classes of tool-broker for TLC.  They keep no state in common, so a *)
(* behaviour is one of one of them, chosen in its initial state; the other *)
(* three stay as they were created.                                        *)
(***************************************************************************)
EXTENDS ToolBroker, McpServerManager, StdioClient, ToolExecutor

VARIABLE part

brokerOwn == <<registry, mcpClients, op, lost>>
managerOwn == <<tracking, started, job, overlapped>>
vars == <<part, connections, brokerOwn, managerOwn, stdioVars, executorVars>>

Init ==
    /\ part \in {"broker", "manager", "stdio", "executor"}
    /\ BrokerInit /\ ManagerInit /\ StdioInit /\ ExecutorInit

Broker(A) == part = "broker" /\ A /\ UNCHANGED <<part, managerOwn, stdioVars, executorVars>>
Manager(A) == part = "manager" /\ A /\ UNCHANGED <<part, brokerOwn, stdioVars, executorVars>>
Stdio_(A) == part = "stdio" /\ A
             /\ UNCHANGED <<part, connections, brokerOwn, managerOwn, executorVars>>
Executor(A) == part = "executor" /\ A
               /\ UNCHANGED <<part, connections, brokerOwn, managerOwn, stdioVars>>

Next ==
    \/ Broker(BrokerNext) \/ Manager(ManagerNext) \/ Stdio_(StdioNext) \/ Executor(ExecutorNext)

(* Timers fire, and the continuation of a settled await runs.  Nobody has  *)
(* to call anything, and no server has to answer or to end its answer.     *)
Fairness == \A t \in Tasks : WF_vars(
    \/ Broker(Continue(t) \/ (Timeout(t) /\ UNCHANGED brokerOwn))
    \/ Manager(Connected(t) \/ Listed(t) \/ ConnectFails(t)
               \/ (Timeout(t) /\ UNCHANGED managerOwn)))

Spec == Init /\ [][Next]_vars /\ Fairness

(* The fields of the four classes.                                         *)
TypeOK == BrokerTypeOK /\ ManagerTypeOK /\ StdioTypeOK /\ ExecutorTypeOK

(* A process that is out of reach is one of those the two modules name.    *)
OrphansExplained ==
    /\ part = "broker" => BrokerOrphansExplained
    /\ part = "manager" => ManagerOrphansExplained

(* Every connect, test, call and reconnect comes to an end, whatever exits,*)
(* closes and times out around it, but for one that reads the body of an   *)
(* HTTP answer: only the server can end that await (post() of mcp-client). *)
Busy(t) == op[t].does # "idle" \/ job[t].does \in {"connect", "list"}
CallsEnd == \A t \in Tasks : Busy(t) ~> (~Busy(t) \/ wait[t].got = "body")
=============================================================================
