---------------------------- MODULE StdioClient ----------------------------
(***************************************************************************)
(* StdioClient of tool-broker/src/mcp/stdio-client.ts: one object that may *)
(* spawn several child processes over its life, one after the other.  The  *)
(* events of a process keep their handlers after the object has let go of  *)
(* it, and act on whatever process the object has by then.                 *)
(***************************************************************************)
EXTENDS Naturals

CONSTANTS
    Procs,          \* bound: processes spawned
    Requests,       \* bound: requests sent
    NoProc

ASSUME StdioAssumption == NoProc \notin Procs

VARIABLES
    proc,           \* this.process
    os,             \* process -> what it does
    up,             \* this.connected
    shuttingDown,
    stopping,       \* the process whose exit performShutdown waits for
    handlers,       \* the caller has handlers registered
    request         \* request -> its promise

ProcStates == {"unborn", "alive", "signalled", "gone"}
Promises == {"new", "pending", "settled", "forgotten"}
stdioVars == <<proc, os, up, shuttingDown, stopping, handlers, request>>

StdioTypeOK ==
    /\ proc \in Procs \cup {NoProc}
    /\ os \in [Procs -> ProcStates]
    /\ up \in BOOLEAN /\ shuttingDown \in BOOLEAN /\ handlers \in BOOLEAN
    /\ stopping \in Procs \cup {NoProc}
    /\ request \in [Requests -> Promises]

StdioInit ==
    /\ proc = NoProc
    /\ os = [p \in Procs |-> "unborn"]
    /\ up = FALSE /\ shuttingDown = FALSE /\ handlers = FALSE
    /\ stopping = NoProc
    /\ request = [r \in Requests |-> "new"]

Settle(promise) == IF promise = "pending" THEN "settled" ELSE promise
RejectAll == [r \in Requests |-> Settle(request[r])]

(* What pendingRequests.clear() drops is never settled.                    *)
Cleared(promises) ==
    [r \in Requests |-> IF promises[r] = "pending" THEN "forgotten" ELSE promises[r]]

(* cleanup(), after promises and processes were set: kills the process the *)
(* object has, unless it was sent a signal before.                         *)
Cleanup(promises, processes) ==
    /\ os' = [p \in Procs |-> IF p = proc /\ processes[p] = "alive"
                              THEN "signalled" ELSE processes[p]]
    /\ proc' = NoProc /\ up' = FALSE /\ handlers' = FALSE
    /\ request' = Cleared(promises)

-----------------------------------------------------------------------------
(* start(): nothing while there is a process; shuttingDown is not looked at*)
(* and not reset.                                                          *)
StdioStart == \E p \in Procs :
    /\ ~up /\ proc = NoProc /\ os[p] = "unborn"
    /\ proc' = p /\ up' = TRUE
    /\ os' = [os EXCEPT ![p] = "alive"]
    /\ UNCHANGED <<shuttingDown, stopping, handlers, request>>

StdioStartFails ==
    /\ ~up /\ proc = NoProc
    /\ Cleanup(request, os)
    /\ UNCHANGED <<shuttingDown, stopping>>

Register ==
    /\ handlers' = TRUE
    /\ UNCHANGED <<proc, os, up, shuttingDown, stopping, request>>

(* stop(): SIGTERM, then performShutdown waits for the exit or 5 seconds.  *)
(* A later call returns the promise of the first.                          *)
StdioStop ==
    /\ ~shuttingDown /\ shuttingDown' = TRUE
    /\ \/ /\ proc = NoProc
          /\ Cleanup(RejectAll, os)
          /\ UNCHANGED stopping
       \/ /\ proc # NoProc
          /\ os' = [os EXCEPT ![proc] = IF @ = "alive" THEN "signalled" ELSE @]
          /\ stopping' = proc
          /\ request' = RejectAll
          /\ UNCHANGED <<proc, up, handlers>>

(* After 5 seconds the process the object has by now is killed.            *)
ShutdownTimeout ==
    /\ stopping # NoProc /\ stopping' = NoProc
    /\ Cleanup(request, os)
    /\ UNCHANGED shuttingDown

-----------------------------------------------------------------------------
(* Mutant: an exit drops the pending requests without rejecting them.      *)
SilentExit(p) ==
    /\ os[p] \in {"alive", "signalled"}
    /\ Cleanup(request, [os EXCEPT ![p] = "gone"])
    /\ stopping' = IF stopping = p THEN NoProc ELSE stopping
    /\ UNCHANGED shuttingDown

(* "exit" of any process the object has spawned.                           *)
Exit(p) ==
    /\ os[p] \in {"alive", "signalled"}
    /\ Cleanup(RejectAll, [os EXCEPT ![p] = "gone"])
    /\ stopping' = IF stopping = p THEN NoProc ELSE stopping
    /\ UNCHANGED shuttingDown

(* "error": the process could not be spawned, or not be sent to.           *)
ProcessError(p) ==
    /\ os[p] \in {"alive", "signalled"}
    /\ \/ Cleanup(RejectAll, os)
       \/ Cleanup(RejectAll, [os EXCEPT ![p] = "gone"])
    /\ UNCHANGED <<shuttingDown, stopping>>

Send(r) ==
    /\ up /\ proc # NoProc /\ ~shuttingDown
    /\ request[r] = "new"
    /\ request' = [request EXCEPT ![r] = "pending"]
    /\ UNCHANGED <<proc, os, up, shuttingDown, stopping, handlers>>

(* A response, or the timer of the request.                                *)
Respond(r) ==
    /\ request[r] = "pending"
    /\ request' = [request EXCEPT ![r] = "settled"]
    /\ UNCHANGED <<proc, os, up, shuttingDown, stopping, handlers>>

StdioNext ==
    \/ StdioStart \/ StdioStartFails \/ Register \/ StdioStop \/ ShutdownTimeout
    \/ \E p \in Procs : Exit(p) \/ ProcessError(p)
    \/ \E r \in Requests : Send(r) \/ Respond(r)

(* A process of this object that runs and was not told to stop is the one  *)
(* stop() and the exit hook act on, and no request was dropped without     *)
(* settling its promise: errors, late exits of an old process and restarts *)
(* during a shutdown leave neither.                                        *)
NothingLeftBehind ==
    /\ \A p \in Procs : os[p] = "alive" => p = proc
    /\ \A r \in Requests : request[r] # "forgotten"
=============================================================================
