--------------------------- MODULE WorkerManager ---------------------------
(***************************************************************************)
(* infra/workers/manager.ts: the manager starts a generation of the four   *)
(* workers and a monitor for it, stops and restarts them, and ends the     *)
(* process on a signal.  A start tests isRunning, makes the workers, awaits*)
(* them, and only then sets isRunning; as what it awaits is settled at once*)
(* it is over before the next turn of the event loop, but other starts of  *)
(* the same turn find nothing running.  Closing waits for the jobs.        *)
(***************************************************************************)
EXTENDS Naturals, FiniteSets

CONSTANTS
    Callers,        \* whoever calls stop or restart at the same time
    MaxStarts       \* bound: generations started

ASSUME ManagerAssumption == MaxStarts \in Nat

VARIABLES
    mgr,            \* the manager's fields
    live,           \* generations whose workers take jobs
    starting,       \* generations that are awaited by their start
    watching,       \* generations whose start left a monitor that has its intervals set
    overtaken,      \* generations that another start replaced meanwhile (history)
    call,           \* caller -> what it waits for
    exited,
    startFailed     \* some start or close failed (history)

managerVars == <<mgr, live, starting, watching, overtaken, call, exited, startFailed>>

Gens == 1..MaxStarts
ManagerTypeOK ==
    /\ mgr \in [gen : 0..MaxStarts, monitor : 0..MaxStarts, running : BOOLEAN,
                handlers : Nat]
    /\ live \subseteq Gens /\ starting \subseteq Gens /\ watching \subseteq Gens /\ overtaken \subseteq Gens
    /\ call \in [Callers -> {"idle", "stop", "restart", "pause", "exit"}]
    /\ exited \in BOOLEAN /\ startFailed \in BOOLEAN

ManagerInit ==
    /\ mgr = [gen |-> 0, monitor |-> 0, running |-> FALSE, handlers |-> 0]
    /\ live = {} /\ starting = {} /\ watching = {} /\ overtaken = {}
    /\ call = [c \in Callers |-> "idle"]
    /\ exited = FALSE /\ startFailed = FALSE

-----------------------------------------------------------------------------
(* The first half of start: the constructors already connect the workers.  *)
StartBegins ==
    LET g == mgr.gen + 1 IN
    /\ mgr.gen < MaxStarts
    /\ mgr' = [mgr EXCEPT !.gen = g]
    /\ live' = live \cup {g} /\ UNCHANGED watching
    /\ \/ /\ starting' = starting \cup {g} /\ overtaken' = overtaken \cup starting
          /\ UNCHANGED startFailed
       (* One of them throws; the stop that follows finds nothing running. *)
       \/ startFailed' = TRUE /\ UNCHANGED <<starting, overtaken>>

Start ==
    /\ ~exited /\ ~mgr.running
    /\ StartBegins
    /\ UNCHANGED <<call, exited>>

(* The second half, of the start that waits longest: a monitor for the     *)
(* workers there are now.  Every start adds its signal handlers, which     *)
(* nothing ever removes.                                                   *)
Started(g) ==
    /\ ~exited /\ g \in starting /\ \A h \in starting : g <= h
    /\ starting' = starting \ {g}
    /\ mgr' = [mgr EXCEPT !.monitor = g, !.running = TRUE, !.handlers = @ + 1]
    /\ watching' = watching \cup {g}
    /\ UNCHANGED <<live, overtaken, call, exited, startFailed>>

(* Whatever comes in a turn of its own finds no start half done.           *)
NextTurn == ~exited /\ starting = {}

(* restart waits for two seconds after its stop.                           *)
RestartStart(c) ==
    /\ NextTurn /\ call[c] = "pause"
    /\ call' = [call EXCEPT ![c] = "idle"]
    /\ IF mgr.running THEN UNCHANGED <<mgr, live, starting, watching, overtaken, startFailed>>
       ELSE StartBegins
    /\ UNCHANGED exited

-----------------------------------------------------------------------------
(* stop and restart wait for the workers to close, unless none run.        *)
StopCall(c) ==
    /\ ~exited /\ call[c] = "idle" /\ mgr.running
    /\ call' = [call EXCEPT ![c] = "stop"]
    /\ UNCHANGED <<mgr, live, starting, watching, overtaken, exited, startFailed>>

RestartCall(c) ==
    /\ ~exited /\ call[c] = "idle"
    /\ call' = [call EXCEPT ![c] = IF mgr.running THEN "restart" ELSE "pause"]
    /\ UNCHANGED <<mgr, live, starting, watching, overtaken, exited, startFailed>>

(* A signal or an error that nobody caught.                                *)
Exits == exited' = TRUE /\ live' = {} /\ watching' = {}
Signal(c) ==
    /\ NextTurn /\ call[c] = "idle" /\ mgr.handlers > 0
    /\ IF mgr.running
       THEN call' = [call EXCEPT ![c] = "exit"] /\ UNCHANGED <<live, watching, exited>>
       ELSE Exits /\ UNCHANGED call
    /\ UNCHANGED <<mgr, starting, overtaken, startFailed>>

Stopping == \E c \in Callers : call[c] \in {"stop", "restart", "exit"}
Resume(c) == CASE call[c] = "restart" -> "pause" [] call[c] \in {"stop", "exit"} -> "idle"
               [] OTHER -> call[c]

(* Mutant: the monitor of the workers goes on.                             *)
WatchedWorkersClosed ==
    /\ NextTurn /\ Stopping
    /\ mgr' = [mgr EXCEPT !.running = FALSE]
    /\ live' = live \ {mgr.gen} /\ UNCHANGED watching
    /\ call' = [c \in Callers |-> Resume(c)]
    /\ UNCHANGED <<starting, overtaken, exited, startFailed>>

(* The workers have closed: all who waited for it go on, in one turn of    *)
(* the event loop.                                                         *)
WorkersClosed ==
    /\ NextTurn /\ Stopping
    /\ mgr' = [mgr EXCEPT !.running = FALSE]
    /\ call' = [c \in Callers |-> Resume(c)]
    /\ IF \E c \in Callers : call[c] = "exit" THEN Exits
       ELSE /\ live' = live \ {mgr.gen} /\ watching' = watching \ {mgr.monitor}
            /\ UNCHANGED exited
    /\ UNCHANGED <<starting, overtaken, startFailed>>

(* A worker that fails to close leaves the manager running; restart        *)
(* rejects, and a signal ends the process all the same.                    *)
CloseFails ==
    /\ NextTurn /\ Stopping
    /\ call' = [c \in Callers |-> IF call[c] = "pause" THEN "pause" ELSE "idle"]
    /\ startFailed' = TRUE
    /\ IF \E c \in Callers : call[c] = "exit" THEN Exits
       ELSE UNCHANGED <<live, watching, exited>>
    /\ UNCHANGED <<mgr, starting, overtaken>>

ManagerNext ==
    \/ Start \/ (\E g \in Gens : Started(g)) \/ WorkersClosed \/ CloseFails
    \/ \E c \in Callers : StopCall(c) \/ RestartCall(c) \/ RestartStart(c) \/ Signal(c)

-----------------------------------------------------------------------------
(* The manager owns all workers there are: unless a start or a close       *)
(* failed, only its own generation takes jobs, exactly while it is started *)
(* or says that it is running, and is watched by one monitor for just as   *)
(* long.  Only a generation that a second start of the same turn overtook  *)
(* goes on without an owner, and it does until the process ends.           *)
WorkersOwned ==
    ~startFailed =>
      /\ live = IF exited THEN {}
                ELSE overtaken \cup (IF mgr.running \/ starting # {} THEN {mgr.gen} ELSE {})
      /\ watching = live \ starting
      /\ mgr.running /\ starting = {} => mgr.monitor = mgr.gen
=============================================================================
