--------------------------- MODULE RunEventStream ---------------------------
(***************************************************************************)
(* The events of runs on a screen: publishRunEvent and the websocket route *)
(* of apps/api/src/app.ts on one side, useRunEvents                        *)
(* (apps/web/lib/use-run-events.ts) of an EventFeed on the other, with     *)
(* connections that break and a screen that goes to another run.           *)
(***************************************************************************)
EXTENDS Naturals, FiniteSets

CONSTANTS
    Runs,
    Replicas,       \* processes of the API; each has the sockets made to it
    MaxEvents,      \* bound: events of all runs
    MaxSockets,     \* bound: connections made
    MaxDrops,       \* bound: connections that break
    MaxChanges      \* bound: changes of the run a screen shows

Sockets == 1..MaxSockets
Events == 1..MaxEvents

VARIABLES
    log,            \* run_events: run -> its events
    numbered,       \* run -> the events it ever had
    thread,         \* replica, run -> the events of its graph, in the checkpoint
    handlers,       \* routes about to write events and then publish them
    sockets,        \* connections, both their ends
    registered,     \* runEventSockets, of all replicas
    hook            \* the refs and state of useRunEvents

streamVars == <<log, numbered, thread, handlers, sockets, registered, hook>>

(* client and server are the ends, server at one replica; sent is what is  *)
(* on its way, from the backlog or live; foreign are the events another    *)
(* replica wrote since it joined (history).                                *)
NoSocket == [run |-> "none", client |-> "none", server |-> "none", replica |-> "none", code |-> 0,
             backlog |-> {}, sent |-> {}, foreign |-> {}, left |-> FALSE]

StreamInit ==
    /\ log = [r \in Runs |-> {}] /\ numbered = [r \in Runs |-> 0]
    /\ thread = [p \in Replicas |-> [r \in Runs |-> {}]] /\ handlers = {}
    /\ sockets = [k \in Sockets |-> NoSocket] /\ registered = {}
    /\ hook = [runId |-> "none", unmounted |-> FALSE, ws |-> 0, timers |-> {}, timer |-> 0,
               connected |-> FALSE, events |-> {}, since |-> 0,
               drops |-> 0, changes |-> 0, raced |-> FALSE]

-----------------------------------------------------------------------------
(* A route has a new event, and writes it or, after the graph ran, all the *)
(* events of the graph.                                                    *)
Handle(p, r, events, step) ==
    /\ Cardinality({<<q, e>> \in Runs \X Events : e <= numbered[q]}) < MaxEvents
    /\ numbered' = [numbered EXCEPT ![r] = @ + 1]
    /\ handlers' = handlers \cup {[replica |-> p, run |-> r, step |-> step,
                                   all |-> events, unwritten |-> events]}
    /\ UNCHANGED <<log, sockets, registered, hook>>

(* A tool decided, a run cancelled or set to running: one event.           *)
OneEvent(p, r) == Handle(p, r, {numbered[r] + 1}, "write") /\ UNCHANGED thread

(* run, resume and approve: the graph went on, on what this replica has of *)
(* it.                                                                     *)
GraphEvents(p, r) ==
    LET events == thread[p][r] \cup {numbered[r] + 1} IN
    /\ Handle(p, r, events, "clear")
    /\ thread' = [thread EXCEPT ![p][r] = events]

(* The first statement of replaceRunEvents.                                *)
ReplaceRunEvents(h) ==
    /\ h \in handlers /\ h.step = "clear"
    /\ log' = [log EXCEPT ![h.run] = {}]
    /\ handlers' = (handlers \ {h}) \cup {[h EXCEPT !.step = "write"]}
    /\ UNCHANGED <<numbered, thread, sockets, registered, hook>>

AppendRunEvent(h, e) ==
    /\ h \in handlers /\ h.step = "write" /\ e \in h.unwritten /\ \A f \in h.unwritten : e <= f
    /\ log' = [log EXCEPT ![h.run] = @ \cup {e}]
    /\ handlers' = (handlers \ {h}) \cup {[h EXCEPT !.unwritten = @ \ {e}]}
    /\ sockets' = [k \in Sockets |->
         IF k \in registered /\ sockets[k].run = h.run /\ sockets[k].replica # h.replica
         THEN [sockets[k] EXCEPT !.foreign = @ \cup {e}] ELSE sockets[k]]
    /\ UNCHANGED <<numbered, thread, registered, hook>>

(* Mutant: a socket hears of events only after its backlog was sent.       *)
LatePublishRunEvents(h) ==
    /\ h \in handlers /\ h.step = "write" /\ h.unwritten = {} /\ handlers' = handlers \ {h}
    /\ sockets' = [k \in Sockets |->
         IF /\ k \in registered /\ sockets[k].run = h.run /\ sockets[k].replica = h.replica
            /\ sockets[k].server = "ready"
         THEN [sockets[k] EXCEPT !.sent = @ \cup h.all] ELSE sockets[k]]
    /\ UNCHANGED <<log, numbered, thread, registered, hook>>

(* Everything the handler wrote is published, in one loop, to the sockets  *)
(* of its own replica; after the graph that is the whole log again.        *)
PublishRunEvents(h) ==
    /\ h \in handlers /\ h.step = "write" /\ h.unwritten = {} /\ handlers' = handlers \ {h}
    /\ sockets' = [k \in Sockets |->
         IF /\ k \in registered /\ sockets[k].run = h.run /\ sockets[k].replica = h.replica
            /\ sockets[k].server \in {"reading", "read", "ready"}
         THEN [sockets[k] EXCEPT !.sent = @ \cup h.all] ELSE sockets[k]]
    /\ UNCHANGED <<log, numbered, thread, registered, hook>>

(* The websocket route of the replica that was reached, to its await.      *)
Join(k, p) ==
    /\ sockets[k].client = "connecting" /\ sockets[k].server = "none"
    /\ registered' = registered \cup {k}
    /\ sockets' = [sockets EXCEPT ![k].server = "reading", ![k].replica = p]
    /\ UNCHANGED <<log, numbered, thread, handlers, hook>>

(* listRunEvents, also for a socket that closed meanwhile.                 *)
ReadBacklog(k) ==
    /\ sockets[k].server = "reading"
    /\ sockets' = [sockets EXCEPT ![k].server = "read", ![k].backlog = log[sockets[k].run]]
    /\ UNCHANGED <<log, numbered, thread, handlers, registered, hook>>

(* What was read is sent, with live events before or after it.              *)
SendBacklog(k) ==
    /\ sockets[k].server = "read"
    /\ sockets' = [sockets EXCEPT ![k].server = "ready", ![k].sent = @ \cup sockets[k].backlog,
                                  ![k].backlog = {}]
    /\ UNCHANGED <<log, numbered, thread, handlers, registered, hook>>

(* What a socket is whose connection ends with a code: its server end runs *)
(* removeRunSocket only when it had sent the backlog.                      *)
Ended(s, code) == [s EXCEPT !.client = "closing", !.server = "closed", !.code = code, !.sent = {},
                            !.backlog = {}, !.foreign = {}, !.left = s.server \in {"reading", "read"}]
RemoveRunSocket(k) == IF sockets[k].server = "ready" THEN registered \ {k} ELSE registered

-----------------------------------------------------------------------------
(* connect: the next socket, for a run, and the hook that goes with it.    *)
Fresh == {k \in Sockets : sockets[k].client = "none" /\ \A j \in 1..(k - 1) : sockets[j].client # "none"}
Connect(k, r, table, h) ==
    /\ k \in Fresh
    /\ sockets' = [table EXCEPT ![k] = [NoSocket EXCEPT !.run = r, !.client = "connecting"]]
    /\ hook' = [h EXCEPT !.ws = k]

OnOpen(k) ==
    /\ sockets[k].client = "connecting" /\ sockets[k].server # "none"
    /\ IF hook.unmounted
       THEN /\ sockets' = [sockets EXCEPT ![k] = Ended(@, 1005)]
            /\ registered' = RemoveRunSocket(k) /\ UNCHANGED hook
       ELSE /\ sockets' = [sockets EXCEPT ![k].client = "open"]
            /\ hook' = [hook EXCEPT !.connected = TRUE] /\ UNCHANGED registered
    /\ UNCHANGED <<log, numbered, thread, handlers>>

(* Whatever the socket, its message goes to the one list of the hook.      *)
OnMessage(k, e) ==
    /\ sockets[k].client = "open" /\ e \in sockets[k].sent /\ ~hook.unmounted
    /\ sockets' = [sockets EXCEPT ![k].sent = @ \ {e}]
    /\ hook' = [hook EXCEPT !.events = @ \cup {<<k, e>>}]
    /\ UNCHANGED <<log, numbered, thread, handlers, registered>>

Break(k) ==
    /\ hook.drops < MaxDrops
    /\ \/ sockets[k].client \in {"connecting", "open"} /\ sockets' = [sockets EXCEPT ![k] = Ended(@, 1006)]
       \/ sockets[k].client = "closing" /\ sockets[k].code = 1000
          /\ sockets' = [sockets EXCEPT ![k].code = 1006]
    /\ hook' = [hook EXCEPT !.drops = @ + 1,
                            !.raced = @ \/ sockets[k].client = "closing"]
    /\ registered' = RemoveRunSocket(k)
    /\ UNCHANGED <<log, numbered, thread, handlers>>

(* The close event; the timer of the socket will connect to its run again. *)
OnClose(k) ==
    /\ sockets[k].client = "closing"
    /\ sockets' = [sockets EXCEPT ![k].client = "closed"]
    /\ hook' = IF hook.unmounted THEN hook
               ELSE IF sockets[k].code \in {1000, 1001} THEN [hook EXCEPT !.connected = FALSE]
               ELSE [hook EXCEPT !.connected = FALSE, !.timers = @ \cup {k}, !.timer = k]
    /\ UNCHANGED <<log, numbered, thread, handlers, registered>>

Reconnect(t, k) ==
    /\ t \in hook.timers /\ ~hook.unmounted
    /\ Connect(k, sockets[t].run, sockets, [hook EXCEPT !.timers = @ \ {t}])
    /\ UNCHANGED <<log, numbered, thread, handlers, registered>>

(* Mutant: the cleanup leaves the timer of the reconnect running.          *)
TimelessCleanup == [hook EXCEPT !.ws = 0, !.connected = FALSE]

(* The cleanup of the effect: only the last timer and the last socket are  *)
(* known. A socket that is still connecting fails with 1006, not 1000.     *)
Cleanup == [hook EXCEPT !.timers = @ \ {hook.timer}, !.timer = 0, !.ws = 0, !.connected = FALSE]

ClosedByCleanup ==
    IF hook.ws = 0 \/ sockets[hook.ws].client \notin {"connecting", "open"} THEN sockets
    ELSE [sockets EXCEPT ![hook.ws] =
            Ended(@, IF sockets[hook.ws].client = "open" THEN 1000 ELSE 1006)]

(* The run of the screen changes: cleanup and effect are one step.         *)
ShowRun(r, k) ==
    /\ ~hook.unmounted /\ hook.runId # r /\ hook.changes < MaxChanges
    /\ Connect(k, r, ClosedByCleanup,
         [Cleanup EXCEPT !.runId = r, !.events = {}, !.since = k, !.changes = @ + 1,
            !.raced = @ \/ \E j \in Sockets :
               \/ sockets[j].client = "connecting"
               \/ sockets[j].client = "closing" /\ sockets[j].code = 1006
               \/ sockets[j].client = "open" /\ j # hook.ws
               \/ j \in hook.timers \ {hook.timer}])
    /\ registered' = IF hook.ws = 0 THEN registered ELSE RemoveRunSocket(hook.ws)
    /\ UNCHANGED <<log, numbered, thread, handlers>>

Unmount ==
    /\ ~hook.unmounted /\ hook.runId # "none"
    /\ hook' = [Cleanup EXCEPT !.unmounted = TRUE] /\ sockets' = ClosedByCleanup
    /\ registered' = IF hook.ws = 0 THEN registered ELSE RemoveRunSocket(hook.ws)
    /\ UNCHANGED <<log, numbered, thread, handlers>>

StreamNext ==
    \/ \E p \in Replicas, r \in Runs : OneEvent(p, r) \/ GraphEvents(p, r)
    \/ \E h \in handlers : \/ ReplaceRunEvents(h) \/ PublishRunEvents(h)
                           \/ \E e \in h.unwritten : AppendRunEvent(h, e)
    \/ \E k \in Sockets : \/ \E p \in Replicas : Join(k, p)
                          \/ ReadBacklog(k) \/ SendBacklog(k)
                          \/ OnOpen(k) \/ Break(k) \/ OnClose(k)
                          \/ \E e \in sockets[k].sent : OnMessage(k, e)
                          \/ \E t \in hook.timers : Reconnect(t, k)
                          \/ \E r \in Runs : ShowRun(r, k)
    \/ Unmount

-----------------------------------------------------------------------------
StreamTypeOK ==
    /\ log \in [Runs -> SUBSET Events] /\ numbered \in [Runs -> 0..MaxEvents]
    /\ thread \in [Replicas -> [Runs -> SUBSET Events]]
    /\ \A h \in handlers : h.step \in {"clear", "write"} /\ h.unwritten \subseteq h.all
    /\ \A k \in Sockets :
         /\ sockets[k].client \in {"none", "connecting", "open", "closing", "closed"}
         /\ sockets[k].server \in {"none", "reading", "read", "ready", "closed"}
         /\ sockets[k].run \in Runs \cup {"none"}
    /\ registered \subseteq Sockets /\ hook.ws \in 0..MaxSockets /\ hook.timers \subseteq Sockets

(* When a connection that stayed is quiet, the screen shows every event of *)
(* its run that its own replica has published or that was written before   *)
(* it joined, however the backlog, the routes that replace the log and     *)
(* those that append to it interleave. Events that another replica wrote   *)
(* since do not reach it. How often an event is shown is not promised.     *)
NothingMissed == \A k \in Sockets :
    LET s == sockets[k]
        unpublished == UNION {h.all : h \in {h \in handlers : h.run = s.run /\ h.replica = s.replica}} IN
    s.client = "open" /\ s.server = "ready" /\ s.sent = {} /\ k >= hook.since =>
      \A e \in log[s.run] \ (unpublished \cup s.foreign) : <<k, e>> \in hook.events

(* Events of a run the screen no longer shows only come when it left that  *)
(* run while a connection was being made, failing or no longer known.      *)
OwnEvents == ~hook.raced => \A x \in hook.events : sockets[x[1]].run = hook.runId

(* A socket that stays registered after its end ended before its backlog   *)
(* had been sent.                                                          *)
SocketsRemoved == \A k \in registered : sockets[k].server = "closed" => sockets[k].left
=============================================================================
