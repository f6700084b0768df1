# A TLA+ model of the multi-agent platform

The repository is a TypeScript monorepo: an API (`apps/api`) accepts tasks, an
orchestrator (`packages/agent-core`) runs a team of LLM agents on them through
a LangGraph state graph, a tool broker (`packages/tool-broker`) executes their
tools over MCP, a gateway (`packages/a2a-gateway`) delegates to remote agents,
and PostgreSQL, Redis and BullMQ keep rows, caches and jobs. Everything runs on
Node.js: one thread per process, interleaved at every `await`, and two replicas
of the API over one database (`infra/deploy/k8s/base/api`). A web application
(`apps/web`) shows them.

This directory has TLA+ modules for the parts below, configurations that check
them with TLC, and proofs that TLAPS checks. `PROJECT.json` is the index: runs,
the lines every definition translates, mutants, findings, hazards and theorems.

## 1. Inventory

| component | state it keeps | operations | interacts with | hard behaviour | correct when |
|---|---|---|---|---|---|
| Execution graph, `agent-core/src` | the LangGraph channels of a thread, the `MemorySaver` | `run`, `resume`, fifteen nodes, three routing functions | tool broker, model router, the API | racing `resume` calls of a thread, process restarts, the revision loop, two copies of its limit | work needs an approval; completed means verified; every call ends, a malformed plan included |
| Run routes, `api/src/app.ts` | the run object a handler holds between awaits; the sockets of a run | create, approve, resume, cancel, tool-approve; drafts, templates, MCP servers, artifacts, skills; SSE, websocket | repository, orchestrator | stale reads written back whole, failures between statements, replicas, a backlog read while events arrive | a row is explained by its events; what was approved is what was asked; no event its replica publishes is missed |
| Run tables, `db/src/repository.ts` | `runs`, `run_events`, `run_checkpoints`, drafts, templates, servers, artifacts | upserts, delete and re-insert of events, pages and totals | the API | no transactions, ids from the clock | row, events and checkpoint agree; no page loses a row nothing moved |
| A2A gateway, `a2a-gateway/src` | cards, clients, health, task states | submit, cancel, register, health checks | remote agents over HTTP, the API | retries against cancellation, late health checks | bounded sends, final states, every call returns |
| Tool broker, `tool-broker/src` | tools, policies, MCP clients, traces | execute, connect, disconnect, test | MCP clients, the graph | concurrent connects, names shared by servers, retries of effects | no tool without its policy; a client without owner is explained; a trace tells the outcome |
| MCP clients and manager, `tool-broker/src/mcp*` | processes, pending requests, status, timers | start, stop, request, health check, reconnect | child processes | exits of old processes, reconnects against stop | every call ends but one that reads an HTTP body; nothing is left behind by a stop |
| Hierarchical orchestrator, `agent-core/src/hierarchical` | a tree of teams, rules, sub-tasks | register, move, delegate, split, execute | the graph | links kept twice, cycles, limits | both ends of a link agree; an aggregate adds up |
| Semantic cache, `db/src/cache` | Redis entries and sorted set, PostgreSQL rows, embeddings, metrics | lookup, set, invalidate, evict, statistics | model router, the API | invalidation against fills, eviction against sets | a hit answers the call; what was invalidated stays out; the size is bounded but for keys without a rank |
| Model router, `model-router/src` | the provider tables, the state of a request | route, complete, stream | LiteLLM, cache | retries around a stored answer, streams cut anywhere | an answer is paid once; a stream ends whole; a fallback chain is one of candidates |
| Queues and workers, `db/src/queue`, `infra/workers` | BullMQ jobs, running workers, signal handlers | add, take, process, notify, cancel, start, stop | Redis | at-least-once delivery, partial start, stop against signals | one outcome per job, its notices fit; a live worker has an owner |
| Observability, `observability/src` | alerts and windows, the audit buffer, probes, objectives, spans, counters | evaluate, log, flush, shutdown, check, trace | the API | failed shipments, hung checks, spans of failing calls | alerts fit the rules; an entry is in the log once, shipped or held; a span ends once |
| Integrations, `api/src/integrations` | the tokens of a client | authorize, refresh, call | Jira, Notion | overlapping refreshes, lost answers, a read after the write | the two tokens are of one grant; a change is made at most once |
| Security, `security/src` | a bucket per address | `can`, the request limit | the API | the edge of the window | the limit holds; nobody does what no role of theirs may |
| Skills engine, `skills-engine/src` | the map of skills | discover, activate | the file system, the API | the directory changes under the walk | only what was on the disk is in the map |
| Web application, `apps/web` | the state of each screen | its handlers, effects and timers | the API | answers out of order, timers after the screen moved on, double clicks | a screen shows what it says it shows |
| Sandbox, types, configuration, deployment | none the system decides on | I/O, declarations, manifests | | | |

The forty hazards that matter most, with their lines and the properties that
look at them, are in `PROJECT.json`. Others the models have:

- Graph and API: the default plan names steps where the specialists look for
  roles; a run id is the clock; `resume` reopens a run that ended; a start writes
  the default templates over edited ones (`StoreKept`); the row of an edit is
  named by its body, and must be the one of its path (`StoreKept`); a delete
  whose answer is lost is answered 404 when repeated (`StoreKept`).
- Gateway: routing picks an agent with a local card and reads the endpoint of a
  client it lacks (`EverySubmitReturns`); a repeated request id replaces the state
  of the first task; a task whose routing fails stays pending.
- Cache and router: statistics read every entry through `get`, which extends its
  life (`HotCacheKept`); tables searched by prefix, a system text written into
  the caller's own message, lines cut by the network, batches that mix cached
  and requested texts (`HandedOutRight`).
- Queues: a notice has the id of its run, so a second one is dropped; a batch is
  found by the prefix of its id, so that one whose id begins another's takes in
  the chunks of both; failed items complete their job; job timeouts
  nobody uses; signal handlers nobody removes; a cycle of teams; a moved team
  keeps the levels of those below it; a sequence that stops at its first failure
  (`WorkAccounted`).
- Observability: a resolve that closes the alerts of other labels, a late good
  answer over an earlier bad one, thresholds of a budget, spans of failing calls
  (`SignalsTrue`); an issue made and not read back, bursts at the edge of a
  window (`BoundariesKept`).
- Screens: the last page of a list that shrank, overlapping polls, an edit after
  the test of a configuration, a form whose refusal must keep what was typed, a
  second copy of the roles, the buttons of a status that has passed
  (`ScreensTrue`); cancel and retry of a run post to the route that resumes it.

## 2. Plan

Done, in this order, the most important behaviour first:

1. `RunGraph`, its abstract specification `RunLifecycle`, `RunGraphProofs`.
2. `RunService`, the routes over the tables, `RunServiceProofs`.
3. `A2AGateway`, `A2AGatewayProofs`.
4. `McpClients`, under `ToolBroker` and `McpServerManager`; `StdioClient`,
   `ToolExecutor`; `ToolsProofs`.
5. `SemanticCache` under `LiteLLMClient`; `ModelCatalog`, `ModelStream`,
   `CacheManager`; `ModelsProofs`.
6. `JobQueues` under `Workers`; `WorkerManager`, `TeamHierarchy`;
   `QueuesProofs`.
7. `AlertManager`, `AuditLog`, `HealthChecks`, `Telemetry`, `Integrations`,
   `Security`; `ObservabilityProofs`.
8. `ApiTables`, `ApiFiles`, `RunEventStream` and the screens of the web
   application.

What is left:

- Theorems: the statistics of the hierarchy; what the router hands out; the
  screens.
- Compositions: the handlers of `RunService` that publish with `RunEventStream`,
  and the queue of team executions with the graph.
- An abstract cache that knows only what was invalidated, with `SemanticCache`
  shown to implement it.

## 3. Modules

### RunGraph

One action per node of `buildGraph`, plus `Run`, `Resume`, `Interrupt` and
`Return` for `graph.invoke`, `Throw` for a node that throws and `Restart` for
the process. `st[i]` holds the channels of one invocation, `saved[t]` the last
checkpoint of a thread: a node computes an update, and `Apply` puts it in both,
as LangGraph does after every node. Two invocations may work on one thread; the
later checkpoint wins.

What is abstract: the texts of tasks, prompts and answers. What they decide
stays: which roles a template has, which groups a plan lists, which tools an
answer names, whether a specialist, a tool or a verdict succeeds. The `events`
channel is read as two sets, `planned` and `revised`, which is what the
properties ask of it. With `LLM = FALSE` the nodes have no client, which is how
`buildGraph` wires them; with `LLM = TRUE` they have one, which the factories
and their tests support. A plan is what the model answered, unchecked (`planner.ts`): one that
is malformed makes the next node throw, as does a role definition that
`template_select` refuses. A run id is the clock, so a run may be given the id of
another (`MaxClashes`), and then works on that thread.

`RunLifecycle` is the promise to the caller: a call that starts ends or dies,
no work on a gated run before an approval, and a report that fits what was
done; where two runs have one id, a resumed call may find the other one. `RunGraph`
implements it under the mapping `Lifecycle`.

### RunService

A handler is a chain of awaits, one action each. `Arrive` is everything up to
the second await: what `getRun` returned decides where the handler goes and
what it holds in `copy`. `GraphRun` and `GraphResume` stand for the
orchestrator, whose inside is `RunGraph`; here it is a state with the events of
the gate or those of the whole run. `UpsertRun`, `DeleteRunEvents`,
`AppendRunEvent` and `SaveCheckpoint` are the statements of the repository.
`Fail` is an await that rejects (the error handler answers 500), `Crash` a
replica that goes with its handlers and its checkpoints. The variables
`overlaps` and `hurt` are history for the properties.

### A2AGateway

`pc[t]` says where the `submitTask` of a task is: routed, a request sent,
asleep before a retry. `SubmitTask` runs to the first await, `Attempt` is one
turn of the retry loop, `Finish` the assignment of the result. Registrations,
cancellations and health checks are actions of their own. The code reads its
maps in insertion order and takes turns among the matches; the model takes any
of them. A cancellation aborts a request that has no answer yet; once the answer
is a stream its controller is gone and the body is read to its end.

### ToolBroker, McpServerManager, StdioClient, ToolExecutor

`McpClients` has the client objects of `mcp-client.ts` and the tasks that wait
on them: a request is sent in one step and settled in a second (an answer, an
error, the timeout, the end of the process, a disconnect). Over HTTP the answer
has two halves: the timeout covers the headers, and only the server ends the
await of the body, which `CallsEnd` therefore excepts. `ToolBroker` extends
it with the maps of tools, policies and clients; connects, tests and calls are
tasks that interleave at their awaits. `McpServerManager` extends it with the
health checks, of which the interval starts another while one is under way, and
the reconnects. `StdioClient` is one object over
several child processes: an event of an old process acts on whatever process the
object has by then. `ToolExecutor` is the retry loop with its trace.

### LiteLLMClient over SemanticCache, and the rest of the router

A `chatCompletion` looks up, asks the model, stores and retries; `SemanticCache`
has one action for each command to Redis and each statement of PostgreSQL
(`RedisGet`, `RedisWriteBack`, `Search`, `FillKey`, `FillRank`, `Size`,
`Oldest`, `Evict`, and those of an invalidation or a stats request), because a
`get` writes the entry back and an eviction reads before it deletes. Similarity
of vectors is the relation `Similar`; expiry is a small clock. The hot cache is
bounded through its ranks, so a key that a race left without one is not counted:
`strays` are these (a `get` that writes back after an eviction or a delete, a
`set` between the `KEYS` and the `DEL` of `clear`, whose pattern takes the ranks
along). `HotSizeBounded` bounds the others, and `MaximumOfEntries`, the maximum as
documented, is refuted.
`ModelCatalog` has the tables of the providers with their lookup by prefix, the
hard filters, the fallback chain and the adapters of requests, as functions over
bounded inputs. The first row whose name begins a model's is taken for it, so `o1-mini`,
`gpt-4o-mini` and `gemini-1.5-flash-8b` get the figures of another model, which
`RowsOfTheirOwn` leaves out instead of requiring. `ModelStream` is the stream with
its retries and the lines a network cuts; a retry hands out the first pieces again,
and what is checked is the order of each attempt and the end of the last. `CacheManager` is the cleaner, the time series, and
the batches of embeddings that mix cached and requested texts.

### Workers over JobQueues, WorkerManager, TeamHierarchy

`JobQueues` has the jobs of the queues as BullMQ keeps them, from how the code
uses it: a processor whose lock expires still runs while another takes the job.
`Workers` has the four processors step by step. A batch has the chunks whose ids
begin with its own, as the code matches them (`BeginsWith`); its progress is exact
when no other batch's id begins with it. `WorkerManager` has concurrent
`start`, `stop`, `restart` and signals; a start has two halves, and all starts of a
turn run their first half before any sets `isRunning`, so that each makes workers
(`overtaken` are those the manager has forgotten); `live` are the workers whose process
exists, and `watching` the monitors. `TeamHierarchy` is sequential: the links of
parent and child, the delegation rules, and the execution of sub-tasks.

### Observability and the boundaries of the API

`AlertManager` evaluates rules with throttling windows; `AuditLog` has the hook,
the severities it infers and those its callers pass, and a buffer whose flushes
overlap when a shipper is configured and which keeps everything when none is, as
the API sets it up; `HealthChecks` the two probes, the check of one component, which
has no timeout, and the objectives; `Telemetry` spans, reports, HTTP hooks and the registry.
`Integrations` numbers token pairs as they are issued, with or without a refresh
token, and has every call of the
two clients; `Security` the permission matrix and the buckets.

### ApiTables, ApiFiles, RunEventStream and the screens

`ApiTables` has drafts, the two queries of a listing, and the records a start
writes again; `ApiFiles` artifacts with the list that shows them, and the walk
of `discover` over a directory that changes, two reloads at once on one map.
`RunEventStream` composes the websocket route, the routes that write events and
publish them, and the hook `useRunEvents`: both ends of a socket, its close codes,
the timers of reconnects. A route appends one event or, after the graph ran,
replaces the log statement by statement and publishes all of it again, to the
sockets of its own replica only. So an event may be shown any number of times, and
one that another replica writes after the socket joined is not shown at all:
`NothingMissed` excepts exactly these, and a model of one replica would have none.

The screens are state machines of their handlers, effects and timers:
`McpOnboarding` the wizard, `Conversation` the threads with their delayed
replies, `TemplateScreens` the catalogue with its modals and form against the
routes that answer it, `TemplateEditor` the customizing page and its second copy
of the roles, `RunScreens` the run form and the buttons of a run, and
`AdminScreens` the audit log and the polled queues. Texts are blank or not;
layout is left out. The resume route of `RunScreens` reads the row, gives a run
that waits to the graph, and writes the row in a later step, and a connection may
fail while it is at work: the code then approves a run twice, and `ActionsAsShown`
says when it cannot. The writes of other routes are in `RunService`.

### The MC modules

`MCTools`, `MCModels`, `MCQueues`, `MCObservability` and `MCWeb` check several
modules that keep no state in common. The variable `part`, set in the initial
state, says whose behaviour it is, and the others stay as they were (`MCWeb` has two
parts for the stream: a screen that stays at its run while two replicas write two
events, and one that changes its run while one event is written); an invariant
such as `StoreKept` is a CASE over `part`. Modules that do interact are composed
by EXTENDS, above. The invariants of a part:

| invariant | parts |
|---|---|
| `HotCacheKept` | `InvalidatedStaysOut`, `HotSizeBounded` |
| `HandedOutRight` | `CatalogCorrect`, `StreamEndsWhole`, `EmbeddingsInOrder`, `ManagerKeepsTrack` |
| `WorkAccounted` | `NoticesMatch`, `JobsRunOnce`, `ItemsProcessed`, `WorkersOwned`, `LinksAgree`, `SummariesAddUp` |
| `HierarchyTold` | `PathsAgree`, `StatisticsAddUp` |
| `SignalsTrue` | alerts, audit log, probes, objectives, traces, HTTP metrics |
| `BoundariesKept` | tokens, calls, the request limit and the permissions |
| `StoreKept` | drafts, listings, records, files, skills, event stream |
| `ScreensTrue` | the hook of the stream, and each screen |

Definitions whose comment says *Mutant* are wrong on purpose: each is a
plausible mistake in one definition and belongs to no specification. The table
`mutants` in `PROJECT.json` names, for every property, the mutant that breaks
it.

## 4. Runs

| run | shows | instance |
|---|---|---|
| `graph_concurrent` | the graph as wired: approvals, termination and refinement under racing `resume` calls and a restart | 3 calls, 1 thread, 2 roles, 1 restart, 1 run with the id of another |
| `graph_llm` | the graph with a client: any plan, answer, tool outcome and verdict through both revisions | 2 calls, 1 thread, 2 roles, groups of role ids, step ids and both |
| `service_routes` | every route, interleaved; serial handlers leave the tables in agreement, racing approvals lose no event | 3 handlers, 2 replicas, 1 failure, 1 crash |
| `a2a_retries` | retries, cancellation, registry and health checks; every call returns | 1 task, 2 agents, 3 attempts, 2 clients |
| `tools` | connects, tests, calls, health checks, reconnects, exits and timeouts leave no tool unguarded, no process unowned but by two named causes, and no await pending but that of an HTTP body | 2 clients, 2 tasks, 2 servers, 3 processes, 2 requests, 2 executions of 3 attempts |
| `models` | a hit answers the call, what was invalidated stays out, an answer is paid once; and the pure and sequential parts of the router | 2 calls of 2 attempts, 1 administrator, 2 prompts, 3 models, a cache of 1, 1 failing command |
| `queues` | one outcome per job and its notices; workers with an owner; the forest of teams; every job settles | 2 slots, 2 attempts, 2 mishaps, a batch of 3 items and one whose id it begins, in chunks of 2, 2 callers, 3 starts, 3 teams, 4 changes |
| `observability` | alerts, audit entries, verdicts, spans, tokens, limits | 2 labels, a buffer of 2 with 5 entries, with a shipper and without, 1 failed shipment, 3 token calls, 1 lost answer, 2 requests a minute |
| `web` | what the API stores and the screens show | 2 of each kind of row, 2 reloads and 3 changes of the skills, 2 replicas, 2 events, 3 sockets, 1 broken connection, 3 actions of a run, 4 requests of a screen |

Why the bounds are enough. Two calls of one thread are what a race in the graph
needs, and a third comes after both; every property about a
restart needs one. A thread used by two runs is one id given twice. Two roles tell a group of all, of one and of none; a revision
loop has two rounds by the code's own limit. Three handlers are the creation of a
run and two that race. Tasks of the gateway share only the registry, which
changes freely, so one task meets every order that several would; three attempts
are the default of `config.maxRetries`, and two clients let an agent be replaced.
Two tasks of the broker race over one name, and a server may have its client
replaced once while the other task still holds it; three processes are an old
one, its successor and one more after a stop. A cache of one entry evicts at the
second set; two similar prompts, and models of which one is excluded, are what a
lookup tells apart; two attempts fail once and succeed once. A stalled job needs
a second slot, and two mishaps a stall and a crash of its successor; two chunks
of which the second is shorter meet both ends of a batch, and a batch whose id begins
that of another is found with both. A buffer of two fills
during a shipment and once more after it failed. Three sockets are the one of the
old run, that of the new, and a reconnect; two replicas are the socket's own and
another, and two events one that a replaced log has and one it lost. Three actions
are the one that is lost, the one that overlaps it and one after both. Four requests of the audit screen are
the first, two that overtake each other and one more.

The runs allow the system to stop (`CHECK_DEADLOCK FALSE`): all calls, requests
and jobs have been answered, or a bound is reached.

Runs that TLC refutes, each about one sentence of a document or a comment
(`findings` has the quotes):

| run | sentence | what the code does |
|---|---|---|
| `service_cancelled` | a run that ended stays in its final state | cancel and approve write back rows they read earlier |
| `models_hotsize` | "Maximum number of entries in hot cache" | keys without a rank are not counted by the eviction |
| `tools_reconnect` | "Reconnect to a server with exponential backoff" | the first attempt deletes the config that the second looks for |

## 5. Fairness

`RunGraph` assumes weak fairness of each invocation's step: the event loop runs
a pending node, and a node's promise settles (clients and tools have timeouts).
Callers and restarts are never forced. `A2AGateway` assumes it of a task's next
step: timers fire, and `sendTask` aborts a request that gets no headers. The
abort does not cover the body of an answer, so that an agent ends the body it
began is an assumption about the agent. Two more: neither cancellation nor
registration is fair, so no liveness rests on them.

`CallsEnd` (tools) assumes weak fairness of each task's continuation and of the
timeout of a request, which are the event loop and `setTimeout`; that a server
answers is not assumed, so a call that has the headers of an HTTP answer and waits
for its body is excepted. `JobsSettle` (queues) assumes it of the queue's own steps
(a delayed job is promoted, a lost lock is noticed) and of the processors; a
queue may be paused, and mishaps are bounded, never forced. That a processor ends
is an assumption: the code declares job timeouts that no worker uses.
The other modules state safety only: a handler may stop anywhere.

## 6. Proofs

The proofs hold for every value of the constants, from the assumptions named in
the modules. These give the constants their types and say no more than the code
does: a positive number of retries, delays and sizes, finite sets of calls,
prompts and servers (a process has finitely many), `"local"` and `"unknown"` that
are no client objects, `NoEntry` that is no entry; finitely many ids of jobs
and slots, for a batch of so many items (`Items`) the ids of the chunks
`addBatchWithChunking` cuts from it and no others, that every id begins with itself
(`BeginsWith`), and for a team's run the ids of both its notices.

| module | theorem | property | what it rests on |
|---|---|---|---|
| `RunGraphProofs` | `Invariance` | | `IInv`: what every node assumes of the channels |
| | `TypeCorrect`, `ApprovalSafety`, `LimitAgreement`, `RevisionSafety`, `CompletionSafety` | `TypeOK`, `WorkNeedsApproval`, `LimitsAgree`, `RevisionBound`, `CompletionIsVerified` | `IInv` |
| | `ResultsNeverLost` | `ResultsKept` (action) | `IInv` |
| | `LifecycleInvariance`, `LifecycleImplemented` | `ImplementsLifecycle` (refinement) | `LifecycleInv` |
| `RunServiceProofs` | `Invariance`, `TypeCorrect`, `RowsExplained` | `TypeOK`, `RowExplained` | `IInv`: every copy of a run object |
| | `TablesInvariance`, `SerialHandlersAgree`, `RacingApprovalsKeepEvents` | `SerialTablesAgree`, `RacingApprovalsLoseNoEvent` | `TablesInv` |
| `A2AGatewayProofs` | `Invariance` and five more | `TypeOK`, `SendsBounded`, `SettledAsReturned`, `RemoteHasHealth`, `SettledIsFinal` (action) | `Sane(t)` |
| `ToolsProofs` | `ToolsInvariance`, `ToolsTyped`, `ToolsAlwaysGuarded`, `OrphansHaveCause`, `StdioLeavesNothing`, `TracesAlwaysTell` | `TypeOK`, `ToolsGuarded`, `OrphansExplained`, `NothingLeftBehind`, `TracesTellOutcome` | `ToolsInv` |
| `ModelsProofs` | `ModelsInvariance`, `HitsAnswer`, `AnswersPaid`, `HotCacheStaysKept` | `HitsAnswerTheCall`, `AnswersPaidOnce`, `HotCacheKept` | `ModelsInv` |
| `QueuesProofs` | `QueuesInvariant`, `QueuesTypeCorrect`, `WorkIsAccounted` | `TypeOK`, `WorkAccounted` | `QueuesInv` |
| `ObservabilityProofs` | `BoundariesInvariance`, `BoundariesStayKept` | `BoundariesKept` | `BoundariesInv` |
| | `SignalsInvariance`, `SignalsStayTrue`, `ObservabilityTyped` | `SignalsTrue`, `TypeOK` | `SignalsInv`, with `BoundariesInv` for the types |

None of the properties is inductive as it stands. Why the invariants are needed:

**RunGraph.** That work was approved when the planner starts is known only
because the gate and the human feedback node left the channels in a certain
shape. `Sound(s, D)` states, for one record of channels and the decisions given
so far, what holds at each node; `IInv` says it of every checkpoint and every
invocation, of both because `resume` copies one to the other. Each node is a
lemma about the record it is given; `ApplyKeeps` lifts it to the state.

The refinement maps a call to the lifecycle of its caller. The planner is its
`Work`, an interrupt or a return its `Finish`, a thrown node or a restart its
`Die`, every other node a stutter (`ApplyRefines`, and
`StepRefines` for a whole step). The
step needs more than `IInv`: a report says whether anything was planned and in
which mode the run is, so `Entered` says what the channels hold once a node was
entered, and `OneMode` that a call has the mode of its thread's checkpoint, which
a racing `resume` may be about to copy.

**RunService.** Run objects are copied between rows, threads and handlers, so
`RowExplained` is proved of every copy (`Objects`), and of the events a handler
still holds (`Writing`). For the agreement of the three tables `TablesInv` has, for
each run, what a handler between two statements has yet to make agree
(`SerialAt`), and, when approvals race, which handler still holds the events that
another one's delete has removed (`RacingAt`): a delete is followed by an insert
of all of the row's events, so an event missing from the log is in the hands of a
handler that has not got to it.

**A2AGateway.** `Sane(t)` relates where a call is to its attempts, agent and
status.

**Tools.** The parts have state in common (client objects, processes, requests)
or none; `ToolsInv` is the conjunction of one invariant per part, and
`OthersKept` the frame. `BrokerInv` says which task holds a client object that is
not in the map, which is what a disconnect that overlaps a connect needs to be
explained, and that a name with a tool has the policy that was registered with
it; `ManagerInv` does so for servers, timers and reconnects; `StdioInv` relates
the process a client has to those that were its own; `ExecutorInv` the
attempts to the trace.

**Models.** `Sound` has, for each call and each request of an administrator, what
it holds at its await; with it a hit is right, whatever happened since the entry
was read. `Paid` counts. `Out` is about the copies of an entry, in rows, keys and
hands: of an entry that an invalidation was to remove and that nobody raced with,
no row is left, and as long as there is a copy some invalidation is
`Responsible` for it, one that has yet to list the keys or has this one on its
list. So when none is under way there is no copy. `Bounded` is about a counter read
before it is used: whenever the sorted set is too long there is a call that
`Sees` it, one that will read the size, one that has counted enough to evict, or
one whose victims are enough. `Keyed` says that a key without a rank is a stray or has
a call at hand that is about to rank it, which is what carries the bound from the
ranks to the keys. Evictions that overlap remove more, which no call's
count survives but which only helps. Most of the module shows that sequences
without repetition behave as sorted sets do (`RemoveFirstTakesOut`,
`AppendAdds`, `BeyondPrefix`), which the library does not have.

**Queues.** One invariant for each part, which share no state. `WorkerInv` bounds
how often a job ran by its attempts and the mishaps, counting the attempt that is
open: a processor that stalled is still at work when its job is taken again. That a job is started once
for each rejected attempt, each lock lost and the run that is open or done
(`StartsCounted`) is an invariant next to these. A notice that was sent and those a slot has yet to send are together at most
the runs of its job, so nothing is told more often than it was run; and the notice of
a run is added only in the step that gives the run its outcome. A chunk counts none
of its items or all of them, so that the progress of a batch, a sum over its
chunks, never passes the items there are. Writing this down found a mistake of the
model: `stalls` of a job had been bounded by `maxStalledCount` plus one, but
retrying a failed job does not reset it, so it is bounded by the mishaps only.
`ManagerInv` says where each caller of `start` and `stop` is with the generation it
holds, and that the manager's is the last of those that no other start of the same
turn has overtaken. `TeamInv` says of a sequence
of sub-tasks that those before the current one completed and those after it are
pending, so that the summary, written when none is in progress, counts what ran;
and `LinksAgree` is inductive together with the records of teams nobody registered
being empty.

The sums are over finite sets. The library's induction theorem is out of reach, so
`SumFunctionOnSet` and the recursive function `Without` (`filter` in the code) are
handled by their first counterexample: the set of naturals at which the claim fails
has a least element, and there is none.

**Observability.** `TokensInv` follows the pairs that are on their way: each is
another one, its refresh token is not yet the client's, and unless a request for
tokens crossed another one it is of the grant of the token that asked for it; so
whichever answer comes next, the two tokens stay together. `CallsInv` says that
before its answer a call has changed nothing, and that only what changes an issue
reads it again. `LimitInv` is about two sets of requests for each ip: those since
its window began, which the bucket counts and of which at most the limit were
let through, and those of the minute before. The requests let through in any
minute are among them when the last one comes, hence twice the limit; and one that
is limited has the whole window in the minute before it. This is so for every
positive limit.

`SignalsInv` has one part for each signal. Of the alerts, that a throttled rule opens
no more than it may in a window is not inductive: the window counts alerts and
the property counts those of the history within the period. `WindowAgrees` says
that an open window has counted every alert of its rule since it began, that these
all lie within the period, and that a rule without a window has no alert
of the present time, which a window dropped as over leaves true because its
alerts are older than now. One value is evaluated against all rules in
turn, so `Agree` takes alerts, history and windows as parameters and is shown of
every stage (`OpenKeeps`, `DropKeeps`, `ResolveKeeps`); `EvaluatedKeeps` goes
through the rules by induction, and has besides that after `n` of them no alert
is active that the value contradicts (`Cleared`), since a rule touches its own alerts only. Of
the audit log, `Placed` says that shipped entries, buffer and the shipments on their way
hold each entry once between them, which a failed shipment that goes back in front
of newer entries leaves true, though the buffer is no longer `Rising`; and while the
logger stops, that what the shutdown found is shipped or in its own last shipment if
there is a shipper; without one, that everything is in the buffer. Of a probe, the verdict is that of the
results so far (`HealthSays`, `ReadySays`): a later good answer never hides an
earlier bad one. Objectives are ranked through products instead of the ratios
(`LargerPart`), which the prover's arithmetic needs.

Only model-checked:

- liveness (`EveryCallEnds`, `EverySubmitReturns`, `CallsEnd`, `JobsSettle`),
  which is beyond the prover, as is everything about fairness;
- what walks, sorts, flattens or selects (`HandedOutRight`, `TypeOK` of `models`,
  `HierarchyTold`), where a proof needs induction over a structure and an operator
  given as a parameter; sums over finite sets are the exception, above;
- the properties of the run `web`, which are conjunctions with parts of that kind.

## 7. Not modelled

Components: the sandbox (calls of an external service), types and configuration
(declarations), deployment (manifests; the two replicas are a constant of
`RunService`).

In the modelled components:

- API: the SSE route and the read-only routes, which change nothing; the warm
  route of the cache, which adds entries as `set` does; the Zapier stubs; the
  Express monitoring middleware that no module loads. The audit routes are
  modelled as the screen that reads them sees them.
- Repository: users and projects beyond their two inserts, and tables nothing
  writes.
- A2A gateway: streaming submissions keep no task state; run ids and request ids
  are one per call.
- Model router: requests for embeddings by the client, costs and latencies, the
  texts of errors. Observability: collectors that only read gauges, and reports.
- Security: scrubbing of texts, a pure conversion of strings.
- Queues: the printing of `monitor.ts` and the options of connections.
- Web: pages that only render, the marketplace of an external service,
  components no page mounts, and the second copy of pages in `src/app`.

LangGraph, BullMQ, Redis, PostgreSQL and the WebSocket are modelled from how the
code uses them: LangGraph applies the update, saves the checkpoint, follows the
edge, and runs an interrupted node again from its start; BullMQ hands a job out
again when its lock expires, up to `maxStalledCount`; Redis and PostgreSQL execute
one command at a time. Walks of the hierarchy on a cycle do not end in the code,
and a loop that does not end is no step: `TeamHierarchy` starts none.
