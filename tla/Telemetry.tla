----------------------------- MODULE Telemetry -----------------------------
(***************************************************************************)
(* The tracing helpers of @repo/observability (index.ts, otel.ts,          *)
(* langsmith.ts), its metrics collector and its Prometheus hooks and       *)
(* registry: what of the work that was done can be read afterwards.        *)
(***************************************************************************)
EXTENDS Naturals, FiniteSets

CONSTANTS
    Calls,          \* wrapped node and tool executions
    HttpRequests,
    MaxCacheReads   \* bound: cache hits and misses recorded

ASSUME TelemetryAssumption == IsFiniteSet(HttpRequests) /\ MaxCacheReads \in Nat

VARIABLES
    reporter,       \* isEnabled: an API key is configured
    call,           \* call -> [pc, span, ended, value, reports]
    hook,           \* request -> how far its hooks are
    requestsTotal,
    cacheStats,     \* [hits, misses]
    operations,     \* cache_operations_total, per operation
    registry,       \* the scraped registry: "none", "empty", "bare", "default"
    wanted          \* what the last initialize asked for (history)

telVars == <<reporter, call, hook, requestsTotal, cacheStats, operations, registry, wanted>>

NoCall == [pc |-> "idle", span |-> "none", ended |-> 0, value |-> FALSE, reports |-> 0]

TelemetryTypeOK ==
    /\ reporter \in BOOLEAN
    /\ call \in [Calls -> [pc : {"idle", "running", "ended", "posting", "resolved", "rejected"},
                           span : {"none", "open", "ok", "error"}, ended : 0..1,
                           value : BOOLEAN, reports : 0..1]]
    /\ hook \in [HttpRequests -> {"new", "timed", "untimed", "sent", "sent_untimed", "aborted"}]
    /\ requestsTotal \in 0..Cardinality(HttpRequests)
    /\ cacheStats \in [hits : 0..MaxCacheReads, misses : 0..MaxCacheReads]
    /\ operations \in [{"hit", "miss"} -> 0..MaxCacheReads]
    /\ registry \in {"none", "empty", "bare", "default"} /\ wanted \in {"none", "bare", "default"}

TelemetryInit ==
    /\ reporter \in BOOLEAN
    /\ call = [c \in Calls |-> NoCall] /\ hook = [q \in HttpRequests |-> "new"]
    /\ requestsTotal = 0 /\ cacheStats = [hits |-> 0, misses |-> 0]
    /\ operations = [o \in {"hit", "miss"} |-> 0]
    /\ registry = "none" /\ wanted = "none"

SpanStep(c, r) == /\ call' = [call EXCEPT ![c] = r]
                  /\ UNCHANGED <<reporter, hook, requestsTotal, cacheStats, operations,
                                 registry, wanted>>

(* traceNode, traceToolCall.                                               *)
StartTrace(c) == call[c].pc = "idle" /\ SpanStep(c, [call[c] EXCEPT !.pc = "running", !.span = "open"])

(* Mutant: the span of a call that rejects is left open.                   *)
LeakyWithSpan(c, outcome) ==
    /\ call[c].pc = "running"
    /\ SpanStep(c, [call[c] EXCEPT
         !.pc = IF outcome = "throws" THEN "rejected" ELSE "ended",
         !.span = IF outcome = "throws" THEN "open" ELSE "ok",
         !.ended = IF outcome = "throws" THEN 0 ELSE @ + 1,
         !.value = outcome = "value"])

(* withSpan: status and end, for a value, for undefined and for an error;  *)
(* the error goes on to the caller at once.                                *)
WithSpan(c, outcome) ==
    /\ call[c].pc = "running"
    /\ SpanStep(c, [call[c] EXCEPT
         !.pc = IF outcome = "throws" THEN "rejected" ELSE "ended",
         !.span = IF outcome = "throws" THEN "error" ELSE "ok",
         !.ended = @ + 1, !.value = outcome = "value"])

(* The part of trace after the span.                                       *)
Report(c) ==
    /\ call[c].pc = "ended"
    /\ SpanStep(c, [call[c] EXCEPT !.pc = IF reporter THEN "posting" ELSE "resolved"])

(* _post: an answer that is not ok, and none at all, are only logged.      *)
Post(c, arrives) ==
    /\ call[c].pc = "posting"
    /\ SpanStep(c, [call[c] EXCEPT !.pc = "resolved", !.reports = IF arrives THEN @ + 1 ELSE @])

-----------------------------------------------------------------------------
HttpStep(q, at) == /\ hook' = [hook EXCEPT ![q] = at]
                   /\ UNCHANGED <<reporter, call, cacheStats, operations, registry, wanted>>

(* registerHooks: onRequest notes the time, unless a hook before it has    *)
(* answered the request already.                                           *)
OnRequest(q, answered) ==
    /\ hook[q] = "new" /\ HttpStep(q, IF answered THEN "untimed" ELSE "timed")
    /\ UNCHANGED requestsTotal

OnSend(q) ==
    \/ hook[q] = "timed" /\ HttpStep(q, "sent") /\ requestsTotal' = requestsTotal + 1
    \/ hook[q] = "untimed" /\ HttpStep(q, "sent_untimed") /\ UNCHANGED requestsTotal

(* The client goes away before there is an answer.                         *)
Abort(q) == hook[q] = "timed" /\ HttpStep(q, "aborted") /\ UNCHANGED requestsTotal

RecordCacheRead(hit) ==
    /\ cacheStats.hits + cacheStats.misses < MaxCacheReads
    /\ cacheStats' = IF hit THEN [cacheStats EXCEPT !.hits = @ + 1]
                     ELSE [cacheStats EXCEPT !.misses = @ + 1]
    /\ operations' = [operations EXCEPT ![IF hit THEN "hit" ELSE "miss"] = @ + 1]
    /\ UNCHANGED <<reporter, call, hook, requestsTotal, registry, wanted>>

RegistryStep(r, w) == /\ registry' = r /\ wanted' = w
                      /\ UNCHANGED <<reporter, call, hook, requestsTotal, cacheStats, operations>>

(* PrometheusRegistry.initialize: a registry that is there stays as it is. *)
InitRegistry(w) == RegistryStep(IF registry = "none" THEN w ELSE registry, w)

ClearRegistry == registry # "none" /\ RegistryStep("empty", wanted)

ResetRegistry == RegistryStep("none", "none")

(* getMetrics rejects while there is no registry; the counters of the HTTP *)
(* hooks and of the collectors are in another one, prom-client's own.      *)
Scraped == CASE registry = "none" -> {"error"} [] registry = "default" -> {"node"} [] OTHER -> {}

Tracing(c) ==
    \/ StartTrace(c) \/ Report(c)
    \/ \E o \in {"value", "undefined", "throws"} : WithSpan(c, o)
    \/ \E arrives \in BOOLEAN : Post(c, arrives)
Hooking(q) == OnSend(q) \/ Abort(q) \/ \E answered \in BOOLEAN : OnRequest(q, answered)
Counting ==
    \/ \E hit \in BOOLEAN : RecordCacheRead(hit)
    \/ \E w \in {"bare", "default"} : InitRegistry(w)
    \/ ClearRegistry \/ ResetRegistry

-----------------------------------------------------------------------------
(* The traces tell what happened: once a call has settled its span is      *)
(* ended, once, with the status of its outcome, and before anything is     *)
(* posted; what is posted is a success, once at most.  The counter of      *)
(* requests is the number of those answered past the first hook, and the   *)
(* hit rate is over all reads.                                             *)
TracesTold ==
    /\ \A c \in Calls :
         /\ call[c].pc \in {"ended", "posting", "resolved"} => call[c].span = "ok"
         /\ call[c].pc = "rejected" => call[c].span = "error" /\ call[c].reports = 0
         /\ call[c].ended = 1 <=> call[c].span \in {"ok", "error"}
         /\ call[c].reports = 1 => reporter /\ call[c].span = "ok"
    /\ requestsTotal = Cardinality({q \in HttpRequests : hook[q] = "sent"})
    /\ cacheStats.hits + cacheStats.misses = operations["hit"] + operations["miss"]
    /\ Scraped = {"node"} => wanted # "none"
=============================================================================
