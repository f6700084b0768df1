---------------------------- MODULE AdminScreens ----------------------------
(***************************************************************************)
(* Two screens of apps/web/app/admin that ask the API again and again:     *)
(* the audit log with its filters and pages, and the queues with their     *)
(* polling. No request is ever aborted, so that answers come in any order. *)
(***************************************************************************)
EXTENDS Naturals, FiniteSets

CONSTANTS
    Filters, NoFilter,  \* what the filter panel can ask for
    MaxRows,            \* bound: rows the log has for a filter; a page is one row
    MaxFetches,         \* bound: requests for logs
    MaxPolls            \* bound: requests for metrics

ASSUME AdminAssumption == NoFilter \in Filters /\ MaxRows \in Nat \ {0}

VARIABLES
    logRows,           \* the API: filter -> its rows now
    audit,          \* the state of AuditLogsPage
    askedLogs,          \* requests for logs under way: [n, filter, page]
    askedStats,     \* requests for stats under way
    auditPast,      \* history: requests made, the last answered, what happened
    depth,          \* the API: how often the queues have changed
    queues,         \* the state of QueuesPage
    polls           \* requests for metrics under way: [n, read]

auditScreenVars == <<logRows, audit, askedLogs, askedStats, auditPast>>
queueScreenVars == <<depth, queues, polls>>

Unread == MaxPolls + 1

AdminInit ==
    /\ logRows \in [Filters -> 0..MaxRows]
    /\ audit = [filters |-> NoFilter, page |-> 0, logs |-> [filter |-> NoFilter, page |-> 0],
                total |-> 0, loading |-> TRUE, error |-> FALSE, stats |-> NoFilter]
    (* The effect of the first render has askedLogs.                             *)
    /\ askedLogs = {[n |-> 1, filter |-> NoFilter, page |-> 0]} /\ askedStats = {NoFilter}
    /\ auditPast = [count |-> 1, answered |-> 0, overtaken |-> FALSE, hasty |-> FALSE,
                    failed |-> FALSE, overlapped |-> FALSE]
    /\ depth = 0
    /\ queues = [metrics |-> 0, shown |-> FALSE, loading |-> TRUE, error |-> FALSE,
                 autoRefresh |-> TRUE, count |-> 1, answered |-> FALSE, failed |-> FALSE,
                 back |-> FALSE, overlapped |-> FALSE]
    /\ polls = {[n |-> 1, read |-> Unread]}

-----------------------------------------------------------------------------
(* fetchLogs, with the filters and the page of the render it belongs to.   *)
FetchLogs(new) ==
    /\ auditPast.count < MaxFetches
    /\ audit' = [new EXCEPT !.loading = TRUE, !.error = FALSE]
    /\ askedLogs' = askedLogs \cup {[n |-> auditPast.count + 1, filter |-> new.filters, page |-> new.page]}

(* Mutant: the effect does not depend on the page.                         *)
PagelessEffect(new, early) ==
    /\ auditPast.count < MaxFetches
    /\ IF new.filters = audit.filters THEN audit' = new /\ UNCHANGED <<askedLogs, askedStats>>
       ELSE FetchLogs(new) /\ askedStats' = askedStats \cup {new.filters}
    /\ auditPast' = [auditPast EXCEPT !.count = @ + 1, !.hasty = @ \/ early]
    /\ UNCHANGED logRows

(* The effect of a render whose filters or page are new. early: the page   *)
(* was chosen by a total that is not that of the filters.                  *)
Effect(new, early) ==
    /\ FetchLogs(new) /\ askedStats' = askedStats \cup {new.filters}
    /\ auditPast' = [auditPast EXCEPT !.count = @ + 1, !.hasty = @ \/ early]
    /\ UNCHANGED logRows

(* Mutant: a change of the filter stays on the page.                       *)
StayingFilterChange(f) == f # audit.filters /\ Effect([audit EXCEPT !.filters = f], FALSE)

HandleFilterChange(f) == f # audit.filters /\ Effect([audit EXCEPT !.filters = f, !.page = 0], FALSE)

(* Also when nothing was set: the object is a new one.                     *)
ClearFilters == Effect([audit EXCEPT !.filters = NoFilter, !.page = 0], FALSE)

(* The buttons of the pages are there, and enabled, by the total of the    *)
(* last answer, also while another is awaited.                             *)
Paged(page) == Effect([audit EXCEPT !.page = page], audit.logs.filter # audit.filters)
PreviousPage == audit.total > 1 /\ audit.page > 0 /\ Paged(audit.page - 1)
(* Mutant: the pages are counted from one.                                  *)
LateNextPage == audit.total > 1 /\ audit.page < audit.total /\ Paged(audit.page + 1)

NextPage == audit.total > 1 /\ audit.page < audit.total - 1 /\ Paged(audit.page + 1)

(* The button that asks again.                                             *)
Refresh ==
    /\ FetchLogs(audit)
    /\ auditPast' = [auditPast EXCEPT !.count = @ + 1]
    /\ UNCHANGED <<logRows, askedStats>>

(* An answer fills the screen whatever it shows by now; one that failed    *)
(* leaves the rows there are, and a later one leaves the error.            *)
LogsAnswer(q) ==
    /\ q \in askedLogs /\ askedLogs' = askedLogs \ {q}
    /\ \/ /\ audit' = [audit EXCEPT !.logs = [filter |-> q.filter, page |-> q.page],
                                    !.total = logRows[q.filter], !.loading = FALSE]
          /\ auditPast' = [auditPast EXCEPT !.answered = q.n, !.failed = FALSE,
                             !.overtaken = @ \/ \E p \in askedLogs : p.n < q.n]
       \/ /\ audit' = [audit EXCEPT !.error = TRUE, !.loading = FALSE]
          /\ auditPast' = [auditPast EXCEPT !.answered = q.n, !.failed = TRUE,
                             !.overlapped = @ \/ askedLogs # {q},
                             !.overtaken = @ \/ \E p \in askedLogs : p.n < q.n]
    /\ UNCHANGED <<logRows, askedStats>>

(* An answer that is not ok leaves the figures of another period.          *)
StatsAnswer(f) ==
    /\ f \in askedStats /\ askedStats' = askedStats \ {f}
    /\ \/ audit' = [audit EXCEPT !.stats = f]
       \/ UNCHANGED audit
    /\ UNCHANGED <<logRows, askedLogs, auditPast>>

LogGrows(f) ==
    /\ logRows[f] < MaxRows /\ logRows' = [logRows EXCEPT ![f] = @ + 1]
    /\ UNCHANGED <<audit, askedLogs, askedStats, auditPast>>

AuditScreenNext ==
    \/ \E f \in Filters : HandleFilterChange(f) \/ LogGrows(f) \/ StatsAnswer(f)
    \/ ClearFilters \/ PreviousPage \/ NextPage \/ Refresh
    \/ \E q \in askedLogs : LogsAnswer(q)

-----------------------------------------------------------------------------
(* fetchMetrics: by the interval, the button and the effect.               *)
FetchMetrics(new) ==
    /\ queues.count < MaxPolls
    /\ queues' = [new EXCEPT !.count = @ + 1, !.overlapped = @ \/ polls # {}]
    /\ polls' = polls \cup {[n |-> queues.count + 1, read |-> Unread]}
    /\ UNCHANGED depth
Interval == queues.autoRefresh /\ FetchMetrics(queues)
RefreshButton == ~queues.loading /\ FetchMetrics(queues)
ToggleAutoRefresh == ~queues.loading /\ ~queues.error
                     /\ FetchMetrics([queues EXCEPT !.autoRefresh = ~@])

QueuesChange == depth < MaxPolls /\ depth' = depth + 1 /\ UNCHANGED <<queues, polls>>

(* GET /api/queues/metrics reads the queues some time before its answer.   *)
ReadMetrics(p) ==
    /\ p \in polls /\ p.read = Unread
    /\ polls' = (polls \ {p}) \cup {[p EXCEPT !.read = depth]}
    /\ UNCHANGED <<depth, queues>>

(* Mutant: an answer leaves the error of the one before.                   *)
StickyMetricsAnswer(p) ==
    /\ p \in polls /\ polls' = polls \ {p}
    /\ \/ /\ p.read # Unread
          /\ queues' = [queues EXCEPT !.metrics = p.read, !.shown = TRUE, !.loading = FALSE,
                          !.answered = TRUE, !.failed = FALSE, !.back = @ \/ p.read < queues.metrics]
       \/ queues' = [queues EXCEPT !.error = TRUE, !.loading = FALSE, !.answered = TRUE,
                                   !.failed = TRUE]
    /\ UNCHANGED depth

MetricsAnswer(p) ==
    /\ p \in polls /\ polls' = polls \ {p}
    /\ \/ /\ p.read # Unread
          /\ queues' = [queues EXCEPT !.metrics = p.read, !.shown = TRUE, !.loading = FALSE,
                          !.error = FALSE, !.answered = TRUE, !.failed = FALSE,
                          !.back = @ \/ p.read < queues.metrics]
       \/ queues' = [queues EXCEPT !.error = TRUE, !.loading = FALSE, !.answered = TRUE,
                                   !.failed = TRUE]
    /\ UNCHANGED depth

QueueScreenNext ==
    \/ Interval \/ RefreshButton \/ ToggleAutoRefresh \/ QueuesChange
    \/ \E p \in polls : ReadMetrics(p) \/ MetricsAnswer(p)

-----------------------------------------------------------------------------
AdminTypeOK ==
    /\ logRows \in [Filters -> 0..MaxRows] /\ audit.filters \in Filters
    /\ audit.page \in 0..MaxRows - 1 /\ audit.total \in 0..MaxRows /\ audit.stats \in Filters
    /\ \A q \in askedLogs : q.n \in 1..MaxFetches /\ q.filter \in Filters /\ q.page \in 0..MaxRows - 1
    /\ depth \in 0..MaxPolls /\ queues.metrics \in 0..MaxPolls
    /\ \A p \in polls : p.n \in 1..MaxPolls /\ p.read \in 0..Unread

(* Once nothing is awaited the rows are those of the filters and the page, *)
(* and the page exists; unless the last answer failed, answers came out of *)
(* order, or somebody paged by the total of other filters. An error is     *)
(* that of the last answer, or of one that came while another was awaited. *)
AuditShown ==
    askedLogs = {} =>
      /\ ~audit.loading /\ (auditPast.failed => audit.error)
      /\ audit.error => auditPast.failed \/ auditPast.overlapped
      /\ ~auditPast.failed /\ ~auditPast.overtaken =>
           /\ audit.logs = [filter |-> audit.filters, page |-> audit.page]
           /\ auditPast.hasty \/ audit.page = 0 \/ audit.page < audit.total

(* After its first answer the screen of the queues has something to show,  *)
(* the figures of the last answer or its error; and figures never follow   *)
(* newer ones unless a poll began before the one before it was answered.   *)
QueuesShown ==
    /\ queues.loading = ~queues.answered
    /\ queues.answered => (queues.error = queues.failed) /\ (queues.shown \/ queues.error)
    /\ queues.back => queues.overlapped
=============================================================================
