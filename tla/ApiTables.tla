----------------------------- MODULE ApiTables -----------------------------
(***************************************************************************)
(* The routes of apps/api/src/app.ts that keep drafts, list teams and runs *)
(* by pages and edit templates and MCP servers, over the statements of     *)
(* packages/db/src/repository.ts. The id of a draft and its created_at are *)
(* the clock when its request came; a draft is written statements later.   *)
(***************************************************************************)
EXTENDS Naturals, FiniteSets

CONSTANTS
    Drafters,           \* calls of POST /team/draft; each has its own request
    Limit,              \* rows of a page
    Records,            \* ids of templates and MCP servers
    DefaultTemplates,   \* those createStore writes at every start
    MaxClock,           \* bound: milliseconds in which drafts and runs come
    MaxEdits,           \* bound: templates and servers posted or put
    MaxStarts           \* bound: starts of the API

ASSUME TableAssumption == Limit \in Nat \ {0} /\ DefaultTemplates \subseteq Records

Clock == 0..MaxClock
Headers == {"owner", "admin", "operator", "viewer", "other"}

(* getRoleFromRequest and the permissions the draft routes ask for.        *)
RoleOf(header) == IF header = "other" THEN "owner" ELSE header
MayDraft(header) == RoleOf(header) \in {"owner", "admin", "operator"}
MayApprove(header) == RoleOf(header) \in {"owner", "admin"}

VARIABLES
    clock,
    drafts,     \* team_drafts: id -> [request, owner, approved]
    drafting,   \* call -> [pc, id]
    actors,     \* users and projects with a row
    approvals,  \* id -> the requests an approval was given to (history)
    runRows,    \* runs: created_at -> status
    walk,       \* a client reading the pages of a list one after another
    records,    \* templates and mcp_servers_registry: id -> version
    edits,      \* id -> the last edit addressed to it (history), with the count
    starting    \* defaults createStore has still to write

draftVars == <<clock, drafts, drafting, actors, approvals>>
walkVars == <<runRows, walk>>
recordVars == <<records, edits, starting>>
tableVars == <<draftVars, walkVars, recordVars>>

None == "none"
NoDraft == [request |-> None, owner |-> None, approved |-> FALSE]
NoWalk == [pc |-> "idle", list |-> "teams", filter |-> "all", page |-> 1, pages |-> 1,
           start |-> {}, seen |-> {}]

TablesInit ==
    /\ clock = 0 /\ drafts = [t \in Clock |-> NoDraft] /\ actors = {}
    /\ drafting = [c \in Drafters |-> [pc |-> "idle", id |-> 0]]
    /\ approvals = [t \in Clock |-> {}]
    /\ runRows = [t \in Clock |-> None] /\ walk = NoWalk
    /\ records = [r \in Records |-> IF r \in DefaultTemplates THEN 1 ELSE 0]
    /\ edits = [last |-> records, count |-> 1, starts |-> 1]
    /\ starting = {}

-----------------------------------------------------------------------------
(* POST /team/draft, to its first await.                                   *)
DraftTeam(c, header) ==
    /\ drafting[c].pc = "idle"
    /\ drafting' = [drafting EXCEPT ![c] =
                      [pc |-> IF MayDraft(header) THEN "actor" ELSE "refused", id |-> clock]]
    /\ UNCHANGED <<clock, drafts, actors, approvals>>

EnsureActorProject(c) ==
    /\ drafting[c].pc = "actor"
    /\ actors' = actors \cup {c}
    /\ drafting' = [drafting EXCEPT ![c].pc = "insert"]
    /\ UNCHANGED <<clock, drafts, approvals>>

(* Mutant: a draft written over another keeps the approval of the other.   *)
KeepApproval(row, c) == [request |-> c, owner |-> IF row = NoDraft THEN c ELSE row.owner,
                         approved |-> row.approved]

(* INSERT ... ON CONFLICT (id) DO UPDATE: the columns project_id and       *)
(* user_id stay those of the first request.                                *)
Upserted(row, c) == [request |-> c, owner |-> IF row = NoDraft THEN c ELSE row.owner,
                     approved |-> FALSE]

CreateDraft(c) ==
    /\ drafting[c].pc = "insert"
    /\ drafts' = [drafts EXCEPT ![drafting[c].id] = Upserted(@, c)]
    /\ drafting' = [drafting EXCEPT ![c].pc = "answered"]
    /\ UNCHANGED <<clock, actors, approvals>>

(* POST /team/approve: one UPDATE, which answers whether there was a row.  *)
ApproveDraft(t, header) ==
    /\ MayApprove(header) /\ drafts[t] # NoDraft
    /\ drafts' = [drafts EXCEPT ![t].approved = TRUE]
    /\ approvals' = [approvals EXCEPT ![t] = @ \cup {drafts[t].request}]
    /\ UNCHANGED <<clock, drafting, actors>>

Tick == clock < MaxClock /\ clock' = clock + 1 /\ UNCHANGED <<drafts, drafting, actors, approvals>>

(* The other routes insert a run, and finish it.                           *)
UpsertRun(t, status) ==
    /\ IF runRows[t] = None THEN t = clock ELSE runRows[t] = "running"
    /\ runRows' = [runRows EXCEPT ![t] = IF @ = None THEN "running" ELSE status]
    /\ UNCHANGED walk

-----------------------------------------------------------------------------
(* The rows a list of a filter has: team status "inactive" has no          *)
(* condition.                                                              *)
TeamRows(filter) ==
    {t \in Clock : /\ drafts[t] # NoDraft
                   /\ filter = "draft" => ~drafts[t].approved
                   /\ filter = "active" => drafts[t].approved}
RunRows(filter) ==
    {t \in Clock : runRows[t] # None /\ (filter # "all" => runRows[t] = filter)}
RowsOf(list, filter) == IF list = "teams" THEN TeamRows(filter) ELSE RunRows(filter)

(* Mutant: the offset of a page counts from the page itself.               *)
SkippingPageOf(rows, page) ==
    {t \in rows : LET before == Cardinality({o \in rows : o > t}) IN
                    page * Limit <= before /\ before < (page + 1) * Limit}

(* ORDER BY created_at DESC LIMIT limit OFFSET (page - 1) * limit.         *)
PageOf(rows, page) ==
    {t \in rows : LET before == Cardinality({o \in rows : o > t}) IN
                    (page - 1) * Limit <= before /\ before < page * Limit}

TotalPages(total) == (total + Limit - 1) \div Limit

StartWalk(list, filter) ==
    /\ walk.pc = "idle"
    /\ walk' = [NoWalk EXCEPT !.pc = "items", !.list = list, !.filter = filter,
                              !.start = RowsOf(list, filter)]
    /\ UNCHANGED runRows

(* GET /teams, GET /runs: the items and the total are two queries.         *)
ListItems ==
    /\ walk.pc = "items"
    /\ walk' = [walk EXCEPT !.pc = "total",
                            !.seen = @ \cup PageOf(RowsOf(walk.list, walk.filter), walk.page)]
    /\ UNCHANGED runRows

CountItems ==
    /\ walk.pc = "total"
    /\ LET pages == TotalPages(Cardinality(RowsOf(walk.list, walk.filter))) IN
       walk' = [walk EXCEPT !.pages = pages,
                            !.pc = IF walk.page < pages THEN "items" ELSE "done",
                            !.page = IF walk.page < pages THEN @ + 1 ELSE @]
    /\ UNCHANGED runRows

-----------------------------------------------------------------------------
Serving == starting = {}
Edited(r, v) == edits' = [edits EXCEPT !.last[r] = v, !.count = v]

(* POST of a template or an MCP server.                                    *)
PostRecord(r) ==
    /\ Serving /\ edits.count < MaxEdits
    /\ records' = [records EXCEPT ![r] = edits.count + 1] /\ Edited(r, edits.count + 1)
    /\ UNCHANGED starting

(* Mutant: the id of the path is not compared with that of the body.       *)
UncheckedPutRecord(path, r) ==
    /\ Serving /\ edits.count < MaxEdits
    /\ records' = [records EXCEPT ![r] = edits.count + 1] /\ Edited(path, edits.count + 1)
    /\ UNCHANGED starting

(* PUT: refused when the ids of the path and of the body differ; a row     *)
(* that does not exist is created.                                         *)
PutRecord(path, r) ==
    /\ Serving /\ edits.count < MaxEdits /\ path = r
    /\ records' = [records EXCEPT ![r] = edits.count + 1] /\ Edited(path, edits.count + 1)
    /\ UNCHANGED starting

(* createStore: the defaults are written over what was edited, one by one, *)
(* before the routes are registered.                                       *)
CreateStore ==
    /\ Serving /\ edits.starts < MaxStarts
    /\ starting' = DefaultTemplates /\ edits' = [edits EXCEPT !.starts = @ + 1]
    /\ UNCHANGED records

UpsertTemplate(r) ==
    /\ r \in starting
    /\ records' = [records EXCEPT ![r] = 1] /\ starting' = starting \ {r}
    /\ UNCHANGED edits

(* POST /mcp/servers/:id/test: reachable is whether the row is there.      *)
TestMcpServer(r) == records[r] # 0

TablesNext ==
    \/ \E c \in Drafters : \/ EnsureActorProject(c) \/ CreateDraft(c)
                           \/ \E h \in Headers : DraftTeam(c, h)
    \/ \E t \in Clock, h \in Headers : ApproveDraft(t, h)
    \/ Tick

TeamWalk ==
    \/ \E filter \in {"all", "draft", "active", "inactive"} : StartWalk("teams", filter)
    \/ ListItems \/ CountItems

RunWalk ==
    \/ \E t \in Clock : UpsertRun(t, "completed")
    \/ \E filter \in {"all", "running"} : StartWalk("runs", filter)
    \/ ListItems \/ CountItems

RecordNext ==
    \/ \E r \in Records : PostRecord(r) \/ UpsertTemplate(r)
    \/ \E path, r \in Records : PutRecord(path, r)
    \/ CreateStore

-----------------------------------------------------------------------------
TablesTypeOK ==
    /\ clock \in Clock /\ actors \subseteq Drafters
    /\ drafts \in [Clock -> [request : Drafters \cup {None}, owner : Drafters \cup {None},
                             approved : BOOLEAN]]
    /\ drafting \in [Drafters -> [pc : {"idle", "actor", "insert", "answered", "refused"},
                                  id : Clock]]
    /\ runRows \in [Clock -> {None, "running", "completed"}]
    /\ walk.pc \in {"idle", "items", "total", "done"} /\ walk.seen \subseteq Clock
    /\ records \in [Records -> 0..MaxEdits] /\ starting \subseteq DefaultTemplates

(* A draft that is approved was approved with the request its row has now, *)
(* although two drafts of one millisecond share the row; and the users and *)
(* projects of a row were there before it.                                 *)
ApprovedAsWritten == \A t \in Clock :
    /\ drafts[t].approved => drafts[t].request \in approvals[t]
    /\ drafts[t] # NoDraft => {drafts[t].request, drafts[t].owner} \subseteq actors

(* Whoever reads the pages of a whole list up to totalPages has seen every *)
(* row there was at the start, whatever is added meanwhile.                *)
PagesCover == walk.pc = "done" /\ walk.filter \in {"all", "inactive"} => walk.start \subseteq walk.seen

(* What is stored is the last edit addressed to it, except of defaults a   *)
(* start has written again; no record goes away.                           *)
EditsKept == \A r \in Records :
    /\ records[r] # edits.last[r] => r \in DefaultTemplates /\ edits.starts > 1 /\ records[r] = 1
    /\ TestMcpServer(r) <=> edits.last[r] # 0
=============================================================================
