----------------------------- MODULE RunScreens -----------------------------
(***************************************************************************)
(* How the web application starts a run and acts on it: RunForm            *)
(* (components/run-form.tsx) and RunActions (app/runs/[runId]) over the    *)
(* routes of the API they call through lib/api.ts. A page is left some     *)
(* time after it was told to: until then its buttons work.                 *)
(***************************************************************************)
EXTENDS Naturals, Sequences, FiniteSets

CONSTANTS
    Fields,             \* those handleSubmit asks for
    MaxRunSubmits,      \* bound: submits of the form
    MaxActions          \* bound: buttons of a run pressed

VARIABLES
    runForm,            \* [filled, templates, submitting, leaving, left]
    runPosts,           \* what was posted, at both ends: [filled, hurried, step, answer]
    runStatus,          \* the row of the run the other screen shows
    bar,                \* RunActions: [status, pending, reloading]
    requests            \* POSTs to the resume route, at both ends: [action,
                        \* hurried, step, seen, answer]; after: the requests
                        \* that had written when it read the row (history)

formVars == <<runForm, runPosts>>
barVars == <<runStatus, bar, requests>>

RunStatuses == {"waiting_approval", "running", "completed", "failed"}

RunScreensInit ==
    /\ runForm = [filled |-> {}, templates |-> "loading", submitting |-> FALSE,
                  leaving |-> FALSE, left |-> FALSE]
    /\ runPosts = <<>>
    /\ runStatus \in RunStatuses
    /\ bar = [status |-> runStatus, pending |-> "none", reloading |-> FALSE]
    /\ requests = <<>>

-----------------------------------------------------------------------------
(* The effect of the mount: an answer after the page was left is dropped.  *)
TemplatesLoaded ==
    /\ runForm.templates = "loading"
    /\ \E answer \in {"loaded", "failed"} :
         runForm' = [runForm EXCEPT !.templates = IF runForm.left THEN "dropped" ELSE answer]
    /\ UNCHANGED runPosts

SetRunField(f) ==
    /\ ~runForm.left /\ ~runForm.submitting
    /\ runForm' = [runForm EXCEPT !.filled = IF f \in @ THEN @ \ {f} ELSE @ \cup {f}]
    /\ UNCHANGED runPosts

RunPost == [filled |-> runForm.filled, hurried |-> runForm.leaving, step |-> "sent", answer |-> "awaited"]

(* Mutant: the button is not disabled while the form is submitting.        *)
BusySubmitRun ==
    /\ ~runForm.left /\ runForm.filled = Fields
    /\ Len(runPosts) < MaxRunSubmits
    /\ runForm' = [runForm EXCEPT !.submitting = TRUE]
    /\ runPosts' = Append(runPosts, RunPost)

(* handleSubmit: what lacks a field is not posted.                         *)
SubmitRun ==
    /\ ~runForm.left /\ ~runForm.submitting /\ runForm.filled = Fields
    /\ Len(runPosts) < MaxRunSubmits
    /\ runForm' = [runForm EXCEPT !.submitting = TRUE]
    /\ runPosts' = Append(runPosts, RunPost)

(* POST /team/run refuses, or makes a run, after which a statement may     *)
(* still fail.                                                             *)
ServeRun(n) ==
    /\ runPosts[n].step = "sent"
    /\ \E step \in {"created", "broken", "refused"} : runPosts' = [runPosts EXCEPT ![n].step = step]
    /\ UNCHANGED runForm

(* The answer of runTeam: a run that was made is gone to; or there is an   *)
(* error, also when the connection fails, which it may at any time.        *)
RunAnswer(n) ==
    /\ runPosts[n].answer = "awaited"
    /\ \/ /\ runPosts[n].step = "created"
          /\ runPosts' = [runPosts EXCEPT ![n].answer = "told"]
          /\ runForm' = [runForm EXCEPT !.submitting = FALSE, !.leaving = TRUE]
       \/ /\ \E answer \in {IF runPosts[n].step \in {"broken", "refused"} THEN "error" ELSE "lost", "lost"} :
               runPosts' = [runPosts EXCEPT ![n].answer = answer]
          /\ runForm' = [runForm EXCEPT !.submitting = FALSE]

(* router.push has shown the page of the run.                              *)
LeaveForm ==
    /\ runForm.leaving /\ ~runForm.left
    /\ runForm' = [runForm EXCEPT !.left = TRUE] /\ UNCHANGED runPosts

RunFormNext ==
    \/ TemplatesLoaded \/ SubmitRun \/ LeaveForm
    \/ \E f \in Fields : SetRunField(f)
    \/ \E n \in DOMAIN runPosts : ServeRun(n) \/ RunAnswer(n)

-----------------------------------------------------------------------------
(* The buttons a status has.                                               *)
Offered(status) ==
    CASE status = "waiting_approval" -> {"resume", "cancel"}
      [] status = "running" -> {"cancel"}
      [] status = "failed" -> {"retry"}
      [] OTHER -> {}

Request(action) == [action |-> action, hurried |-> bar.reloading, step |-> "sent", seen |-> "none",
                    after |-> {}, answer |-> "awaited"]

(* Mutant: a button is enabled while another is pending.                   *)
EagerExecute(action) ==
    /\ action \in Offered(bar.status) /\ Len(requests) < MaxActions
    /\ bar' = [bar EXCEPT !.pending = action]
    /\ requests' = Append(requests, Request(action)) /\ UNCHANGED runStatus

(* execute: every action posts to the one route.                           *)
ExecuteAction(action) ==
    /\ action \in Offered(bar.status) /\ bar.pending = "none" /\ Len(requests) < MaxActions
    /\ bar' = [bar EXCEPT !.pending = action]
    /\ requests' = Append(requests, Request(action)) /\ UNCHANGED runStatus

(* POST /team/runs/:runId/resume, to its first await, and what it read;    *)
(* it never looks at the action. What waits is given to the graph.         *)
Wrote == {m \in DOMAIN requests : requests[m].step \in {"written", "broken", "served"}}
ReadRun(n) ==
    /\ requests[n].step = "sent"
    /\ requests' = [requests EXCEPT ![n].step = "read", ![n].seen = runStatus, ![n].after = Wrote]
    /\ UNCHANGED <<runStatus, bar>>

(* Mutant: a run that was approved is written only after the answer.       *)
UnwrittenServeResume(n) ==
    /\ requests[n].step = "read"
    /\ runStatus' = IF requests[n].seen = "waiting_approval" THEN runStatus ELSE "running"
    /\ requests' = [requests EXCEPT ![n].step = "written"]
    /\ UNCHANGED bar

(* upsertRun, with the outcome of the graph or, whatever the row is by now *)
(* and with nothing that runs it, as running.                              *)
ServeResume(n) ==
    /\ requests[n].step = "read"
    /\ IF requests[n].seen = "waiting_approval" THEN runStatus' \in {"completed", "failed"}
       ELSE runStatus' = "running"
    /\ requests' = [requests EXCEPT ![n].step = "written"]
    /\ UNCHANGED bar

(* The events and the checkpoint are written, and it is answered; or the   *)
(* row is not read, the graph throws, or a statement after the row fails.  *)
AnswerResume(n) ==
    /\ \/ /\ requests[n].step = "written"
          /\ \E step \in {"served", "broken"} : requests' = [requests EXCEPT ![n].step = step]
       \/ /\ requests[n].step \in {"sent", "read"}
          /\ requests' = [requests EXCEPT ![n].step = "refused"]
    /\ UNCHANGED <<runStatus, bar>>

(* The answer; the page is loaded again when it was ok, and its buttons    *)
(* are enabled at once. A connection may fail at any time, which the       *)
(* server does not notice.                                                 *)
ActionAnswer(n) ==
    /\ requests[n].answer = "awaited"
    /\ \/ /\ requests[n].step = "served"
          /\ requests' = [requests EXCEPT ![n].answer = "told"]
          /\ bar' = [bar EXCEPT !.pending = "none", !.reloading = TRUE]
       \/ /\ requests[n].step \in {"broken", "refused"}
          /\ requests' = [requests EXCEPT ![n].answer = "error"]
          /\ bar' = [bar EXCEPT !.pending = "none"]
       \/ /\ requests' = [requests EXCEPT ![n].answer = "lost"]
          /\ bar' = [bar EXCEPT !.pending = "none"]
    /\ UNCHANGED runStatus

(* The new page starts from the row; answers still awaited are dropped.    *)
Reload ==
    /\ bar.reloading
    /\ bar' = [status |-> runStatus, pending |-> "none", reloading |-> FALSE]
    /\ requests' = [n \in DOMAIN requests |->
         IF requests[n].answer = "awaited" THEN [requests[n] EXCEPT !.answer = "lost"] ELSE requests[n]]
    /\ UNCHANGED runStatus

RunActionsNext ==
    \/ \E action \in {"resume", "retry", "cancel"} : ExecuteAction(action)
    \/ \E n \in DOMAIN requests : \/ ReadRun(n) \/ ServeResume(n) \/ AnswerResume(n)
                                  \/ ActionAnswer(n)
    \/ Reload

-----------------------------------------------------------------------------
RunScreensTypeOK ==
    /\ runForm.filled \subseteq Fields /\ Len(runPosts) <= MaxRunSubmits
    /\ runStatus \in RunStatuses /\ bar.status \in RunStatuses /\ Len(requests) <= MaxActions

(* One form posts one run: another only when the answer to the one before  *)
(* was an error or lost, with the run made or not, or between the answer   *)
(* and the new page; what was posted was whole; and a form that is left    *)
(* was told of a run.                                                      *)
OneRunMade ==
    /\ \A n \in DOMAIN runPosts :
         /\ runPosts[n].filled = Fields
         /\ n < Len(runPosts) => runPosts[n].answer \in {"lost", "error"} \/ runPosts[n + 1].hurried
    /\ runForm.left => \E n \in DOMAIN runPosts : runPosts[n].answer = "told"

(* With the bar alone at work, a run that waits is approved a second time  *)
(* only by a request that read the row before the first one wrote it (one  *)
(* whose graph threw wrote nothing); and such a request, or one for a      *)
(* status the row no longer has, comes only after an answer was lost or    *)
(* broke off, or from a button pressed before the page was loaded again:   *)
(* as long as neither happens, the bar sends one at a time, for the status *)
(* it shows, and the run is approved once.                                 *)
ActionsAsShown ==
    LET disturbed == \E n \in DOMAIN requests : \/ requests[n].hurried \/ requests[n].answer = "lost"
                                                 \/ requests[n].step = "broken"
        sent == {n \in DOMAIN requests : requests[n].step = "sent"}
        approved == {n \in DOMAIN requests :
                       requests[n].seen = "waiting_approval" /\ requests[n].step # "refused"} IN
    /\ \A n \in approved : approved \cap requests[n].after = {}
    /\ ~disturbed => /\ Cardinality(sent) <= 1 /\ Cardinality(approved) <= 1
                     /\ \A n \in sent : bar.status = runStatus /\ requests[n].action = bar.pending
=============================================================================
