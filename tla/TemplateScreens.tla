-------------------------- MODULE TemplateScreens --------------------------
(***************************************************************************)
(* The marketplace of templates of apps/web: its list, its modals and the  *)
(* TemplateForm in them (components/template-form.tsx), which posts to the *)
(* routes of the API through lib/api.ts. Contents are numbered by submit.  *)
(***************************************************************************)
EXTENDS Naturals, FiniteSets

CONSTANTS
    Templates,      \* ids; Shipped are there at the start
    Shipped,
    RoleKeys,       \* bound: roles of a form
    MaxSubmits      \* bound: forms submitted

(* Of the texts of a role or of a form: nothing, what is validated (id and *)
(* name), and all the API asks for (objective, description).               *)
Qualities == {"blank", "named", "whole"}

VARIABLES
    stored,         \* what the API has: id -> number of the submit, 0 for none
    shown,          \* templates: what the list shows
    modal,          \* the modal open: "none", "detail", "edit" or "create"
    form,           \* of the modal; submitting is the submit it waits for
    submits,        \* number -> what was posted and how far it is
    closeTimers     \* closeModal timers running

templateVars == <<stored, shown, modal, form, submits, closeTimers>>

EmptyRole(k) == [key |-> k, quality |-> "blank"]
BlankForm == [id |-> "", texts |-> "blank", domains |-> FALSE,
              roles |-> {EmptyRole(k) : k \in {1}}, submitting |-> 0]
(* templateToForm of an item of the list, whose roles may be missing.      *)
TemplateToForm(id) == [BlankForm EXCEPT !.id = id, !.texts = "whole", !.domains = TRUE,
                                        !.roles = {}]

TemplatesInit ==
    /\ stored = [id \in Templates |-> IF id \in Shipped THEN 1 ELSE 0]
    /\ shown = stored
    /\ modal = "none" /\ form = BlankForm
    /\ submits = <<>> /\ closeTimers = 0

-----------------------------------------------------------------------------
OpenDetail(id) ==
    /\ modal = "none" /\ shown[id] # 0 /\ modal' = "detail"
    /\ form' = TemplateToForm(id)
    /\ UNCHANGED <<stored, shown, submits, closeTimers>>

(* From a card, or from the detail of a template.                          *)
OpenEdit(id) ==
    /\ \/ modal = "none" /\ shown[id] # 0
       \/ modal = "detail" /\ form.id = id
    /\ modal' = "edit" /\ form' = TemplateToForm(id)
    /\ UNCHANGED <<stored, shown, submits, closeTimers>>

OpenCreate ==
    /\ modal = "none" /\ modal' = "create" /\ form' = BlankForm
    /\ UNCHANGED <<stored, shown, submits, closeTimers>>

(* The overlay and the cross close it also while it is submitting, the     *)
(* form with its state.                                                    *)
Closed == modal' = "none" /\ form' = BlankForm
CloseModal == /\ modal # "none" /\ Closed
              /\ UNCHANGED <<stored, shown, submits, closeTimers>>

(* The timer of a success closes whatever modal is open by then.           *)
CloseTimer == /\ closeTimers > 0 /\ closeTimers' = closeTimers - 1 /\ Closed
              /\ UNCHANGED <<stored, shown, submits>>

-----------------------------------------------------------------------------
(* Mutant: the inputs are not disabled while the form is submitting.       *)
BusyFormReducer(f) ==
    /\ modal \in {"edit", "create"} /\ f # form
    /\ form' = f
    /\ UNCHANGED <<stored, shown, modal, submits, closeTimers>>

(* An input of the form; all are disabled while it is submitting.          *)
FormReducer(f) ==
    /\ modal \in {"edit", "create"} /\ form.submitting = 0
    /\ f # form
    /\ form' = f
    /\ UNCHANGED <<stored, shown, modal, submits, closeTimers>>

SetField ==
    \/ modal = "create" /\ \E id \in Templates : FormReducer([form EXCEPT !.id = id])
    \/ \E q \in Qualities : FormReducer([form EXCEPT !.texts = q])
ToggleDomain == FormReducer([form EXCEPT !.domains = ~@])
AddRole == \E k \in RoleKeys : /\ \A r \in form.roles : r.key # k
                               /\ FormReducer([form EXCEPT !.roles = @ \cup {EmptyRole(k)}])
RemoveRole == \E r \in form.roles : FormReducer([form EXCEPT !.roles = @ \ {r}])
SetRole == \E r \in form.roles, q \in Qualities :
             FormReducer([form EXCEPT !.roles = (@ \ {r}) \cup {[r EXCEPT !.quality = q]}])

(* What the form asks for, and what the API does: templateSchema also      *)
(* wants a description and the objective of every role.                    *)
Validate == /\ form.id # "" /\ form.texts # "blank" /\ form.domains
            /\ \A r \in form.roles : r.quality # "blank"
Whole == Validate /\ form.texts = "whole" /\ \A r \in form.roles : r.quality = "whole"

(* A form that is not valid only gets a message, which is left out.        *)
HandleSubmit ==
    /\ modal \in {"edit", "create"} /\ form.submitting = 0
    /\ Validate
    /\ LET n == Cardinality(DOMAIN submits) + 1 IN
         /\ n <= MaxSubmits
         /\ form' = [form EXCEPT !.submitting = n]
         /\ submits' = [i \in 1..n |-> IF i # n THEN submits[i] ELSE
              [mode |-> modal, id |-> form.id, whole |-> Whole, form |-> form', step |-> "sent"]]
    /\ UNCHANGED <<stored, shown, modal, closeTimers>>

(* Mutant: the route takes the id of the path for a body without one.      *)
LenientServe(n) ==
    /\ submits[n].step = "sent"
    /\ IF submits[n].whole
       THEN /\ stored' = [stored EXCEPT ![submits[n].id] = n + 1]
            /\ submits' = [submits EXCEPT ![n].step = "stored"]
       ELSE submits' = [submits EXCEPT ![n].step = "refused"] /\ UNCHANGED stored
    /\ UNCHANGED <<shown, modal, form, closeTimers>>

(* POST /templates; and PUT, which refuses a body without an id: what      *)
(* updateTemplate sends has none.                                          *)
Serve(n) ==
    /\ submits[n].step = "sent"
    /\ IF submits[n].mode = "create" /\ submits[n].whole
       THEN /\ stored' = [stored EXCEPT ![submits[n].id] = n + 1]
            /\ submits' = [submits EXCEPT ![n].step = "stored"]
       ELSE submits' = [submits EXCEPT ![n].step = "refused"] /\ UNCHANGED stored
    /\ UNCHANGED <<shown, modal, form, closeTimers>>

(* The form of a submit, if it is still there.                             *)
Mounted(n) == form.submitting = n

(* Mutant: an item that is in the list already stays as it was.            *)
KeepHandleFormSuccess(n) ==
    shown' = [shown EXCEPT ![submits[n].id] = IF @ = 0 THEN n + 1 ELSE @]

(* The saved template is merged into the list, without its roles.          *)
HandleFormSuccess(n) == shown' = [shown EXCEPT ![submits[n].id] = n + 1]

(* The answer of apiFetch; an answer that is lost is an error too.         *)
Answer(n) ==
    /\ submits[n].step \in {"stored", "refused"}
    /\ \/ /\ submits[n].step = "stored" /\ HandleFormSuccess(n) /\ closeTimers' = closeTimers + 1
          /\ submits' = [submits EXCEPT ![n].step = "told"]
          /\ form' = IF ~Mounted(n) THEN form
                     ELSE IF modal = "edit" THEN [form EXCEPT !.submitting = 0] ELSE BlankForm
       \/ /\ submits' = [submits EXCEPT ![n].step = IF @ = "stored" THEN "lost" ELSE "told",
                                          ![n].form = BlankForm]
          /\ form' = IF Mounted(n) THEN [form EXCEPT !.submitting = 0] ELSE form
          /\ UNCHANGED <<shown, closeTimers>>
    /\ UNCHANGED <<stored, modal>>

TemplatesNext ==
    \/ \E id \in Templates : OpenDetail(id) \/ OpenEdit(id)
    \/ OpenCreate \/ CloseModal \/ CloseTimer
    \/ SetField \/ ToggleDomain \/ AddRole \/ RemoveRole \/ SetRole \/ HandleSubmit
    \/ \E n \in DOMAIN submits : Serve(n) \/ Answer(n)

-----------------------------------------------------------------------------
TemplatesTypeOK ==
    /\ stored \in [Templates -> 0..MaxSubmits + 1] /\ shown \in [Templates -> 0..MaxSubmits + 1]
    /\ modal \in {"none", "detail", "edit", "create"} /\ closeTimers \in 0..MaxSubmits
    /\ form.id \in Templates \cup {""} /\ form.submitting \in 0..MaxSubmits

(* The list shows what the API has, unless an answer of that template is   *)
(* on its way or was lost, or another was submitted before it came; what   *)
(* is stored was whole and was a creation; and a form that waits shows     *)
(* what it has posted.                                                     *)
ListsAgree ==
    /\ \A id \in Templates :
         LET of == {n \in DOMAIN submits : submits[n].id = id} IN
         shown[id] # stored[id] =>
           \/ \E n \in of : submits[n].step \in {"stored", "lost"}
           \/ Cardinality(of) > 1
    /\ \A n \in DOMAIN submits :
         (\E id \in Templates : stored[id] = n + 1) => submits[n].whole /\ submits[n].mode = "create"
    /\ form.submitting # 0 => form = submits[form.submitting].form
=============================================================================
