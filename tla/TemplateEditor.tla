--------------------------- MODULE TemplateEditor ---------------------------
(***************************************************************************)
(* The page apps/web/app/templates/customize: a RoleEditor, which copies   *)
(* the roles of the page when it is mounted and edits its copy, and a      *)
(* YamlPreview of the roles of the page. A role is its id; what is edited  *)
(* of it is a number.                                                      *)
(***************************************************************************)
EXTENDS Naturals, Sequences, FiniteSets, SequencesExt

CONSTANTS
    DefaultRoles,       \* the sequence of ids the page starts with
    MaxRoleEdits        \* bound: roles added, removed, edited or dragged

NewRoles == 1..MaxRoleEdits     \* id: role-<clock>; the edit that adds it

VARIABLES
    pageRoles,          \* roles of CustomizeTemplatePage: <<id, edit>> in order
    editorRoles,        \* roles of RoleEditor
    draggedIndex,       \* 0 for null
    roleEdits,          \* edits made
    editorPast,         \* history: reset since the last edit; ids removed; drags
    saveState           \* handleSave: "idle", "busy", "saved"

editorVars == <<pageRoles, editorRoles, draggedIndex, roleEdits, editorPast, saveState>>

Ids(roles) == {roles[i][1] : i \in DOMAIN roles}
Default == [i \in DOMAIN DefaultRoles |-> <<DefaultRoles[i], 0>>]

EditorInit ==
    /\ pageRoles = Default /\ editorRoles = Default
    /\ draggedIndex = 0 /\ roleEdits = 0
    /\ editorPast = [reset |-> FALSE, removed |-> {}, added |-> {}]
    /\ saveState = "idle"

-----------------------------------------------------------------------------
(* Mutant: the page is not told of the new roles.                          *)
SilentUpdateRoles(new) ==
    /\ editorRoles' = new /\ UNCHANGED pageRoles

(* updateRoles: the copy and, through onRolesChange, the page.             *)
UpdateRoles(new) ==
    /\ editorRoles' = new /\ pageRoles' = new

Edit(new, past) ==
    /\ roleEdits < MaxRoleEdits /\ roleEdits' = roleEdits + 1
    /\ UpdateRoles(new) /\ editorPast' = [past EXCEPT !.reset = FALSE]
    /\ UNCHANGED saveState

HandleDragStart(i) ==
    /\ i \in DOMAIN editorRoles /\ draggedIndex = 0 /\ draggedIndex' = i
    /\ UNCHANGED <<pageRoles, editorRoles, roleEdits, editorPast, saveState>>

(* Mutant: the dragged role is put where it is hovering, not taken out.    *)
CopyingMoved(roles, from, to) == InsertAt(roles, to, roles[from])

(* Both splices of handleDragOver.                                         *)
Moved(roles, from, to) == InsertAt(RemoveAt(roles, from), to, roles[from])

HandleDragOver(i) ==
    /\ i \in DOMAIN editorRoles /\ draggedIndex \notin {0, i}
    /\ Edit(Moved(editorRoles, draggedIndex, i), editorPast)
    /\ draggedIndex' = i

HandleDragEnd ==
    /\ draggedIndex # 0 /\ draggedIndex' = 0
    /\ UNCHANGED <<pageRoles, editorRoles, roleEdits, editorPast, saveState>>

AddNewRole ==
    /\ draggedIndex = 0
    /\ Edit(Append(editorRoles, <<roleEdits + 1, 0>>),
            [editorPast EXCEPT !.added = @ \cup {roleEdits + 1}])
    /\ UNCHANGED draggedIndex

RemoveOneRole(i) ==
    /\ draggedIndex = 0 /\ i \in DOMAIN editorRoles
    /\ Edit(RemoveAt(editorRoles, i),
            [editorPast EXCEPT !.removed = @ \cup {editorRoles[i][1]}])
    /\ UNCHANGED draggedIndex

(* updateRole, for a field, a responsibility, a tool or a skill.           *)
UpdateRole(i) ==
    /\ draggedIndex = 0 /\ i \in DOMAIN editorRoles
    /\ Edit([editorRoles EXCEPT ![i][2] = roleEdits + 1], editorPast)
    /\ UNCHANGED draggedIndex

(* handleReset, confirmed: the roles of the page, not those of the editor. *)
HandleReset ==
    /\ draggedIndex = 0 /\ pageRoles' = Default
    /\ editorPast' = [editorPast EXCEPT !.reset = TRUE]
    /\ UNCHANGED <<editorRoles, draggedIndex, roleEdits, saveState>>

(* handleSave waits for a timer and stores nothing.                        *)
HandleSaveTemplate ==
    /\ saveState # "busy" /\ saveState' = "busy"
    /\ UNCHANGED <<pageRoles, editorRoles, draggedIndex, roleEdits, editorPast>>
SaveTimer ==
    /\ saveState # "idle" /\ saveState' = IF saveState = "busy" THEN "saved" ELSE "idle"
    /\ UNCHANGED <<pageRoles, editorRoles, draggedIndex, roleEdits, editorPast>>

EditorNext ==
    \/ \E i \in DOMAIN editorRoles : \/ HandleDragStart(i) \/ HandleDragOver(i)
                                     \/ RemoveOneRole(i) \/ UpdateRole(i)
    \/ HandleDragEnd \/ AddNewRole \/ HandleReset \/ HandleSaveTemplate \/ SaveTimer

-----------------------------------------------------------------------------
EditorTypeOK ==
    /\ Ids(editorRoles) \subseteq Range(DefaultRoles) \cup NewRoles
    /\ draggedIndex \in 0..Len(editorRoles) /\ roleEdits \in 0..MaxRoleEdits
    /\ saveState \in {"idle", "busy", "saved"}

(* The preview, which is what would be saved, shows the roles of the       *)
(* editor, unless the page was reset since the last edit; after a reset    *)
(* and an edit every edit before the reset is back. Dragging keeps every   *)
(* role, once: the roles are the defaults and those added but removed.     *)
PreviewAgrees ==
    /\ IF editorPast.reset THEN pageRoles = Default ELSE pageRoles = editorRoles
    /\ Cardinality(Ids(editorRoles)) = Len(editorRoles)
    /\ Ids(editorRoles) = (Range(DefaultRoles) \cup editorPast.added) \ editorPast.removed
=============================================================================
