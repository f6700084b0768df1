------------------------------ MODULE ApiFiles ------------------------------
(***************************************************************************)
(* The artifacts of a run: the routes of apps/api/src/app.ts, their        *)
(* statements and the list of components/artifact-list.tsx, which deletes; *)
(* and the registry of packages/skills-engine.                             *)
(***************************************************************************)
EXTENDS Naturals, FiniteSets

CONSTANTS
    ArtifactIds,
    Lists,          \* ArtifactList components on screens
    Categories, SkillIds,
    Reloads,        \* calls of discover that may be under way at once
    MaxDisk         \* bound: changes of the skills directory

Folders == Categories \X SkillIds

VARIABLES
    artifacts,      \* id -> "new", "read", "stored", "deleted"
    deletions,      \* id -> deletes answered with deleted: true (history)
    local,          \* list -> the artifacts it shows (localArtifacts)
    row,            \* list, id -> the row: "idle", "confirming", "sent", "error"
    reply,          \* list, id -> the answer of the delete in flight
    disk,           \* folders of skills that exist
    diskChanges,
    metadata,       \* SkillRegistry: skill -> the category it was last found in
    loaded,         \* skills whose content was read
    discovery,      \* reload -> its discover
    stayed          \* reload -> folders there since it began (history)

fileVars == <<artifacts, deletions, local, row, reply>>
skillVars == <<disk, diskChanges, metadata, loaded, discovery, stayed>>

NoDiscovery == [pc |-> "idle", categories |-> {}, category |-> "none", entries |-> {}, found |-> "none"]

FilesInit ==
    /\ artifacts = [a \in ArtifactIds |-> "new"]
    /\ deletions = [a \in ArtifactIds |-> 0]
    /\ local = [l \in Lists |-> {}]
    /\ row = [l \in Lists |-> [a \in ArtifactIds |-> "idle"]]
    /\ reply = [l \in Lists |-> [a \in ArtifactIds |-> "none"]]
    /\ disk = {} /\ diskChanges = 0 /\ metadata = [s \in SkillIds |-> "none"]
    /\ loaded = {} /\ discovery = [d \in Reloads |-> NoDiscovery] /\ stayed = [d \in Reloads |-> {}]

-----------------------------------------------------------------------------
(* POST /runs/:runId/artifacts: the run is read, then the row is written   *)
(* under a new id.                                                         *)
Upload(a) ==
    /\ artifacts[a] = "new"
    /\ \E found \in BOOLEAN :
         artifacts' = [artifacts EXCEPT ![a] = IF found THEN "read" ELSE "new"]
    /\ UNCHANGED <<deletions, local, row, reply>>

SaveArtifact(a) ==
    /\ artifacts[a] = "read"
    /\ artifacts' = [artifacts EXCEPT ![a] = "stored"]
    /\ UNCHANGED <<deletions, local, row, reply>>

(* getArtifact, and what the routes of one artifact read.                  *)
GetArtifact(a) == artifacts[a] = "stored"

(* GET /runs/:runId/artifacts renders a list; its state starts from it.    *)
ListArtifacts(l) ==
    /\ \A a \in ArtifactIds : reply[l][a] = "none"
    /\ local' = [local EXCEPT ![l] = {a \in ArtifactIds : GetArtifact(a)}]
    /\ row' = [row EXCEPT ![l] = [a \in ArtifactIds |-> "idle"]]
    /\ UNCHANGED <<artifacts, deletions, reply>>

RowStep(l, a, from, to) ==
    /\ a \in local[l] /\ row[l][a] \in from
    /\ row' = [row EXCEPT ![l][a] = to]

HandleDeleteClick(l, a) == RowStep(l, a, {"idle", "error"}, "confirming")
                           /\ UNCHANGED <<artifacts, deletions, local, reply>>
HandleCancelConfirm(l, a) == RowStep(l, a, {"confirming"}, "idle")
                             /\ UNCHANGED <<artifacts, deletions, local, reply>>

(* Mutant: the row goes away when it is confirmed, before the answer.      *)
HastyConfirmDelete(l, a) ==
    /\ RowStep(l, a, {"confirming"}, "sent")
    /\ reply' = [reply EXCEPT ![l][a] = "asked"]
    /\ local' = [local EXCEPT ![l] = @ \ {a}]
    /\ UNCHANGED <<artifacts, deletions>>

HandleConfirmDelete(l, a) ==
    /\ RowStep(l, a, {"confirming"}, "sent")
    /\ reply' = [reply EXCEPT ![l][a] = "asked"]
    /\ UNCHANGED <<artifacts, deletions, local>>

(* Mutant: the number of rows deleted is not looked at.                    *)
BlindDeleteArtifact(l, a) ==
    /\ reply[l][a] = "asked"
    /\ artifacts' = [artifacts EXCEPT ![a] = "deleted"]
    /\ deletions' = [deletions EXCEPT ![a] = @ + 1]
    /\ \E answer \in {"deleted", "lost"} : reply' = [reply EXCEPT ![l][a] = answer]
    /\ UNCHANGED <<local, row>>

(* DELETE /artifacts/:id: 404 when the statement deleted no row. The       *)
(* answer may be lost on its way.                                          *)
DeleteArtifact(l, a) ==
    /\ reply[l][a] = "asked"
    /\ artifacts' = [artifacts EXCEPT ![a] = "deleted"]
    /\ deletions' = [deletions EXCEPT ![a] = IF GetArtifact(a) THEN @ + 1 ELSE @]
    /\ \E answer \in {IF GetArtifact(a) THEN "deleted" ELSE "not_found", "lost"} :
         reply' = [reply EXCEPT ![l][a] = answer]
    /\ UNCHANGED <<local, row>>

(* The answer of apiFetch: the row leaves the list, or shows the error.    *)
HandleDelete(l, a) ==
    /\ reply[l][a] \notin {"none", "asked"}
    /\ reply' = [reply EXCEPT ![l][a] = "none"]
    /\ local' = [local EXCEPT ![l] = IF reply[l][a] = "deleted" THEN @ \ {a} ELSE @]
    /\ row' = [row EXCEPT ![l][a] = IF reply[l][a] = "deleted" THEN "idle" ELSE "error"]
    /\ UNCHANGED <<artifacts, deletions>>

FilesNext ==
    \/ \E a \in ArtifactIds : Upload(a) \/ SaveArtifact(a)
    \/ \E l \in Lists : ListArtifacts(l)
    \/ \E l \in Lists, a \in ArtifactIds :
         \/ HandleDeleteClick(l, a) \/ HandleCancelConfirm(l, a) \/ HandleConfirmDelete(l, a)
         \/ DeleteArtifact(l, a) \/ HandleDelete(l, a)

-----------------------------------------------------------------------------
(* Skills are put on the disk and taken away from it.                      *)
ChangeDisk(f) ==
    /\ diskChanges < MaxDisk /\ diskChanges' = diskChanges + 1
    /\ disk' = IF f \in disk THEN disk \ {f} ELSE disk \cup {f}
    /\ stayed' = [d \in Reloads |-> stayed[d] \ {f}]
    /\ UNCHANGED <<metadata, loaded, discovery>>

(* discover, as often at once as it is called, on the one map: the         *)
(* categories there are; one is there while it has a folder.               *)
Discover(d) ==
    /\ discovery[d].pc = "idle"
    /\ discovery' = [discovery EXCEPT
         ![d] = [NoDiscovery EXCEPT !.pc = "categories", !.categories = {f[1] : f \in disk}]]
    /\ stayed' = [stayed EXCEPT ![d] = disk]
    /\ UNCHANGED <<disk, diskChanges, metadata, loaded>>

Fails(d) == /\ discovery' = [discovery EXCEPT ![d] = [NoDiscovery EXCEPT !.pc = "failed"]]
            /\ UNCHANGED <<disk, diskChanges, metadata, loaded, stayed>>

(* stat and readdir of the next category, which reject when it is gone.    *)
ReadCategory(d, k) ==
    /\ discovery[d].pc = "categories" /\ k \in discovery[d].categories
    /\ IF \E f \in disk : f[1] = k
       THEN /\ discovery' = [discovery EXCEPT
                 ![d].pc = "entries", ![d].category = k, ![d].categories = @ \ {k},
                 ![d].entries = {s \in SkillIds : <<k, s>> \in disk}]
            /\ UNCHANGED <<disk, diskChanges, metadata, loaded, stayed>>
       ELSE Fails(d)

(* stat of the next entry; the disk and the map may change before its      *)
(* answer is looked at.                                                    *)
StatEntry(d, s) ==
    /\ discovery[d].pc = "entries" /\ s \in discovery[d].entries /\ discovery[d].found = "none"
    /\ IF <<discovery[d].category, s>> \in disk
       THEN /\ discovery' = [discovery EXCEPT ![d].found = s]
            /\ UNCHANGED <<disk, diskChanges, metadata, loaded, stayed>>
       ELSE Fails(d)

(* Mutant: a skill that is known already ends its category.                *)
KnownSetEntry(d) ==
    LET s == discovery[d].found IN
    /\ s # "none" /\ metadata' = [metadata EXCEPT ![s] = discovery[d].category]
    /\ discovery' = [discovery EXCEPT ![d].found = "none",
                                      ![d].entries = IF metadata[s] = "none" THEN @ \ {s} ELSE {}]
    /\ UNCHANGED <<disk, diskChanges, loaded, stayed>>

(* The entry is in the map; a skill of two categories is that of the last  *)
(* that was found, by whichever reload.                                    *)
SetEntry(d) ==
    LET s == discovery[d].found IN
    /\ s # "none" /\ metadata' = [metadata EXCEPT ![s] = discovery[d].category]
    /\ discovery' = [discovery EXCEPT ![d].found = "none", ![d].entries = @ \ {s}]
    /\ UNCHANGED <<disk, diskChanges, loaded, stayed>>

NextCategory(d) ==
    /\ discovery[d].pc \in {"categories", "entries"} /\ discovery[d].entries = {}
    /\ discovery[d].pc = "entries" \/ discovery[d].categories = {}
    /\ discovery' = [discovery EXCEPT
         ![d] = IF @.categories = {} THEN [NoDiscovery EXCEPT !.pc = "done"]
                ELSE [@ EXCEPT !.pc = "categories"]]
    /\ UNCHANGED <<disk, diskChanges, metadata, loaded, stayed>>

(* The next reload may come.                                               *)
Answered(d) ==
    /\ discovery[d].pc \in {"done", "failed"}
    /\ discovery' = [discovery EXCEPT ![d] = NoDiscovery] /\ stayed' = [stayed EXCEPT ![d] = {}]
    /\ UNCHANGED <<disk, diskChanges, metadata, loaded>>

(* activate: a skill once read is never read again; one that is not found  *)
(* where it was is an error.                                               *)
Activate(s) ==
    /\ s \notin loaded /\ <<metadata[s], s>> \in disk
    /\ loaded' = loaded \cup {s}
    /\ UNCHANGED <<disk, diskChanges, metadata, discovery, stayed>>

SkillNext == \/ \E f \in Folders : ChangeDisk(f)
             \/ \E s \in SkillIds : Activate(s)
             \/ \E d \in Reloads : \/ Discover(d) \/ SetEntry(d) \/ NextCategory(d) \/ Answered(d)
                                  \/ \E k \in Categories : ReadCategory(d, k)
                                  \/ \E s \in SkillIds : StatEntry(d, s)

-----------------------------------------------------------------------------
FilesTypeOK ==
    /\ artifacts \in [ArtifactIds -> {"new", "read", "stored", "deleted"}]
    /\ local \in [Lists -> SUBSET ArtifactIds]
    /\ disk \subseteq Folders /\ loaded \subseteq SkillIds
    /\ metadata \in [SkillIds -> Categories \cup {"none"}]
    /\ \A d \in Reloads : discovery[d].pc \in {"idle", "categories", "entries", "done", "failed"}

(* An artifact that a list no longer shows after its delete is gone from   *)
(* the table, and one delete at most is told that it deleted it.           *)
DeletedOnce == \A a \in ArtifactIds :
    /\ deletions[a] <= 1 /\ (artifacts[a] = "deleted" <=> deletions[a] = 1)
    /\ \A l \in Lists : row[l][a] # "idle" /\ artifacts[a] = "stored" => a \in local[l]

(* However many reloads overlap, on a directory that changes: one that     *)
(* ended well has found every skill that was on the disk all the while,    *)
(* and a skill is only active after it was found.                          *)
SkillsFound ==
    /\ \A d \in Reloads : discovery[d].pc = "done" => \A f \in stayed[d] : metadata[f[2]] # "none"
    /\ \A s \in loaded : metadata[s] # "none"
=============================================================================
