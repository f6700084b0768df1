-------------------------------- MODULE MCWeb --------------------------------
EXTENDS ApiTables, ApiFiles, RunEventStream, McpOnboarding, Conversation,
        TemplateScreens, TemplateEditor, RunScreens, AdminScreens, TLC

(* Ids of the roles the customizing page starts with; others are numbers.  *)
MCRoles == <<101, 102, 103>>
Symmetry == Permutations(Runs)

(* Bounds of two parts: "stream" has a screen that stays at its run, and   *)
(* "switch" one event, and one replica in use at a time.                   *)
OneEventOnly == /\ Cardinality({r \in Runs : numbered'[r] > 0}) <= 1
                /\ \A r \in Runs : numbered'[r] <= 1
                /\ Cardinality(({h.replica : h \in handlers'}
                                 \cup {sockets'[k].replica : k \in Sockets}) \ {"none"}) <= 1

VARIABLE part
apiVars == <<tableVars, fileVars, skillVars, streamVars>>
adminVars == <<auditScreenVars, queueScreenVars>>
runVars == <<formVars, barVars>>
screenVars == <<wizardVars, chatVars, templateVars, editorVars, runVars, adminVars>>
allVars == <<part, apiVars, screenVars>>

Init ==
    /\ part \in {"drafts", "runs", "records", "files", "skills", "stream", "switch", "wizard",
                 "chat", "templates", "editor", "run form", "run bar", "audit", "polls"}
    /\ TablesInit /\ FilesInit /\ StreamInit
    /\ WizardInit /\ ChatInit /\ TemplatesInit /\ EditorInit /\ RunScreensInit /\ AdminInit
    /\ part # "wizard" => served
    /\ part # "chat" => selectedThreadId = CHOOSE t \in OldThreads : TRUE
    /\ part # "run bar" => runStatus = "completed"
    /\ part # "audit" => \A f \in Filters : logRows[f] = 0

Tables(name, A) == /\ part = name /\ A
                   /\ UNCHANGED <<part, fileVars, skillVars, streamVars, screenVars>>
Files(A) == /\ part = "files" /\ A
            /\ UNCHANGED <<part, tableVars, skillVars, streamVars, screenVars>>
Skills(A) == /\ part = "skills" /\ A
             /\ UNCHANGED <<part, tableVars, fileVars, streamVars, screenVars>>
Stream(name, A) == /\ part = name /\ A
                   /\ UNCHANGED <<part, tableVars, fileVars, skillVars, screenVars>>
Screen(name, A, others) == part = name /\ A /\ UNCHANGED <<part, apiVars, others>>

Next ==
    \/ Tables("drafts", TablesNext /\ UNCHANGED <<walkVars, recordVars>>)
    \/ Tables("drafts", TeamWalk /\ UNCHANGED <<draftVars, recordVars>>)
    \/ Tables("runs", Tick /\ UNCHANGED <<walkVars, recordVars>>)
    \/ Tables("runs", RunWalk /\ UNCHANGED <<draftVars, recordVars>>)
    \/ Tables("records", RecordNext /\ UNCHANGED <<draftVars, walkVars>>)
    \/ Files(FilesNext) \/ Skills(SkillNext)
    \/ Stream("stream", StreamNext /\ hook'.changes <= 1)
    \/ Stream("switch", StreamNext /\ OneEventOnly)
    \/ Screen("wizard", WizardNext, <<chatVars, templateVars, editorVars, runVars, adminVars>>)
    \/ Screen("chat", ChatNext, <<wizardVars, templateVars, editorVars, runVars, adminVars>>)
    \/ Screen("templates", TemplatesNext, <<wizardVars, chatVars, editorVars, runVars, adminVars>>)
    \/ Screen("editor", EditorNext, <<wizardVars, chatVars, templateVars, runVars, adminVars>>)
    \/ Screen("run form", RunFormNext,
              <<wizardVars, chatVars, templateVars, editorVars, barVars, adminVars>>)
    \/ Screen("run bar", RunActionsNext,
              <<wizardVars, chatVars, templateVars, editorVars, formVars, adminVars>>)
    \/ Screen("audit", AuditScreenNext,
              <<wizardVars, chatVars, templateVars, editorVars, runVars, queueScreenVars>>)
    \/ Screen("polls", QueueScreenNext,
              <<wizardVars, chatVars, templateVars, editorVars, runVars, auditScreenVars>>)

Spec == Init /\ [][Next]_allVars

(* The state of every part is of its type.                                 *)
TypeOK ==
    CASE part \in {"drafts", "runs", "records"} -> TablesTypeOK
      [] part \in {"files", "skills"} -> FilesTypeOK
      [] part \in {"stream", "switch"} -> StreamTypeOK
      [] part = "wizard" -> WizardTypeOK
      [] part = "chat" -> ChatTypeOK
      [] part = "templates" -> TemplatesTypeOK
      [] part = "editor" -> EditorTypeOK
      [] part \in {"run form", "run bar"} -> RunScreensTypeOK
      [] OTHER -> AdminTypeOK

(* What the API stores and sends is what it was told: drafts, listings and *)
(* records, files and skills, and the events of a run.                     *)
StoreKept ==
    CASE part = "drafts" -> ApprovedAsWritten /\ PagesCover
      [] part = "runs" -> PagesCover
      [] part = "records" -> EditsKept
      [] part = "files" -> DeletedOnce
      [] part = "skills" -> SkillsFound
      [] part \in {"stream", "switch"} -> NothingMissed /\ SocketsRemoved
      [] OTHER -> TRUE

(* What a screen shows and sends is true of the API as the screen knows    *)
(* it: events, the wizard, the threads, the templates, the log, the queues.*)
ScreensTrue ==
    CASE part \in {"stream", "switch"} -> OwnEvents
      [] part = "wizard" -> OnlyWhole
      [] part = "chat" -> ThreadsAgree
      [] part = "templates" -> ListsAgree
      [] part = "editor" -> PreviewAgrees
      [] part = "run form" -> OneRunMade
      [] part = "run bar" -> ActionsAsShown
      [] part = "audit" -> AuditShown
      [] part = "polls" -> QueuesShown
      [] OTHER -> TRUE
=============================================================================
