---------------------------- MODULE Conversation ----------------------------
(***************************************************************************)
(* The conversation page of apps/web: threads, the messages of the page    *)
(* and those ChatInterface keeps for itself, the simulated replies with    *)
(* their timers, and the thread list with its filter.                      *)
(***************************************************************************)
EXTENDS Naturals, FiniteSets

CONSTANTS
    OldThreads, NewThreads,     \* those of the start, those that are created
    MaxSends,                   \* bound: messages sent
    MaxRegenerations,           \* bound: replies asked for again
    MaxThreadEdits              \* bound: pins, archivals, renamings and filters

ThreadIds == OldThreads \cup NewThreads
Statuses == {"active", "pinned", "archived"}

VARIABLES
    threads,        \* thread -> [present, status, title, count]
    selectedThreadId,
    messages,       \* of the page: <<sender, number of the send>>
    isLoading,
    pending,        \* timers of replies: <<number of the send, thread at the send>>
    regenerating,   \* timers of regenerations
    chat,           \* the messages of ChatInterface, with their status
    sent,           \* thread of each send (history)
    strays,         \* replies that came after the thread changed (history)
    threadEdits,
    filterStatus

chatVars == <<threads, selectedThreadId, messages, isLoading, pending, regenerating, chat, sent,
              strays, threadEdits, filterStatus>>
listVars == <<threadEdits, filterStatus>>
timerVars == <<isLoading, pending, regenerating, chat, sent, strays>>

Present == {t \in ThreadIds : threads[t].present}

ChatInit ==
    /\ threads = [t \in ThreadIds |-> [present |-> t \in OldThreads, status |-> "active",
                                       title |-> 0, count |-> 0]]
    /\ selectedThreadId \in OldThreads
    /\ messages = {} /\ chat = {} /\ isLoading = FALSE
    /\ pending = {} /\ regenerating = 0 /\ sent = <<>> /\ strays = {}
    /\ threadEdits = [count |-> 0, regenerations |-> 0] /\ filterStatus = "all"

(* filteredThreads of the sidebar; only what is listed can be clicked.     *)
FilteredThreads == {t \in Present : filterStatus = "all" \/ threads[t].status = filterStatus}

HandleSelectThread(t) ==
    /\ t \in FilteredThreads
    /\ selectedThreadId' = t /\ messages' = {}
    /\ UNCHANGED <<threads, timerVars, listVars>>

HandleCreateThread(t) ==
    /\ t \in NewThreads \ Present /\ threads[t].title = 0
    /\ threads' = [threads EXCEPT ![t].present = TRUE, ![t].title = 1]
    /\ selectedThreadId' = t /\ messages' = {}
    /\ UNCHANGED <<timerVars, listVars>>

-----------------------------------------------------------------------------
(* handleSend of ChatInterface and handleSendMessage of the page: each     *)
(* keeps the message in its own list.                                      *)
HandleSendMessage ==
    /\ ~isLoading /\ Cardinality(DOMAIN sent) < MaxSends
    /\ LET n == Cardinality(DOMAIN sent) + 1 IN
       /\ chat' = chat \cup {<<n, "sending">>}
       /\ messages' = messages \cup {<<"user", n>>}
       /\ pending' = pending \cup {<<n, selectedThreadId>>}
       /\ sent' = [i \in 1..n |-> IF i = n THEN selectedThreadId ELSE sent[i]]
    /\ threads' = [threads EXCEPT ![selectedThreadId].count =
                     IF selectedThreadId \in Present THEN @ + 1 ELSE @]
    /\ isLoading' = TRUE
    /\ UNCHANGED <<selectedThreadId, regenerating, strays, listVars>>

(* Mutant: the reply counts for the thread that is open when it comes.     *)
OpenThreadReply(n, t) ==
    /\ <<n, t>> \in pending /\ <<n, "sent">> \in chat
    /\ pending' = pending \ {<<n, t>>} /\ isLoading' = FALSE
    /\ messages' = messages \cup {<<"assistant", n>>}
    /\ threads' = [threads EXCEPT ![selectedThreadId].count =
                     IF selectedThreadId \in Present THEN @ + 1 ELSE @]
    /\ strays' = IF t = selectedThreadId THEN strays ELSE strays \cup {n}
    /\ UNCHANGED <<selectedThreadId, regenerating, chat, sent, listVars>>

(* The timer of the reply: the message goes to whatever the page shows,    *)
(* the count to the thread of the send. Its 1500 ms end after the 500 ms   *)
(* of MarkSent.                                                            *)
Reply(n, t) ==
    /\ <<n, t>> \in pending /\ <<n, "sent">> \in chat
    /\ pending' = pending \ {<<n, t>>} /\ isLoading' = FALSE
    /\ messages' = messages \cup {<<"assistant", n>>}
    /\ threads' = [threads EXCEPT ![t].count = IF t \in Present THEN @ + 1 ELSE @]
    /\ strays' = IF t = selectedThreadId THEN strays ELSE strays \cup {n}
    /\ UNCHANGED <<selectedThreadId, regenerating, chat, sent, listVars>>

MarkSent(n) ==
    /\ <<n, "sending">> \in chat
    /\ chat' = (chat \ {<<n, "sending">>}) \cup {<<n, "sent">>}
    /\ UNCHANGED <<threads, selectedThreadId, messages, isLoading, pending, regenerating, sent,
                   strays, listVars>>

(* handleRegenerate is offered on messages that are shown from the start,  *)
(* also while a reply is awaited.                                          *)
HandleRegenerate ==
    /\ threadEdits.regenerations < MaxRegenerations
    /\ threadEdits' = [threadEdits EXCEPT !.regenerations = @ + 1]
    /\ isLoading' = TRUE /\ regenerating' = regenerating + 1
    /\ UNCHANGED <<threads, selectedThreadId, messages, pending, chat, sent, strays, filterStatus>>

Regenerated ==
    /\ regenerating > 0 /\ regenerating' = regenerating - 1 /\ isLoading' = FALSE
    /\ UNCHANGED <<threads, selectedThreadId, messages, pending, chat, sent, strays, listVars>>

-----------------------------------------------------------------------------
(* Mutant: the selection stays with the thread that is deleted.            *)
StayingDeleteThread(t) ==
    /\ t \in FilteredThreads
    /\ threads' = [threads EXCEPT ![t].present = FALSE]
    /\ messages' = IF selectedThreadId = t THEN {} ELSE messages
    /\ UNCHANGED <<selectedThreadId, timerVars, listVars>>

(* The first of the remaining is selected, in an order the sidebar changes *)
(* when it sorts the array it was given.                                   *)
HandleDeleteThread(t) ==
    /\ t \in FilteredThreads
    /\ threads' = [threads EXCEPT ![t].present = FALSE]
    /\ messages' = IF selectedThreadId = t THEN {} ELSE messages
    /\ IF selectedThreadId = t /\ Present # {t} THEN selectedThreadId' \in Present \ {t}
       ELSE UNCHANGED selectedThreadId
    /\ UNCHANGED <<timerVars, listVars>>

EditThread(t, edited) ==
    /\ t \in FilteredThreads /\ threadEdits.count < MaxThreadEdits
    /\ threadEdits' = [threadEdits EXCEPT !.count = @ + 1]
    /\ threads' = [threads EXCEPT ![t] = edited]
    /\ UNCHANGED <<selectedThreadId, messages, timerVars, filterStatus>>

Toggled(t, status) == [threads[t] EXCEPT !.status = IF @ = status THEN "active" ELSE status]
HandlePinThread(t) == EditThread(t, Toggled(t, "pinned"))
HandleArchiveThread(t) == EditThread(t, Toggled(t, "archived"))

(* handleRename of ThreadItem calls it only with a text.                   *)
HandleRenameThread(t) == EditThread(t, [threads[t] EXCEPT !.title = 2])

SetFilter(status) ==
    /\ threadEdits.count < MaxThreadEdits /\ status # filterStatus
    /\ threadEdits' = [threadEdits EXCEPT !.count = @ + 1] /\ filterStatus' = status
    /\ UNCHANGED <<threads, selectedThreadId, messages, timerVars>>

ChatNext ==
    \/ \E t \in ThreadIds : \/ HandleSelectThread(t) \/ HandleCreateThread(t)
                            \/ HandleDeleteThread(t) \/ HandlePinThread(t)
                            \/ HandleArchiveThread(t) \/ HandleRenameThread(t)
                            \/ \E n \in DOMAIN sent : Reply(n, t)
    \/ HandleSendMessage \/ HandleRegenerate \/ Regenerated
    \/ \E n \in DOMAIN sent : MarkSent(n)
    \/ \E status \in Statuses \cup {"all"} : SetFilter(status)

-----------------------------------------------------------------------------
ChatTypeOK ==
    /\ \A t \in ThreadIds : threads[t].status \in Statuses /\ threads[t].count \in 0..2 * MaxSends
    /\ selectedThreadId \in ThreadIds /\ filterStatus \in Statuses \cup {"all"}
    /\ regenerating \in 0..MaxRegenerations

(* A thread that is there counts its own messages and their replies, also  *)
(* those that came while another was open; a selection is a thread as long *)
(* as there is one; the page waits only for timers that run; a reply under *)
(* a thread that did not ask for it came after the thread was changed; and *)
(* the chat keeps every message that was sent.                             *)
ThreadsAgree ==
    /\ \A t \in Present :
         threads[t].count = Cardinality({n \in DOMAIN sent : sent[n] = t})
           + Cardinality({n \in DOMAIN sent : sent[n] = t /\ <<n, t>> \notin pending})
    /\ Present # {} => selectedThreadId \in Present
    /\ isLoading => pending # {} \/ regenerating > 0
    /\ \A m \in messages : sent[m[2]] # selectedThreadId => m[1] = "assistant" /\ m[2] \in strays
    /\ \A n \in DOMAIN sent : Cardinality({m \in chat : m[1] = n}) = 1
=============================================================================
