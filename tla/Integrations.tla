---------------------------- MODULE Integrations ----------------------------
(***************************************************************************)
(* apps/api/integrations: JiraClient with its tokens (set by hand, from a  *)
(* code, or refreshed) and the calls of JiraClient and NotionClient.       *)
(* Token pairs are numbered as they are issued; a pair belongs to a grant  *)
(* of the user, and its refresh token is honoured until it is used.        *)
(***************************************************************************)
EXTENDS Naturals, FiniteSets, Sequences

CONSTANTS
    ApiCalls,       \* calls of the clients
    TokenCalls,     \* exchangeCode and refreshAccessToken calls
    MaxPairs,       \* bound: token pairs issued
    MaxLost         \* bound: answers lost

ASSUME TokenAssumption == MaxPairs \in Nat /\ MaxLost \in Nat

(* The operations: whether a cloud id is needed, what of the remote side   *)
(* one call changes, and whether the issue is read again after that.       *)
Operation(cloud, writes, rereads) == [cloud |-> cloud, writes |-> writes, rereads |-> rereads]
GetCloudInstances == Operation(FALSE, FALSE, FALSE)
GetProjects == Operation(TRUE, FALSE, FALSE)
GetIssueTypes == Operation(TRUE, FALSE, FALSE)
GetPriorities == Operation(TRUE, FALSE, FALSE)
GetIssue == Operation(TRUE, FALSE, FALSE)
CreateIssue == Operation(TRUE, TRUE, TRUE)
UpdateIssue == Operation(TRUE, TRUE, TRUE)
GetTransitions == Operation(TRUE, FALSE, FALSE)
TransitionIssue == Operation(TRUE, TRUE, TRUE)
AddComment == Operation(TRUE, TRUE, FALSE)
SearchIssues == Operation(TRUE, FALSE, FALSE)
DeleteIssue == Operation(TRUE, TRUE, FALSE)
NotionSearch == Operation(FALSE, FALSE, FALSE)
GetPage == Operation(FALSE, FALSE, FALSE)
GetPageContent == Operation(FALSE, FALSE, FALSE)
GetDatabase == Operation(FALSE, FALSE, FALSE)
QueryDatabase == Operation(FALSE, FALSE, FALSE)
CreatePage == Operation(FALSE, TRUE, FALSE)
UpdatePage == Operation(FALSE, TRUE, FALSE)
CreateDatabase == Operation(FALSE, TRUE, FALSE)
AppendBlocks == Operation(FALSE, TRUE, FALSE)
DeleteBlock == Operation(FALSE, TRUE, FALSE)
Operations ==
    {GetCloudInstances, GetProjects, GetIssueTypes, GetPriorities, GetIssue, CreateIssue,
     UpdateIssue, GetTransitions, TransitionIssue, AddComment, SearchIssues, DeleteIssue,
     NotionSearch, GetPage, GetPageContent, GetDatabase, QueryDatabase, CreatePage,
     UpdatePage, CreateDatabase, AppendBlocks, DeleteBlock}
NoOperation == Operation(FALSE, FALSE, FALSE)

VARIABLES
    cloudId,        \* the configuration names a cloud
    accessToken,    \* pair, 0 for null
    refreshToken,
    tokenExpiresAt, \* "unknown", "fresh", "due" (within a minute, or over)
    pairs,          \* the pairs issued: grant, and whether refresh is honoured
    request,        \* token call -> [pc, pair]
    api,            \* call -> [pc, op, token, changes]
    lost,           \* token answers lost
    crossed         \* the tokens were set while a request for some was open (history)

intVars == <<cloudId, accessToken, refreshToken, tokenExpiresAt, pairs, request, api, lost, crossed>>

NoRequest == [pc |-> "idle", pair |-> 0, rotated |-> FALSE]
NoApi == [pc |-> "idle", op |-> NoOperation, token |-> 0, changes |-> 0]

IntTypeOK ==
    /\ cloudId \in BOOLEAN /\ {accessToken, refreshToken} \subseteq 0..Len(pairs)
    /\ tokenExpiresAt \in {"unknown", "fresh", "due"}
    /\ Len(pairs) <= MaxPairs
    /\ \A i \in DOMAIN pairs : pairs[i].grant \in 1..MaxPairs /\ pairs[i].honoured \in BOOLEAN
    /\ request \in [TokenCalls -> [pc : {"idle", "exchange", "refresh", "done", "failed"},
                                   pair : 0..MaxPairs, rotated : BOOLEAN]]
    /\ \A c \in ApiCalls :
         /\ api[c].pc \in {"idle", "sent", "rereading", "ok", "error"} /\ api[c].changes \in 0..2
         /\ api[c].op \in Operations /\ api[c].token \in 0..Len(pairs)
    /\ lost \in 0..MaxLost /\ crossed \in BOOLEAN

IntInit ==
    /\ cloudId \in BOOLEAN /\ accessToken = 0 /\ refreshToken = 0 /\ tokenExpiresAt = "unknown"
    /\ pairs = <<>> /\ request = [t \in TokenCalls |-> NoRequest]
    /\ api = [c \in ApiCalls |-> NoApi] /\ lost = 0 /\ crossed = FALSE

-----------------------------------------------------------------------------
OpenRequest(t) == request[t].pc \in {"exchange", "refresh"}
Issued(grant, honoured) == Append(pairs, [grant |-> grant, honoured |-> honoured])

(* setAccessToken: of a new grant; without a refresh token there is none,  *)
(* without a lifetime the one of the token before stays.                   *)
SetAccessToken(withRefresh, withExpiry) ==
    /\ Len(pairs) < MaxPairs
    /\ pairs' = Issued(Len(pairs) + 1, withRefresh)
    /\ accessToken' = Len(pairs')
    /\ refreshToken' = IF withRefresh THEN Len(pairs') ELSE 0
    /\ tokenExpiresAt' = IF withExpiry THEN "fresh" ELSE tokenExpiresAt
    /\ crossed' = (crossed \/ \E t \in TokenCalls : OpenRequest(t))
    /\ UNCHANGED <<cloudId, request, api, lost>>

(* exchangeCode is sent, and the server issues a token of a new grant,     *)
(* with or without one to refresh it, or refuses the code.                 *)
ExchangeCode(t) ==
    /\ request[t].pc = "idle"
    /\ \E good, withRefresh \in BOOLEAN :
         /\ good => Len(pairs) < MaxPairs
         /\ pairs' = IF good THEN Issued(Len(pairs) + 1, withRefresh) ELSE pairs
         /\ request' = [request EXCEPT ![t] = [pc |-> "exchange", rotated |-> good /\ withRefresh,
                                               pair |-> IF good THEN Len(pairs') ELSE 0]]
    /\ crossed' = (crossed \/ \E u \in TokenCalls : OpenRequest(u))
    /\ UNCHANGED <<cloudId, accessToken, refreshToken, tokenExpiresAt, api, lost>>

(* refreshAccessToken is sent: a token that is honoured gives a new pair,  *)
(* of the same grant, and may be used up by it.                            *)
RefreshAccessToken(t) ==
    /\ request[t].pc = "idle" /\ refreshToken # 0
    /\ IF ~pairs[refreshToken].honoured
       THEN pairs' = pairs /\ request' = [request EXCEPT ![t] = [NoRequest EXCEPT !.pc = "refresh"]]
       ELSE \E rotated \in BOOLEAN :
              /\ Len(pairs) < MaxPairs
              /\ pairs' = Append([pairs EXCEPT ![refreshToken].honoured = ~rotated],
                                 [grant |-> pairs[refreshToken].grant, honoured |-> rotated])
              /\ request' = [request EXCEPT ![t] = [pc |-> "refresh", pair |-> Len(pairs) + 1,
                                                    rotated |-> rotated]]
    /\ crossed' = (crossed \/ \E u \in TokenCalls : request[u].pc = "exchange")
    /\ UNCHANGED <<cloudId, accessToken, refreshToken, tokenExpiresAt, api, lost>>

(* ensureValidToken refreshes what is due, if it can.                      *)
EnsureValidToken(t) == tokenExpiresAt # "fresh" /\ RefreshAccessToken(t)

(* Mutant: the refresh token of the answer is not kept.                    *)
ForgetfulAnswer(t) ==
    /\ OpenRequest(t) /\ request[t].pair # 0
    /\ accessToken' = request[t].pair
    /\ refreshToken' = IF request[t].pc = "refresh" THEN refreshToken
                       ELSE IF request[t].rotated THEN request[t].pair ELSE 0
    /\ tokenExpiresAt' = "fresh"
    /\ request' = [request EXCEPT ![t].pc = "done"]
    /\ UNCHANGED <<cloudId, pairs, api, lost, crossed>>

(* The answer of either call: without a refresh token that of a refresh    *)
(* keeps the one there is, and that of an exchange leaves none.            *)
TokenAnswer(t) ==
    /\ OpenRequest(t) /\ request[t].pair # 0
    /\ accessToken' = request[t].pair
    /\ refreshToken' = IF request[t].rotated THEN request[t].pair
                       ELSE IF request[t].pc = "exchange" THEN 0 ELSE refreshToken
    /\ tokenExpiresAt' = "fresh"
    /\ request' = [request EXCEPT ![t].pc = "done"]
    /\ UNCHANGED <<cloudId, pairs, api, lost, crossed>>

(* The answer is a refusal, or is lost on its way; the tokens stay.        *)
TokenFails(t) ==
    /\ OpenRequest(t)
    /\ request[t].pair # 0 => lost < MaxLost
    /\ lost' = IF request[t].pair # 0 THEN lost + 1 ELSE lost
    /\ request' = [request EXCEPT ![t].pc = "failed"]
    /\ UNCHANGED <<cloudId, accessToken, refreshToken, tokenExpiresAt, pairs, api, crossed>>

TokenAges == /\ tokenExpiresAt = "fresh" /\ tokenExpiresAt' = "due"
             /\ UNCHANGED <<cloudId, accessToken, refreshToken, pairs, request, api, lost, crossed>>

-----------------------------------------------------------------------------
ApiStep(c, r) == /\ api' = [api EXCEPT ![c] = r]
                 /\ UNCHANGED <<cloudId, accessToken, refreshToken, tokenExpiresAt, pairs,
                                request, lost, crossed>>

(* ensureAuthenticated and the cloud id come before the request, which     *)
(* carries the token of this moment.                                       *)
StartApi(c, op) ==
    /\ api[c].pc = "idle"
    /\ ApiStep(c, [pc |-> IF accessToken = 0 \/ (op.cloud /\ ~cloudId) THEN "error" ELSE "sent",
                   op |-> op, token |-> accessToken, changes |-> 0])

(* The request is carried out, and its answer arrives or not; or it is     *)
(* refused.                                                                *)
ApiAnswer(c) ==
    LET did == [api[c] EXCEPT !.changes = IF @ < 2 /\ api[c].op.writes THEN @ + 1 ELSE @] IN
    /\ api[c].pc = "sent"
    /\ \/ ApiStep(c, [did EXCEPT !.pc = IF api[c].op.rereads THEN "rereading" ELSE "ok"])
       \/ ApiStep(c, [did EXCEPT !.pc = "error"])
       \/ ApiStep(c, [api[c] EXCEPT !.pc = "error"])

(* Mutant: when the issue cannot be read the request is made once more.    *)
RetryingReread(c) ==
    /\ api[c].pc = "rereading"
    /\ \/ ApiStep(c, [api[c] EXCEPT !.pc = "ok"])
       \/ api[c].changes < 2 /\ ApiStep(c, [api[c] EXCEPT !.pc = "sent"])

(* getIssue at the end of createIssue, updateIssue and transitionIssue,    *)
(* with whatever token there is by then: when it fails so does the call.   *)
Reread(c) ==
    /\ api[c].pc = "rereading"
    /\ \/ ApiStep(c, [api[c] EXCEPT !.pc = "ok"])
       \/ ApiStep(c, [api[c] EXCEPT !.pc = "error"])

Authorizing ==
    \/ \E withRefresh, withExpiry \in BOOLEAN : SetAccessToken(withRefresh, withExpiry)
    \/ \E t \in TokenCalls : \/ ExchangeCode(t) \/ RefreshAccessToken(t) \/ EnsureValidToken(t)
                             \/ TokenAnswer(t) \/ TokenFails(t)
    \/ TokenAges
Calling(c) == ApiAnswer(c) \/ Reread(c) \/ \E op \in Operations : StartApi(c, op)

-----------------------------------------------------------------------------
(* Unless tokens were replaced while others were being fetched, the two    *)
(* the client has are of one grant; and unless an answer was lost too, the *)
(* refresh token is honoured, or the answer that replaces it is on its way.*)
TokensTogether ==
    ~crossed =>
      /\ accessToken # 0 /\ refreshToken # 0 =>
           pairs[accessToken].grant = pairs[refreshToken].grant
      /\ lost = 0 /\ refreshToken # 0 =>
           \/ pairs[refreshToken].honoured
           \/ \E t \in TokenCalls : OpenRequest(t) /\ request[t].rotated

(* A call that returns has made its change, and made it once; no call ever *)
(* makes it twice, though one that fails may have made it.                 *)
ChangesOnce == \A c \in ApiCalls :
    /\ api[c].pc = "ok" => api[c].changes = IF api[c].op.writes THEN 1 ELSE 0
    /\ api[c].changes <= 1
=============================================================================
