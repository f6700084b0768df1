--------------------------- MODULE LiteLLMClient ---------------------------
(***************************************************************************)
(* LiteLLMClient of model-router with its SemanticCacheInterceptor, on top *)
(* of SemanticCache: chatCompletion looks a prompt up, asks the models of  *)
(* its routing pool one attempt after the other, and stores the answer.    *)
(***************************************************************************)
EXTENDS SemanticCache

CONSTANT MaxAttempts    \* maxRetries of the routing pool or of the client

ASSUME LiteLLMAssumption == MaxAttempts \in Nat

VARIABLES
    answers,        \* call -> how many of its requests were answered (history)
    metrics         \* what the CacheMetricsCollector counts

clientVars == <<answers, metrics>>

Counts == [hitCount : 0..Cardinality(Calls), missCount : 0..Cardinality(Calls),
           errorCount : 0..(2 * Cardinality(Calls))]

ClientTypeOK ==
    /\ answers \in [Calls -> 0..MaxAttempts]
    /\ metrics \in Counts

ClientInit ==
    /\ answers = [c \in Calls |-> 0]
    /\ metrics = [hitCount |-> 0, missCount |-> 0, errorCount |-> 0]

-----------------------------------------------------------------------------
Alone == UNCHANGED <<Tables, now, admin, troubles, dropped, raced>>

(* A prompt or model the policy excludes is neither looked up nor stored.  *)
ChatCompletion(c) == \E p \in Prompts, m \in Models :
    /\ At(c, "idle")
    /\ call' = [call EXCEPT ![c] = [Unasked EXCEPT !.prompt = p, !.model = m,
                                    !.at = IF m \in Excluded THEN "missed" ELSE "get"]]
    /\ UNCHANGED clientVars /\ Alone

(* checkCache: an error counts as neither hit nor miss, and the call goes  *)
(* on as after a miss.                                                     *)
CacheChecked(c) ==
    /\ \/ At(c, "found") /\ metrics' = [metrics EXCEPT !.hitCount = @ + 1]
       \/ At(c, "missed") /\ metrics' = [metrics EXCEPT !.missCount = @ + 1]
       \/ At(c, "broke") /\ metrics' = [metrics EXCEPT !.errorCount = @ + 1]
    /\ call' = [call EXCEPT ![c] =
         CASE @.at = "found" -> Answered(@.source)
           [] @.at # "found" /\ MaxAttempts = 0 -> Threw
           [] OTHER -> [@ EXCEPT !.at = "request"]]
    /\ UNCHANGED answers /\ Alone

(* makeRequest: an answer, an error that another attempt may help, or one  *)
(* that ends the call.  An abort by the timer is one of the former.        *)
ModelAnswers(c) ==
    /\ At(c, "request")
    /\ answers' = [answers EXCEPT ![c] = @ + 1]
    /\ call' = [call EXCEPT ![c] =
         IF @.model \in Excluded THEN Answered("model")
         ELSE [@ EXCEPT !.at = "embedStore", !.source = "model"]]
    /\ UNCHANGED metrics /\ Alone

Waits(c) ==
    call' = [call EXCEPT ![c].at = "backoff", ![c].attempt = @ + 1]

ModelFails(c) ==
    /\ At(c, "request")
    /\ \/ call[c].attempt + 1 < MaxAttempts /\ Waits(c)
       \/ call' = [call EXCEPT ![c] = Threw]
    /\ UNCHANGED <<answers, metrics>> /\ Alone

Backoff(c) ==
    /\ At(c, "backoff") /\ Goes(c, "request")
    /\ UNCHANGED clientVars /\ Alone

(* Mutant: an answer that cannot be stored is an error of the attempt.     *)
StrictStoreFails(c) ==
    /\ At(c, "lost") /\ metrics' = [metrics EXCEPT !.errorCount = @ + 1]
    /\ \/ call[c].attempt + 1 < MaxAttempts /\ Waits(c)
       \/ call' = [call EXCEPT ![c] = Threw]
    /\ UNCHANGED answers /\ Alone

(* storeResponse: an answer that cannot be stored is returned all the same.*)
StoreFails(c) ==
    /\ At(c, "lost") /\ metrics' = [metrics EXCEPT !.errorCount = @ + 1]
    /\ call' = [call EXCEPT ![c] = Answered("model")]
    /\ UNCHANGED answers /\ Alone

ClientNext ==
    \/ \E c \in Calls :
         \/ ChatCompletion(c) \/ CacheChecked(c) \/ ModelAnswers(c) \/ ModelFails(c)
         \/ Backoff(c) \/ StoreFails(c)
         \/ CacheStep(c) /\ UNCHANGED clientVars
    \/ \E a \in Admins : AdminStep(a) /\ UNCHANGED clientVars
    \/ Surroundings /\ UNCHANGED clientVars

-----------------------------------------------------------------------------
(* An answer is paid for once and never thrown away: a call asks at most   *)
(* MaxAttempts times, not after a model has answered, and returns that     *)
(* answer, whatever fails in the cache.  The hits that are counted are the *)
(* calls that were answered by the cache, and no error is counted twice.   *)
AnswersPaidOnce ==
    /\ \A c \in Calls :
         /\ At(c, "request") => call[c].attempt < MaxAttempts
         /\ answers[c] <= 1
         /\ answers[c] = 1 => call[c].source = "model"
         /\ call[c].source = "model" => answers[c] = 1 /\ call[c].at # "backoff"
    /\ metrics.hitCount =
         Cardinality({c \in Calls : At(c, "answered") /\ call[c].source # "model"})
    /\ metrics.errorCount + Cardinality({c \in Calls : call[c].at \in {"broke", "lost"}})
         <= troubles
=============================================================================
