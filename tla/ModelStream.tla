----------------------------- MODULE ModelStream -----------------------------
(***************************************************************************)
(* chatCompletionStream of LiteLLMClient: the events of a model, numbered, *)
(* are read in pieces of whatever size the network makes and yielded one   *)
(* by one.  There is no buffer for a line that a read cuts in two, and a   *)
(* retry starts again from the first event.                                *)
(***************************************************************************)
EXTENDS Naturals, Sequences

CONSTANTS
    Events,         \* how many events the answer of a model has
    StreamAttempts  \* maxRetries

ASSUME StreamAssumption == Events \in Nat \ {0} /\ StreamAttempts \in Nat \ {0}

VARIABLE stream

Stream == [at : {"idle", "request", "reading", "backoff", "ok", "threw"}, attempt : 0..StreamAttempts,
           sent : 0..Events, yielded : Seq((0..StreamAttempts) \X (1..Events)), cut : BOOLEAN]

StreamTypeOK == stream \in Stream

StreamInit == stream = [at |-> "idle", attempt |-> 0, sent |-> 0, yielded |-> <<>>, cut |-> FALSE]

-----------------------------------------------------------------------------
StreamStart == stream.at = "idle" /\ stream' = [stream EXCEPT !.at = "request"]

(* makeStreamRequest: its timer is cleared as soon as the headers are in.  *)
StreamAccepted ==
    /\ stream.at = "request"
    /\ stream' = [stream EXCEPT !.at = "reading", !.sent = 0]

(* The events from the first not yet read to the n-th.                     *)
Piece(n) == [i \in 1..(n - stream.sent) |-> <<stream.attempt, stream.sent + i>>]

(* A read brings whole events and perhaps a part of the next one, of which *)
(* neither the first half nor the second, in the next read, is of use.     *)
Read == \E n \in (stream.sent + 1)..Events, cuts \in BOOLEAN :
    /\ stream.at = "reading"
    /\ stream' = [stream EXCEPT !.sent = n, !.cut = @ \/ cuts,
                    !.yielded = @ \o (IF cuts THEN SubSeq(Piece(n), 1, n - stream.sent - 1)
                                      ELSE Piece(n))]

(* "[DONE]", or the end of the body.                                       *)
StreamDone ==
    /\ stream.at = "reading" /\ stream.sent = Events
    /\ stream' = [stream EXCEPT !.at = "ok"]

(* Mutant: a reader that fails ends the stream, as the end of the body.    *)
QuietStreamFails ==
    /\ stream.at \in {"request", "reading"}
    /\ \/ /\ stream.attempt + 1 < StreamAttempts /\ stream.at = "request"
          /\ stream' = [stream EXCEPT !.at = "backoff", !.attempt = @ + 1]
       \/ stream' = [stream EXCEPT !.at = "ok"]

(* A request that is refused, a body that breaks off; some errors may be   *)
(* tried again while attempts are left, whatever was yielded before.       *)
StreamFails ==
    /\ stream.at \in {"request", "reading"}
    /\ \/ /\ stream.attempt + 1 < StreamAttempts
          /\ stream' = [stream EXCEPT !.at = "backoff", !.attempt = @ + 1]
       \/ stream' = [stream EXCEPT !.at = "threw"]

StreamBackoff == stream.at = "backoff" /\ stream' = [stream EXCEPT !.at = "request"]

StreamNext ==
    \/ StreamStart \/ StreamAccepted \/ Read \/ StreamDone \/ StreamFails \/ StreamBackoff

-----------------------------------------------------------------------------
(* A stream that ends without an error ends with all events of its last    *)
(* attempt, in order, provided that no read cut an event; cut or not, an   *)
(* attempt yields none of its events twice or out of order.  That a retry  *)
(* (litellm-client.ts:193) starts from the first event again, so that the  *)
(* caller has those of the broken attempt twice, is what the code does.    *)
StreamEndsWhole ==
    LET last == SelectSeq(stream.yielded, LAMBDA y : y[1] = stream.attempt)
    IN
    /\ stream.at = "ok" /\ ~stream.cut => last = [i \in 1..Events |-> <<stream.attempt, i>>]
    /\ \A i \in 2..Len(stream.yielded) :
         LET y == stream.yielded[i - 1]
             z == stream.yielded[i]
         IN y[1] < z[1] \/ (y[1] = z[1] /\ y[2] < z[2])
=============================================================================
