---------------------------- MODULE CacheManager ----------------------------
(***************************************************************************)
(* CacheManager and CacheMetricsCollector of db/src/cache, with the cache  *)
(* routes of the API that call them: the timer of the cleanups, the health *)
(* check, which reads the timer after its awaits, and the counters.  Then  *)
(* EmbeddingService: texts are embedded in batches, of which only those are*)
(* requested that its map does not have.  The map is read before the       *)
(* request and written after it, while other batches and clearCache run.   *)
(* An embedding is known by the text it is of.                             *)
(***************************************************************************)
EXTENDS Naturals, Sequences, SequencesExt

CONSTANTS
    enableAutoCleanup,      \* of the policy
    maxTimeSeriesLength,
    MaxCleanups,            \* bound: cleanups under way at a time
    MaxCounted,             \* bound: hits and misses counted
    Batches, Texts, maxBatchSize,
    MaxTexts                \* bound: texts of a batch

VARIABLES
    manager,        \* [interval, live, cleaning, lastCleanup, crashed]
    check,          \* the health check that is under way
    counters,       \* of CacheManager and of the collector
    timeSeries,     \* the hits of each snapshot
    snapshots       \* all snapshots since the series was cleared (history)

managerVars == <<manager, check, counters, timeSeries, snapshots>>

ManagerTypeOK ==
    /\ manager \in [interval : BOOLEAN, live : 0..1, cleaning : 0..MaxCleanups,
                    lastCleanup : BOOLEAN, crashed : BOOLEAN]
    /\ check \in [at : {"idle", "pgvector", "redis"}, expired : BOOLEAN,
                  healthy : {"yes", "no", "none"}]
    /\ counters \in [hits : 0..MaxCounted, misses : 0..MaxCounted, requests : 0..(2 * MaxCounted)]
    /\ timeSeries \in Seq(0..MaxCounted) /\ snapshots \in Seq(0..MaxCounted)

ManagerInit ==
    /\ manager = [interval |-> FALSE, live |-> 0, cleaning |-> 0, lastCleanup |-> FALSE,
                  crashed |-> FALSE]
    /\ check = [at |-> "idle", expired |-> FALSE, healthy |-> "none"]
    /\ counters = [hits |-> 0, misses |-> 0, requests |-> 0]
    /\ timeSeries = <<>> /\ snapshots = <<>>

-----------------------------------------------------------------------------
Counted == UNCHANGED <<counters, timeSeries, snapshots>>
Cleaning == manager.cleaning < MaxCleanups

(* Mutant: a second start sets a second interval.                          *)
RestartAutoCleanup ==
    /\ enableAutoCleanup /\ Cleaning
    /\ manager' = [manager EXCEPT !.interval = TRUE, !.live = @ + 1, !.cleaning = @ + 1]
    /\ UNCHANGED check /\ Counted

(* The first cleanup is not awaited.                                       *)
StartAutoCleanup ==
    /\ enableAutoCleanup /\ ~manager.interval /\ Cleaning
    /\ manager' = [manager EXCEPT !.interval = TRUE, !.live = @ + 1, !.cleaning = @ + 1]
    /\ UNCHANGED check /\ Counted

(* stopAutoCleanup and destroy: cleanups under way go on.                  *)
StopAutoCleanup ==
    /\ manager.interval
    /\ manager' = [manager EXCEPT !.interval = FALSE, !.live = @ - 1]
    /\ UNCHANGED check /\ Counted

(* The interval does not wait for the cleanup before, and POST /cleanup    *)
(* starts one more.                                                        *)
Cleanup ==
    /\ Cleaning
    /\ manager' = [manager EXCEPT !.cleaning = @ + 1]
    /\ UNCHANGED check /\ Counted

CleanupDone ==
    /\ manager.cleaning > 0
    /\ manager' = [manager EXCEPT !.cleaning = @ - 1, !.lastCleanup = TRUE]
    /\ UNCHANGED check /\ Counted

(* The rejection of a cleanup that the timer started is handled by nobody, *)
(* which ends the process; a request is answered with an error.            *)
CleanupRejected ==
    /\ manager.cleaning > 0
    /\ \E timed \in BOOLEAN :
         manager' = [manager EXCEPT !.cleaning = @ - 1, !.crashed = timed]
    /\ UNCHANGED check /\ Counted

CheckHealth ==
    \/ check.at = "idle" /\ check' = [check EXCEPT !.at = "pgvector", !.healthy = "none"]
    \/ /\ check.at = "pgvector"
       /\ \E expired \in BOOLEAN : check' = [check EXCEPT !.at = "redis", !.expired = expired]
    \/ /\ check.at = "redis"
       /\ check' = [at |-> "idle", expired |-> FALSE,
                    healthy |-> IF check.expired \/ (enableAutoCleanup /\ ~manager.interval
                                                      /\ ~manager.lastCleanup)
                                THEN "no" ELSE "yes"]
    \/ check.at # "idle" /\ check' = [at |-> "idle", expired |-> FALSE, healthy |-> "no"]

(* recordHit, recordMiss, resetStatistics (which invalidateAll does too).  *)
Record ==
    \/ /\ counters.hits < MaxCounted
       /\ counters' = [counters EXCEPT !.hits = @ + 1, !.requests = @ + 1]
    \/ /\ counters.misses < MaxCounted
       /\ counters' = [counters EXCEPT !.misses = @ + 1, !.requests = @ + 1]
    \/ counters' = [hits |-> 0, misses |-> 0, requests |-> 0]

(* Mutant: the oldest snapshots are the ones that stay.                    *)
OldestSeries(series) ==
    IF Len(series) > maxTimeSeriesLength THEN SubSeq(series, 1, maxTimeSeriesLength) ELSE series

Trimmed(series) ==
    IF Len(series) > maxTimeSeriesLength
    THEN SubSeq(series, Len(series) - maxTimeSeriesLength + 1, Len(series)) ELSE series

SnapshotMetrics ==
    /\ Len(snapshots) <= maxTimeSeriesLength + 1
    /\ timeSeries' = Trimmed(Append(timeSeries, counters.hits))
    /\ snapshots' = Append(snapshots, counters.hits)

ClearTimeSeries == timeSeries # <<>> /\ timeSeries' = <<>> /\ snapshots' = <<>>

ManagerNext ==
    /\ ~manager.crashed
    /\ \/ StartAutoCleanup \/ StopAutoCleanup \/ Cleanup \/ CleanupDone \/ CleanupRejected
       \/ CheckHealth /\ UNCHANGED manager /\ Counted
       \/ Record /\ UNCHANGED <<manager, check, timeSeries, snapshots>>
       \/ (SnapshotMetrics \/ ClearTimeSeries) /\ UNCHANGED <<manager, check, counters>>

-----------------------------------------------------------------------------
(* The manager holds the only interval there is, so that stopping it leaves*)
(* none however often it was started; every request is a hit or a miss,    *)
(* resets included; and the series is the end of what was recorded.        *)
ManagerKeepsTrack ==
    /\ manager.live = IF manager.interval THEN 1 ELSE 0
    /\ counters.requests = counters.hits + counters.misses
    /\ IF Len(snapshots) <= maxTimeSeriesLength THEN timeSeries = snapshots
       ELSE /\ Len(timeSeries) = maxTimeSeriesLength
            /\ timeSeries = SubSeq(snapshots, Len(snapshots) - maxTimeSeriesLength + 1,
                                   Len(snapshots))

-----------------------------------------------------------------------------
VARIABLES
    embedded,       \* the texts whose embedding is in the map
    batch           \* batch -> where its embedBatch is

embeddingVars == <<embedded, batch>>

NewBatch == [at |-> "idle", texts |-> <<>>, missing |-> {}, embeddings |-> <<>>]

EmbeddingTypeOK ==
    /\ embedded \subseteq Texts
    /\ batch \in [Batches -> [at : {"idle", "requested", "ok", "threw"}, texts : Seq(Texts),
                              missing : SUBSET (1..MaxTexts), embeddings : Seq(Texts)]]

EmbeddingInit == embedded = {} /\ batch = [b \in Batches |-> NewBatch]

-----------------------------------------------------------------------------
Cached(texts) == {i \in DOMAIN texts : texts[i] \in embedded}

(* embed is the batch of one text.                                         *)
EmbedBatch(b) == \E texts \in SeqOf(Texts, MaxTexts) :
    LET missing == DOMAIN texts \ Cached(texts) IN
    /\ batch[b].at = "idle"
    /\ batch' = [batch EXCEPT ![b] =
         IF texts = <<>> \/ Len(texts) > maxBatchSize THEN [@ EXCEPT !.at = "threw"]
         ELSE IF missing = {} THEN [@ EXCEPT !.at = "ok", !.texts = texts, !.embeddings = texts]
         ELSE [@ EXCEPT !.at = "requested", !.texts = texts, !.missing = missing]]
    /\ UNCHANGED embedded

(* What the service was sent: the missing texts in the order of the batch. *)
Requested(b) ==
    LET is == SelectSeq([i \in 1..Len(batch[b].texts) |-> i], LAMBDA i : i \in batch[b].missing)
    IN [k \in DOMAIN is |-> batch[b].texts[is[k]]]

(* uncachedIndices.indexOf(i)                                              *)
AnswerIndex(b, i) == Len(SelectSeq([k \in 1..i |-> k], LAMBDA k : k \in batch[b].missing))

(* The answer has n embeddings; the ones before a missing one are kept.    *)
EmbedAnswered(b) == \E n \in 0..Len(Requested(b)) :
    LET data == SubSeq(Requested(b), 1, n)
        bad == {i \in batch[b].missing : AnswerIndex(b, i) \notin DOMAIN data}
        good == {i \in batch[b].missing : \A j \in bad : i < j}
        merged == [i \in DOMAIN batch[b].texts |->
                     IF i \in batch[b].missing THEN data[AnswerIndex(b, i)]
                     ELSE batch[b].texts[i]]
    IN
    /\ batch[b].at = "requested"
    /\ embedded' = embedded \cup {batch[b].texts[i] : i \in good}
    /\ batch' = [batch EXCEPT ![b] =
         IF bad # {} THEN [NewBatch EXCEPT !.at = "threw"]
         ELSE [@ EXCEPT !.at = "ok", !.missing = {}, !.embeddings = merged]]

(* A refusal, an error of the network, or the abort by the timer.          *)
EmbedFails(b) ==
    /\ batch[b].at = "requested"
    /\ batch' = [batch EXCEPT ![b] = [NewBatch EXCEPT !.at = "threw"]]
    /\ UNCHANGED embedded

ClearCache == embedded # {} /\ embedded' = {} /\ UNCHANGED batch

EmbeddingNext ==
    ClearCache \/ \E b \in Batches : EmbedBatch(b) \/ EmbedAnswered(b) \/ EmbedFails(b)

-----------------------------------------------------------------------------
(* A batch that succeeds has the embedding of each of its texts, in their  *)
(* order, whichever of them were in the map when it started.               *)
EmbeddingsInOrder == \A b \in Batches : batch[b].at = "ok" => batch[b].embeddings = batch[b].texts
=============================================================================
