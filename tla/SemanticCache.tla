--------------------------- MODULE SemanticCache ---------------------------
(***************************************************************************)
(* SemanticCache over RedisCache (db/src/cache): answers to prompts in a   *)
(* table of PostgreSQL, and the hot ones in Redis under the hash of their  *)
(* prompt, with a sorted set that remembers when each was set.  Every      *)
(* command to either store is an await: one action each.                   *)
(***************************************************************************)
EXTENDS Naturals, Sequences, SequencesExt, FiniteSets

CONSTANTS
    Calls,          \* completions that look up and store
    Admins,         \* requests to the cache routes
    Prompts, Models,
    Similar,        \* pairs of prompts whose embeddings are close enough
    Excluded,       \* excludedModels of the policy
    NoEntry,
    maxSize,        \* of RedisCache
    TTL,            \* of an entry
    Instants,       \* bound: the readings of the clock
    MaxTroubles     \* bound: rejected commands, expired keys and ticks

ASSUME SemanticCacheAssumption ==
    /\ Similar \subseteq Prompts \X Prompts
    /\ \A p \in Prompts : <<p, p>> \in Similar
    /\ Excluded \subseteq Models
    /\ maxSize \in Nat \ {0} /\ TTL \in Nat \ {0}
    /\ Instants \subseteq Nat /\ 0 \in Instants
    /\ IsFiniteSet(Calls) /\ IsFiniteSet(Prompts) /\ MaxTroubles \in Nat

VARIABLES
    pg,             \* <<prompt, model>> -> row of semantic_cache
    redis,          \* prompt -> value of its key
    ranks,          \* the sorted set access_times, oldest first
    now,
    call,           \* call -> where its lookup or its store is
    admin,          \* admin -> where its request is
    troubles,       \* how many there were
    dropped,        \* entries some invalidation was to remove (history)
    raced,          \* entries some task held meanwhile (history)
    strays          \* keys that a race left without their rank (history)

Tables == <<pg, redis, ranks, strays>>
cacheVars == <<pg, redis, ranks, now, call, admin, troubles, dropped, raced, strays>>

(* The call that an entry was stored by stands for its response.           *)
Entry == [by : Calls, prompt : Prompts, model : Models, exp : {n + TTL : n \in Instants}]
ASSUME NoEntryAssumption == NoEntry \notin Entry

Lookups == {"get", "writeBack", "delKey", "delRank", "search"}
Stores == {"embedStore", "insert"}
Fills == {"fillKey", "fillRank", "size", "oldest", "evictKey", "evictRank"}
CacheAwaits == Lookups \cup Stores \cup Fills

(* entry: the one in hand; excess, victims: what evictIfNeeded is to evict.*)
Call == [at : CacheAwaits \cup {"idle", "found", "missed", "broke", "lost", "request", "backoff", "answered", "threw"},
         prompt : Prompts \cup {"none"}, model : Models \cup {"none"},
         entry : Entry \cup {NoEntry}, source : {"none", "redis", "pgvector", "model"},
         attempt : Nat, seen : Instants, victims : Seq(Prompts),
         excess : 0..Cardinality(Prompts)]
Unasked == [at |-> "idle", prompt |-> "none", model |-> "none", entry |-> NoEntry,
            source |-> "none", attempt |-> 0, seen |-> 0, victims |-> <<>>, excess |-> 0]

(* prompts, ranked: the keys that clear() has listed, and whether that of  *)
(* the sorted set, which has the same prefix, is one of them.              *)
Invalidations == {"all", "model", "prompt"}
AdminAwaits == {"delete", "keys", "delKeys", "delRanks", "list", "get", "writeBack"}
Admin == [at : AdminAwaits \cup {"idle", "ok", "error"},
          does : Invalidations \cup {"none", "stats"},
          model : Models \cup {"none"}, prompts : Seq(Prompts), entry : Entry \cup {NoEntry},
          ranked : BOOLEAN]
Unrequested == [at |-> "idle", does |-> "none", model |-> "none", prompts |-> <<>>,
                entry |-> NoEntry, ranked |-> FALSE]

CacheTypeOK ==
    /\ pg \in [Prompts \X Models -> Entry \cup {NoEntry}]
    /\ redis \in [Prompts -> Entry \cup {NoEntry}]
    /\ ranks \in Seq(Prompts) /\ IsInjective(ranks)
    /\ now \in Instants
    /\ call \in [Calls -> Call]
    /\ admin \in [Admins -> Admin]
    /\ troubles \in 0..MaxTroubles
    /\ dropped \subseteq Calls /\ raced \subseteq Calls /\ strays \subseteq Prompts

CacheInit ==
    /\ pg = [k \in Prompts \X Models |-> NoEntry]
    /\ redis = [p \in Prompts |-> NoEntry]
    /\ ranks = <<>>
    /\ now = 0
    /\ call = [c \in Calls |-> Unasked]
    /\ admin = [a \in Admins |-> Unrequested]
    /\ troubles = 0
    /\ dropped = {} /\ raced = {} /\ strays = {}

-----------------------------------------------------------------------------
At(c, at) == call[c].at = at
Rows == {pg[k] : k \in DOMAIN pg} \ {NoEntry}
Hot == {redis[p] : p \in Prompts} \ {NoEntry}
HotKeys == {p \in Prompts : redis[p] # NoEntry}

(* What a command has left of the keys of S without their rank.            *)
Strands(S) == strays' = strays \cup {p \in S \cap HotKeys' : p \notin ToSet(ranks')}

Del(p) ==
    /\ redis' = [redis EXCEPT ![p] = NoEntry]
    /\ strays' = strays \ {p}
ZRem(p) ==
    /\ ranks' = RemoveFirst(ranks, p)
    /\ UNCHANGED redis /\ Strands({p})

(* setex of an entry that was read before.                                 *)
WritesBack(p, e) ==
    /\ redis' = [redis EXCEPT ![p] = e]
    /\ UNCHANGED ranks /\ Strands({p})

(* A step of call c that goes on to at, and one that drops its entry.      *)
Goes(c, at) == call' = [call EXCEPT ![c].at = at]
LetsGo(c, at) == call' = [call EXCEPT ![c].at = at, ![c].entry = NoEntry]
Trouble == troubles < MaxTroubles /\ troubles' = troubles + 1
Quiet == UNCHANGED <<now, admin, troubles, dropped, raced>>

(* lookup(): get reads the key and writes it back to count the access.     *)
RedisGet(c) ==
    LET e == redis[call[c].prompt] IN
    /\ At(c, "get")
    /\ call' = [call EXCEPT ![c].entry = e,
                            ![c].at = IF e = NoEntry THEN "search" ELSE "writeBack"]
    /\ UNCHANGED Tables /\ Quiet

(* Mutant: a hot entry is returned without a look at its model.            *)
AnyModelWriteBack(c) ==
    LET e == call[c].entry IN
    /\ At(c, "writeBack")
    /\ WritesBack(call[c].prompt, e)
    /\ IF now > e.exp THEN LetsGo(c, "delKey")
       ELSE call' = [call EXCEPT ![c].at = "found", ![c].source = "redis", ![c].seen = now]
    /\ UNCHANGED pg /\ Quiet

RedisWriteBack(c) ==
    LET e == call[c].entry IN
    /\ At(c, "writeBack")
    /\ WritesBack(call[c].prompt, e)
    /\ IF e.model # call[c].model THEN LetsGo(c, "search")
       ELSE IF now > e.exp THEN LetsGo(c, "delKey")
       ELSE call' = [call EXCEPT ![c].at = "found", ![c].source = "redis", ![c].seen = now]
    /\ UNCHANGED pg /\ Quiet

DeleteExpired(c) ==
    /\ \/ At(c, "delKey") /\ Del(call[c].prompt) /\ Goes(c, "delRank") /\ UNCHANGED ranks
       \/ At(c, "delRank") /\ ZRem(call[c].prompt) /\ Goes(c, "search")
    /\ UNCHANGED pg /\ Quiet

(* The closest live row of the model; that of the prompt itself if any.    *)
Matches(c) ==
    LET ask == call[c]
        live == {e \in Rows : e.model = ask.model /\ e.exp > now
                              /\ <<e.prompt, ask.prompt>> \in Similar}
        same == {e \in live : e.prompt = ask.prompt}
    IN IF same # {} THEN same ELSE live

(* The embedding of the prompt, the query, and the count of the access.    *)
Search(c) ==
    /\ At(c, "search")
    /\ \/ Matches(c) = {} /\ Goes(c, "missed")
       \/ \E e \in Matches(c) :
            call' = [call EXCEPT ![c].at = "fillKey", ![c].entry = e,
                                 ![c].source = "pgvector", ![c].seen = now]
    /\ UNCHANGED Tables /\ Quiet

(* set(): the expiry is computed before the row is written.                *)
EmbedStore(c) ==
    /\ At(c, "embedStore")
    /\ call' = [call EXCEPT ![c].at = "insert",
         ![c].entry = [by |-> c, prompt |-> call[c].prompt, model |-> call[c].model,
                       exp |-> now + TTL]]
    /\ UNCHANGED Tables /\ Quiet

Insert(c) ==
    /\ At(c, "insert") /\ Goes(c, "fillKey")
    /\ pg' = [pg EXCEPT ![<<call[c].prompt, call[c].model>>] = call[c].entry]
    /\ UNCHANGED <<redis, ranks, strays>> /\ Quiet

-----------------------------------------------------------------------------
(* RedisCache.set, which ends the lookup that found a row, or the store,   *)
(* and with it the call.                                                   *)
Answered(source) == [Unasked EXCEPT !.at = "answered", !.source = source]
Threw == [Unasked EXCEPT !.at = "threw"]
Filled(c) == IF call[c].source = "pgvector" THEN [call[c] EXCEPT !.at = "found", !.victims = <<>>]
             ELSE Answered("model")

FillKey(c) ==
    /\ At(c, "fillKey") /\ Goes(c, "fillRank")
    /\ redis' = [redis EXCEPT ![call[c].entry.prompt] = call[c].entry]
    /\ UNCHANGED <<pg, ranks, strays>> /\ Quiet

FillRank(c) ==
    /\ At(c, "fillRank") /\ Goes(c, "size")
    /\ ranks' = Append(RemoveFirst(ranks, call[c].entry.prompt), call[c].entry.prompt)
    /\ strays' = strays \ {call[c].entry.prompt}
    /\ UNCHANGED <<pg, redis>> /\ Quiet

Size(c) ==
    /\ At(c, "size")
    /\ IF Len(ranks) > maxSize
       THEN call' = [call EXCEPT ![c].at = "oldest", ![c].excess = Len(ranks) - maxSize]
       ELSE call' = [call EXCEPT ![c] = Filled(c)]
    /\ UNCHANGED Tables /\ Quiet

(* Mutant: one entry too few is evicted.                                   *)
ShortOldest(c) ==
    LET victims == SubSeq(ranks, 1, call[c].excess - 1) IN
    /\ At(c, "oldest")
    /\ call' = [call EXCEPT ![c] =
         IF victims = <<>> THEN [Filled(c) EXCEPT !.excess = 0]
         ELSE [@ EXCEPT !.at = "evictKey", !.excess = 0, !.victims = victims]]
    /\ UNCHANGED Tables /\ Quiet

Oldest(c) ==
    LET n == IF call[c].excess < Len(ranks) THEN call[c].excess ELSE Len(ranks)
        victims == SubSeq(ranks, 1, n)
    IN
    /\ At(c, "oldest")
    /\ call' = [call EXCEPT ![c] =
         IF victims = <<>> THEN [Filled(c) EXCEPT !.excess = 0]
         ELSE [@ EXCEPT !.at = "evictKey", !.excess = 0, !.victims = victims]]
    /\ UNCHANGED Tables /\ Quiet

Evict(c) ==
    LET p == Head(call[c].victims) IN
    /\ \/ At(c, "evictKey") /\ Del(p) /\ Goes(c, "evictRank") /\ UNCHANGED ranks
       \/ /\ At(c, "evictRank") /\ ZRem(p)
          /\ call' = [call EXCEPT ![c] =
               IF Len(@.victims) = 1 THEN Filled(c)
               ELSE [@ EXCEPT !.at = "evictKey", !.victims = Tail(call[c].victims)]]
    /\ UNCHANGED pg /\ Quiet

(* A rejected command ends the lookup or the store with an error, which    *)
(* the interceptor swallows; only the write back of get is caught earlier. *)
CacheFails(c) ==
    /\ call[c].at \in CacheAwaits
    /\ Trouble
    /\ call' = [call EXCEPT ![c].victims = <<>>, ![c].excess = 0,
         ![c].entry = NoEntry,
         ![c].at = IF @ = "writeBack" THEN "search"
                   ELSE IF call[c].source \in {"none", "pgvector"} THEN "broke" ELSE "lost"]
    /\ UNCHANGED <<Tables, now, admin, dropped, raced>>

CacheStep(c) ==
    \/ RedisGet(c) \/ RedisWriteBack(c) \/ DeleteExpired(c) \/ Search(c) \/ EmbedStore(c)
    \/ Insert(c) \/ FillKey(c) \/ FillRank(c) \/ Size(c) \/ Oldest(c) \/ Evict(c)
    \/ CacheFails(c)

-----------------------------------------------------------------------------
(* The requests of administrators.  The entries they hold or that calls    *)
(* hold while an invalidation is under way may come back after it.         *)
InHand == {call[c].entry.by : c \in {d \in Calls :
               call[d].entry # NoEntry /\ call[d].at \in CacheAwaits}} \cup
          {admin[a].entry.by : a \in {b \in Admins : admin[b].entry # NoEntry}}

Still == UNCHANGED <<now, call, troubles>>
Turns(a, at) == admin' = [admin EXCEPT ![a].at = at]

InvalidationStart(a) ==
    /\ admin[a] = Unrequested
    /\ \/ \E m \in Models : admin' = [admin EXCEPT ![a] =
            [@ EXCEPT !.at = "delete", !.does = "model", !.model = m]]
       \/ \E p \in Prompts : admin' = [admin EXCEPT ![a] =
            [@ EXCEPT !.at = "delete", !.does = "prompt", !.prompts = <<p>>]]
       \/ admin' = [admin EXCEPT ![a] = [@ EXCEPT !.at = "delete", !.does = "all"]]
    /\ UNCHANGED <<Tables, now, call, troubles, dropped, raced>>

Concerns(a, e) ==
    CASE admin[a].does = "model" -> e.model = admin[a].model
      [] admin[a].does = "prompt" -> e.prompt = admin[a].prompts[1]
      [] OTHER -> TRUE

InvalidateRows(a) ==
    /\ admin[a].at = "delete"
    /\ pg' = [k \in DOMAIN pg |-> IF pg[k] # NoEntry /\ Concerns(a, pg[k]) THEN NoEntry
                                  ELSE pg[k]]
    /\ Turns(a, IF admin[a].does = "prompt" THEN "delKeys" ELSE "keys")
    /\ dropped' = dropped \cup {e.by : e \in {x \in Rows \cup Hot : Concerns(a, x)}}
    /\ raced' = raced \cup InHand
    /\ UNCHANGED <<redis, ranks, strays>> /\ Still

(* clear() deletes the keys it has seen; delete() that of one prompt.      *)
ClearKeys(a) ==
    /\ admin[a].at = "keys"
    /\ \E keys \in SetToSeqs({p \in Prompts : redis[p] # NoEntry}) :
         admin' = [admin EXCEPT ![a].prompts = keys, ![a].ranked = ranks # <<>>,
           ![a].at = IF keys = <<>> /\ ranks = <<>> THEN "delRanks" ELSE "delKeys"]
    /\ raced' = raced \cup InHand
    /\ UNCHANGED <<Tables, dropped>> /\ Still

(* Mutant: the keys are left to their time to live.                        *)
LazyClearRedis(a) ==
    /\ admin[a].at = "delKeys"
    /\ Turns(a, "delRanks")
    /\ raced' = raced \cup InHand
    /\ UNCHANGED <<Tables, dropped>> /\ Still

ClearRedis(a) ==
    /\ admin[a].at = "delKeys"
    /\ redis' = [p \in Prompts |-> IF p \in ToSet(admin[a].prompts) THEN NoEntry ELSE redis[p]]
    /\ ranks' = IF admin[a].ranked THEN <<>> ELSE ranks
    /\ Strands(ToSet(ranks))
    /\ Turns(a, "delRanks")
    /\ raced' = raced \cup InHand
    /\ UNCHANGED <<pg, dropped>> /\ Still

ClearRanks(a) ==
    /\ admin[a].at = "delRanks"
    /\ ranks' = IF admin[a].does = "prompt" THEN RemoveFirst(ranks, admin[a].prompts[1]) ELSE <<>>
    /\ UNCHANGED redis /\ Strands(ToSet(ranks))
    /\ admin' = [admin EXCEPT ![a] = [Unrequested EXCEPT !.at = "ok"]]
    /\ raced' = raced \cup InHand
    /\ UNCHANGED <<pg, dropped>> /\ Still

(* getStats of RedisCache reads every entry with get, which writes it back.*)
StatsStart(a) ==
    /\ admin[a] = Unrequested
    /\ admin' = [admin EXCEPT ![a] = [@ EXCEPT !.at = "list", !.does = "stats"]]
    /\ UNCHANGED <<Tables, now, call, troubles, dropped, raced>>

StatsNext(a, rest) ==
    admin' = [admin EXCEPT ![a] =
       IF rest = <<>> THEN [Unrequested EXCEPT !.at = "ok"]
       ELSE [@ EXCEPT !.at = "get", !.prompts = rest, !.entry = NoEntry]]

StatsList(a) ==
    /\ admin[a].at = "list" /\ StatsNext(a, ranks)
    /\ UNCHANGED <<Tables, dropped, raced>> /\ Still

StatsGet(a) ==
    LET e == redis[admin[a].prompts[1]] IN
    /\ admin[a].at = "get"
    /\ IF e = NoEntry THEN StatsNext(a, Tail(admin[a].prompts))
       ELSE admin' = [admin EXCEPT ![a].entry = e, ![a].at = "writeBack"]
    /\ UNCHANGED <<Tables, dropped, raced>> /\ Still

StatsWriteBack(a) ==
    /\ admin[a].at = "writeBack"
    /\ WritesBack(admin[a].prompts[1], admin[a].entry)
    /\ StatsNext(a, Tail(admin[a].prompts))
    /\ UNCHANGED <<pg, dropped, raced>> /\ Still

(* An invalidation that fails half way leaves what it had not reached.     *)
AdminFails(a) ==
    /\ admin[a].at \in AdminAwaits
    /\ Trouble
    /\ IF admin[a].at = "writeBack" THEN StatsNext(a, Tail(admin[a].prompts))
       ELSE admin' = [admin EXCEPT ![a] = [Unrequested EXCEPT !.at = "error"]]
    /\ raced' = IF admin[a].does = "stats" THEN raced ELSE raced \cup dropped
    /\ UNCHANGED <<Tables, now, call, dropped>>

AdminStep(a) ==
    \/ InvalidationStart(a) \/ InvalidateRows(a) \/ ClearKeys(a) \/ ClearRedis(a)
    \/ ClearRanks(a) \/ StatsStart(a) \/ StatsList(a) \/ StatsGet(a)
    \/ StatsWriteBack(a) \/ AdminFails(a)

-----------------------------------------------------------------------------
(* Time passes, the cleanup runs, and Redis lets keys expire.              *)
Tick ==
    /\ \E n \in Instants : n > now /\ now' = n
    /\ Trouble
    /\ UNCHANGED <<Tables, call, admin, dropped, raced>>

CleanupExpired ==
    /\ \E e \in Rows : e.exp <= now
    /\ pg' = [k \in DOMAIN pg |-> IF pg[k] # NoEntry /\ pg[k].exp <= now THEN NoEntry
                                  ELSE pg[k]]
    /\ UNCHANGED <<redis, ranks, strays, now, call, admin, troubles, dropped, raced>>

RedisExpires(p) ==
    /\ redis[p] # NoEntry /\ Del(p)
    /\ Trouble
    /\ UNCHANGED <<pg, ranks, now, call, admin, dropped, raced>>

Surroundings == Tick \/ CleanupExpired \/ \E p \in Prompts : RedisExpires(p)

-----------------------------------------------------------------------------
(* A hit answers the call: an entry of the model asked for that had not    *)
(* expired when it was looked at, to a prompt that is similar.             *)
HitsAnswerTheCall == \A c \in Calls : call[c].at = "found" =>
    LET e == call[c].entry IN
    /\ e.model = call[c].model /\ call[c].seen <= e.exp
    /\ <<e.prompt, call[c].prompt>> \in Similar

(* A row that an invalidation removed never comes back to the table, not   *)
(* for a moment and whatever failed or raced; from the hot cache it is out *)
(* once the invalidation is done, unless a lookup, a store or the          *)
(* statistics held it meanwhile, or the invalidation failed half way.      *)
InvalidatedStaysOut ==
    /\ \A e \in Rows : e.by \notin dropped
    /\ (\A a \in Admins : admin[a].at \in {"idle", "ok", "error"}) =>
         \A e \in Hot : e.by \in dropped => e.by \in raced

Filling == \E c \in Calls : call[c].at \in Fills

(* Sets that evict at the same time never evict too little: when all have  *)
(* finished, no more than maxSize keys are in the hot cache, but for those *)
(* that a race left without a rank, so that evictIfNeeded misses them: one *)
(* written back by a get after it was evicted or deleted, and one set      *)
(* between the two commands of a delete or of clear().                     *)
HotSizeBounded ==
    troubles = 0 /\ ~Filling => Cardinality(HotKeys \ strays) <= maxSize

(* maxSize as RedisCacheConfig documents it: "Maximum number of entries in *)
(* hot cache", whatever raced.                                             *)
MaximumOfEntries ==
    troubles = 0 /\ ~Filling => Cardinality(HotKeys) <= maxSize

HotCacheKept == InvalidatedStaysOut /\ HotSizeBounded
=============================================================================
