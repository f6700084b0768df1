---------------------------- MODULE ModelsProofs ----------------------------
(***************************************************************************)
(* Proofs about the client of the model router and the semantic cache      *)
(* below it: that a hit answers its call, that an answer is paid for once, *)
(* and what the hot cache and the invalidations leave behind.              *)
(***************************************************************************)
EXTENDS MCModels, SequenceTheorems, FiniteSetTheorems, TLAPS

-----------------------------------------------------------------------------
(* Sequences without duplicates, which the sorted set is.                  *)
LEMMA UpTo ==
  ASSUME NEW m \in Nat, NEW n \in Nat, m <= n
  PROVE  IsFiniteSet((m+1)..n) /\ Cardinality((m+1)..n) = n - m
<1>1. m+1 \in Int /\ n \in Int
  OBVIOUS
<1>2. /\ IsFiniteSet((m+1)..n)
      /\ Cardinality((m+1)..n) = IF m+1 > n THEN 0 ELSE n-(m+1)+1
  BY <1>1, FS_Interval
<1> QED BY <1>2

LEMMA SetOfSeq ==
  ASSUME NEW S, NEW s \in Seq(S)
  PROVE  /\ Len(s) \in Nat /\ DOMAIN s = 1..Len(s)
         /\ ToSet(s) \subseteq S /\ ToSet(s) = {s[i] : i \in 1..Len(s)}
         /\ ToSet(<<>>) = {} /\ <<>> \in Seq(S) /\ IsInjective(<<>>)
BY DEF ToSet, IsInjective

(* Its length is the number of its elements.                               *)
LEMMA LengthIsCardinality ==
  ASSUME NEW S, IsFiniteSet(S), NEW s \in Seq(S), IsInjective(s)
  PROVE  Cardinality(ToSet(s)) = Len(s) /\ Len(s) <= Cardinality(S)
<1>1. /\ Len(s) \in Nat /\ DOMAIN s = 1..Len(s)
      /\ ToSet(s) \subseteq S /\ ToSet(s) = {s[i] : i \in 1..Len(s)}
  BY SetOfSeq
<1>2. s \in Bijection(1..Len(s), ToSet(s))
  BY <1>1 DEF Bijection, Injection, Surjection, IsInjective
<1>3. IsFiniteSet(ToSet(s)) /\ Cardinality(ToSet(s)) <= Cardinality(S)
  BY <1>1, FS_Subset
<1>4. Cardinality(1..Len(s)) = Len(s) /\ IsFiniteSet(1..Len(s))
  BY <1>1, UpTo
<1>5. Cardinality(ToSet(s)) = Cardinality(1..Len(s))
  BY <1>2, <1>4, FS_Bijection DEF ExistsBijection
<1> QED BY <1>3, <1>4, <1>5

(* zrem takes a member out and leaves the others as they are.              *)
LEMMA RemoveFirstTakesOut ==
  ASSUME NEW S, NEW s \in Seq(S), IsInjective(s), NEW e
  PROVE  /\ RemoveFirst(s, e) \in Seq(S) /\ IsInjective(RemoveFirst(s, e))
         /\ ToSet(RemoveFirst(s, e)) = ToSet(s) \ {e}
         /\ Len(RemoveFirst(s, e)) <= Len(s)
<1> DEFINE n == Len(s)
           r == RemoveFirst(s, e)
<1>1. n \in Nat /\ DOMAIN s = 1..n /\ ToSet(s) = {s[i] : i \in 1..n} /\ \A i \in 1..n : s[i] \in S
  BY SetOfSeq
<1>2. CASE \A i \in 1..n : s[i] # e
  <2>1. r = s
    BY <1>2 DEF RemoveFirst
  <2> HIDE DEF r
  <2> QED BY <1>1, <1>2, <2>1 DEF r
<1>3. CASE \E i \in 1..n : s[i] = e
  <2>1. PICK k \in 1..n : s[k] = e
    BY <1>3
  <2>2. {i \in 1..n : s[i] = e} = {k}
    BY <1>1, <2>1 DEF IsInjective
  <2>3. Min({k}) = k
    BY <1>1 DEF Min
  <2>4. r = SubSeq(s, 1, k-1) \o SubSeq(s, k+1, n)
    BY <1>3, <2>2, <2>3 DEF RemoveFirst, RemoveAt, SelectInSeq
  <2> HIDE DEF r
  <2>5. /\ SubSeq(s, 1, k-1) \in Seq(S) /\ Len(SubSeq(s, 1, k-1)) = k-1
        /\ \A i \in 1..(k-1) : SubSeq(s, 1, k-1)[i] = s[i]
    <3>1. \A i \in 1..(k-1) : s[i] \in S
      BY <1>1
    <3> QED BY <1>1, <3>1, SubSeqProperties
  <2>6. /\ SubSeq(s, k+1, n) \in Seq(S) /\ Len(SubSeq(s, k+1, n)) = n-k
        /\ \A i \in 1..(n-k) : SubSeq(s, k+1, n)[i] = s[k+i]
    <3> HIDE DEF n
    <3>1. /\ k+1 \in Int /\ n \in Int /\ \A i \in (k+1)..n : s[i] \in S
      BY <1>1
    <3>2. /\ SubSeq(s, k+1, n) \in Seq(S)
          /\ Len(SubSeq(s, k+1, n)) = IF k+1 <= n THEN n-(k+1)+1 ELSE 0
          /\ \A i \in 1..(n-(k+1)+1) : SubSeq(s, k+1, n)[i] = s[(k+1)+i-1]
      BY <3>1, SubSeqProperties
    <3> QED BY <1>1, <3>2
  <2>7. /\ r \in Seq(S) /\ Len(r) = n-1 /\ DOMAIN r = 1..(n-1)
        /\ \A i \in 1..(n-1) : r[i] = IF i < k THEN s[i] ELSE s[i+1]
    <3> HIDE DEF n
    <3>1. r \in Seq(S) /\ Len(r) = n-1
      BY <1>1, <2>4, <2>5, <2>6, ConcatProperties
    <3>2. ASSUME NEW i \in 1..(n-1) PROVE r[i] = IF i < k THEN s[i] ELSE s[i+1]
      <4> DEFINE a == SubSeq(s, 1, k-1)
                 b == SubSeq(s, k+1, n)
      <4>1. a \in Seq(S) /\ b \in Seq(S) /\ Len(a) = k-1 /\ Len(b) = n-k /\ r = a \o b
        BY <2>4, <2>5, <2>6
      <4>2. /\ \A j \in 1..(k-1) : a[j] = s[j]
            /\ \A j \in 1..(n-k) : b[j] = s[k+j]
        BY <2>5, <2>6
      <4> HIDE DEF a, b
      <4>3. \A j \in 1..(Len(a) + Len(b)) :
              (a \o b)[j] = IF j <= Len(a) THEN a[j] ELSE b[j - Len(a)]
        BY <4>1, ConcatProperties
      <4>4. r[i] = IF i <= k-1 THEN a[i] ELSE b[i-(k-1)]
        BY <1>1, <4>1, <4>3
      <4>5. CASE i < k
        BY <1>1, <4>2, <4>4, <4>5
      <4>6. CASE ~(i < k)
        <5>1. i-(k-1) \in 1..(n-k) /\ k+(i-(k-1)) = i+1
          BY <1>1, <4>6
        <5> QED BY <1>1, <4>2, <4>4, <4>6, <5>1
      <4> QED BY <4>5, <4>6
    <3>3. DOMAIN r = 1..(n-1)
      BY <3>1, SetOfSeq
    <3> QED BY <3>1, <3>2, <3>3
  <2>8. IsInjective(r)
    <3> HIDE DEF n, r
    <3>1. ASSUME NEW i \in 1..(n-1), NEW j \in 1..(n-1), r[i] = r[j] PROVE i = j
      <4>1. PICK a \in 1..n : s[a] = r[i] /\ a = IF i < k THEN i ELSE i+1
        BY <1>1, <2>7
      <4>2. PICK b \in 1..n : s[b] = r[j] /\ b = IF j < k THEN j ELSE j+1
        BY <1>1, <2>7
      <4>3. a = b
        BY <1>1, <3>1, <4>1, <4>2 DEF IsInjective
      <4> QED BY <1>1, <4>1, <4>2, <4>3
    <3> QED BY <2>7, <3>1 DEF IsInjective
  <2>9. ToSet(r) = ToSet(s) \ {e}
    <3>1. ToSet(r) = {r[i] : i \in 1..(n-1)}
      BY <2>7 DEF ToSet
    <3>2. ASSUME NEW x \in ToSet(r) PROVE x \in ToSet(s) /\ x # e
      <4>1. PICK i \in 1..(n-1) : x = r[i]
        BY <3>1, <3>2
      <4>2. PICK j \in 1..n : x = s[j] /\ j # k
        <5>1. CASE i < k
          BY <1>1, <2>7, <4>1, <5>1
        <5>2. CASE ~(i < k)
          <6>1. i+1 \in 1..n /\ i+1 # k /\ x = s[i+1]
            BY <1>1, <2>7, <4>1, <5>2
          <6> QED BY <6>1
        <5> QED BY <5>1, <5>2
      <4> QED BY <1>1, <2>1, <4>2 DEF IsInjective
    <3>3. ASSUME NEW x \in ToSet(s), x # e PROVE x \in ToSet(r)
      <4>1. PICK j \in 1..n : x = s[j]
        BY <1>1
      <4>2. j < k => j \in 1..(n-1) /\ r[j] = x
        BY <1>1, <2>1, <2>7, <4>1
      <4>3. j > k => j-1 \in 1..(n-1) /\ r[j-1] = x
        BY <1>1, <2>1, <2>7, <4>1
      <4>4. j # k
        BY <2>1, <3>3, <4>1
      <4> QED BY <3>1, <4>2, <4>3, <4>4
    <3> QED BY <3>2, <3>3
  <2> QED BY <1>1, <2>7, <2>8, <2>9 DEF r
<1> QED BY <1>2, <1>3

(* zadd of a new member.                                                   *)
LEMMA AppendAdds ==
  ASSUME NEW S, NEW s \in Seq(S), IsInjective(s), NEW e \in S, e \notin ToSet(s)
  PROVE  /\ Append(s, e) \in Seq(S) /\ IsInjective(Append(s, e))
         /\ ToSet(Append(s, e)) = ToSet(s) \cup {e}
<1>1. Len(s) \in Nat /\ DOMAIN s = 1..Len(s) /\ ToSet(s) = {s[i] : i \in 1..Len(s)}
  BY SetOfSeq
<1>2. /\ Append(s, e) \in Seq(S) /\ Len(Append(s, e)) = Len(s)+1
      /\ \A i \in 1..Len(s) : Append(s, e)[i] = s[i]
      /\ Append(s, e)[Len(s)+1] = e
  BY AppendProperties
<1>3. /\ DOMAIN Append(s, e) = 1..Len(Append(s, e))
      /\ ToSet(Append(s, e)) = {Append(s, e)[i] : i \in 1..Len(Append(s, e))}
  <2> DEFINE t == Append(s, e)
  <2>1. t \in Seq(S)
    BY <1>2
  <2> HIDE DEF t
  <2>2. DOMAIN t = 1..Len(t) /\ ToSet(t) = {t[i] : i \in 1..Len(t)}
    BY <2>1, SetOfSeq
  <2> QED BY <2>2 DEF t
<1>4. /\ DOMAIN Append(s, e) = 1..(Len(s)+1)
      /\ ToSet(Append(s, e)) = {Append(s, e)[i] : i \in 1..(Len(s)+1)}
  <2> DEFINE m == Len(Append(s, e))
             t == Append(s, e)
  <2>1. m = Len(s)+1
    BY <1>2
  <2>2. DOMAIN t = 1..m /\ ToSet(t) = {t[i] : i \in 1..m}
    BY <1>3
  <2> HIDE DEF m, t
  <2>3. DOMAIN t = 1..(Len(s)+1) /\ ToSet(t) = {t[i] : i \in 1..(Len(s)+1)}
    BY <2>1, <2>2
  <2> QED BY <2>3 DEF t
<1>5. IsInjective(Append(s, e))
  BY <1>1, <1>2, <1>4 DEF IsInjective
<1>6. ToSet(Append(s, e)) = ToSet(s) \cup {e}
  BY <1>1, <1>2, <1>4
<1> QED BY <1>2, <1>5, <1>6

(* The head and the tail of what is left to do.                            *)
LEMMA HeadAndTail ==
  ASSUME NEW S, NEW s \in Seq(S), s # <<>>
  PROVE  /\ Head(s) \in S /\ Head(s) = s[1] /\ Tail(s) \in Seq(S)
         /\ ToSet(s) = {Head(s)} \cup ToSet(Tail(s))
         /\ Len(s) = 1 <=> Tail(s) = <<>>
<1>1. Len(s) \in Nat \ {0} /\ ToSet(s) = {s[i] : i \in 1..Len(s)}
  BY SetOfSeq, EmptySeq
<1>2. /\ Head(s) \in S /\ Tail(s) \in Seq(S) /\ Len(Tail(s)) = Len(s)-1
      /\ \A i \in 1..Len(Tail(s)) : Tail(s)[i] = s[i+1]
  BY HeadTailProperties
<1>3. ToSet(Tail(s)) = {Tail(s)[i] : i \in 1..(Len(s)-1)}
  <2> DEFINE t == Tail(s)
  <2>1. t \in Seq(S) /\ Len(t) = Len(s)-1
    BY <1>2
  <2> HIDE DEF t
  <2>2. ToSet(t) = {t[i] : i \in 1..Len(t)}
    BY <2>1, SetOfSeq
  <2> QED BY <2>1, <2>2 DEF t
<1>4. Head(s) = s[1]
  OBVIOUS
<1>5. ASSUME NEW x \in ToSet(s) PROVE x = Head(s) \/ x \in ToSet(Tail(s))
  <2>1. PICK i \in 1..Len(s) : x = s[i]
    BY <1>1
  <2>2. i # 1 => i-1 \in 1..(Len(s)-1) /\ Tail(s)[i-1] = x
    BY <1>1, <1>2, <2>1
  <2> QED BY <1>3, <1>4, <2>1, <2>2
<1>6. Head(s) \in ToSet(s) /\ ToSet(Tail(s)) \subseteq ToSet(s)
  <2>1. Head(s) \in ToSet(s)
    BY <1>1, <1>4
  <2>2. ASSUME NEW i \in 1..(Len(s)-1) PROVE Tail(s)[i] \in ToSet(s)
    BY <1>1, <1>2, <2>2
  <2> QED BY <1>3, <2>1, <2>2
<1>7. Len(s) = 1 <=> Tail(s) = <<>>
  <2> DEFINE t == Tail(s)
  <2>1. t \in Seq(S) /\ Len(t) = Len(s)-1
    BY <1>2
  <2> HIDE DEF t
  <2>2. Len(t) = 0 <=> t = <<>>
    BY <2>1, EmptySeq
  <2> QED BY <1>1, <2>1, <2>2 DEF t
<1> QED BY <1>2, <1>4, <1>5, <1>6, <1>7

(* Beyond its first k members a sequence has at most the rest.             *)
LEMMA BeyondPrefix ==
  ASSUME NEW S, NEW s \in Seq(S), NEW k \in 0..Len(s)
  PROVE  /\ SubSeq(s, 1, k) \in Seq(S) /\ Len(SubSeq(s, 1, k)) = k
         /\ Cardinality(ToSet(s) \ ToSet(SubSeq(s, 1, k))) <= Len(s) - k
<1> DEFINE n == Len(s)
           u == SubSeq(s, 1, k)
           T == (k+1)..n
           f == [i \in T |-> s[i]]
           R == {s[i] : i \in T}
<1>1. n \in Nat /\ ToSet(s) = {s[i] : i \in 1..n} /\ \A i \in 1..n : s[i] \in S
  BY SetOfSeq
<1>2. u \in Seq(S) /\ Len(u) = k /\ \A i \in 1..k : u[i] = s[i]
  <2>1. \A i \in 1..k : s[i] \in S
    BY <1>1
  <2> QED BY <2>1, <1>1, SubSeqProperties
<1> HIDE DEF u
<1>3. ToSet(u) = {u[i] : i \in 1..k}
  BY <1>2, SetOfSeq
<1>4. ToSet(s) \ ToSet(u) \subseteq R
  <2> SUFFICES ASSUME NEW x \in ToSet(s), x \notin ToSet(u) PROVE x \in R
    OBVIOUS
  <2>1. PICK i \in 1..n : x = s[i]
    BY <1>1
  <2>2. i \notin 1..k
    BY <1>2, <1>3, <2>1
  <2> QED BY <1>1, <2>1, <2>2
<1>5. IsFiniteSet(T) /\ Cardinality(T) = n - k
  <2> HIDE DEF n
  <2>1. n \in Nat /\ k \in Nat /\ k <= n
    BY <1>1 DEF n
  <2> QED BY <2>1, UpTo
<1>6. f \in Surjection(T, R)
  BY DEF Surjection
<1>7. IsFiniteSet(R) /\ Cardinality(R) <= Cardinality(T)
  BY <1>5, <1>6, FS_Surjection
<1>8. IsFiniteSet(ToSet(s) \ ToSet(u)) /\ Cardinality(ToSet(s) \ ToSet(u)) <= Cardinality(R)
  BY <1>4, <1>7, FS_Subset
<1>9. Cardinality(R) \in Nat /\ Cardinality(ToSet(s) \ ToSet(u)) \in Nat
  BY <1>7, <1>8, FS_CardinalityType
<1> QED BY <1>1, <1>2, <1>5, <1>7, <1>8, <1>9 DEF u

(* KEYS lists every key once.                                              *)
LEMMA ListsAll ==
  ASSUME NEW S, IsFiniteSet(S), NEW T \in SUBSET S, NEW s \in SetToSeqs(T)
  PROVE  s \in Seq(S) /\ ToSet(s) = T
<1> DEFINE D == 1..Cardinality(T)
<1>1. IsFiniteSet(T) /\ Cardinality(T) \in Nat
  BY FS_Subset, FS_CardinalityType
<1>2. s \in [D -> T] /\ \A i, j \in D : i # j => s[i] # s[j]
  BY DEF SetToSeqs
<1>3. IsFiniteSet(D) /\ Cardinality(D) = Cardinality(T)
  BY <1>1, FS_Interval
<1>4. s \in Injection(D, T)
  BY <1>2 DEF Injection, IsInjective
<1>5. s \in Surjection(D, T)
  BY <1>1, <1>3, <1>4, FS_Injection
<1>6. s \in Seq(S)
  BY <1>1, <1>2, SeqDef
<1> QED BY <1>2, <1>5, <1>6 DEF ToSet, Surjection

-----------------------------------------------------------------------------
(* What one call holds at each await.                                      *)
Hit(r) == /\ r.entry.model = r.model /\ r.seen <= r.entry.exp
          /\ <<r.entry.prompt, r.prompt>> \in Similar
Ended == {"idle", "answered", "threw"}
EmptyHanded == Ended \cup {"get", "delKey", "delRank", "search", "missed", "broke", "request",
                           "backoff", "embedStore", "lost"}

CallSound(c, r) ==
    /\ r \in Call
    /\ r.at \notin Ended => r.prompt \in Prompts /\ r.model \in Models
    /\ r.at \in EmptyHanded <=> r.entry = NoEntry
    /\ r.at = "writeBack" => r.entry.prompt = r.prompt
    /\ r.at = "insert" => r.entry.by = c
    /\ r.at \in {"idle", "missed", "threw"} \cup Lookups => r.source = "none"
    /\ r.at \in {"broke", "request", "backoff"} => r.source \in {"none", "pgvector"}
    /\ r.at \in {"embedStore", "insert", "lost"} => r.source = "model"
    /\ r.at \in Fills => r.source \in {"pgvector", "model"}
    /\ r.at = "found" => r.source \in {"redis", "pgvector"}
    /\ r.at \in Fills /\ r.source = "pgvector" => Hit(r)
    /\ r.at = "found" => Hit(r)
    /\ r.at = "answered" => r.source # "none"
    /\ r.at \in {"missed", "broke"} \cup Lookups => r.attempt = 0
    /\ r.at \in Fills /\ r.source = "pgvector" => r.attempt = 0
    /\ r.at \in {"request", "backoff"} => r.attempt < MaxAttempts
    /\ r.at \in {"evictKey", "evictRank"} => r.victims # <<>>

AdminSound(r) ==
    /\ r \in Admin
    /\ r.at \in {"list", "get", "writeBack"} <=> r.does = "stats"
    /\ r.at = "writeBack" <=> r.entry # NoEntry
    /\ r.at \in {"get", "writeBack"} => r.prompts # <<>>
    /\ r.does = "prompt" => r.prompts # <<>>
    /\ r.at = "writeBack" => r.entry.prompt = r.prompts[1]
    /\ r.at \in {"idle", "ok", "error"} => r.does = "none"
    /\ r.at \notin {"idle", "ok", "error"} => r.does # "none"
    /\ r.at = "keys" => r.does # "prompt"

Stored ==
    /\ pg \in [Prompts \X Models -> Entry \cup {NoEntry}]
    /\ redis \in [Prompts -> Entry \cup {NoEntry}]
    /\ \A p \in Prompts : redis[p] # NoEntry => redis[p].prompt = p
    /\ now \in Instants
    /\ troubles \in 0..MaxTroubles
    /\ dropped \subseteq Calls /\ raced \subseteq Calls /\ strays \subseteq Prompts
Sound ==
    /\ Stored
    /\ call \in [Calls -> Call] /\ \A c \in Calls : CallSound(c, call[c])
    /\ admin \in [Admins -> Admin] /\ \A a \in Admins : AdminSound(admin[a])

(* Every answer is paid for once, and the counters count.                  *)
Hits == {c \in Calls : At(c, "answered") /\ call[c].source # "model"}
Failing == {c \in Calls : call[c].at \in {"broke", "lost"}}
Paid ==
    /\ answers \in [Calls -> {0, 1}]
    /\ \A c \in Calls : answers[c] = 1 <=> call[c].source = "model"
    /\ metrics.hitCount = Cardinality(Hits)
    /\ metrics \in [hitCount : Nat, missCount : Nat, errorCount : Nat]
    /\ metrics.errorCount + Cardinality(Failing) <= troubles

(* Every copy of an entry that was inserted, and who has to see to it that *)
(* none comes back.                                                        *)
Held == ({call[c].entry : c \in {d \in Calls : call[d].at \in CacheAwaits \ {"insert"}}}
         \cup {admin[a].entry : a \in Admins}) \ {NoEntry}
Copies == Rows \cup Hot \cup Held
Responsible(a, e) == \/ admin[a].at = "keys"
                     \/ admin[a].at = "delKeys" /\ e.prompt \in ToSet(admin[a].prompts)
Out ==
    /\ \A e, f \in Copies : e.by = f.by => e = f
    /\ \A b \in dropped \cup {e.by : e \in Copies} :
          call[b].source = "model" /\ call[b].at \notin {"embedStore", "insert"}
    /\ \A e \in Rows : e.by \notin dropped
    /\ \A e \in Copies : e.by \in dropped \ raced => \E a \in Admins : Responsible(a, e)

(* A call that will see, or has seen, that the sorted set is too long.     *)
Sees(c) ==
    \/ At(c, "size")
    \/ At(c, "oldest") /\ Len(ranks) <= call[c].excess + maxSize
    \/ /\ call[c].at \in {"evictKey", "evictRank"}
       /\ Cardinality(ToSet(ranks) \ ToSet(call[c].victims)) <= maxSize
Bounded ==
    /\ ranks \in Seq(Prompts) /\ IsInjective(ranks)
    /\ troubles = 0 => Len(ranks) <= maxSize \/ \E c \in Calls : Sees(c)

Keyed == troubles = 0 => \A p \in HotKeys :
    \/ p \in ToSet(ranks) \/ p \in strays
    \/ \E c \in Calls : At(c, "fillRank") /\ call[c].entry.prompt = p

ModelsInv == Sound /\ Paid /\ Out /\ Bounded /\ Keyed

-----------------------------------------------------------------------------
(* The constants.                                                          *)
LEMMA Starting ==
  /\ Unasked \in Call /\ Unrequested \in Admin
  /\ \A src \in {"redis", "pgvector", "model"} : Answered(src) \in Call
  /\ Threw \in Call
  /\ Cardinality(Prompts) \in Nat
<1>1. Cardinality(Prompts) \in Nat /\ 0 \in Instants
  BY SemanticCacheAssumption, FS_CardinalityType
<1>2. <<>> \in Seq(Prompts) /\ 0 \in Nat /\ 0 \in 0..Cardinality(Prompts)
  BY <1>1
<1>3. Unasked \in Call
  BY <1>1, <1>2 DEF Unasked, Call
<1>4. Unrequested \in Admin
  BY <1>2 DEF Unrequested, Admin
<1>5. Threw \in Call /\ \A src \in {"redis", "pgvector", "model"} : Answered(src) \in Call
  BY <1>3 DEF Threw, Answered, Call
<1> QED BY <1>1, <1>3, <1>4, <1>5

(* A call that has ended holds nothing.                                    *)
LEMMA EndsSound ==
  ASSUME NEW c \in Calls
  PROVE  /\ CallSound(c, Unasked) /\ CallSound(c, Threw)
         /\ \A src \in {"redis", "pgvector", "model"} : CallSound(c, Answered(src))
<1> USE Starting DEF Ended, EmptyHanded, Lookups, Fills
<1>1. CallSound(c, Unasked)
  BY DEF CallSound, Unasked
<1>2. CallSound(c, Threw)
  BY DEF CallSound, Unasked, Threw
<1>3. ASSUME NEW src \in {"redis", "pgvector", "model"} PROVE CallSound(c, Answered(src))
  BY DEF CallSound, Unasked, Answered
<1> QED BY <1>1, <1>2, <1>3

(* The end of a set(): the lookup it belonged to found its row, the store  *)
(* ends the call.                                                          *)
LEMMA FilledSound ==
  ASSUME NEW c \in Calls, CallSound(c, call[c]), call[c].at \in Fills
  PROVE  /\ CallSound(c, Filled(c)) /\ CallSound(c, [Filled(c) EXCEPT !.excess = 0])
         /\ [Filled(c) EXCEPT !.excess = 0] \in Call
         /\ \A s \in {Filled(c), [Filled(c) EXCEPT !.excess = 0]} :
              /\ s.at \in {"found", "answered"}
              /\ (s.source = "model") = (call[c].source = "model")
              /\ s.at = "answered" => s.source = "model"
<1> DEFINE r == call[c]
<1>1. r \in Call /\ CallSound(c, r) /\ r.at \in Fills
  BY DEF CallSound
<1>2. 0 \in 0..Cardinality(Prompts) /\ <<>> \in Seq(Prompts)
  BY Starting
<1>3. CASE r.source = "pgvector"
  <2> DEFINE f == [r EXCEPT !.at = "found", !.victims = <<>>]
             g == [f EXCEPT !.excess = 0]
  <2>1. Filled(c) = f
    BY <1>3 DEF Filled
  <2> HIDE DEF r
  <2>2. f \in Call /\ f.at = "found" /\ \A x \in {"prompt", "model", "entry", "source", "attempt", "seen"} :
          f[x] = r[x]
    BY <1>1, <1>2 DEF Call
  <2>3. g \in Call /\ g.at = "found" /\ \A x \in {"prompt", "model", "entry", "source", "attempt", "seen"} :
          g[x] = r[x]
    BY <1>1, <1>2 DEF Call
  <2> HIDE DEF f, g
  <2>4. ASSUME NEW s \in {f, g} PROVE CallSound(c, s)
    BY <1>1, <1>3, <2>2, <2>3
    DEF CallSound, Ended, EmptyHanded, Lookups, Fills, Hit
  <2> QED BY <1>3, <2>1, <2>2, <2>3, <2>4 DEF r, g
<1>4. CASE r.source # "pgvector"
  <2>1. Filled(c) = Answered("model") /\ r.source = "model"
    BY <1>1, <1>4 DEF Filled, CallSound
  <2>2. [Answered("model") EXCEPT !.excess = 0] = Answered("model")
    <3>1. Answered("model").excess = 0 /\ Answered("model") \in Call
      BY Starting DEF Answered, Unasked
    <3> QED BY <3>1 DEF Call
  <2> QED BY <2>1, <2>2, EndsSound DEF CallSound, Answered, Unasked
<1> QED BY <1>3, <1>4

-----------------------------------------------------------------------------
(* The steps of a call keep what it holds sound: each names what the call  *)
(* becomes.                                                                *)
Becomes(c, s) == CallSound(c, s) /\ call' = [call EXCEPT ![c] = s]

LEMMA GetSound ==
  ASSUME NEW c \in Calls, Sound, RedisGet(c)
  PROVE  \E s : Becomes(c, s)
<1> DEFINE r == call[c]
           e == redis[r.prompt]
           s == [r EXCEPT !.entry = e, !.at = IF e = NoEntry THEN "search" ELSE "writeBack"]
<1>1. CallSound(c, r) /\ r.at = "get" /\ r \in Call
  BY DEF Sound, RedisGet, At
<1>2. r.prompt \in Prompts
  BY <1>1 DEF CallSound, Ended
<1>3. e \in Entry \cup {NoEntry} /\ (e # NoEntry => e.prompt = r.prompt)
  BY <1>2 DEF Sound, Stored
<1>4. call' = [call EXCEPT ![c] = s]
  BY DEF RedisGet, Sound, Call
<1>5. CallSound(c, s)
  BY <1>1, <1>2, <1>3 DEF CallSound, Call, Ended, EmptyHanded, Lookups, Fills, CacheAwaits, Stores
<1> QED BY <1>4, <1>5 DEF Becomes

LEMMA WriteBackSound ==
  ASSUME NEW c \in Calls, Sound, RedisWriteBack(c)
  PROVE  \E s : Becomes(c, s)
<1> DEFINE r == call[c]
           e == r.entry
           away == [r EXCEPT !.at = IF e.model # r.model THEN "search" ELSE "delKey",
                             !.entry = NoEntry]
           here == [r EXCEPT !.at = "found", !.source = "redis", !.seen = now]
           s == IF e.model # r.model \/ now > e.exp THEN away ELSE here
<1>1. CallSound(c, r) /\ r.at = "writeBack" /\ r \in Call
  BY DEF Sound, RedisWriteBack, At
<1>2. r.prompt \in Prompts /\ e \in Entry /\ e.prompt = r.prompt
  BY <1>1 DEF CallSound, Ended, EmptyHanded, Call
<1>3. now \in Instants /\ now \in Nat /\ e.exp \in Nat /\ <<r.prompt, r.prompt>> \in Similar
  BY <1>2, SemanticCacheAssumption DEF Sound, Stored, Entry
<1>4. call' = [call EXCEPT ![c] = s]
  BY DEF RedisWriteBack, Sound, Call, LetsGo
<1>5. CallSound(c, away)
  BY <1>1, <1>2 DEF CallSound, Call, Ended, EmptyHanded, Lookups, Fills, CacheAwaits, Stores
<1>6. ASSUME ~(e.model # r.model \/ now > e.exp) PROVE CallSound(c, here)
  <2>1. here \in Call
    BY <1>1, <1>3 DEF Call
  <2>2. now <= e.exp /\ e.model = r.model
    BY <1>3, <1>6
  <2>3. Hit(here)
    BY <1>1, <1>2, <1>3, <2>2 DEF Hit, Call
  <2> QED BY <1>1, <1>2, <2>1, <2>3, NoEntryAssumption
      DEF CallSound, Call, Ended, EmptyHanded, Lookups, Fills
<1> QED BY <1>4, <1>5, <1>6 DEF Becomes

LEMMA ExpiredSound ==
  ASSUME NEW c \in Calls, Sound, DeleteExpired(c)
  PROVE  \E s : Becomes(c, s)
<1> DEFINE r == call[c]
           s == [r EXCEPT !.at = IF r.at = "delKey" THEN "delRank" ELSE "search"]
<1>1. CallSound(c, r) /\ r.at \in {"delKey", "delRank"} /\ r \in Call
  BY DEF Sound, DeleteExpired, At
<1>2. call' = [call EXCEPT ![c] = s]
  BY <1>1 DEF DeleteExpired, At, Sound, Call, Goes
<1>3. CallSound(c, s)
  BY <1>1 DEF CallSound, Call, Ended, EmptyHanded, Lookups, Fills, CacheAwaits, Stores
<1> QED BY <1>2, <1>3 DEF Becomes

LEMMA SearchSound ==
  ASSUME NEW c \in Calls, Sound, Search(c)
  PROVE  \E s : Becomes(c, s)
<1> DEFINE r == call[c]
<1>1. CallSound(c, r) /\ r.at = "search" /\ r \in Call
  BY DEF Sound, Search, At
<1>2. CASE Goes(c, "missed")
  <2> DEFINE s == [r EXCEPT !.at = "missed"]
  <2>1. CallSound(c, s)
    BY <1>1 DEF CallSound, Call, Ended, EmptyHanded, Lookups, Fills
  <2>2. call' = [call EXCEPT ![c] = s]
    BY <1>2 DEF Goes, Sound, Call
  <2> QED BY <2>1, <2>2 DEF Becomes
<1>3. ASSUME NEW e \in Matches(c),
             call' = [call EXCEPT ![c].at = "fillKey", ![c].entry = e,
                                  ![c].source = "pgvector", ![c].seen = now]
      PROVE  \E s : Becomes(c, s)
  <2> DEFINE s == [r EXCEPT !.at = "fillKey", !.entry = e, !.source = "pgvector", !.seen = now]
  <2>1. e \in Rows /\ e.model = r.model /\ e.exp > now /\ <<e.prompt, r.prompt>> \in Similar
    BY <1>3 DEF Matches
  <2>2. e \in Entry /\ now \in Instants /\ now \in Nat
    BY <2>1, SemanticCacheAssumption DEF Rows, Sound, Stored
  <2>3. e.exp \in Nat
    BY <2>2, SemanticCacheAssumption DEF Entry
  <2>4. s \in Call
    BY <1>1, <2>2 DEF Call, CacheAwaits, Fills
  <2>8. now <= e.exp
    BY <2>1, <2>2, <2>3
  <2>5. Hit(s)
    BY <1>1, <2>1, <2>4, <2>8 DEF Hit, Call
  <2>6. CallSound(c, s)
    BY <1>1, <2>2, <2>4, <2>5, NoEntryAssumption
    DEF CallSound, Call, Ended, EmptyHanded, Lookups, Fills
  <2>7. call' = [call EXCEPT ![c] = s]
    BY <1>3 DEF Sound, Call
  <2> QED BY <2>6, <2>7 DEF Becomes
<1> QED BY <1>2, <1>3 DEF Search

LEMMA StoreSound ==
  ASSUME NEW c \in Calls, Sound, EmbedStore(c) \/ Insert(c)
  PROVE  \E s : Becomes(c, s)
<1> DEFINE r == call[c]
           e == [by |-> c, prompt |-> r.prompt, model |-> r.model, exp |-> now + TTL]
<1>1. CallSound(c, r) /\ r.at \in {"embedStore", "insert"} /\ r \in Call
  BY DEF Sound, EmbedStore, Insert, At
<1>2. CASE EmbedStore(c)
  <2> DEFINE s == [r EXCEPT !.at = "insert", !.entry = e]
  <2>1. e \in Entry
    BY <1>1, SemanticCacheAssumption DEF Entry, CallSound, Ended, Sound, Stored
  <2>2. e.by = c
    OBVIOUS
  <2>3. call' = [call EXCEPT ![c] = s]
    BY <1>2 DEF EmbedStore, Sound, Call
  <2> HIDE DEF e
  <2>4. CallSound(c, s)
    BY <1>1, <1>2, <2>1, <2>2, NoEntryAssumption, ZenonT(40)
    DEF EmbedStore, At, CallSound, Call, Ended, EmptyHanded, Lookups, Fills, CacheAwaits, Stores
  <2> QED BY <2>3, <2>4 DEF Becomes
<1>3. CASE Insert(c)
  <2> DEFINE s == [r EXCEPT !.at = "fillKey"]
  <2>1. CallSound(c, s)
    BY <1>1, <1>3
    DEF Insert, At, CallSound, Call, Ended, EmptyHanded, Lookups, Fills, CacheAwaits, Stores
  <2>2. call' = [call EXCEPT ![c] = s]
    BY <1>3 DEF Insert, Goes, Sound, Call
  <2> QED BY <2>1, <2>2 DEF Becomes
<1> QED BY <1>2, <1>3

LEMMA FillSound ==
  ASSUME NEW c \in Calls, Sound, FillKey(c) \/ FillRank(c)
  PROVE  \E s : Becomes(c, s)
<1> DEFINE r == call[c]
           s == [r EXCEPT !.at = IF r.at = "fillKey" THEN "fillRank" ELSE "size"]
<1>1. CallSound(c, r) /\ r.at \in {"fillKey", "fillRank"} /\ r \in Call
  BY DEF Sound, FillKey, FillRank, At
<1>2. call' = [call EXCEPT ![c] = s]
  BY <1>1 DEF FillKey, FillRank, At, Sound, Call, Goes
<1>3. CallSound(c, s)
  BY <1>1 DEF CallSound, Call, Ended, EmptyHanded, Lookups, Fills, CacheAwaits, Stores, Hit
<1> QED BY <1>2, <1>3 DEF Becomes

LEMMA SizeSound ==
  ASSUME NEW c \in Calls, Sound, ranks \in Seq(Prompts), IsInjective(ranks), Size(c)
  PROVE  \E s : Becomes(c, s)
<1> DEFINE r == call[c]
           n == Len(ranks)
           s == [r EXCEPT !.at = "oldest", !.excess = n - maxSize]
<1>1. CallSound(c, r) /\ r.at = "size" /\ r \in Call
  BY DEF Sound, Size, At
<1>2. n \in Nat /\ n <= Cardinality(Prompts) /\ maxSize \in Nat /\ Cardinality(Prompts) \in Nat
  BY LengthIsCardinality, SemanticCacheAssumption, Starting
<1>3. CASE n > maxSize
  <2>1. call' = [call EXCEPT ![c] = s]
    BY <1>3 DEF Size, Sound, Call
  <2> HIDE DEF n
  <2>2. n - maxSize \in 0..Cardinality(Prompts)
    BY <1>2, <1>3
  <2>3. CallSound(c, s)
    BY <1>1, <2>2 DEF CallSound, Call, Ended, EmptyHanded, Lookups, Fills, CacheAwaits, Stores, Hit
  <2> QED BY <2>1, <2>3 DEF Becomes
<1>4. CASE ~(n > maxSize)
  BY <1>1, <1>4, FilledSound DEF Size, Becomes, Fills
<1> QED BY <1>3, <1>4

LEMMA OldestSound ==
  ASSUME NEW c \in Calls, Sound, ranks \in Seq(Prompts), Oldest(c)
  PROVE  \E s : Becomes(c, s)
<1> DEFINE r == call[c]
           n == IF r.excess < Len(ranks) THEN r.excess ELSE Len(ranks)
           v == SubSeq(ranks, 1, n)
           s == [r EXCEPT !.at = "evictKey", !.excess = 0, !.victims = v]
<1>1. CallSound(c, r) /\ r.at = "oldest" /\ r \in Call
  BY DEF Sound, Oldest, At
<1>2. v \in Seq(Prompts)
  <2>1. n \in 0..Len(ranks)
    BY <1>1 DEF Call
  <2> QED BY <2>1, BeyondPrefix
<1>3. call' = [call EXCEPT ![c] = IF v = <<>> THEN [Filled(c) EXCEPT !.excess = 0] ELSE s]
  BY DEF Oldest
<1>4. v # <<>> => CallSound(c, s)
  <2> HIDE DEF v
  <2>1. 0 \in 0..Cardinality(Prompts)
    BY Starting
  <2>2. s \in Call
    BY <1>1, <1>2, <2>1 DEF Call, CacheAwaits, Fills
  <2> QED BY <1>1, <2>2
      DEF CallSound, Call, Ended, EmptyHanded, Lookups, Fills, Hit
<1> QED BY <1>1, <1>3, <1>4, FilledSound DEF Becomes, Fills

LEMMA EvictSound ==
  ASSUME NEW c \in Calls, Sound, Evict(c)
  PROVE  \E s : Becomes(c, s)
<1> DEFINE r == call[c]
           s == [r EXCEPT !.at = "evictKey", !.victims = Tail(r.victims)]
           t == [r EXCEPT !.at = "evictRank"]
<1>1. CallSound(c, r) /\ r.at \in {"evictKey", "evictRank"} /\ r \in Call /\ r.victims # <<>>
  BY DEF Sound, Evict, At, CallSound
<1>2. /\ r.victims \in Seq(Prompts) /\ Tail(r.victims) \in Seq(Prompts)
      /\ Len(r.victims) # 1 => Tail(r.victims) # <<>>
  <2>1. r.victims \in Seq(Prompts)
    BY <1>1 DEF Call
  <2> QED BY <1>1, <2>1, HeadAndTail
<1>3. CASE At(c, "evictKey")
  <2>1. call' = [call EXCEPT ![c] = t]
    BY <1>3 DEF Evict, At, Goes, Sound, Call
  <2>2. CallSound(c, t)
    BY <1>1 DEF CallSound, Call, Ended, EmptyHanded, Lookups, Fills, CacheAwaits, Stores, Hit
  <2> QED BY <2>1, <2>2 DEF Becomes
<1>4. CASE At(c, "evictRank")
  <2>1. call' = [call EXCEPT ![c] = IF Len(r.victims) = 1 THEN Filled(c) ELSE s]
    <3>1. ~At(c, "evictKey")
      BY <1>4 DEF At
    <3> QED BY <1>1, <3>1 DEF Evict, Sound, Call
  <2>2. Len(r.victims) # 1 => CallSound(c, s)
    BY <1>1, <1>2 DEF CallSound, Call, Ended, EmptyHanded, Lookups, Fills, CacheAwaits, Stores, Hit
  <2>3. CallSound(c, Filled(c))
    BY <1>1, FilledSound DEF Fills
  <2> QED BY <2>1, <2>2, <2>3 DEF Becomes
<1> QED BY <1>1, <1>3, <1>4 DEF At

LEMMA FailureSound ==
  ASSUME NEW c \in Calls, Sound, CacheFails(c)
  PROVE  \E s : Becomes(c, s)
<1> DEFINE r == call[c]
           s == [r EXCEPT !.victims = <<>>, !.excess = 0, !.entry = NoEntry,
                          !.at = IF r.at = "writeBack" THEN "search"
                                 ELSE IF r.source \in {"none", "pgvector"} THEN "broke" ELSE "lost"]
<1>1. CallSound(c, r) /\ r.at \in CacheAwaits /\ r \in Call
  BY DEF Sound, CacheFails
<1>2. call' = [call EXCEPT ![c] = s]
  BY DEF CacheFails, Sound, Call
<1>3. s \in Call
  <2>1. 0 \in 0..Cardinality(Prompts) /\ <<>> \in Seq(Prompts)
    BY Starting
  <2> QED BY <1>1, <2>1, ZenonT(40) DEF Call, CacheAwaits, Lookups
<1>4. CallSound(c, s)
  BY <1>1, <1>3 DEF CallSound, Call, Ended, EmptyHanded, Lookups, Fills, CacheAwaits, Stores, Hit
<1> QED BY <1>2, <1>4 DEF Becomes

LEMMA ChatSound ==
  ASSUME NEW c \in Calls, Sound, ChatCompletion(c)
  PROVE  \E s : Becomes(c, s)
<1>1. PICK p \in Prompts, m \in Models :
        call' = [call EXCEPT ![c] = [Unasked EXCEPT !.prompt = p, !.model = m,
                                     !.at = IF m \in Excluded THEN "missed" ELSE "get"]]
  BY DEF ChatCompletion
<1> DEFINE s == [Unasked EXCEPT !.prompt = p, !.model = m,
                                !.at = IF m \in Excluded THEN "missed" ELSE "get"]
<1>2. s \in Call
  <2>1. Unasked \in Call
    BY Starting
  <2> QED BY <2>1, ZenonT(40) DEF Call, CacheAwaits, Lookups
<1>3. /\ s.prompt \in Prompts /\ s.model \in Models /\ s.entry = NoEntry /\ s.source = "none"
      /\ s.attempt = 0 /\ s.at \in {"missed", "get"}
  BY DEF Unasked
<1> HIDE DEF s
<1>4. CallSound(c, s)
  BY <1>2, <1>3 DEF CallSound, Ended, EmptyHanded, Lookups, Fills
<1> QED BY <1>1, <1>4 DEF Becomes, s

LEMMA CheckedSound ==
  ASSUME NEW c \in Calls, Sound, CacheChecked(c)
  PROVE  \E s : Becomes(c, s)
<1> DEFINE r == call[c]
           s == [r EXCEPT !.at = "request"]
<1>1. CallSound(c, r) /\ r.at \in {"found", "missed", "broke"} /\ r \in Call
  BY DEF Sound, CacheChecked, At
<1>2. CASE r.at = "found"
  <2>1. call' = [call EXCEPT ![c] = Answered(r.source)]
    BY <1>2 DEF CacheChecked, Sound
  <2>2. r.source \in {"redis", "pgvector", "model"}
    BY <1>1, <1>2 DEF CallSound
  <2> QED BY <2>1, <2>2, EndsSound DEF Becomes
<1>3. CASE r.at # "found" /\ MaxAttempts = 0
  <2>1. call' = [call EXCEPT ![c] = Threw]
    BY <1>3 DEF CacheChecked, Sound
  <2> QED BY <2>1, EndsSound DEF Becomes
<1>4. CASE r.at # "found" /\ MaxAttempts # 0
  <2>1. call' = [call EXCEPT ![c] = s]
    BY <1>4 DEF CacheChecked, Sound
  <2>2. r.attempt = 0 /\ 0 < MaxAttempts
    BY <1>1, <1>4, LiteLLMAssumption DEF CallSound
  <2>3. CallSound(c, s)
    BY <1>1, <1>4, <2>2 DEF CallSound, Call, Ended, EmptyHanded, Lookups, Fills
  <2> QED BY <2>1, <2>3 DEF Becomes
<1> QED BY <1>2, <1>3, <1>4

LEMMA AnswerSound ==
  ASSUME NEW c \in Calls, Sound, ModelAnswers(c)
  PROVE  \E s : Becomes(c, s)
<1> DEFINE r == call[c]
           s == [r EXCEPT !.at = "embedStore", !.source = "model"]
<1>1. CallSound(c, r) /\ r.at = "request" /\ r \in Call
  BY DEF Sound, ModelAnswers, At
<1>2. call' = [call EXCEPT ![c] = IF r.model \in Excluded THEN Answered("model") ELSE s]
  BY DEF ModelAnswers, Sound
<1>3. CallSound(c, s)
  BY <1>1 DEF CallSound, Call, CacheAwaits, Stores, Ended, EmptyHanded, Lookups, Fills
<1> QED BY <1>2, <1>3, EndsSound DEF Becomes

LEMMA RetrySound ==
  ASSUME NEW c \in Calls, Sound, ModelFails(c) \/ Backoff(c)
  PROVE  \E s : Becomes(c, s)
<1> DEFINE r == call[c]
           s == [r EXCEPT !.at = "backoff", !.attempt = r.attempt + 1]
           t == [r EXCEPT !.at = "request"]
<1>1. CallSound(c, r) /\ r.at \in {"request", "backoff"} /\ r \in Call /\ r.attempt \in Nat
  BY DEF Sound, ModelFails, Backoff, At, Call
<1>2. CASE r.attempt + 1 < MaxAttempts /\ Waits(c)
  <2>1. call' = [call EXCEPT ![c] = s]
    BY <1>2 DEF Waits, Sound, Call
  <2>2. s \in Call /\ s.attempt < MaxAttempts
    <3>1. r.attempt + 1 \in Nat
      BY <1>1
    <3>2. s.attempt = r.attempt + 1
      BY <1>1 DEF Call
    <3>3. s \in Call
      BY <1>1, <3>1 DEF Call
    <3> QED BY <1>2, <3>2, <3>3
  <2>4. CallSound(c, s)
    BY <1>1, <2>2 DEF CallSound, Ended, EmptyHanded, Lookups, Fills
  <2> QED BY <2>1, <2>4 DEF Becomes
<1>3. CASE call' = [call EXCEPT ![c] = Threw]
  BY <1>3, EndsSound DEF Becomes
<1>4. CASE Goes(c, "request")
  <2>1. call' = [call EXCEPT ![c] = t]
    BY <1>4 DEF Goes, Sound, Call
  <2>2. CallSound(c, t)
    BY <1>1 DEF CallSound, Call, Ended, EmptyHanded, Lookups, Fills
  <2> QED BY <2>1, <2>2 DEF Becomes
<1> QED BY <1>2, <1>3, <1>4 DEF ModelFails, Backoff

LEMMA StoreFailsSound ==
  ASSUME NEW c \in Calls, Sound, StoreFails(c)
  PROVE  \E s : Becomes(c, s)
BY EndsSound DEF StoreFails, Becomes

ClientStep(c) ==
    \/ ChatCompletion(c) \/ CacheChecked(c) \/ ModelAnswers(c) \/ ModelFails(c)
    \/ Backoff(c) \/ StoreFails(c)

LEMMA CallBecomes ==
  ASSUME NEW c \in Calls, Sound, Bounded, ClientStep(c) \/ CacheStep(c)
  PROVE  \E s : Becomes(c, s)
<1>1. ranks \in Seq(Prompts) /\ IsInjective(ranks)
  BY DEF Bounded
<1>2. ClientStep(c) => \E s : Becomes(c, s)
  BY ChatSound, CheckedSound, AnswerSound, RetrySound, StoreFailsSound DEF ClientStep
<1>3. CacheStep(c) => \E s : Becomes(c, s)
  BY <1>1, GetSound, WriteBackSound, ExpiredSound, SearchSound, StoreSound, FillSound, SizeSound,
     OldestSound, EvictSound, FailureSound DEF CacheStep
<1> QED BY <1>2, <1>3

(* What a call writes to the stores.                                       *)
LEMMA CallStores ==
  ASSUME NEW c \in Calls, Sound, ClientStep(c) \/ CacheStep(c)
  PROVE  /\ Stored' /\ UNCHANGED <<admin, now, dropped, raced>>
         /\ troubles' = troubles \/ CacheFails(c)
<1> DEFINE r == call[c]
<1>1. Stored /\ CallSound(c, r) /\ r \in Call
  BY DEF Sound
<1>2. CASE ClientStep(c)
  BY <1>1, <1>2
  DEF ClientStep, ChatCompletion, CacheChecked, ModelAnswers, ModelFails, Backoff, StoreFails,
      Alone, Tables, Stored
<1>3. CASE RedisGet(c) \/ Search(c) \/ EmbedStore(c) \/ Size(c) \/ Oldest(c)
  BY <1>1, <1>3 DEF RedisGet, Search, EmbedStore, Size, Oldest, Tables, Quiet, Stored
<1>4. CASE RedisWriteBack(c)
  <2>1. r.prompt \in Prompts /\ r.entry \in Entry /\ r.entry.prompt = r.prompt
    BY <1>1, <1>4 DEF RedisWriteBack, At, CallSound, Call, Ended, EmptyHanded
  <2> QED BY <1>1, <1>4, <2>1 DEF RedisWriteBack, WritesBack, Strands, HotKeys, Quiet, Stored
<1>5. CASE DeleteExpired(c)
  <2>1. redis' = redis \/ redis' = [redis EXCEPT ![r.prompt] = NoEntry]
    BY <1>5 DEF DeleteExpired, Del, ZRem
  <2>2. strays' \subseteq Prompts
    BY <1>1, <1>5 DEF DeleteExpired, Del, ZRem, Strands, HotKeys, Stored
  <2> QED BY <1>1, <1>5, <2>1, <2>2 DEF DeleteExpired, Quiet, Stored
<1>6. CASE Insert(c)
  <2>1. r.prompt \in Prompts /\ r.entry \in Entry /\ r.model \in Models
    BY <1>1, <1>6 DEF Insert, At, CallSound, Call, Ended, EmptyHanded
  <2> QED BY <1>1, <1>6, <2>1 DEF Insert, Quiet, Stored
<1>7. CASE FillKey(c) \/ FillRank(c)
  <2>1. r.entry \in Entry /\ r.entry.prompt \in Prompts
    BY <1>1, <1>7 DEF FillKey, FillRank, At, CallSound, Call, EmptyHanded, Ended, Entry
  <2> QED BY <1>1, <1>7, <2>1 DEF FillKey, FillRank, Quiet, Stored
<1>8. CASE Evict(c)
  <2>1. redis' = redis \/ redis' = [redis EXCEPT ![Head(r.victims)] = NoEntry]
    BY <1>8 DEF Evict, Del, ZRem
  <2>2. strays' \subseteq Prompts
    BY <1>1, <1>8 DEF Evict, Del, ZRem, Strands, HotKeys, Stored
  <2> QED BY <1>1, <1>8, <2>1, <2>2 DEF Evict, Quiet, Stored
<1>9. CASE CacheFails(c)
  BY <1>1, <1>9, SemanticCacheAssumption DEF CacheFails, Trouble, Tables, Stored
<1> QED BY <1>2, <1>3, <1>4, <1>5, <1>6, <1>7, <1>8, <1>9 DEF CacheStep

LEMMA CallKeepsSound ==
  ASSUME NEW c \in Calls, Sound, Bounded, ClientStep(c) \/ CacheStep(c)
  PROVE  Sound'
<1>1. PICK s : Becomes(c, s)
  BY CallBecomes
<1>2. s \in Call
  BY <1>1 DEF Becomes, CallSound
<1>3. call' \in [Calls -> Call] /\ \A d \in Calls : CallSound(d, call'[d])
  BY <1>1, <1>2 DEF Becomes, Sound
<1> QED BY <1>3, CallStores DEF Sound


-----------------------------------------------------------------------------
(* The requests of administrators.                                         *)
Turned(a, s) == AdminSound(s) /\ admin' = [admin EXCEPT ![a] = s]

LEMMA DoneSound ==
  \A at \in {"ok", "error"} : AdminSound([Unrequested EXCEPT !.at = at])
BY Starting DEF AdminSound, Admin, Unrequested

(* The statistics go on with the next key or end.                          *)
LEMMA StatsSound ==
  ASSUME NEW a \in Admins, Sound, NEW rest \in Seq(Prompts), admin[a].does = "stats",
         StatsNext(a, rest)
  PROVE  \E s : Turned(a, s)
<1> DEFINE r == admin[a]
           s == [r EXCEPT !.at = "get", !.prompts = rest, !.entry = NoEntry]
<1>1. AdminSound(r) /\ r \in Admin
  BY DEF Sound, AdminSound
<1>2. admin' = [admin EXCEPT ![a] = IF rest = <<>> THEN [Unrequested EXCEPT !.at = "ok"] ELSE s]
  BY DEF StatsNext, Sound
<1>3. rest # <<>> => AdminSound(s)
  BY <1>1 DEF AdminSound, Admin, AdminAwaits
<1> QED BY <1>2, <1>3, DoneSound DEF Turned

LEMMA InvalidationSound ==
  ASSUME NEW a \in Admins, Sound,
         InvalidationStart(a) \/ InvalidateRows(a) \/ ClearKeys(a) \/ ClearRedis(a) \/ ClearRanks(a)
  PROVE  \E s : Turned(a, s)
<1> DEFINE r == admin[a]
<1>1. AdminSound(r) /\ r \in Admin /\ admin \in [Admins -> Admin]
  BY DEF Sound
<1>2. CASE InvalidationStart(a)
  <2>1. r = Unrequested
    BY <1>2 DEF InvalidationStart
  <2>2. ASSUME NEW m \in Models,
               admin' = [admin EXCEPT ![a] = [@ EXCEPT !.at = "delete", !.does = "model", !.model = m]]
        PROVE  \E s : Turned(a, s)
    <3>1. AdminSound([r EXCEPT !.at = "delete", !.does = "model", !.model = m])
      BY <1>1, <2>1, Starting DEF AdminSound, Admin, AdminAwaits, Invalidations, Unrequested
    <3> QED BY <2>2, <3>1 DEF Turned
  <2>3. ASSUME NEW p \in Prompts,
               admin' = [admin EXCEPT ![a] = [@ EXCEPT !.at = "delete", !.does = "prompt",
                                                       !.prompts = <<p>>]]
        PROVE  \E s : Turned(a, s)
    <3> DEFINE keys == <<p>>
    <3>2. keys \in Seq(Prompts) /\ keys # <<>>
      OBVIOUS
    <3> HIDE DEF keys
    <3> DEFINE s == [r EXCEPT !.at = "delete", !.does = "prompt", !.prompts = keys]
    <3>3. s \in Admin
      BY <1>1, <3>2 DEF Admin, AdminAwaits, Invalidations
    <3>4. s.at = "delete" /\ s.does = "prompt" /\ s.prompts = keys /\ s.entry = NoEntry
      BY <1>1, <2>1 DEF Admin, Unrequested
    <3>1. AdminSound(s)
      BY <3>2, <3>3, <3>4 DEF AdminSound
    <3> QED BY <2>3, <3>1 DEF Turned, keys
  <2>4. CASE admin' = [admin EXCEPT ![a] = [@ EXCEPT !.at = "delete", !.does = "all"]]
    <3>1. AdminSound([r EXCEPT !.at = "delete", !.does = "all"])
      BY <1>1, <2>1, Starting DEF AdminSound, Admin, AdminAwaits, Invalidations, Unrequested
    <3> QED BY <2>4, <3>1 DEF Turned
  <2> QED BY <1>2, <2>2, <2>3, <2>4 DEF InvalidationStart
<1>3. CASE InvalidateRows(a)
  <2> DEFINE s == [r EXCEPT !.at = IF r.does = "prompt" THEN "delKeys" ELSE "keys"]
  <2>1. admin' = [admin EXCEPT ![a] = s] /\ r.at = "delete"
    BY <1>1, <1>3 DEF InvalidateRows, Turns, Admin
  <2>2. AdminSound(s)
    BY <1>1, <2>1 DEF AdminSound, Admin, AdminAwaits
  <2> QED BY <2>1, <2>2 DEF Turned
<1>4. CASE ClearKeys(a)
  <2>1. PICK keys \in SetToSeqs({p \in Prompts : redis[p] # NoEntry}) :
          admin' = [admin EXCEPT ![a].prompts = keys, ![a].ranked = ranks # <<>>,
            ![a].at = IF keys = <<>> /\ ranks = <<>> THEN "delRanks" ELSE "delKeys"]
    BY <1>4 DEF ClearKeys
  <2> DEFINE s == [r EXCEPT !.prompts = keys, !.ranked = ranks # <<>>,
                     !.at = IF keys = <<>> /\ ranks = <<>> THEN "delRanks" ELSE "delKeys"]
  <2>2. keys \in Seq(Prompts)
    BY ListsAll, SemanticCacheAssumption
  <2>3. admin' = [admin EXCEPT ![a] = s] /\ r.at = "keys"
    BY <1>1, <1>4, <2>1 DEF ClearKeys, Admin
  <2>4. AdminSound(s)
    BY <1>1, <2>2, <2>3 DEF AdminSound, Admin, AdminAwaits
  <2> QED BY <2>3, <2>4 DEF Turned
<1>5. CASE ClearRedis(a)
  <2> DEFINE s == [r EXCEPT !.at = "delRanks"]
  <2>1. admin' = [admin EXCEPT ![a] = s] /\ r.at = "delKeys"
    BY <1>1, <1>5 DEF ClearRedis, Turns, Admin
  <2>2. AdminSound(s)
    BY <1>1, <2>1 DEF AdminSound, Admin, AdminAwaits
  <2> QED BY <2>1, <2>2 DEF Turned
<1>6. CASE ClearRanks(a)
  BY <1>6, DoneSound DEF ClearRanks, Turned
<1> QED BY <1>2, <1>3, <1>4, <1>5, <1>6

LEMMA StatisticsSound ==
  ASSUME NEW a \in Admins, Sound, ranks \in Seq(Prompts),
         StatsStart(a) \/ StatsList(a) \/ StatsGet(a) \/ StatsWriteBack(a) \/ AdminFails(a)
  PROVE  \E s : Turned(a, s)
<1> DEFINE r == admin[a]
<1>1. AdminSound(r) /\ r \in Admin /\ admin \in [Admins -> Admin]
  BY DEF Sound
<1>2. r.prompts \in Seq(Prompts) /\ (r.prompts # <<>> => Tail(r.prompts) \in Seq(Prompts)
                                                         /\ r.prompts[1] \in Prompts)
  <2>1. r.prompts \in Seq(Prompts)
    BY <1>1 DEF Admin
  <2> QED BY <2>1, HeadAndTail
<1>3. CASE StatsStart(a)
  <2> DEFINE s == [r EXCEPT !.at = "list", !.does = "stats"]
  <2>1. admin' = [admin EXCEPT ![a] = s] /\ r = Unrequested
    BY <1>3 DEF StatsStart
  <2>2. AdminSound(s)
    <3>1. s \in Admin
      BY <1>1 DEF Admin, AdminAwaits
    <3>2. s.at = "list" /\ s.does = "stats" /\ s.entry = NoEntry
      BY <1>1, <2>1 DEF Admin, Unrequested
    <3> QED BY <3>1, <3>2 DEF AdminSound
  <2> QED BY <2>1, <2>2 DEF Turned
<1>4. CASE StatsList(a)
  <2>1. r.does = "stats"
    BY <1>1, <1>4 DEF StatsList, AdminSound
  <2> QED BY <1>4, <2>1, StatsSound DEF StatsList
<1>5. CASE StatsGet(a)
  <2> DEFINE e == redis[r.prompts[1]]
             s == [r EXCEPT !.entry = e, !.at = "writeBack"]
  <2>1. r.does = "stats" /\ r.at = "get" /\ r.prompts # <<>>
    BY <1>1, <1>5 DEF StatsGet, AdminSound
  <2>2. CASE e = NoEntry
    BY <1>2, <1>5, <2>1, <2>2, StatsSound DEF StatsGet
  <2>3. CASE e # NoEntry
    <3>1. e \in Entry /\ e.prompt = r.prompts[1]
      BY <1>2, <2>1, <2>3 DEF Sound, Stored
    <3>2. admin' = [admin EXCEPT ![a] = s]
      BY <1>1, <1>5, <2>3 DEF StatsGet, Admin
    <3> HIDE DEF e
    <3>3. AdminSound(s)
      BY <1>1, <2>1, <2>3, <3>1 DEF AdminSound, Admin, AdminAwaits
    <3> QED BY <3>2, <3>3 DEF Turned
  <2> QED BY <2>2, <2>3
<1>6. CASE StatsWriteBack(a)
  <2>1. r.does = "stats" /\ r.prompts # <<>>
    BY <1>1, <1>6 DEF StatsWriteBack, AdminSound
  <2> QED BY <1>2, <1>6, <2>1, StatsSound DEF StatsWriteBack
<1>7. CASE AdminFails(a)
  <2>1. CASE r.at = "writeBack"
    <3>1. r.does = "stats" /\ r.prompts # <<>>
      BY <1>1, <2>1 DEF AdminSound
    <3> QED BY <1>2, <1>7, <2>1, <3>1, StatsSound DEF AdminFails
  <2>2. CASE r.at # "writeBack"
    BY <1>7, <2>2, DoneSound DEF AdminFails, Turned
  <2> QED BY <2>1, <2>2
<1> QED BY <1>3, <1>4, <1>5, <1>6, <1>7

LEMMA AdminStores ==
  ASSUME NEW a \in Admins, Sound, AdminStep(a)
  PROVE  /\ Stored' /\ UNCHANGED <<call, now>>
         /\ troubles' = troubles \/ (troubles \in Nat /\ troubles' = troubles + 1)
<1> DEFINE r == admin[a]
<1>1. Stored /\ AdminSound(r) /\ r \in Admin /\ \A c \in Calls : call[c] \in Call
  BY DEF Sound
<1>2. \A b \in Admins : admin[b] \in Admin
  BY DEF Sound
<1>3. InHand \subseteq Calls
  BY <1>1, <1>2, NoEntryAssumption DEF InHand, Call, Admin, Entry
<1>4. {e.by : e \in {x \in Rows \cup Hot : Concerns(a, x)}} \subseteq Calls
  BY <1>1 DEF Rows, Hot, Stored, Entry
<1>5. CASE InvalidationStart(a) \/ StatsStart(a) \/ StatsList(a) \/ StatsGet(a)
  BY <1>1, <1>5 DEF InvalidationStart, StatsStart, StatsList, StatsGet, Still, Tables, Stored
<1>6. CASE InvalidateRows(a)
  BY <1>1, <1>3, <1>4, <1>6 DEF InvalidateRows, Still, Stored
<1>7. CASE ClearKeys(a) \/ ClearRedis(a) \/ ClearRanks(a)
  <2>1. strays' \subseteq Prompts
    BY <1>1, <1>7
    DEF ClearKeys, ClearRedis, ClearRanks, Tables, Strands, HotKeys, Stored
  <2>2. UNCHANGED <<pg, now, call, troubles, dropped>> /\ raced' = raced \cup InHand
    BY <1>7 DEF ClearKeys, ClearRedis, ClearRanks, Tables, Still
  <2>3. redis' = redis \/ \E S : redis' = [p \in Prompts |-> IF p \in S THEN NoEntry ELSE redis[p]]
    BY <1>7 DEF ClearKeys, ClearRedis, ClearRanks, Tables
  <2> QED BY <1>1, <1>3, <2>1, <2>2, <2>3 DEF Stored
<1>8. CASE StatsWriteBack(a)
  <2>1. r.entry \in Entry /\ r.entry.prompt = r.prompts[1]
    BY <1>1, <1>8 DEF StatsWriteBack, AdminSound, Admin
  <2>2. r.prompts[1] \in Prompts
    BY <2>1 DEF Entry
  <2> QED BY <1>1, <1>8, <2>1, <2>2
      DEF StatsWriteBack, WritesBack, Strands, HotKeys, Still, Stored
<1>9. CASE AdminFails(a)
  BY <1>1, <1>9, SemanticCacheAssumption DEF AdminFails, Trouble, Tables, Stored
<1> QED BY <1>5, <1>6, <1>7, <1>8, <1>9 DEF AdminStep

LEMMA AdminKeepsSound ==
  ASSUME NEW a \in Admins, Sound, Bounded, AdminStep(a)
  PROVE  Sound'
<1>1. PICK s : Turned(a, s)
  BY InvalidationSound, StatisticsSound DEF AdminStep, Bounded
<1>2. s \in Admin
  BY <1>1 DEF Turned, AdminSound
<1>3. admin' \in [Admins -> Admin] /\ \A b \in Admins : AdminSound(admin'[b])
  BY <1>1, <1>2 DEF Turned, Sound
<1> QED BY <1>3, AdminStores DEF Sound

(* Time, the cleanup and the expiry of keys.                               *)
LEMMA SurroundingsKeepSound ==
  ASSUME Sound, Surroundings
  PROVE  Sound' /\ UNCHANGED <<ranks, call, admin, dropped, raced>>
<1>1. Stored /\ troubles \in 0..MaxTroubles
  BY DEF Sound, Stored
<1>2. CASE Tick
  BY <1>1, <1>2, SemanticCacheAssumption DEF Tick, Trouble, Tables, Sound, Stored
<1>3. CASE CleanupExpired
  BY <1>1, <1>3 DEF CleanupExpired, Sound, Stored
<1>4. ASSUME NEW p \in Prompts, RedisExpires(p)
      PROVE  Sound' /\ UNCHANGED <<ranks, call, admin, dropped, raced>>
  BY <1>1, <1>4, SemanticCacheAssumption DEF RedisExpires, Del, Trouble, Sound, Stored
<1> QED BY <1>2, <1>3, <1>4 DEF Surroundings


-----------------------------------------------------------------------------
(* Paying once, and counting.                                              *)
LEMMA Countable ==
  /\ IsFiniteSet(Hits) /\ Cardinality(Hits) \in Nat
  /\ IsFiniteSet(Failing) /\ Cardinality(Failing) \in Nat
<1>1. Hits \in SUBSET Calls /\ Failing \in SUBSET Calls
  BY DEF Hits, Failing
<1>2. IsFiniteSet(Hits) /\ IsFiniteSet(Failing)
  BY <1>1, SemanticCacheAssumption, FS_Subset
<1> QED BY <1>2, FS_CardinalityType

(* A step of the cache alone ends no lookup and pays for nothing; only one *)
(* that fails leaves an error to be counted.                               *)
LEMMA CachePays ==
  ASSUME NEW c \in Calls, Sound, Bounded, CacheStep(c)
  PROVE  /\ call[c].at \in CacheAwaits
         /\ call'[c].source = "model" <=> call[c].source = "model"
         /\ call'[c].at = "answered" => call'[c].source = "model"
         /\ call'[c].at \in {"broke", "lost"} => CacheFails(c)
<1> DEFINE r == call[c]
           s == call'[c]
<1>1. r \in Call /\ CallSound(c, r) /\ call \in [Calls -> Call]
  BY DEF Sound
<1> USE DEF At
<1>2. CASE RedisGet(c)
  BY <1>1, <1>2 DEF RedisGet, Call, CacheAwaits, Lookups
<1>3. CASE RedisWriteBack(c)
  <2>1. r.source = "none"
    BY <1>1, <1>3 DEF RedisWriteBack, CallSound, Lookups
  <2> QED BY <1>1, <1>3, <2>1 DEF RedisWriteBack, LetsGo, Call, CacheAwaits, Lookups
<1>4. CASE DeleteExpired(c)
  BY <1>1, <1>4 DEF DeleteExpired, Goes, Call, CacheAwaits, Lookups
<1>5. CASE Search(c)
  <2>1. r.source = "none" /\ r.at = "search"
    BY <1>1, <1>5 DEF Search, CallSound, Lookups
  <2>2. (s.at = "missed" /\ s.source = "none") \/ (s.at = "fillKey" /\ s.source = "pgvector")
    <3>1. CASE Goes(c, "missed")
      BY <1>1, <2>1, <3>1 DEF Goes, Call
    <3>2. CASE ~Goes(c, "missed")
      <4>1. PICK e \in Matches(c) :
              call' = [call EXCEPT ![c].at = "fillKey", ![c].entry = e,
                                   ![c].source = "pgvector", ![c].seen = now]
        BY <1>5, <3>2 DEF Search
      <4> QED BY <1>1, <4>1 DEF Call
    <3> QED BY <3>1, <3>2
  <2> QED BY <2>1, <2>2 DEF CacheAwaits, Lookups
<1>6. CASE EmbedStore(c) \/ Insert(c) \/ FillKey(c) \/ FillRank(c)
  BY <1>1, <1>6
  DEF EmbedStore, Insert, FillKey, FillRank, Goes, Call, CacheAwaits, Stores, Fills
<1>7. CASE Size(c)
  <2>1. CASE Len(ranks) > maxSize
    BY <1>1, <1>7, <2>1 DEF Size, Call, CacheAwaits, Fills
  <2>2. CASE ~(Len(ranks) > maxSize)
    <3>1. s = Filled(c) /\ r.at = "size"
      BY <1>1, <1>7, <2>2 DEF Size
    <3> QED BY <1>1, <3>1, FilledSound DEF CacheAwaits, Fills
  <2> QED BY <2>1, <2>2
<1>8. CASE Oldest(c)
  <2> DEFINE n == IF r.excess < Len(ranks) THEN r.excess ELSE Len(ranks)
             v == SubSeq(ranks, 1, n)
  <2>1. r.at = "oldest" /\ s = IF v = <<>> THEN [Filled(c) EXCEPT !.excess = 0]
                               ELSE [r EXCEPT !.at = "evictKey", !.excess = 0, !.victims = v]
    BY <1>1, <1>8 DEF Oldest
  <2> HIDE DEF v
  <2>2. CASE v = <<>>
    BY <1>1, <2>1, <2>2, FilledSound DEF CacheAwaits, Fills
  <2>3. CASE v # <<>>
    BY <1>1, <2>1, <2>3 DEF CacheAwaits, Fills, Call
  <2> QED BY <2>2, <2>3
<1>9. CASE Evict(c)
  <2>1. CASE r.at = "evictKey"
    BY <1>1, <1>9, <2>1 DEF Evict, Goes, Call, CacheAwaits, Fills
  <2>2. CASE r.at = "evictRank"
    <3>1. s = IF Len(r.victims) = 1 THEN Filled(c)
              ELSE [r EXCEPT !.at = "evictKey", !.victims = Tail(r.victims)]
      BY <1>1, <1>9, <2>2 DEF Evict
    <3>2. CASE Len(r.victims) = 1
      BY <1>1, <2>2, <3>1, <3>2, FilledSound DEF CacheAwaits, Fills
    <3>3. CASE Len(r.victims) # 1
      BY <1>1, <2>2, <3>1, <3>3 DEF CacheAwaits, Fills, Call
    <3> QED BY <3>2, <3>3
  <2> QED BY <1>9, <2>1, <2>2 DEF Evict
<1>10. CASE CacheFails(c)
  BY <1>1, <1>10 DEF CacheFails, Call, CacheAwaits, Lookups, Stores, Fills
<1> QED BY <1>2, <1>3, <1>4, <1>5, <1>6, <1>7, <1>8, <1>9, <1>10 DEF CacheStep

LEMMA CacheKeepsPaid ==
  ASSUME NEW c \in Calls, Sound, Bounded, Paid, CacheStep(c), UNCHANGED clientVars
  PROVE  Paid'
<1>1. /\ call[c].at \in CacheAwaits
      /\ call'[c].source = "model" <=> call[c].source = "model"
      /\ call'[c].at = "answered" => call'[c].source = "model"
      /\ call'[c].at \in {"broke", "lost"} => CacheFails(c)
  BY CachePays
<1>2. \A d \in Calls : d # c => call'[d] = call[d]
  <2>1. PICK s : Becomes(c, s)
    BY CallBecomes
  <2> QED BY <2>1 DEF Becomes, Sound
<1>3. call[c].at \notin {"answered", "broke", "lost"}
  BY <1>1 DEF CacheAwaits, Lookups, Stores, Fills
<1>4. Hits' = Hits
  BY <1>1, <1>2, <1>3 DEF Hits, At
<1>5. Failing' = Failing \/ (CacheFails(c) /\ Failing' = Failing \cup {c} /\ c \notin Failing)
  BY <1>1, <1>2, <1>3 DEF Failing
<1>6. troubles \in Nat /\ (CacheFails(c) => troubles' = troubles + 1)
  BY SemanticCacheAssumption DEF Sound, Stored, CacheFails, Trouble
<1>7. troubles' \in Nat /\ troubles' >= troubles
  BY <1>6, CallStores
<1>8. metrics.errorCount + Cardinality(Failing)' <= troubles'
  <2>1. metrics.errorCount \in Nat /\ Cardinality(Failing) \in Nat
        /\ metrics.errorCount + Cardinality(Failing) <= troubles
    BY Countable DEF Paid
  <2>2. CASE Failing' = Failing
    <3>1. Cardinality(Failing') = Cardinality(Failing)
      BY <2>2
    <3> QED BY <1>6, <1>7, <2>1, <3>1
  <2>3. CASE Failing' # Failing
    <3>1. Cardinality(Failing') = Cardinality(Failing) + 1 /\ CacheFails(c)
      BY <1>5, <2>3, Countable, FS_AddElement
    <3> QED BY <1>6, <2>1, <3>1
  <2> QED BY <2>2, <2>3
<1>9. \A d \in Calls : answers'[d] = 1 <=> call'[d].source = "model"
  BY <1>1, <1>2 DEF Paid, clientVars
<1>10. metrics' = metrics /\ answers' = answers
  BY DEF clientVars
<1>11. metrics.hitCount = Cardinality(Hits)'
  BY <1>4 DEF Paid
<1> QED BY <1>8, <1>9, <1>10, <1>11 DEF Paid

(* A step of the client.                                                   *)
LEMMA ClientKeepsPaid ==
  ASSUME NEW c \in Calls, Sound, Bounded, Paid, ClientStep(c)
  PROVE  Paid'
<1> DEFINE r == call[c]
           s == call'[c]
<1>1. r \in Call /\ CallSound(c, r) /\ call \in [Calls -> Call] /\ call' \in [Calls -> Call]
  BY CallKeepsSound DEF Sound
<1>2. \A d \in Calls : d # c => call'[d] = call[d]
  <2>1. PICK t : Becomes(c, t)
    BY CallBecomes
  <2> QED BY <2>1 DEF Becomes, Sound
<1>3. /\ answers \in [Calls -> {0, 1}]
      /\ \A d \in Calls : answers[d] = 1 <=> call[d].source = "model"
      /\ metrics.hitCount = Cardinality(Hits)
      /\ metrics \in [hitCount : Nat, missCount : Nat, errorCount : Nat]
      /\ metrics.errorCount + Cardinality(Failing) <= troubles
      /\ Cardinality(Failing) \in Nat /\ metrics.errorCount \in Nat /\ metrics.hitCount \in Nat
      /\ troubles \in Nat /\ troubles' = troubles
  <2>1. troubles' = troubles
    BY DEF ClientStep, ChatCompletion, CacheChecked, ModelAnswers, ModelFails, Backoff, StoreFails,
           Alone
  <2>2. troubles \in Nat
    BY SemanticCacheAssumption DEF Sound, Stored
  <2> QED BY <2>1, <2>2, Countable DEF Paid
<1> USE DEF At
(* Who neither becomes a hit nor leaves an error behind.                   *)
<1>4. ASSUME r.at \notin {"answered", "broke", "lost"}, s.at \notin {"broke", "lost"},
             s.at = "answered" => s.source = "model"
      PROVE  Hits' = Hits /\ Failing' = Failing
  BY <1>2, <1>4 DEF Hits, Failing
<1>5. ASSUME Hits' = Hits, Failing' = Failing,
             \A d \in Calls : answers'[d] = 1 <=> call'[d].source = "model",
             answers' \in [Calls -> {0, 1}],
             metrics' = metrics \/ metrics' = [metrics EXCEPT !.missCount = @ + 1]
      PROVE  Paid'
  <2>1. Cardinality(Hits)' = Cardinality(Hits) /\ Cardinality(Failing)' = Cardinality(Failing)
    BY <1>5
  <2>2. /\ metrics' \in [hitCount : Nat, missCount : Nat, errorCount : Nat]
        /\ metrics'.hitCount = metrics.hitCount /\ metrics'.errorCount = metrics.errorCount
    BY <1>3, <1>5
  <2> QED BY <1>3, <1>5, <2>1, <2>2 DEF Paid
<1>6. CASE ChatCompletion(c)
  <2>1. PICK p \in Prompts, m \in Models :
          call' = [call EXCEPT ![c] = [Unasked EXCEPT !.prompt = p, !.model = m,
                                       !.at = IF m \in Excluded THEN "missed" ELSE "get"]]
    BY <1>6 DEF ChatCompletion
  <2>2. s.at \in {"missed", "get"} /\ s.source = "none"
    BY <1>1, <2>1 DEF Unasked
  <2>3. r.at = "idle" /\ r.source = "none" /\ UNCHANGED clientVars
    BY <1>1, <1>6 DEF ChatCompletion, CallSound
  <2> QED BY <1>2, <1>3, <1>4, <1>5, <2>2, <2>3 DEF clientVars
<1>7. CASE CacheChecked(c)
  <2>1. /\ answers' = answers
        /\ s = IF r.at = "found" THEN Answered(r.source)
               ELSE IF MaxAttempts = 0 THEN Threw ELSE [r EXCEPT !.at = "request"]
    BY <1>1, <1>7 DEF CacheChecked
  <2>2. CASE r.at = "found"
    <3>1. r.source \in {"redis", "pgvector"} /\ s.at = "answered" /\ s.source = r.source
      BY <1>1, <2>1, <2>2 DEF CallSound, Answered, Unasked
    <3>2. Hits' = Hits \cup {c} /\ c \notin Hits /\ Failing' = Failing
      BY <1>2, <2>2, <3>1 DEF Hits, Failing
    <3>3. metrics' = [metrics EXCEPT !.hitCount = @ + 1]
      BY <1>7, <2>2 DEF CacheChecked
    <3>4. Cardinality(Hits') = Cardinality(Hits) + 1
      BY <3>2, Countable, FS_AddElement
    <3>5. /\ metrics' \in [hitCount : Nat, missCount : Nat, errorCount : Nat]
          /\ metrics'.hitCount = metrics.hitCount + 1 /\ metrics'.errorCount = metrics.errorCount
      BY <1>3, <3>3
    <3>6. Cardinality(Hits)' = Cardinality(Hits) + 1 /\ Cardinality(Failing)' = Cardinality(Failing)
      BY <3>2, <3>4
    <3>7. \A d \in Calls : answers'[d] = 1 <=> call'[d].source = "model"
      BY <1>2, <1>3, <2>1, <3>1
    <3> QED BY <1>3, <2>1, <3>5, <3>6, <3>7 DEF Paid
  <2>3. CASE r.at = "missed"
    <3>1. /\ s.at \in {"threw", "request"} /\ s.source # "model" /\ r.source # "model"
          /\ metrics' = [metrics EXCEPT !.missCount = @ + 1]
      BY <1>1, <1>7, <2>1, <2>3 DEF CacheChecked, CallSound, Threw, Unasked, Call
    <3>2. \A d \in Calls : answers'[d] = 1 <=> call'[d].source = "model"
      BY <1>2, <1>3, <2>1, <3>1
    <3> QED BY <1>3, <1>4, <1>5, <2>1, <2>3, <3>1, <3>2
  <2>4. CASE r.at = "broke"
    <3>1. /\ s.at \in {"threw", "request"} /\ s.source # "model" /\ r.source # "model"
          /\ metrics' = [metrics EXCEPT !.errorCount = @ + 1]
      BY <1>1, <1>7, <2>1, <2>4 DEF CacheChecked, CallSound, Threw, Unasked, Call
    <3>2. Hits' = Hits /\ Failing' = Failing \ {c} /\ c \in Failing
      BY <1>2, <2>4, <3>1 DEF Hits, Failing
    <3>3. Cardinality(Failing') = Cardinality(Failing) - 1
      BY <3>2, Countable, FS_RemoveElement
    <3>4. /\ metrics' \in [hitCount : Nat, missCount : Nat, errorCount : Nat]
          /\ metrics'.hitCount = metrics.hitCount /\ metrics'.errorCount = metrics.errorCount + 1
      BY <1>3, <3>1
    <3>5. Cardinality(Hits)' = Cardinality(Hits) /\ Cardinality(Failing)' = Cardinality(Failing) - 1
      BY <3>2, <3>3
    <3>6. \A d \in Calls : answers'[d] = 1 <=> call'[d].source = "model"
      BY <1>2, <1>3, <2>1, <3>1
    <3> QED BY <1>3, <2>1, <3>4, <3>5, <3>6 DEF Paid
  <2> QED BY <1>7, <2>2, <2>3, <2>4 DEF CacheChecked
<1>8. CASE ModelAnswers(c)
  <2>1. r.at = "request" /\ r.source # "model" /\ answers[c] = 0
    BY <1>1, <1>3, <1>8 DEF ModelAnswers, CallSound
  <2>2. answers' = [answers EXCEPT ![c] = 1] /\ metrics' = metrics
    BY <1>3, <1>8, <2>1 DEF ModelAnswers
  <2>3. s.source = "model" /\ s.at \in {"answered", "embedStore"}
    BY <1>1, <1>8 DEF ModelAnswers, Answered, Unasked, Call
  <2>4. \A d \in Calls : answers'[d] = 1 <=> call'[d].source = "model"
    BY <1>2, <1>3, <2>2, <2>3
  <2> QED BY <1>3, <1>4, <1>5, <2>1, <2>2, <2>3, <2>4
<1>9. CASE ModelFails(c) \/ Backoff(c)
  <2>1. r.at \in {"request", "backoff"} /\ r.source # "model" /\ UNCHANGED clientVars
    BY <1>1, <1>9 DEF ModelFails, Backoff, CallSound, clientVars
  <2>2. s.at \in {"threw", "request", "backoff"} /\ s.source # "model"
    BY <1>1, <1>9, <2>1 DEF ModelFails, Backoff, Waits, Goes, Threw, Unasked, Call
  <2>3. \A d \in Calls : answers'[d] = 1 <=> call'[d].source = "model"
    BY <1>2, <1>3, <2>1, <2>2 DEF clientVars
  <2> QED BY <1>3, <1>4, <1>5, <2>1, <2>2, <2>3 DEF clientVars
<1>10. CASE StoreFails(c)
  <2>1. /\ r.at = "lost" /\ r.source = "model" /\ s.at = "answered" /\ s.source = "model"
        /\ metrics' = [metrics EXCEPT !.errorCount = @ + 1] /\ answers' = answers
    BY <1>1, <1>10 DEF StoreFails, CallSound, Answered, Unasked
  <2>2. Hits' = Hits /\ Failing' = Failing \ {c} /\ c \in Failing
    BY <1>2, <2>1 DEF Hits, Failing
  <2>3. Cardinality(Failing') = Cardinality(Failing) - 1
    BY <2>2, Countable, FS_RemoveElement
  <2>4. /\ metrics' \in [hitCount : Nat, missCount : Nat, errorCount : Nat]
        /\ metrics'.hitCount = metrics.hitCount /\ metrics'.errorCount = metrics.errorCount + 1
    BY <1>3, <2>1
  <2>5. Cardinality(Hits)' = Cardinality(Hits) /\ Cardinality(Failing)' = Cardinality(Failing) - 1
    BY <2>2, <2>3
  <2>6. \A d \in Calls : answers'[d] = 1 <=> call'[d].source = "model"
    BY <1>2, <1>3, <2>1
  <2> QED BY <1>3, <2>1, <2>4, <2>5, <2>6 DEF Paid
<1> QED BY <1>6, <1>7, <1>8, <1>9, <1>10 DEF ClientStep

(* Everybody else leaves both alone.                                       *)
LEMMA OthersKeepPaid ==
  ASSUME Paid, Sound, UNCHANGED <<clientVars, call>>, troubles' \in Nat, troubles' >= troubles
  PROVE  Paid'
<1>1. Hits' = Hits /\ Failing' = Failing
  BY DEF Hits, Failing, At
<1>2. Cardinality(Hits)' = Cardinality(Hits) /\ Cardinality(Failing)' = Cardinality(Failing)
  BY <1>1
<1>3. metrics.errorCount \in Nat /\ Cardinality(Failing) \in Nat /\ troubles \in Nat
  BY Countable, SemanticCacheAssumption DEF Paid, Sound, Stored
<1>4. metrics.errorCount + Cardinality(Failing) <= troubles'
  BY <1>3 DEF Paid
<1> QED BY <1>2, <1>4 DEF Paid, clientVars


-----------------------------------------------------------------------------
(* What was invalidated stays out.                                         *)
Inserted(c) == call[c].source = "model" /\ call[c].at \notin {"embedStore", "insert"}

LEMMA CopiesAreEntries ==
  ASSUME Sound
  PROVE  /\ Copies \subseteq Entry /\ \A e \in Copies : e.by \in Calls /\ e.prompt \in Prompts
         /\ Rows \cup Hot \subseteq Copies /\ NoEntry \notin Copies
         /\ \A p \in Prompts : redis[p] \in Copies \cup {NoEntry}
         /\ \A c \in Calls : call[c].at \in {"writeBack"} \cup Fills => call[c].entry \in Copies
         /\ \A a \in Admins : admin[a].entry \in Copies \cup {NoEntry}
<1>1. Rows \subseteq Entry /\ Hot \subseteq Entry
  BY DEF Sound, Stored, Rows, Hot
<1>2. Held \subseteq Entry
  BY DEF Held, Sound, Call, Admin
<1>3. Copies \subseteq Entry /\ Rows \cup Hot \subseteq Copies
  BY <1>1, <1>2 DEF Copies
<1>4. \A e \in Copies : e.by \in Calls /\ e.prompt \in Prompts
  BY <1>3 DEF Entry
<1>5. \A p \in Prompts : redis[p] \in Copies \cup {NoEntry}
  BY DEF Hot, Copies
<1>6. ASSUME NEW c \in Calls, call[c].at \in {"writeBack"} \cup Fills
      PROVE  call[c].entry \in Copies
  <2>1. call[c].at \in CacheAwaits \ {"insert"} /\ call[c].at \notin EmptyHanded
    BY <1>6 DEF CacheAwaits, Lookups, Fills, EmptyHanded, Ended
  <2>2. call[c].entry # NoEntry
    BY <2>1 DEF Sound, CallSound
  <2> QED BY <2>1, <2>2 DEF Held, Copies
<1>7. \A a \in Admins : admin[a].entry \in Copies \cup {NoEntry}
  BY DEF Held, Copies
<1> QED BY <1>3, <1>4, <1>5, <1>6, <1>7, NoEntryAssumption

(* Steps that make no new copy.                                            *)
LEMMA NothingNew ==
  ASSUME Sound, Out, Copies' \subseteq Copies, Rows' \subseteq Rows,
         dropped' = dropped, raced \subseteq raced',
         \A c \in Calls : Inserted(c) => Inserted(c)',
         \A e \in Copies, a \in Admins : e.by \notin raced' /\ Responsible(a, e) =>
             \E b \in Admins : Responsible(b, e)'
  PROVE  Out'
<1>1. \A e, f \in Copies' : e.by = f.by => e = f
  BY DEF Out
<1>2. \A b \in dropped' \cup {e.by : e \in Copies'} :
        call'[b].source = "model" /\ call'[b].at \notin {"embedStore", "insert"}
  <2> SUFFICES ASSUME NEW b \in dropped' \cup {e.by : e \in Copies'} PROVE Inserted(b)'
    BY DEF Inserted
  <2>1. b \in dropped \cup {e.by : e \in Copies}
    OBVIOUS
  <2>2. b \in Calls /\ Inserted(b)
    BY <2>1, CopiesAreEntries DEF Inserted, Out, Sound, Stored
  <2> QED BY <2>2
<1>3. ASSUME NEW e \in Copies', e.by \in dropped' \ raced'
      PROVE  \E a \in Admins : Responsible(a, e)'
  <2>1. e \in Copies /\ e.by \in dropped \ raced /\ e.by \notin raced'
    BY <1>3
  <2>2. \E a \in Admins : Responsible(a, e)
    BY <2>1 DEF Out
  <2> QED BY <2>1, <2>2
<1>4. \A e \in Rows' : e.by \notin dropped'
  BY DEF Out
<1> QED BY <1>1, <1>2, <1>3, <1>4 DEF Out, Responsible

(* What a step of a call takes into its hand was a copy before, and a call *)
(* that has inserted its entry never stores again.                         *)
LEMMA TakesCopies ==
  ASSUME NEW c \in Calls, Sound, Bounded, CacheStep(c)
  PROVE  call'[c].at \in {"writeBack"} \cup Fills =>
           call'[c].entry \in Copies \/ (Insert(c) /\ call'[c].entry = call[c].entry)
<1> DEFINE r == call[c]
           s == call'[c]
<1> SUFFICES ASSUME s.at \in {"writeBack"} \cup Fills
             PROVE  s.entry \in Copies \/ (Insert(c) /\ s.entry = r.entry)
  OBVIOUS
<1>1. r \in Call /\ CallSound(c, r) /\ call \in [Calls -> Call] /\ CallSound(c, s)
  BY CallKeepsSound DEF Sound
<1>2. s.entry # NoEntry
  BY <1>1 DEF CallSound, EmptyHanded, Ended, Fills
<1>3. \A x : x \in Copies <=> x \in Rows \cup Hot \cup Held
  BY DEF Copies
<1> USE DEF At
<1>4. CASE RedisGet(c)
  <2>1. r.prompt \in Prompts /\ s.entry = redis[r.prompt]
    BY <1>1, <1>4 DEF RedisGet, CallSound, Ended, Call
  <2> QED BY <1>2, <2>1, CopiesAreEntries
<1>5. CASE RedisWriteBack(c) \/ DeleteExpired(c) \/ EmbedStore(c) \/ CacheFails(c)
  <2>1. s.at \in {"found", "search", "delKey", "delRank", "insert", "broke", "lost"}
    BY <1>1, <1>5 DEF RedisWriteBack, LetsGo, DeleteExpired, Goes, EmbedStore, CacheFails, Call
  <2> QED BY <2>1 DEF Fills
<1>6. CASE Search(c)
  <2>1. CASE Goes(c, "missed")
    BY <1>1, <2>1 DEF Goes, Call, Fills
  <2>2. CASE ~Goes(c, "missed")
    <3>1. PICK e \in Matches(c) :
            call' = [call EXCEPT ![c].at = "fillKey", ![c].entry = e,
                                 ![c].source = "pgvector", ![c].seen = now]
      BY <1>6, <2>2 DEF Search
    <3>2. e \in Rows /\ s.entry = e
      BY <1>1, <3>1 DEF Matches, Call
    <3> QED BY <1>3, <3>2
  <2> QED BY <2>1, <2>2
<1>7. CASE Insert(c)
  BY <1>1, <1>7 DEF Insert, Goes, Call
<1>8. CASE FillKey(c) \/ FillRank(c)
  <2>1. r.at \in Fills /\ s.entry = r.entry
    BY <1>1, <1>8 DEF FillKey, FillRank, Goes, Call, Fills
  <2> QED BY <2>1, CopiesAreEntries
<1>9. CASE Size(c)
  <2>1. r.at \in Fills
    BY <1>9 DEF Size, Fills
  <2>2. CASE Len(ranks) > maxSize
    <3>1. s.entry = r.entry
      BY <1>1, <1>9, <2>2 DEF Size, Call
    <3> QED BY <2>1, <3>1, CopiesAreEntries
  <2>3. CASE ~(Len(ranks) > maxSize)
    <3>1. s = Filled(c)
      BY <1>1, <1>9, <2>3 DEF Size
    <3> QED BY <1>1, <2>1, <3>1, FilledSound DEF Fills
  <2> QED BY <2>2, <2>3
<1>10. CASE Oldest(c)
  <2> DEFINE n == IF r.excess < Len(ranks) THEN r.excess ELSE Len(ranks)
             v == SubSeq(ranks, 1, n)
  <2>1. r.at \in Fills /\ s = IF v = <<>> THEN [Filled(c) EXCEPT !.excess = 0]
                              ELSE [r EXCEPT !.at = "evictKey", !.excess = 0, !.victims = v]
    BY <1>1, <1>10 DEF Oldest, Fills
  <2> HIDE DEF v
  <2>2. CASE v = <<>>
    BY <1>1, <2>1, <2>2, FilledSound DEF Fills
  <2>3. CASE v # <<>>
    <3>1. s.entry = r.entry
      BY <1>1, <2>1, <2>3 DEF Call
    <3> QED BY <2>1, <3>1, CopiesAreEntries
  <2> QED BY <2>2, <2>3
<1>11. CASE Evict(c)
  <2>1. r.at \in Fills
    BY <1>11 DEF Evict, Fills
  <2>2. CASE r.at = "evictKey"
    <3>1. s.entry = r.entry
      BY <1>1, <1>11, <2>2 DEF Evict, Goes, Call
    <3> QED BY <2>1, <3>1, CopiesAreEntries
  <2>3. CASE r.at = "evictRank"
    <3>1. s = IF Len(r.victims) = 1 THEN Filled(c)
              ELSE [r EXCEPT !.at = "evictKey", !.victims = Tail(r.victims)]
      BY <1>1, <1>11, <2>3 DEF Evict
    <3>2. CASE Len(r.victims) = 1
      BY <1>1, <2>1, <3>1, <3>2, FilledSound DEF Fills
    <3>3. CASE Len(r.victims) # 1
      <4>1. s.entry = r.entry
        BY <1>1, <3>1, <3>3 DEF Call
      <4> QED BY <2>1, <4>1, CopiesAreEntries
    <3> QED BY <3>2, <3>3
  <2> QED BY <1>11, <2>2, <2>3 DEF Evict
<1> QED BY <1>4, <1>5, <1>6, <1>7, <1>8, <1>9, <1>10, <1>11 DEF CacheStep

LEMMA InsertedOnce ==
  ASSUME NEW c \in Calls, Sound, Bounded, ClientStep(c) \/ CacheStep(c), NEW d \in Calls,
         Inserted(d)
  PROVE  Inserted(d)'
<1> DEFINE r == call[c]
           s == call'[c]
<1>1. /\ \A x \in Calls : x # c => call'[x] = call[x]
      /\ r \in Call /\ CallSound(c, r) /\ call \in [Calls -> Call] /\ CallSound(c, s)
  <2>1. PICK t : Becomes(c, t)
    BY CallBecomes
  <2> QED BY <2>1, CallKeepsSound DEF Becomes, Sound
<1>2. CASE d # c
  BY <1>1, <1>2 DEF Inserted
<1>3. CASE d = c
  <2>1. r.source = "model" /\ r.at \notin {"embedStore", "insert"}
    BY <1>3 DEF Inserted
  <2>2. CASE ClientStep(c)
    <3>1. r.at \notin {"idle", "found", "missed", "broke", "request", "backoff"}
      BY <1>1, <2>1 DEF CallSound
    <3>2. StoreFails(c)
      BY <2>2, <3>1
      DEF ClientStep, ChatCompletion, CacheChecked, ModelAnswers, ModelFails, Backoff, At
    <3>3. s = Answered("model")
      BY <1>1, <3>2 DEF StoreFails
    <3> QED BY <1>3, <3>3 DEF Inserted, Answered, Unasked
  <2>3. CASE CacheStep(c)
    <3>1. s.source = "model"
      BY <2>1, <2>3, CachePays
    <3>2. r.at \in Fills
      <4>1. r.at \in CacheAwaits
        BY <2>3, CachePays
      <4> QED BY <1>1, <2>1, <4>1 DEF CallSound, CacheAwaits, Stores
    <3>3. s.at \notin {"embedStore", "insert"}
      <4>1. ~EmbedStore(c) /\ ~Insert(c) /\ ~RedisGet(c) /\ ~RedisWriteBack(c)
            /\ ~DeleteExpired(c) /\ ~Search(c)
        BY <3>2 DEF EmbedStore, Insert, RedisGet, RedisWriteBack, DeleteExpired, Search, At, Fills
      <4>2. CASE FillKey(c) \/ FillRank(c) \/ CacheFails(c)
        BY <1>1, <4>2 DEF FillKey, FillRank, CacheFails, Goes, Call
      <4>3. CASE Size(c)
        <5>1. s = Filled(c) \/ s.at = "oldest"
          BY <1>1, <4>3 DEF Size, Call
        <5> QED BY <1>1, <3>2, <5>1, FilledSound
      <4>4. CASE Oldest(c)
        <5>1. s = [Filled(c) EXCEPT !.excess = 0] \/ s.at = "evictKey"
          BY <1>1, <4>4 DEF Oldest, Call
        <5> QED BY <1>1, <3>2, <5>1, FilledSound
      <4>5. CASE Evict(c)
        <5>1. s = Filled(c) \/ s.at \in {"evictRank", "evictKey"}
          BY <1>1, <4>5, ZenonT(40) DEF Evict, Goes, Call
        <5> QED BY <1>1, <3>2, <5>1, FilledSound
      <4> QED BY <2>3, <4>1, <4>2, <4>3, <4>4, <4>5 DEF CacheStep
    <3> QED BY <1>3, <3>1, <3>3 DEF Inserted
  <2> QED BY <2>2, <2>3
<1> QED BY <1>2, <1>3

(* Where the copies are after a step of a call.                            *)
LEMMA CopiesOfCall ==
  ASSUME NEW c \in Calls, NEW X, Sound, Bounded, ClientStep(c) \/ CacheStep(c),
         Copies \subseteq X, Rows' \subseteq X, \A p \in Prompts : redis'[p] \in X \cup {NoEntry},
         call'[c].at \in {"writeBack"} \cup Fills => call'[c].entry \in X
  PROVE  Copies' \subseteq X
<1>1. /\ \A d \in Calls : d # c => call'[d] = call[d]
      /\ CallSound(c, call'[c]) /\ admin' = admin
  <2>1. PICK t : Becomes(c, t)
    BY CallBecomes
  <2> QED BY <2>1, CallKeepsSound, CallStores DEF Becomes, Sound
<1>2. Hot' \subseteq X
  BY DEF Hot
<1>3. ASSUME NEW d \in Calls, call'[d].at \in CacheAwaits \ {"insert"}, call'[d].entry # NoEntry
      PROVE  call'[d].entry \in X
  <2>1. CASE d = c
    <3>1. call'[c].at \in {"writeBack"} \cup Fills
      BY <1>1, <1>3, <2>1 DEF CallSound, EmptyHanded, CacheAwaits, Lookups, Stores
    <3> QED BY <2>1, <3>1
  <2>2. CASE d # c
    BY <1>1, <1>3, <2>2 DEF Held, Copies
  <2> QED BY <2>1, <2>2
<1>4. ASSUME NEW a \in Admins, admin'[a].entry # NoEntry PROVE admin'[a].entry \in X
  BY <1>1, <1>4 DEF Held, Copies
<1>5. Held' \subseteq X
  BY <1>3, <1>4 DEF Held
<1> QED BY <1>2, <1>5 DEF Copies

LEMMA CallKeepsOut ==
  ASSUME NEW c \in Calls, Sound, Bounded, Out, ClientStep(c) \/ CacheStep(c)
  PROVE  Out'
<1> DEFINE r == call[c]
           s == call'[c]
<1>1. r \in Call /\ CallSound(c, r) /\ CallSound(c, s) /\ call \in [Calls -> Call]
  BY CallKeepsSound DEF Sound
<1>2. UNCHANGED <<admin, dropped, raced>>
  BY CallStores
<1>3. \A d \in Calls : Inserted(d) => Inserted(d)'
  BY InsertedOnce
<1>4. \A p \in Prompts : redis'[p] \in Copies \cup {NoEntry}
  <2>1. ASSUME NEW p \in Prompts PROVE redis[p] \in Copies \cup {NoEntry}
    BY CopiesAreEntries
  <2>2. CASE redis' = redis
    BY <2>1, <2>2
  <2>3. ASSUME NEW q, redis' = [redis EXCEPT ![q] = NoEntry]
        PROVE  \A p \in Prompts : redis'[p] \in Copies \cup {NoEntry}
    BY <2>1, <2>3 DEF Sound, Stored
  <2>4. ASSUME NEW q, redis' = [redis EXCEPT ![q] = r.entry], r.at \in {"writeBack"} \cup Fills
        PROVE  \A p \in Prompts : redis'[p] \in Copies \cup {NoEntry}
    <3>1. r.entry \in Copies
      BY <2>4, CopiesAreEntries
    <3> QED BY <2>1, <2>4, <3>1 DEF Sound, Stored
  <2>5. CASE RedisWriteBack(c)
    BY <2>4, <2>5 DEF RedisWriteBack, WritesBack, At
  <2>6. CASE FillKey(c)
    BY <2>4, <2>6 DEF FillKey, At, Fills
  <2>7. CASE DeleteExpired(c) \/ Evict(c)
    BY <2>2, <2>3, <2>7 DEF DeleteExpired, Evict, Del, ZRem
  <2>8. CASE ClientStep(c)
    BY <2>2, <2>8 DEF ClientStep, ChatCompletion, CacheChecked, ModelAnswers, ModelFails,
                      Backoff, StoreFails, Alone, Tables
  <2>9. CASE RedisGet(c) \/ Search(c) \/ EmbedStore(c) \/ Insert(c) \/ FillRank(c) \/ Size(c)
             \/ Oldest(c) \/ CacheFails(c)
    BY <2>2, <2>9 DEF RedisGet, Search, EmbedStore, Insert, FillRank, Size, Oldest, CacheFails,
                      Tables
  <2> QED BY <2>5, <2>6, <2>7, <2>8, <2>9 DEF CacheStep
<1>5. ~Insert(c) => pg' = pg
  BY DEF CacheStep, ClientStep, ChatCompletion, CacheChecked, ModelAnswers, ModelFails, Backoff,
         StoreFails, Alone, RedisGet, RedisWriteBack, DeleteExpired, Search, EmbedStore, FillKey,
         FillRank, Size, Oldest, Evict, CacheFails, Tables
<1>6. ClientStep(c) => s.at \notin {"writeBack"} \cup Fills
  <2>1. ChatCompletion(c) => s.at \in {"missed", "get"}
    BY <1>1 DEF ChatCompletion, Unasked
  <2>2. CacheChecked(c) => s.at \in {"answered", "threw", "request"}
    BY <1>1 DEF CacheChecked, Answered, Threw, Unasked, Call
  <2>3. ModelAnswers(c) => s.at \in {"answered", "embedStore"}
    BY <1>1 DEF ModelAnswers, Answered, Unasked, Call
  <2>4. ModelFails(c) \/ Backoff(c) \/ StoreFails(c) =>
          s.at \in {"threw", "backoff", "request", "answered"}
    <3>1. Threw.at = "threw" /\ Answered("model").at = "answered"
      BY DEF Threw, Answered, Unasked
    <3>2. StoreFails(c) => s = Answered("model")
      BY <1>1 DEF StoreFails
    <3>3. Backoff(c) => s.at = "request"
      BY <1>1 DEF Backoff, Goes, Call
    <3>4. ModelFails(c) => s = Threw \/ s.at = "backoff"
      BY <1>1 DEF ModelFails, Waits, Call
    <3> QED BY <3>1, <3>2, <3>3, <3>4
  <2> QED BY <2>1, <2>2, <2>3, <2>4 DEF ClientStep, Fills
<1>7. CASE ~Insert(c)
  <2>1. Rows' = Rows /\ Rows \subseteq Copies
    BY <1>5, <1>7 DEF Rows, Copies
  <2>2. s.at \in {"writeBack"} \cup Fills => s.entry \in Copies
    BY <1>6, <1>7, TakesCopies
  <2>3. Copies' \subseteq Copies
    BY <1>4, <2>1, <2>2, CopiesOfCall
  <2>4. \A e, a : Responsible(a, e)' <=> Responsible(a, e)
    BY <1>2 DEF Responsible
  <2> QED BY <1>2, <1>3, <2>1, <2>3, <2>4, NothingNew
(* The entry that is inserted is the first with its author.                *)
<1>8. CASE Insert(c)
  <2> DEFINE e0 == r.entry
             X == Copies \cup {e0}
  <2>1. /\ r.at = "insert" /\ e0.by = c /\ e0 \in Entry /\ r.source = "model"
        /\ r.prompt \in Prompts /\ r.model \in Models
    BY <1>1, <1>8 DEF Insert, At, CallSound, EmptyHanded, Ended, Call
  <2>2. s.at = "fillKey" /\ s.entry = e0 /\ s.source = "model"
    BY <1>1, <1>8, <2>1 DEF Insert, Goes, Call
  <2>3. Rows' \subseteq Rows \cup {e0}
    BY <1>8, <2>1 DEF Insert, Rows, Sound, Stored
  <2>4. Copies' \subseteq X
    <3>1. Copies \subseteq X /\ Rows \subseteq Copies
      BY DEF Copies
    <3> HIDE DEF X
    <3>2. Rows' \subseteq X /\ e0 \in X
      BY <2>3, <3>1 DEF X
    <3>3. \A p \in Prompts : redis'[p] \in X \cup {NoEntry}
      BY <1>4, <3>1
    <3> QED BY <2>2, <3>1, <3>2, <3>3, CopiesOfCall
  <2>5. ~Inserted(c) /\ \A b \in dropped \cup {e.by : e \in Copies} : b \in Calls /\ Inserted(b)
    BY <2>1, CopiesAreEntries DEF Inserted, Out, Sound, Stored
  <2>6. c \notin dropped /\ \A e \in Copies : e.by # c
    BY <2>5
  <2>7. \A e, f \in Copies' : e.by = f.by => e = f
    BY <2>1, <2>4, <2>6 DEF Out
  <2>8. ASSUME NEW b \in dropped' \cup {e.by : e \in Copies'}
        PROVE  call'[b].source = "model" /\ call'[b].at \notin {"embedStore", "insert"}
    <3>1. b \in dropped \cup {e.by : e \in Copies} \/ b = c
      BY <1>2, <2>1, <2>4
    <3>2. CASE b = c
      BY <2>2, <3>2
    <3>3. CASE b \in dropped \cup {e.by : e \in Copies}
      BY <1>3, <2>5, <3>3 DEF Inserted
    <3> QED BY <3>1, <3>2, <3>3
  <2>9. ASSUME NEW e \in Copies', e.by \in dropped' \ raced'
        PROVE  \E a \in Admins : Responsible(a, e)'
    <3>1. e # e0 /\ e \in Copies /\ e.by \in dropped \ raced
      BY <1>2, <2>1, <2>4, <2>6, <2>9
    <3>2. \E a \in Admins : Responsible(a, e)
      BY <3>1 DEF Out
    <3> QED BY <1>2, <3>1, <3>2 DEF Responsible
  <2>10. \A e \in Rows' : e.by \notin dropped'
    BY <1>2, <2>1, <2>3, <2>6 DEF Out
  <2> QED BY <2>7, <2>8, <2>9, <2>10 DEF Out, Responsible
<1> QED BY <1>7, <1>8

(* Where the copies are after a step of an administrator.                  *)
LEMMA CopiesOfAdmin ==
  ASSUME NEW a \in Admins, Sound, Bounded, AdminStep(a),
         Rows' \subseteq Rows, \A p \in Prompts : redis'[p] \in Copies \cup {NoEntry},
         admin'[a].entry \in Copies \cup {NoEntry}
  PROVE  Copies' \subseteq Copies
<1>1. /\ \A b \in Admins : b # a => admin'[b] = admin[b]
      /\ call' = call
  <2>1. PICK t : Turned(a, t)
    BY InvalidationSound, StatisticsSound DEF AdminStep, Bounded
  <2> QED BY <2>1, AdminStores DEF Turned, Sound
<1>2. Hot' \subseteq Copies /\ Rows' \subseteq Copies
  BY DEF Hot, Copies
<1>3. ASSUME NEW b \in Admins, admin'[b].entry # NoEntry PROVE admin'[b].entry \in Copies
  BY <1>1, <1>3, CopiesAreEntries
<1>4. Held' \subseteq Copies
  BY <1>1, <1>3 DEF Held, Copies
<1> QED BY <1>2, <1>4 DEF Copies

(* What is not the end of an invalidation.                                 *)
LEMMA StatisticsKeepOut ==
  ASSUME NEW a \in Admins, Sound, Bounded, Out,
         InvalidationStart(a) \/ ClearRanks(a) \/ StatsStart(a) \/ StatsList(a) \/ StatsGet(a)
         \/ StatsWriteBack(a)
  PROVE  Out'
<1> DEFINE r == admin[a]
<1>1. AdminStep(a) /\ AdminSound(r) /\ r \in Admin /\ admin \in [Admins -> Admin]
  BY DEF AdminStep, Sound
<1>2. /\ \A b \in Admins : b # a => admin'[b] = admin[b]
      /\ call' = call
  <2>1. PICK t : Turned(a, t)
    BY <1>1, InvalidationSound, StatisticsSound DEF AdminStep, Bounded
  <2> QED BY <1>1, <2>1, AdminStores DEF Turned, Sound
<1>3. pg' = pg /\ dropped' = dropped /\ raced \subseteq raced' /\ r.at \notin {"keys", "delKeys"}
  <2>1. pg' = pg /\ dropped' = dropped /\ raced \subseteq raced'
    BY DEF InvalidationStart, ClearRanks, StatsStart, StatsList, StatsGet, StatsWriteBack, Tables
  <2>2. r = Unrequested \/ r.at \in {"delRanks", "list", "get", "writeBack"}
    BY DEF InvalidationStart, ClearRanks, StatsStart, StatsList, StatsGet, StatsWriteBack
  <2> QED BY <2>1, <2>2 DEF Unrequested
<1>4. \A p \in Prompts : redis'[p] \in Copies \cup {NoEntry}
  <2>1. \A p \in Prompts : redis[p] \in Copies \cup {NoEntry}
    BY CopiesAreEntries
  <2>2. CASE StatsWriteBack(a)
    <3>1. r.entry \in Copies \cup {NoEntry}
      BY CopiesAreEntries
    <3>2. redis' = [redis EXCEPT ![r.prompts[1]] = r.entry]
      BY <2>2 DEF StatsWriteBack, WritesBack
    <3> QED BY <2>1, <3>1, <3>2 DEF Sound, Stored
  <2>3. CASE ~StatsWriteBack(a)
    BY <2>1, <2>3 DEF InvalidationStart, ClearRanks, StatsStart, StatsList, StatsGet, Tables
  <2> QED BY <2>2, <2>3
<1>5. admin'[a].entry \in Copies \cup {NoEntry}
  <2>1. Unrequested.entry = NoEntry /\ [Unrequested EXCEPT !.at = "ok"].entry = NoEntry
    BY DEF Unrequested
  <2>2. CASE InvalidationStart(a) \/ StatsStart(a)
    <3>1. r.entry = NoEntry
      BY <2>1, <2>2 DEF InvalidationStart, StatsStart
    <3>2. StatsStart(a) => admin'[a].entry = r.entry
      BY <1>1 DEF StatsStart, Admin
    <3>3. InvalidationStart(a) => admin'[a].entry = r.entry
      <4> SUFFICES ASSUME InvalidationStart(a) PROVE admin'[a].entry = r.entry
        OBVIOUS
      <4>1. \/ \E m \in Models : admin'[a] = [r EXCEPT !.at = "delete", !.does = "model", !.model = m]
            \/ \E p \in Prompts :
                  admin'[a] = [r EXCEPT !.at = "delete", !.does = "prompt", !.prompts = <<p>>]
            \/ admin'[a] = [r EXCEPT !.at = "delete", !.does = "all"]
        BY <1>1 DEF InvalidationStart
      <4> QED BY <1>1, <4>1 DEF Admin
    <3> QED BY <2>2, <3>1, <3>2, <3>3
  <2>3. CASE ClearRanks(a)
    BY <1>1, <2>1, <2>3 DEF ClearRanks
  <2>4. ASSUME NEW rest, StatsNext(a, rest) PROVE admin'[a].entry = NoEntry
    BY <1>1, <2>1, <2>4 DEF StatsNext, Admin
  <2>5. CASE StatsList(a) \/ StatsWriteBack(a)
    BY <2>4, <2>5 DEF StatsList, StatsWriteBack
  <2>6. CASE StatsGet(a)
    <3> DEFINE e == redis[r.prompts[1]]
    <3>1. CASE e = NoEntry
      BY <2>4, <2>6, <3>1 DEF StatsGet
    <3>2. CASE e # NoEntry
      <4>1. r.prompts[1] \in Prompts
        <5>1. r.prompts \in Seq(Prompts) /\ r.prompts # <<>>
          BY <1>1, <2>6 DEF StatsGet, AdminSound, Admin
        <5> QED BY <5>1, HeadAndTail
      <4>2. admin'[a].entry = e
        BY <1>1, <2>6, <3>2 DEF StatsGet, Admin
      <4> QED BY <4>1, <4>2, CopiesAreEntries
    <3> QED BY <3>1, <3>2
  <2> QED BY <2>2, <2>3, <2>5, <2>6
<1>6. Rows' = Rows
  BY <1>3 DEF Rows
<1>7. Copies' \subseteq Copies
  BY <1>1, <1>4, <1>5, <1>6, CopiesOfAdmin
<1>8. \A e \in Copies, b \in Admins : Responsible(b, e) => Responsible(b, e)'
  BY <1>2, <1>3 DEF Responsible
<1>9. \A d \in Calls : Inserted(d) => Inserted(d)'
  BY <1>2 DEF Inserted
<1> QED BY <1>3, <1>6, <1>7, <1>8, <1>9, NothingNew

(* The rows go first: whoever has taken them away sees to the keys.        *)
LEMMA RowsKeepOut ==
  ASSUME NEW a \in Admins, Sound, Bounded, Out, InvalidateRows(a)
  PROVE  Out'
<1> DEFINE r == admin[a]
           Gone == {x \in Rows \cup Hot : Concerns(a, x)}
<1>1. /\ AdminSound(r) /\ r \in Admin /\ admin \in [Admins -> Admin] /\ r.at = "delete"
      /\ r.does # "stats" /\ r.does # "none"
  BY DEF Sound, InvalidateRows, AdminSound
<1>2. /\ call' = call /\ redis' = redis
      /\ pg' = [k \in DOMAIN pg |-> IF pg[k] # NoEntry /\ Concerns(a, pg[k]) THEN NoEntry ELSE pg[k]]
      /\ dropped' = dropped \cup {e.by : e \in Gone}
      /\ raced' = raced \cup InHand
      /\ admin' = [admin EXCEPT ![a].at = IF r.does = "prompt" THEN "delKeys" ELSE "keys"]
  BY DEF InvalidateRows, Still, Turns
<1>3. Rows' = {x \in Rows : ~Concerns(a, x)}
  BY <1>2 DEF Rows
<1>4. /\ admin'[a].at = IF r.does = "prompt" THEN "delKeys" ELSE "keys"
      /\ admin'[a].prompts = r.prompts /\ admin'[a].entry = r.entry
      /\ \A b \in Admins : b # a => admin'[b] = admin[b]
  BY <1>1, <1>2 DEF Admin
<1>5. Copies' \subseteq Copies
  <2>1. AdminStep(a)
    BY DEF AdminStep
  <2>2. Rows' \subseteq Rows
    BY <1>3
  <2>3. \A p \in Prompts : redis'[p] \in Copies \cup {NoEntry}
    BY <1>2, CopiesAreEntries
  <2>4. admin'[a].entry \in Copies \cup {NoEntry}
    BY <1>4, CopiesAreEntries
  <2> QED BY <2>1, <2>2, <2>3, <2>4, CopiesOfAdmin
<1>6. Gone \subseteq Copies
  BY DEF Copies
<1>7. \A e, f \in Copies' : e.by = f.by => e = f
  BY <1>5 DEF Out
<1>8. \A b \in dropped' \cup {e.by : e \in Copies'} :
        call'[b].source = "model" /\ call'[b].at \notin {"embedStore", "insert"}
  BY <1>2, <1>5, <1>6 DEF Out
<1>9. ASSUME NEW e \in Copies', e.by \in dropped' \ raced'
      PROVE  \E b \in Admins : Responsible(b, e)'
  <2>1. e \in Copies /\ e.by \notin raced
    BY <1>2, <1>5, <1>9
  <2>2. CASE e.by \in dropped
    <3>1. \E b \in Admins : Responsible(b, e)
      BY <2>1, <2>2 DEF Out
    <3>2. PICK b \in Admins : Responsible(b, e)
      BY <3>1
    <3>3. b # a
      BY <1>1, <3>2 DEF Responsible
    <3>4. Responsible(b, e)'
      BY <1>4, <3>2, <3>3 DEF Responsible
    <3> QED BY <3>4
  <2>3. CASE e.by \notin dropped
    <3>1. PICK x \in Gone : x.by = e.by
      BY <1>2, <1>9, <2>3
    <3>2. x = e
      BY <1>6, <2>1, <3>1 DEF Out
    <3>3. Concerns(a, e)
      BY <3>1, <3>2
    <3>4. Responsible(a, e)'
      <4>1. CASE r.does = "prompt"
        <5>1. e.prompt = r.prompts[1]
          BY <3>3, <4>1 DEF Concerns
        <5>2. r.prompts \in Seq(Prompts) /\ r.prompts # <<>>
          BY <1>1, <4>1 DEF AdminSound, Admin
        <5>3. r.prompts[1] \in ToSet(r.prompts)
          BY <5>2, HeadAndTail
        <5> QED BY <1>4, <4>1, <5>1, <5>3 DEF Responsible
      <4>2. CASE r.does # "prompt"
        BY <1>4, <4>2 DEF Responsible
      <4> QED BY <4>1, <4>2
    <3> QED BY <3>4
  <2> QED BY <2>2, <2>3
<1>10. ASSUME NEW e \in Rows' PROVE e.by \notin dropped'
  <2>1. e \in Rows /\ ~Concerns(a, e) /\ e \in Copies /\ e.by \notin dropped
    BY <1>3, <1>10 DEF Out, Copies
  <2>2. \A x \in Gone : x.by # e.by
    BY <1>6, <2>1 DEF Out
  <2> QED BY <1>2, <2>1, <2>2
<1> QED BY <1>7, <1>8, <1>9, <1>10 DEF Out, Responsible

(* Then the keys: what is held meanwhile has raced.                        *)
LEMMA KeysKeepOut ==
  ASSUME NEW a \in Admins, Sound, Bounded, Out, ClearKeys(a) \/ ClearRedis(a)
  PROVE  Out'
<1> DEFINE r == admin[a]
<1>1. AdminStep(a) /\ AdminSound(r) /\ r \in Admin /\ admin \in [Admins -> Admin]
  BY DEF AdminStep, Sound
<1>2. /\ pg' = pg /\ dropped' = dropped /\ raced' = raced \cup InHand /\ call' = call
      /\ \A b \in Admins : b # a => admin'[b] = admin[b]
  BY <1>1 DEF ClearKeys, ClearRedis, Tables, Turns, Still
<1>3. \A p \in Prompts : redis'[p] \in {redis[p], NoEntry}
  BY DEF ClearKeys, ClearRedis, Tables
<1>4. admin'[a].entry = r.entry
  <2>1. CASE ClearKeys(a)
    <3>1. PICK keys \in SetToSeqs({p \in Prompts : redis[p] # NoEntry}) :
            admin' = [admin EXCEPT ![a].prompts = keys,
                                   ![a].ranked = ranks # <<>>,
              ![a].at = IF keys = <<>> /\ ranks = <<>> THEN "delRanks" ELSE "delKeys"]
      BY <2>1 DEF ClearKeys
    <3> QED BY <1>1, <3>1 DEF Admin
  <2>2. CASE ClearRedis(a)
    BY <1>1, <2>2 DEF ClearRedis, Turns, Admin
  <2> QED BY <2>1, <2>2
<1>5. Rows' = Rows
  BY <1>2 DEF Rows
<1>6. Copies' \subseteq Copies
  <2>1. \A p \in Prompts : redis'[p] \in Copies \cup {NoEntry}
    BY <1>3, CopiesAreEntries
  <2>2. admin'[a].entry \in Copies \cup {NoEntry}
    BY <1>4, CopiesAreEntries
  <2> QED BY <1>1, <1>5, <2>1, <2>2, CopiesOfAdmin
<1>7. ASSUME NEW e \in Held PROVE e.by \in raced'
  BY <1>2 DEF Held, InHand
<1>8. \A d \in Calls : Inserted(d) => Inserted(d)'
  BY <1>2 DEF Inserted
(* What is neither held nor in a row is in the hot cache.                  *)
<1>9. ASSUME NEW e \in Copies', e.by \in dropped \ raced'
      PROVE  /\ e \in Copies /\ \E b \in Admins : Responsible(b, e)
             /\ e.prompt \in Prompts /\ redis[e.prompt] = e /\ redis'[e.prompt] = e /\ e # NoEntry
  <2>1. e \in Copies /\ e.by \notin raced /\ e \notin Held /\ e \notin Held'
    <3>1. e \in Copies /\ e.by \notin raced /\ e \notin Held
      BY <1>2, <1>6, <1>7, <1>9
    <3>2. Held' = Held
      <4>1. \A b \in Admins : admin'[b].entry = admin[b].entry
        BY <1>2, <1>4
      <4> QED BY <1>2, <4>1 DEF Held
    <3> QED BY <3>1, <3>2
  <2>2. e \notin Rows /\ \E b \in Admins : Responsible(b, e)
    BY <1>9, <2>1 DEF Out, Copies
  <2>3. e \in Hot'
    BY <1>5, <2>1, <2>2 DEF Copies
  <2>4. PICK p \in Prompts : redis'[p] = e /\ e # NoEntry
    BY <2>3 DEF Hot
  <2>5. redis[p] = e /\ e.prompt = p
    BY <1>3, <2>4 DEF Sound, Stored
  <2> QED BY <2>1, <2>2, <2>4, <2>5
<1>10. ASSUME NEW e \in Copies', e.by \in dropped \ raced'
       PROVE  \E b \in Admins : Responsible(b, e)'
  <2>1. /\ e.prompt \in Prompts /\ redis[e.prompt] = e /\ redis'[e.prompt] = e /\ e # NoEntry
    BY <1>9, <1>10
  <2>2. PICK b \in Admins : Responsible(b, e)
    BY <1>9, <1>10
  <2>3. CASE b # a
    BY <1>2, <2>2, <2>3 DEF Responsible
  <2>4. CASE b = a /\ ClearKeys(a)
    <3>1. PICK keys \in SetToSeqs({p \in Prompts : redis[p] # NoEntry}) :
            admin' = [admin EXCEPT ![a].prompts = keys,
                                   ![a].ranked = ranks # <<>>,
              ![a].at = IF keys = <<>> /\ ranks = <<>> THEN "delRanks" ELSE "delKeys"]
      BY <2>4 DEF ClearKeys
    <3>2. keys \in Seq(Prompts) /\ ToSet(keys) = {p \in Prompts : redis[p] # NoEntry}
      BY ListsAll, SemanticCacheAssumption
    <3>3. e.prompt \in ToSet(keys)
      BY <2>1, <3>2
    <3>4. keys # <<>>
      BY <3>2, <3>3, SetOfSeq
    <3>5. admin'[a].at = "delKeys" /\ admin'[a].prompts = keys
      BY <1>1, <3>1, <3>4 DEF Admin
    <3> QED BY <3>3, <3>5 DEF Responsible
  <2>5. CASE b = a /\ ClearRedis(a)
    <3>1. e.prompt \in ToSet(r.prompts)
      BY <2>2, <2>5 DEF Responsible, ClearRedis
    <3>2. redis'[e.prompt] = NoEntry
      BY <2>1, <2>5, <3>1 DEF ClearRedis
    <3> QED BY <2>1, <3>2
  <2> QED BY <2>3, <2>4, <2>5
<1>11. \A e, f \in Copies' : e.by = f.by => e = f
  BY <1>6 DEF Out
<1>12. \A b \in dropped' \cup {e.by : e \in Copies'} :
         call'[b].source = "model" /\ call'[b].at \notin {"embedStore", "insert"}
  BY <1>2, <1>6 DEF Out
<1>13. \A e \in Rows' : e.by \notin dropped'
  BY <1>2, <1>5 DEF Out
<1> QED BY <1>2, <1>10, <1>11, <1>12, <1>13 DEF Out, Responsible

(* An invalidation that fails has raced with all of it.                    *)
LEMMA FailureKeepsOut ==
  ASSUME NEW a \in Admins, Sound, Bounded, Out, AdminFails(a)
  PROVE  Out'
<1> DEFINE r == admin[a]
<1>1. AdminStep(a) /\ AdminSound(r) /\ r \in Admin /\ admin \in [Admins -> Admin]
  BY DEF AdminStep, Sound
<1>2. /\ UNCHANGED <<pg, redis, call, dropped>>
      /\ raced' = IF r.does = "stats" THEN raced ELSE raced \cup dropped
  BY DEF AdminFails, Tables
<1>3. Rows' = Rows /\ \A p \in Prompts : redis'[p] \in Copies \cup {NoEntry}
  BY <1>2, CopiesAreEntries DEF Rows
<1>4. admin'[a].entry = NoEntry /\ \A b \in Admins : b # a => admin'[b] = admin[b]
  <2>1. [Unrequested EXCEPT !.at = "ok"].entry = NoEntry
        /\ [Unrequested EXCEPT !.at = "error"].entry = NoEntry
    BY DEF Unrequested
  <2> QED BY <1>1, <2>1 DEF AdminFails, StatsNext, Admin
<1>5. Copies' \subseteq Copies
  BY <1>1, <1>3, <1>4, CopiesOfAdmin
<1>6. \A d \in Calls : Inserted(d) => Inserted(d)'
  BY <1>2 DEF Inserted
<1>7. CASE r.does = "stats"
  <2>1. r.at \notin {"keys", "delKeys"}
    BY <1>1, <1>7 DEF AdminSound
  <2>2. \A e \in Copies, b \in Admins : Responsible(b, e) => Responsible(b, e)'
    BY <1>4, <2>1 DEF Responsible
  <2> QED BY <1>2, <1>3, <1>5, <1>6, <1>7, <2>2, NothingNew
<1>8. CASE r.does # "stats"
  <2>1. \A e, f \in Copies' : e.by = f.by => e = f
    BY <1>5 DEF Out
  <2>2. \A b \in dropped' \cup {e.by : e \in Copies'} :
          call'[b].source = "model" /\ call'[b].at \notin {"embedStore", "insert"}
    BY <1>2, <1>5 DEF Out
  <2>3. dropped' \ raced' = {}
    BY <1>2, <1>8
  <2>4. \A e \in Rows' : e.by \notin dropped'
    BY <1>2, <1>3 DEF Out
  <2> QED BY <2>1, <2>2, <2>3, <2>4 DEF Out
<1> QED BY <1>7, <1>8

LEMMA AdminKeepsOut ==
  ASSUME NEW a \in Admins, Sound, Bounded, Out, AdminStep(a)
  PROVE  Out'
BY StatisticsKeepOut, RowsKeepOut, KeysKeepOut, FailureKeepsOut DEF AdminStep

LEMMA SurroundingsKeepOut ==
  ASSUME Sound, Out, Surroundings
  PROVE  Out'
<1>1. UNCHANGED <<call, admin, dropped, raced>>
  BY SurroundingsKeepSound
<1>2. Rows' \subseteq Rows /\ \A p \in Prompts : redis'[p] \in {redis[p], NoEntry}
  <2>1. CASE Tick
    BY <2>1 DEF Tick, Tables, Rows
  <2>2. CASE CleanupExpired
    BY <2>2 DEF CleanupExpired, Rows
  <2>3. ASSUME NEW p \in Prompts, RedisExpires(p)
        PROVE  Rows' \subseteq Rows /\ \A q \in Prompts : redis'[q] \in {redis[q], NoEntry}
    BY <2>3 DEF RedisExpires, Del, Rows, Sound, Stored
  <2> QED BY <2>1, <2>2, <2>3 DEF Surroundings
<1>3. Hot' \subseteq Hot /\ Held' = Held
  BY <1>1, <1>2 DEF Hot, Held
<1>4. Copies' \subseteq Copies
  BY <1>2, <1>3 DEF Copies
<1>5. \A e \in Copies, b \in Admins : Responsible(b, e) => Responsible(b, e)'
  BY <1>1 DEF Responsible
<1>6. \A d \in Calls : Inserted(d) => Inserted(d)'
  BY <1>1 DEF Inserted
<1> QED BY <1>1, <1>2, <1>4, <1>5, <1>6, NothingNew


-----------------------------------------------------------------------------
(* The size of the hot cache.                                              *)
LEMMA Ranked ==
  ASSUME Bounded
  PROVE  /\ Len(ranks) \in Nat /\ ToSet(ranks) \subseteq Prompts /\ IsFiniteSet(ToSet(ranks))
         /\ Cardinality(ToSet(ranks)) = Len(ranks)
<1>1. ranks \in Seq(Prompts) /\ IsInjective(ranks) /\ IsFiniteSet(Prompts)
  BY SemanticCacheAssumption DEF Bounded
<1>2. Len(ranks) \in Nat /\ ToSet(ranks) \subseteq Prompts
  BY <1>1, SetOfSeq
<1> QED BY <1>1, <1>2, LengthIsCardinality, FS_Subset

(* Members that are taken out blind nobody who sees to the size.           *)
Shrinks == /\ ranks' \in Seq(Prompts) /\ IsInjective(ranks')
           /\ ToSet(ranks') \subseteq ToSet(ranks) /\ Len(ranks') <= Len(ranks)

LEMMA StillSees ==
  ASSUME NEW d \in Calls, Sound, Bounded, Shrinks, call'[d] = call[d], Sees(d)
  PROVE  Sees(d)'
<1> DEFINE r == call[d]
           X == ToSet(ranks) \ ToSet(r.victims)
           Y == ToSet(ranks') \ ToSet(r.victims)
<1>1. Len(ranks) \in Nat /\ IsFiniteSet(ToSet(ranks)) /\ Len(ranks') \in Nat
  BY Ranked, SetOfSeq DEF Shrinks
<1>2. r.excess \in Nat /\ maxSize \in Nat
  BY SemanticCacheAssumption, Starting DEF Sound, Call
<1>3. Cardinality(Y) \in Nat /\ Cardinality(X) \in Nat /\ Cardinality(Y) <= Cardinality(X)
  <2>1. IsFiniteSet(X) /\ Y \in SUBSET X
    BY <1>1, FS_Subset DEF Shrinks
  <2> QED BY <2>1, FS_Subset, FS_CardinalityType
<1>4. CASE At(d, "size")
  BY <1>4 DEF Sees, At
<1>5. CASE At(d, "oldest") /\ Len(ranks) <= r.excess + maxSize
  <2>1. Len(ranks') <= r.excess + maxSize
    BY <1>1, <1>2, <1>5 DEF Shrinks
  <2> QED BY <1>5, <2>1 DEF Sees, At
<1>6. CASE r.at \in {"evictKey", "evictRank"} /\ Cardinality(X) <= maxSize
  <2>1. Cardinality(Y) <= maxSize
    BY <1>2, <1>3, <1>6
  <2> QED BY <1>6, <2>1 DEF Sees
<1> QED BY <1>4, <1>5, <1>6 DEF Sees

LEMMA ShrinkingKeepsBounded ==
  ASSUME Sound, Bounded, Shrinks, troubles' = troubles,
         \A d \in Calls : Sees(d) => Sees(d)' \/ call'[d] = call[d] \/ Len(ranks') <= maxSize
  PROVE  Bounded'
<1>1. Len(ranks) \in Nat /\ Len(ranks') \in Nat /\ maxSize \in Nat
  BY Ranked, SetOfSeq, SemanticCacheAssumption DEF Shrinks
<1>2. Len(ranks) <= maxSize => Len(ranks') <= maxSize
  BY <1>1 DEF Shrinks
<1>3. ASSUME NEW d \in Calls, Sees(d) PROVE Sees(d)' \/ Len(ranks') <= maxSize
  BY <1>3, StillSees
<1> QED BY <1>2, <1>3 DEF Bounded, Shrinks

LEMMA SameShrinks == Bounded /\ ranks' = ranks => Shrinks
BY Ranked DEF Bounded, Shrinks

LEMMA RemovalShrinks == \A p : Bounded /\ ranks' = RemoveFirst(ranks, p) => Shrinks
<1> SUFFICES ASSUME NEW p, Bounded, ranks' = RemoveFirst(ranks, p) PROVE Shrinks
  OBVIOUS
<1>1. ranks \in Seq(Prompts) /\ IsInjective(ranks)
  BY DEF Bounded
<1>2. /\ RemoveFirst(ranks, p) \in Seq(Prompts) /\ IsInjective(RemoveFirst(ranks, p))
      /\ ToSet(RemoveFirst(ranks, p)) = ToSet(ranks) \ {p}
      /\ Len(RemoveFirst(ranks, p)) <= Len(ranks)
  BY <1>1, RemoveFirstTakesOut
<1> QED BY <1>2 DEF Shrinks

(* The eviction itself.                                                    *)
LEMMA OldestSees ==
  ASSUME NEW c \in Calls, Sound, Bounded, Oldest(c), Sees(c)
  PROVE  Sees(c)' \/ Len(ranks) <= maxSize
<1> DEFINE r == call[c]
           n == IF r.excess < Len(ranks) THEN r.excess ELSE Len(ranks)
           v == SubSeq(ranks, 1, n)
<1>1. r.at = "oldest" /\ Len(ranks) <= r.excess + maxSize
  BY DEF Oldest, At, Sees
<1>2. /\ Len(ranks) \in Nat /\ r.excess \in Nat /\ maxSize \in Nat /\ ranks \in Seq(Prompts)
      /\ r \in Call /\ call \in [Calls -> Call]
  <2>1. r \in Call /\ call \in [Calls -> Call] /\ ranks \in Seq(Prompts) /\ Len(ranks) \in Nat
    BY Ranked DEF Sound, Bounded
  <2>2. r.excess \in Nat
    BY <2>1, Starting DEF Call
  <2> QED BY <2>1, <2>2, SemanticCacheAssumption
<1>3. /\ v \in Seq(Prompts) /\ Len(v) = n
      /\ Cardinality(ToSet(ranks) \ ToSet(v)) <= Len(ranks) - n
      /\ Cardinality(ToSet(ranks) \ ToSet(v)) \in Nat
  <2>1. n \in 0..Len(ranks)
    BY <1>2
  <2>2. /\ v \in Seq(Prompts) /\ Len(v) = n
        /\ Cardinality(ToSet(ranks) \ ToSet(v)) <= Len(ranks) - n
    BY <1>2, <2>1, BeyondPrefix
  <2>3. IsFiniteSet(ToSet(ranks) \ ToSet(v))
    BY Ranked, FS_Subset
  <2> QED BY <2>2, <2>3, FS_CardinalityType
<1>4. call'[c] = IF v = <<>> THEN [Filled(c) EXCEPT !.excess = 0]
                 ELSE [r EXCEPT !.at = "evictKey", !.excess = 0, !.victims = v]
  BY <1>2 DEF Oldest
<1>5. ranks' = ranks
  BY DEF Oldest, Tables
<1>6. Len(ranks) - n <= maxSize
  BY <1>1, <1>2
<1>7. CASE v = <<>>
  <2>1. n = 0
    BY <1>3, <1>7, SetOfSeq
  <2> QED BY <1>2, <1>6, <2>1
<1>8. CASE v # <<>>
  <2>1. call'[c].at = "evictKey" /\ call'[c].victims = v
    BY <1>2, <1>4, <1>8 DEF Call
  <2> HIDE DEF v, n
  <2>2. n \in Nat
    BY <1>3, SetOfSeq
  <2>3. Cardinality(ToSet(ranks) \ ToSet(v)) <= maxSize
    BY <1>2, <1>3, <1>6, <2>2
  <2> QED BY <1>5, <2>1, <2>3 DEF Sees
<1> QED BY <1>7, <1>8

LEMMA EvictSees ==
  ASSUME NEW c \in Calls, Sound, Bounded, Evict(c), Sees(c)
  PROVE  Sees(c)' \/ Len(ranks') <= maxSize
<1> DEFINE r == call[c]
           v == r.victims
           p == Head(v)
<1>1. /\ r.at \in {"evictKey", "evictRank"} /\ v \in Seq(Prompts) /\ v # <<>>
      /\ r \in Call /\ call \in [Calls -> Call]
  BY DEF Evict, At, Sound, CallSound, Call
<1>2. Cardinality(ToSet(ranks) \ ToSet(v)) <= maxSize
  BY <1>1 DEF Sees, At
<1>3. /\ Tail(v) \in Seq(Prompts) /\ ToSet(v) = {p} \cup ToSet(Tail(v))
      /\ Len(v) = 1 <=> Tail(v) = <<>>
  BY <1>1, HeadAndTail
<1>4. CASE r.at = "evictKey"
  <2>1. ranks' = ranks /\ call'[c].at = "evictRank" /\ call'[c].victims = v
    BY <1>1, <1>4 DEF Evict, At, Goes, Call
  <2> QED BY <1>2, <2>1 DEF Sees
<1>5. CASE r.at = "evictRank"
  <2>1. /\ ranks' = RemoveFirst(ranks, p)
        /\ call'[c] = IF Len(v) = 1 THEN Filled(c)
                      ELSE [r EXCEPT !.at = "evictKey", !.victims = Tail(v)]
    BY <1>1, <1>5 DEF Evict, At, ZRem
  <2>2. /\ ranks' \in Seq(Prompts) /\ IsInjective(ranks') /\ ToSet(ranks') = ToSet(ranks) \ {p}
    BY <2>1, RemoveFirstTakesOut DEF Bounded
  <2>3. CASE Len(v) = 1
    <3>1. ToSet(v) = {p}
      BY <1>3, <2>3, SetOfSeq
    <3>2. Cardinality(ToSet(ranks')) <= maxSize
      BY <1>2, <2>2, <3>1
    <3>3. Cardinality(ToSet(ranks')) = Len(ranks')
      BY <2>2, LengthIsCardinality, SemanticCacheAssumption
    <3> QED BY <3>2, <3>3
  <2>4. CASE Len(v) # 1
    <3>1. call'[c].at = "evictKey" /\ call'[c].victims = Tail(v)
      BY <1>1, <2>1, <2>4 DEF Call
    <3>2. ToSet(ranks') \ ToSet(Tail(v)) = ToSet(ranks) \ ToSet(v)
      BY <1>3, <2>2
    <3>3. Cardinality(ToSet(ranks') \ ToSet(Tail(v))) <= maxSize
      BY <1>2, <3>2
    <3> QED BY <3>1, <3>3 DEF Sees
  <2> QED BY <2>3, <2>4
<1> QED BY <1>1, <1>4, <1>5

LEMMA CallKeepsBounded ==
  ASSUME NEW c \in Calls, Sound, Bounded, ClientStep(c) \/ CacheStep(c)
  PROVE  Bounded'
<1> DEFINE r == call[c]
<1>1. /\ \A d \in Calls : d # c => call'[d] = call[d]
      /\ r \in Call /\ CallSound(c, r) /\ call \in [Calls -> Call]
  <2>1. PICK s : Becomes(c, s)
    BY CallBecomes
  <2> QED BY <2>1 DEF Becomes, Sound
<1>2. troubles' = troubles \/ CacheFails(c)
  BY CallStores
<1>3. CASE CacheFails(c)
  <2>1. ranks' = ranks /\ troubles' # 0
    BY <1>3, SemanticCacheAssumption DEF CacheFails, Trouble, Tables, Sound, Stored
  <2> QED BY <2>1 DEF Bounded
<1>4. ASSUME ~CacheFails(c), Shrinks, Sees(c) => Sees(c)' \/ Len(ranks') <= maxSize
      PROVE  Bounded'
  BY <1>1, <1>2, <1>4, ShrinkingKeepsBounded
<1>5. ASSUME ~CacheFails(c), ranks' = ranks \/ \E p : ranks' = RemoveFirst(ranks, p),
             r.at \notin {"size", "oldest", "evictKey", "evictRank"}
      PROVE  Bounded'
  <2>1. ~Sees(c)
    BY <1>5 DEF Sees, At
  <2> QED BY <1>4, <1>5, <2>1, SameShrinks, RemovalShrinks
<1>6. CASE ~CacheFails(c) /\ ClientStep(c)
  <2>1. ranks' = ranks /\ r.at \in {"idle", "found", "missed", "broke", "request", "backoff", "lost"}
    BY <1>6
    DEF ClientStep, ChatCompletion, CacheChecked, ModelAnswers, ModelFails, Backoff, StoreFails,
        Alone, Tables, At
  <2> QED BY <1>5, <1>6, <2>1
<1>7. CASE ~CacheFails(c) /\ (RedisGet(c) \/ RedisWriteBack(c) \/ DeleteExpired(c) \/ Search(c)
                              \/ EmbedStore(c) \/ Insert(c) \/ FillKey(c))
  <2>1. ranks' = ranks \/ \E p : ranks' = RemoveFirst(ranks, p)
    BY <1>7 DEF RedisGet, RedisWriteBack, WritesBack, DeleteExpired, Search, EmbedStore, Insert,
                FillKey, Tables, ZRem, Del
  <2>2. r.at \in {"get", "writeBack", "delKey", "delRank", "search", "embedStore", "insert", "fillKey"}
    BY <1>7 DEF RedisGet, RedisWriteBack, DeleteExpired, Search, EmbedStore, Insert, FillKey, At
  <2> QED BY <1>5, <1>7, <2>1, <2>2
<1>8. CASE FillRank(c)
  <2> DEFINE p == r.entry.prompt
             rest == RemoveFirst(ranks, p)
  <2>1. call'[c].at = "size"
    BY <1>1, <1>8 DEF FillRank, Goes, Call
  <2>2. p \in Prompts
    BY <1>1, <1>8 DEF FillRank, At, CallSound, Call, EmptyHanded, Ended, Entry
  <2>3. rest \in Seq(Prompts) /\ IsInjective(rest) /\ ToSet(rest) = ToSet(ranks) \ {p}
    BY RemoveFirstTakesOut DEF Bounded
  <2>4. ranks' = Append(rest, p)
    BY <1>8 DEF FillRank
  <2> HIDE DEF rest, p
  <2>5. ranks' \in Seq(Prompts) /\ IsInjective(ranks')
    <3>1. p \notin ToSet(rest)
      BY <2>3
    <3>2. Append(rest, p) \in Seq(Prompts) /\ IsInjective(Append(rest, p))
      BY <2>2, <2>3, <3>1, AppendAdds
    <3> QED BY <2>4, <3>2
  <2>6. Sees(c)'
    BY <2>1 DEF Sees, At
  <2> QED BY <2>5, <2>6 DEF Bounded
<1>9. CASE Size(c)
  <2>1. ranks' = ranks /\ maxSize \in Nat /\ Len(ranks) \in Nat
    BY <1>9, Ranked, SemanticCacheAssumption DEF Size, Tables
  <2>2. CASE Len(ranks) > maxSize
    <3>1. call'[c].at = "oldest" /\ call'[c].excess = Len(ranks) - maxSize
      BY <1>1, <1>9, <2>2 DEF Size, Call
    <3>2. Len(ranks) <= (Len(ranks) - maxSize) + maxSize
      BY <2>1
    <3>3. Sees(c)'
      BY <2>1, <3>1, <3>2 DEF Sees, At
    <3> QED BY <2>1, <3>3 DEF Bounded
  <2>3. CASE ~(Len(ranks) > maxSize)
    BY <2>1, <2>3 DEF Bounded
  <2> QED BY <2>2, <2>3
<1>10. CASE ~CacheFails(c) /\ Oldest(c)
  <2>1. ranks' = ranks
    BY <1>10 DEF Oldest, Tables
  <2> QED BY <1>4, <1>10, <2>1, OldestSees, SameShrinks
<1>11. CASE ~CacheFails(c) /\ Evict(c)
  <2>1. ranks' = ranks \/ \E p : ranks' = RemoveFirst(ranks, p)
    BY <1>11 DEF Evict, ZRem
  <2> QED BY <1>4, <1>11, <2>1, EvictSees, SameShrinks, RemovalShrinks
<1> QED BY <1>3, <1>6, <1>7, <1>8, <1>9, <1>10, <1>11 DEF CacheStep

LEMMA OthersKeepBounded ==
  ASSUME Sound, Bounded, call' = call, Shrinks,
         troubles' = troubles \/ (troubles \in Nat /\ troubles' = troubles + 1)
  PROVE  Bounded'
<1>1. CASE troubles' = troubles
  BY <1>1, ShrinkingKeepsBounded
<1>2. CASE troubles \in Nat /\ troubles' = troubles + 1
  BY <1>2 DEF Bounded, Shrinks
<1> QED BY <1>1, <1>2

LEMMA AdminShrinks ==
  ASSUME NEW a \in Admins, Bounded, AdminStep(a)
  PROVE  Shrinks
<1>1. CASE ranks' = <<>>
  <2>1. Len(ranks) \in Nat /\ ranks \in Seq(Prompts)
    BY Ranked DEF Bounded
  <2>2. <<>> \in Seq(Prompts) /\ IsInjective(<<>>) /\ ToSet(<<>>) = {} /\ Len(<<>>) = 0
    BY <2>1, SetOfSeq
  <2> QED BY <1>1, <2>1, <2>2 DEF Shrinks
<1>2. CASE ranks' = RemoveFirst(ranks, admin[a].prompts[1])
  BY <1>2, RemovalShrinks
<1>3. CASE ranks' = ranks
  BY <1>3, SameShrinks
<1>4. \/ ranks' \in {<<>>, ranks} \/ ranks' = RemoveFirst(ranks, admin[a].prompts[1])
  BY DEF AdminStep, InvalidationStart, InvalidateRows, ClearKeys, ClearRedis, ClearRanks,
         StatsStart, StatsList, StatsGet, StatsWriteBack, WritesBack, AdminFails, Tables
<1> QED BY <1>1, <1>2, <1>3, <1>4

-----------------------------------------------------------------------------
(* Every key of the hot cache has a rank, or is about to get it, or was    *)
(* left without one by a race.                                             *)
LEMMA RanksKept ==
  ASSUME Keyed, troubles' = 0 => troubles = 0,
         \A p \in HotKeys' : p \in HotKeys \/ p \in ToSet(ranks') \/ p \in strays',
         \A p \in HotKeys' : p \in ToSet(ranks) \cup strays => p \in ToSet(ranks') \cup strays',
         \A c \in Calls : At(c, "fillRank") =>
            \/ call'[c] = call[c] \/ call[c].entry.prompt \in ToSet(ranks')
  PROVE  Keyed'
<1> SUFFICES ASSUME troubles' = 0, NEW p \in HotKeys', p \notin ToSet(ranks') \cup strays'
             PROVE  \E c \in Calls : At(c, "fillRank")' /\ call'[c].entry.prompt = p
  BY DEF Keyed
<1>1. troubles = 0 /\ p \in HotKeys /\ p \notin ToSet(ranks) \cup strays
  OBVIOUS
<1>2. PICK c \in Calls : At(c, "fillRank") /\ call[c].entry.prompt = p
  BY <1>1 DEF Keyed
<1> QED BY <1>2 DEF At

(* An entry that is written back has its rank or is a stray, and so is the *)
(* key of a rank that goes.                                                *)
LEMMA RacesKeyed ==
  ASSUME Sound, Bounded, Keyed, NEW p \in Prompts
  PROVE  /\ \A e : WritesBack(p, e) =>
              /\ \A q \in HotKeys' : q \in HotKeys \/ q \in ToSet(ranks') \/ q \in strays'
              /\ ToSet(ranks) \cup strays \subseteq ToSet(ranks') \cup strays'
         /\ ZRem(p) =>
              /\ HotKeys' = HotKeys
              /\ \A q \in HotKeys' : q \in ToSet(ranks) \cup strays => q \in ToSet(ranks') \cup strays'
         /\ Del(p) /\ ranks' = ranks =>
              /\ HotKeys' \subseteq HotKeys
              /\ \A q \in HotKeys' : q \in ToSet(ranks) \cup strays => q \in ToSet(ranks') \cup strays'
<1>1. ASSUME NEW e, WritesBack(p, e)
      PROVE  /\ \A q \in HotKeys' : q \in HotKeys \/ q \in ToSet(ranks') \/ q \in strays'
             /\ ToSet(ranks) \cup strays \subseteq ToSet(ranks') \cup strays'
  <2>1. /\ redis' = [redis EXCEPT ![p] = e] /\ ranks' = ranks
        /\ strays' = strays \cup {q \in {p} \cap HotKeys' : q \notin ToSet(ranks')}
    BY <1>1 DEF WritesBack, Strands
  <2>2. \A q \in HotKeys' : q = p \/ q \in HotKeys
    BY <2>1 DEF HotKeys, Sound, Stored
  <2> QED BY <2>1, <2>2
<1>2. ASSUME ZRem(p)
      PROVE  /\ HotKeys' = HotKeys
             /\ \A q \in HotKeys' : q \in ToSet(ranks) \cup strays => q \in ToSet(ranks') \cup strays'
  <2>1. /\ redis' = redis /\ ToSet(ranks') = ToSet(ranks) \ {p}
        /\ strays' = strays \cup {q \in {p} \cap HotKeys' : q \notin ToSet(ranks')}
    BY <1>2, RemoveFirstTakesOut DEF ZRem, Strands, Bounded
  <2> QED BY <2>1 DEF HotKeys
<1>3. ASSUME Del(p), ranks' = ranks
      PROVE  /\ HotKeys' \subseteq HotKeys
             /\ \A q \in HotKeys' : q \in ToSet(ranks) \cup strays => q \in ToSet(ranks') \cup strays'
  BY <1>3 DEF Del, HotKeys, Sound, Stored
<1> QED BY <1>1, <1>2, <1>3

LEMMA CallKeepsKeyed ==
  ASSUME NEW c \in Calls, Sound, Bounded, Keyed, ClientStep(c) \/ CacheStep(c)
  PROVE  Keyed'
<1> DEFINE r == call[c]
<1>1. /\ \A d \in Calls : d # c => call'[d] = call[d]
      /\ r \in Call /\ CallSound(c, r) /\ call \in [Calls -> Call]
  <2>1. PICK s : Becomes(c, s)
    BY CallBecomes
  <2> QED BY <2>1 DEF Becomes, Sound
<1>2. troubles' = troubles \/ CacheFails(c)
  BY CallStores
<1>3. CASE CacheFails(c)
  <2>1. troubles' # 0
    BY <1>3, SemanticCacheAssumption DEF CacheFails, Trouble, Sound, Stored
  <2> QED BY <2>1 DEF Keyed
<1>4. ASSUME ~CacheFails(c), r.at # "fillRank",
             \A p \in HotKeys' : p \in HotKeys \/ p \in ToSet(ranks') \/ p \in strays',
             \A p \in HotKeys' : p \in ToSet(ranks) \cup strays => p \in ToSet(ranks') \cup strays'
      PROVE  Keyed'
  <2>1. \A d \in Calls : At(d, "fillRank") => call'[d] = call[d]
    BY <1>1, <1>4 DEF At
  <2> QED BY <1>2, <1>4, <2>1, RanksKept
<1>5. CASE ~CacheFails(c) /\ (ClientStep(c) \/ RedisGet(c) \/ Search(c) \/ EmbedStore(c) \/ Insert(c)
                              \/ Size(c) \/ Oldest(c))
  <2>1. UNCHANGED <<redis, ranks, strays>>
    BY <1>5
    DEF ClientStep, ChatCompletion, CacheChecked, ModelAnswers, ModelFails, Backoff, StoreFails,
        Alone, RedisGet, Search, EmbedStore, Insert, Size, Oldest, Tables
  <2>2. r.at # "fillRank"
    BY <1>5
    DEF ClientStep, ChatCompletion, CacheChecked, ModelAnswers, ModelFails, Backoff, StoreFails,
        RedisGet, Search, EmbedStore, Insert, Size, Oldest, At
  <2> QED BY <1>4, <1>5, <2>1, <2>2 DEF HotKeys
<1>6. CASE ~CacheFails(c) /\ RedisWriteBack(c)
  <2>1. r.at = "writeBack" /\ WritesBack(r.prompt, r.entry) /\ r.prompt \in Prompts
    BY <1>1, <1>6 DEF RedisWriteBack, At, CallSound, Ended
  <2> QED BY <1>4, <1>6, <2>1, RacesKeyed
<1>7. CASE ~CacheFails(c) /\ (DeleteExpired(c) \/ Evict(c))
  <2>1. r.at \in {"delKey", "delRank", "evictKey", "evictRank"}
        /\ \E p \in Prompts : ZRem(p) \/ (Del(p) /\ ranks' = ranks)
    <3>1. CASE DeleteExpired(c)
      BY <1>1, <3>1 DEF DeleteExpired, At, CallSound, Ended
    <3>2. CASE Evict(c)
      <4>1. r.at \in {"evictKey", "evictRank"} /\ r.victims \in Seq(Prompts) /\ r.victims # <<>>
        BY <1>1, <3>2 DEF Evict, At, CallSound, Call
      <4>2. Head(r.victims) \in Prompts
        BY <4>1, HeadAndTail
      <4> QED BY <3>2, <4>1, <4>2 DEF Evict
    <3> QED BY <1>7, <3>1, <3>2
  <2> QED BY <1>4, <1>7, <2>1, RacesKeyed
<1>8. CASE FillKey(c)
  <2> DEFINE p == r.entry.prompt
  <2>1. /\ redis' = [redis EXCEPT ![p] = r.entry] /\ UNCHANGED <<ranks, strays>>
        /\ call'[c].at = "fillRank" /\ call'[c].entry = r.entry /\ r.at = "fillKey"
    BY <1>1, <1>8 DEF FillKey, Goes, At, Call
  <2>2. troubles' = troubles
    BY <1>8 DEF FillKey, Quiet
  <2> SUFFICES ASSUME troubles' = 0, NEW q \in HotKeys', q \notin ToSet(ranks'), q \notin strays'
               PROVE  \E d \in Calls : At(d, "fillRank")' /\ call'[d].entry.prompt = q
    BY DEF Keyed
  <2>3. CASE q = p
    BY <2>1, <2>3 DEF At
  <2>4. CASE q # p
    <3>1. q \in HotKeys
      BY <2>1, <2>4 DEF HotKeys, Sound, Stored
    <3>2. PICK d \in Calls : At(d, "fillRank") /\ call[d].entry.prompt = q
      BY <2>1, <2>2, <3>1 DEF Keyed
    <3>3. d # c
      BY <2>1, <3>2 DEF At
    <3> QED BY <1>1, <3>2, <3>3 DEF At
  <2> QED BY <2>3, <2>4
<1>9. CASE FillRank(c)
  <2> DEFINE p == r.entry.prompt
             rest == RemoveFirst(ranks, p)
  <2>1. p \in Prompts
    BY <1>1, <1>9 DEF FillRank, At, CallSound, Call, EmptyHanded, Ended, Entry
  <2>2. rest \in Seq(Prompts) /\ ToSet(rest) = ToSet(ranks) \ {p}
    BY RemoveFirstTakesOut DEF Bounded
  <2>3. ranks' = Append(rest, p) /\ strays' = strays \ {p} /\ redis' = redis
        /\ troubles' = troubles
    BY <1>9 DEF FillRank, Quiet
  <2>4. IsInjective(rest) /\ p \notin ToSet(rest)
    BY <2>2, RemoveFirstTakesOut DEF Bounded
  <2> HIDE DEF rest, p
  <2>5. ToSet(ranks') = ToSet(ranks) \cup {p}
    BY <2>1, <2>2, <2>3, <2>4, AppendAdds
  <2>6. \A d \in Calls : At(d, "fillRank") =>
           call'[d] = call[d] \/ call[d].entry.prompt \in ToSet(ranks')
    BY <1>1, <2>5 DEF p
  <2>7. HotKeys' = HotKeys
    BY <2>3 DEF HotKeys
  <2> QED BY <2>3, <2>5, <2>6, <2>7, RanksKept
<1> QED BY <1>3, <1>5, <1>6, <1>7, <1>8, <1>9 DEF CacheStep

LEMMA AdminKeepsKeyed ==
  ASSUME NEW a \in Admins, Sound, Bounded, Keyed, AdminStep(a)
  PROVE  Keyed'
<1> DEFINE r == admin[a]
<1>1. call' = call /\ (troubles' = 0 => troubles = 0) /\ AdminSound(r) /\ r \in Admin
  BY AdminStores DEF Sound
<1>2. ASSUME \A p \in HotKeys' : p \in HotKeys \/ p \in ToSet(ranks') \/ p \in strays',
             \A p \in HotKeys' : p \in ToSet(ranks) \cup strays => p \in ToSet(ranks') \cup strays'
      PROVE  Keyed'
  BY <1>1, <1>2, RanksKept
<1>3. CASE UNCHANGED <<redis, ranks, strays>>
  BY <1>2, <1>3 DEF HotKeys
<1>4. CASE StatsWriteBack(a)
  <2>1. WritesBack(r.prompts[1], r.entry) /\ r.prompts[1] \in Prompts
    <3>1. r.prompts \in Seq(Prompts) /\ r.prompts # <<>>
      BY <1>1, <1>4 DEF StatsWriteBack, AdminSound, Admin
    <3> QED BY <1>4, <3>1, HeadAndTail DEF StatsWriteBack
  <2> QED BY <1>2, <2>1, RacesKeyed
<1>5. CASE ClearRedis(a) \/ ClearRanks(a)
  <2>1. HotKeys' \subseteq HotKeys
    BY <1>5 DEF ClearRedis, ClearRanks, HotKeys
  <2>2. strays' = strays \cup {p \in ToSet(ranks) \cap HotKeys' : p \notin ToSet(ranks')}
    BY <1>5 DEF ClearRedis, ClearRanks, Strands
  <2> QED BY <1>2, <2>1, <2>2
<1>6. AdminStep(a) => \/ StatsWriteBack(a) \/ ClearRedis(a) \/ ClearRanks(a)
                      \/ UNCHANGED <<redis, ranks, strays>>
  BY DEF AdminStep, InvalidationStart, InvalidateRows, ClearKeys, StatsStart, StatsList, StatsGet,
         AdminFails, Tables
<1> QED BY <1>3, <1>4, <1>5, <1>6

LEMMA SurroundingsKeepKeyed ==
  ASSUME Sound, Bounded, Keyed, Surroundings
  PROVE  Keyed'
<1>1. UNCHANGED <<ranks, call>> /\ troubles \in Nat
  BY SurroundingsKeepSound, SemanticCacheAssumption DEF Sound, Stored
<1>2. CASE Tick \/ CleanupExpired
  <2>1. UNCHANGED <<redis, strays>> /\ (troubles' = 0 => troubles = 0)
    BY <1>1, <1>2 DEF Tick, CleanupExpired, Tables, Trouble
  <2> QED BY <1>1, <2>1, RanksKept DEF HotKeys
<1>3. ASSUME NEW p \in Prompts, RedisExpires(p) PROVE Keyed'
  <2>1. troubles' # 0
    BY <1>1, <1>3 DEF RedisExpires, Trouble
  <2> QED BY <2>1 DEF Keyed
<1> QED BY <1>2, <1>3 DEF Surroundings

-----------------------------------------------------------------------------
LEMMA ModelsInit == Init => ModelsInv
<1> SUFFICES ASSUME Init PROVE ModelsInv
  OBVIOUS
<1>1. CacheInit /\ ClientInit
  BY DEF Init
<1>2. /\ \A c \in Calls : call[c] = Unasked
      /\ \A a \in Admins : admin[a] = Unrequested
      /\ \A p \in Prompts : redis[p] = NoEntry
      /\ Rows = {}
  BY <1>1 DEF CacheInit, Rows
<1>3. Stored
  BY <1>1, SemanticCacheAssumption DEF CacheInit, Stored
<1>4. call \in [Calls -> Call] /\ \A c \in Calls : CallSound(c, call[c])
  BY <1>1, <1>2, Starting, EndsSound DEF CacheInit
<1>5. AdminSound(Unrequested)
  BY Starting DEF AdminSound, Unrequested
<1>6. admin \in [Admins -> Admin] /\ \A a \in Admins : AdminSound(admin[a])
  BY <1>1, <1>2, <1>5, Starting DEF CacheInit
<1>7. Sound
  BY <1>3, <1>4, <1>6 DEF Sound
<1>8. Paid
  <2>1. Unasked.at = "idle" /\ Unasked.source = "none"
    BY DEF Unasked
  <2>2. Hits = {} /\ Failing = {}
    BY <1>2, <2>1 DEF Hits, Failing, At
  <2>3. Cardinality(Hits) = 0 /\ Cardinality(Failing) = 0
    BY <2>2, FS_EmptySet
  <2> QED BY <1>1, <1>2, <2>1, <2>3 DEF Paid, ClientInit, CacheInit
<1>9. Out
  <2>1. Hot = {}
    BY <1>2 DEF Hot
  <2>2. Held = {}
    <3>1. Unasked.entry = NoEntry /\ Unrequested.entry = NoEntry
      BY DEF Unasked, Unrequested
    <3> QED BY <1>2, <3>1 DEF Held
  <2>3. Copies = {} /\ dropped = {}
    BY <1>1, <1>2, <2>1, <2>2 DEF Copies, CacheInit
  <2> QED BY <2>3 DEF Out
<1>10. Bounded
  <2>1. ranks = <<>> /\ Len(ranks) = 0 /\ 0 <= maxSize
    BY <1>1, SemanticCacheAssumption DEF CacheInit
  <2>2. ranks \in Seq(Prompts) /\ IsInjective(ranks)
    BY <2>1 DEF IsInjective
  <2> QED BY <2>1, <2>2 DEF Bounded
<1>11. Keyed
  BY <1>2 DEF Keyed, HotKeys
<1> QED BY <1>7, <1>8, <1>9, <1>10, <1>11 DEF ModelsInv

(* The invariant is about the cache and its client only.                   *)
LEMMA ModelsFrame ==
  ASSUME ModelsInv, UNCHANGED completionVars
  PROVE  ModelsInv'
<1>1. UNCHANGED <<Tables, now, call, admin, troubles, dropped, raced, answers, metrics>>
      /\ UNCHANGED <<pg, redis, ranks, strays>>
  BY DEF completionVars, cacheVars, clientVars, Tables
<1>2. Sound'
  BY <1>1 DEF ModelsInv, Sound, Stored
<1>3. Paid'
  <2>1. Hits' = Hits /\ Failing' = Failing
    BY <1>1 DEF Hits, Failing, At
  <2> QED BY <1>1, <2>1 DEF ModelsInv, Paid
<1>4. Out'
  <2>1. Copies' = Copies /\ Rows' = Rows
    BY <1>1 DEF Copies, Rows, Hot, Held
  <2> QED BY <1>1, <2>1 DEF ModelsInv, Out, Responsible
<1>5. Bounded'
  <2>1. \A c : Sees(c)' <=> Sees(c)
    BY <1>1 DEF Sees, At
  <2> QED BY <1>1, <2>1 DEF ModelsInv, Bounded
<1>6. Keyed'
  BY <1>1 DEF ModelsInv, Keyed, HotKeys, At
<1> QED BY <1>2, <1>3, <1>4, <1>5, <1>6 DEF ModelsInv

LEMMA TroublesGrow ==
  ASSUME Sound, (\E a \in Admins : AdminStep(a)) \/ Surroundings
  PROVE  troubles \in Nat /\ troubles' \in {troubles, troubles + 1}
<1>1. troubles \in Nat
  BY SemanticCacheAssumption DEF Sound, Stored
<1>2. ASSUME NEW a \in Admins, AdminStep(a) PROVE troubles' \in {troubles, troubles + 1}
  BY <1>2 DEF AdminStep, InvalidationStart, InvalidateRows, ClearKeys, ClearRedis, ClearRanks,
              StatsStart, StatsList, StatsGet, StatsWriteBack, AdminFails, Still, Trouble
<1>3. CASE Surroundings
  <2>1. CASE Tick
    BY <1>1, <2>1 DEF Tick, Trouble
  <2>2. CASE CleanupExpired
    BY <1>1, <2>2 DEF CleanupExpired
  <2>3. ASSUME NEW p \in Prompts, RedisExpires(p) PROVE troubles' = troubles + 1
    BY <2>3 DEF RedisExpires, Trouble
  <2> QED BY <1>1, <1>3, <2>1, <2>2, <2>3 DEF Surroundings
<1> QED BY <1>1, <1>2, <1>3

LEMMA ModelsStep == ModelsInv /\ [Next]_vars => ModelsInv'
<1> SUFFICES ASSUME ModelsInv, [Next]_vars PROVE ModelsInv'
  OBVIOUS
<1>1. Sound /\ Paid /\ Out /\ Bounded /\ Keyed
  BY DEF ModelsInv
<1>2. ASSUME NEW c \in Calls, ClientStep(c) PROVE ModelsInv'
  BY <1>1, <1>2, CallKeepsSound, ClientKeepsPaid, CallKeepsOut, CallKeepsBounded,
     CallKeepsKeyed DEF ModelsInv
<1>3. ASSUME NEW c \in Calls, CacheStep(c), UNCHANGED clientVars PROVE ModelsInv'
  BY <1>1, <1>3, CallKeepsSound, CacheKeepsPaid, CallKeepsOut, CallKeepsBounded,
     CallKeepsKeyed DEF ModelsInv
<1>4. ASSUME NEW a \in Admins, AdminStep(a), UNCHANGED clientVars PROVE ModelsInv'
  <2>1. Sound' /\ Out' /\ call' = call
    BY <1>1, <1>4, AdminKeepsSound, AdminKeepsOut, AdminStores
  <2>2. troubles \in Nat /\ troubles' \in {troubles, troubles + 1}
    BY <1>1, <1>4, TroublesGrow
  <2>3. Paid'
    BY <1>1, <1>4, <2>1, <2>2, OthersKeepPaid
  <2>4. Bounded'
    BY <1>1, <1>4, <2>1, <2>2, AdminShrinks, OthersKeepBounded
  <2> QED BY <1>1, <1>4, <2>1, <2>3, <2>4, AdminKeepsKeyed DEF ModelsInv
<1>5. CASE Surroundings /\ UNCHANGED clientVars
  <2>1. Sound' /\ Out' /\ UNCHANGED <<ranks, call>>
    BY <1>1, <1>5, SurroundingsKeepSound, SurroundingsKeepOut
  <2>2. troubles \in Nat /\ troubles' \in {troubles, troubles + 1}
    BY <1>1, <1>5, TroublesGrow
  <2>3. Paid'
    BY <1>1, <1>5, <2>1, <2>2, OthersKeepPaid
  <2>4. Bounded'
    BY <1>1, <2>1, <2>2, SameShrinks, OthersKeepBounded
  <2> QED BY <1>1, <1>5, <2>1, <2>3, <2>4, SurroundingsKeepKeyed DEF ModelsInv
<1>6. CASE Completion(ClientNext)
  <2>1. ClientNext
    BY <1>6 DEF Completion
  <2> QED BY <1>2, <1>3, <1>4, <1>5, <2>1 DEF ClientNext, ClientStep
<1>7. CASE UNCHANGED completionVars
  BY <1>7, ModelsFrame
<1> QED BY <1>6, <1>7 DEF Next, Catalog, Streaming, Managing, Embedding, vars

(* In every state: what the calls and the administrators hold is sound,    *)
(* every answer is paid for once, for every entry an invalidation was to   *)
(* remove somebody still has to see to it, for a sorted set that is too    *)
(* long there is a call that will see it, and every key has its rank but   *)
(* for those about to get it and those a race has left without.            *)
THEOREM ModelsInvariance == Spec => []ModelsInv
<1>1. Init => ModelsInv
  BY ModelsInit
<1>2. ModelsInv /\ [Next]_vars => ModelsInv'
  BY ModelsStep
<1> QED BY <1>1, <1>2, PTL DEF Spec

(* lookup() of SemanticCache only returns an entry of the model that was   *)
(* asked for, which had not expired when it was looked at, to a prompt     *)
(* that is similar, whatever was evicted, invalidated or written back      *)
(* between its commands.                                                   *)
THEOREM HitsAnswer == Spec => []HitsAnswerTheCall
<1>1. ModelsInv => HitsAnswerTheCall
  BY DEF ModelsInv, Sound, CallSound, Hit, HitsAnswerTheCall
<1> QED BY <1>1, ModelsInvariance, PTL

(* chatCompletion asks at most MaxAttempts times and returns the one       *)
(* answer it is given, whatever fails in the cache, and the collector      *)
(* counts each hit and no error twice.                                     *)
THEOREM AnswersPaid == Spec => []AnswersPaidOnce
<1>1. ModelsInv => AnswersPaidOnce
  <2> SUFFICES ASSUME ModelsInv PROVE AnswersPaidOnce
    OBVIOUS
  <2>1. ASSUME NEW c \in Calls
        PROVE  /\ At(c, "request") => call[c].attempt < MaxAttempts
               /\ answers[c] <= 1
               /\ answers[c] = 1 => call[c].source = "model"
               /\ call[c].source = "model" => answers[c] = 1 /\ call[c].at # "backoff"
    BY DEF ModelsInv, Sound, CallSound, Paid, At
  <2>2. /\ metrics.hitCount =
             Cardinality({c \in Calls : At(c, "answered") /\ call[c].source # "model"})
        /\ metrics.errorCount + Cardinality({c \in Calls : call[c].at \in {"broke", "lost"}})
             <= troubles
    BY DEF ModelsInv, Paid, Hits, Failing
  <2> QED BY <2>1, <2>2 DEF AnswersPaidOnce
<1> QED BY <1>1, ModelsInvariance, PTL

(* What clearCache and the invalidations were to remove never comes back   *)
(* to the table, and is out of the hot cache once they are done unless a   *)
(* task held it meanwhile or one of them failed; and however sets evict    *)
(* at the same time, the keys of the hot cache are within its size but for *)
(* those that a race left without a rank.                                  *)
THEOREM HotCacheStaysKept == Spec => []HotCacheKept
<1>1. ModelsInv => InvalidatedStaysOut
  <2>1. ModelsInv => \A e \in Rows : e.by \notin dropped
    BY DEF ModelsInv, Out
  <2>2. ASSUME ModelsInv, \A a \in Admins : admin[a].at \in {"idle", "ok", "error"},
               NEW e \in Hot, e.by \in dropped, e.by \notin raced
        PROVE  FALSE
    <3>1. \E a \in Admins : Responsible(a, e)
      BY <2>2 DEF ModelsInv, Out, Copies
    <3> QED BY <2>2, <3>1 DEF Responsible
  <2> QED BY <2>1, <2>2 DEF InvalidatedStaysOut
<1>2. ModelsInv => HotSizeBounded
  <2> SUFFICES ASSUME ModelsInv, troubles = 0, \A c \in Calls : call[c].at \notin Fills
               PROVE  Cardinality(HotKeys \ strays) <= maxSize
    BY DEF HotSizeBounded, Filling
  <2>1. \A c \in Calls : ~Sees(c) /\ ~At(c, "fillRank")
    BY DEF Sees, At, Fills
  <2>2. Len(ranks) <= maxSize
    BY <2>1 DEF ModelsInv, Bounded
  <2>3. HotKeys \ strays \in SUBSET ToSet(ranks)
    BY <2>1 DEF ModelsInv, Keyed
  <2>4. /\ IsFiniteSet(ToSet(ranks)) /\ Cardinality(ToSet(ranks)) = Len(ranks)
        /\ Len(ranks) \in Nat
    BY Ranked DEF ModelsInv
  <2>5. Cardinality(HotKeys \ strays) <= Len(ranks) /\ Cardinality(HotKeys \ strays) \in Nat
    BY <2>3, <2>4, FS_Subset, FS_CardinalityType
  <2> QED BY <2>2, <2>4, <2>5, SemanticCacheAssumption
<1> QED BY <1>1, <1>2, ModelsInvariance, PTL DEF HotCacheKept
=============================================================================
