------------------------- MODULE ObservabilityProofs -------------------------
(***************************************************************************)
(* Proofs about what MCObservability puts together: the tokens and the     *)
(* calls of the clients of other services, the request limit and the       *)
(* permission matrix; the traces and counters, the objectives, the health  *)
(* answers, the audit log and the alerts; and the types of all of them.    *)
(***************************************************************************)
EXTENDS MCObservability, FiniteSetTheorems, SequenceTheorems, WellFoundedInduction, TLAPS

-----------------------------------------------------------------------------
(* The tokens.  An answer on its way brings a pair of its own.             *)
Coming(t) == OpenRequest(t) /\ request[t].pair # 0

TokenTypes ==
    /\ pairs \in Seq([grant : Nat, honoured : BOOLEAN])
    /\ accessToken \in 0..Len(pairs) /\ refreshToken \in 0..Len(pairs)
    /\ request \in [TokenCalls -> [pc : {"idle", "exchange", "refresh", "done", "failed"},
                                   pair : Nat, rotated : BOOLEAN]]
    /\ \A t \in TokenCalls : request[t].pair <= Len(pairs)
    /\ lost \in Nat /\ crossed \in BOOLEAN

(* Nobody has used the refresh token of a pair that is on its way.         *)
PairsApart ==
    /\ \A t \in TokenCalls : Coming(t) =>
         /\ request[t].pair # refreshToken
         /\ request[t].rotated => pairs[request[t].pair].honoured
    /\ \A t, u \in TokenCalls : Coming(t) /\ Coming(u) /\ t # u => request[t].pair # request[u].pair

(* Without a crossing, whatever is on its way is of the grant of the token *)
(* that asked for it.                                                      *)
OneGrant ==
    /\ accessToken # 0 /\ refreshToken # 0 =>
         pairs[accessToken].grant = pairs[refreshToken].grant
    /\ \A t \in TokenCalls : request[t].pc = "refresh" /\ request[t].pair # 0 =>
         refreshToken # 0 /\ pairs[request[t].pair].grant = pairs[refreshToken].grant
    /\ \A t, u \in TokenCalls : request[t].pc = "exchange" /\ OpenRequest(u) => t = u
    /\ lost = 0 /\ refreshToken # 0 =>
         \/ pairs[refreshToken].honoured
         \/ \E t \in TokenCalls : Coming(t) /\ request[t].rotated

TokensInv == TokenTypes /\ PairsApart /\ (~crossed => OneGrant)

(* A new pair at the end leaves those before it alone.                     *)
LEMMA PairAdded ==
  ASSUME NEW s \in Seq([grant : Nat, honoured : BOOLEAN]),
         NEW p \in [grant : Nat, honoured : BOOLEAN]
  PROVE  /\ Append(s, p) \in Seq([grant : Nat, honoured : BOOLEAN])
         /\ Len(s) \in Nat /\ Len(Append(s, p)) = Len(s) + 1
         /\ Append(s, p)[Len(s) + 1] = p
         /\ \A i \in 1..Len(s) : Append(s, p)[i] = s[i]
OBVIOUS

LEMMA SetKeepsTokens ==
  ASSUME TokensInv, NEW r \in BOOLEAN, NEW x \in BOOLEAN, SetAccessToken(r, x)
  PROVE  TokensInv'
<1> DEFINE p == [grant |-> Len(pairs) + 1, honoured |-> r]
<1> USE DEF TokensInv
<1>1. /\ pairs' = Append(pairs, p) /\ p \in [grant : Nat, honoured : BOOLEAN]
      /\ accessToken' = Len(pairs') /\ refreshToken' = (IF r THEN Len(pairs') ELSE 0)
      /\ request' = request /\ lost' = lost
      /\ crossed' = (crossed \/ \E t \in TokenCalls : OpenRequest(t))
  BY DEF SetAccessToken, Issued, TokenTypes
<1>2. /\ pairs' \in Seq([grant : Nat, honoured : BOOLEAN])
      /\ Len(pairs) \in Nat /\ Len(pairs') = Len(pairs) + 1 /\ pairs'[Len(pairs')] = p
      /\ \A i \in 1..Len(pairs) : pairs'[i] = pairs[i]
  BY <1>1, PairAdded DEF TokenTypes
<1> HIDE DEF p
<1>3. TokenTypes'
  <2>1. crossed' \in BOOLEAN
    BY <1>1, Zenon DEF TokenTypes
  <2> QED BY <1>1, <1>2, <2>1 DEF TokenTypes
<1>4. PairsApart'
  BY <1>1, <1>2 DEF TokenTypes, PairsApart, Coming, OpenRequest
<1>5. ASSUME ~crossed' PROVE OneGrant'
  <2>1. \A t \in TokenCalls : ~OpenRequest(t)
    BY <1>1, <1>5
  <2>2. p.honoured = r
    BY DEF p
  <2> QED BY <1>1, <1>2, <2>1, <2>2 DEF TokenTypes, OneGrant, Coming, OpenRequest
<1> QED BY <1>3, <1>4, <1>5

(* A request that opens: t asks, and the pair it is given is a new one.    *)
LEMMA OpenedKeepsPairs ==
  ASSUME TokensInv, NEW t \in TokenCalls, ~OpenRequest(t), NEW q,
         q \in [pc : {"exchange", "refresh"}, pair : Nat, rotated : BOOLEAN],
         request' = [request EXCEPT ![t] = q],
         UNCHANGED <<accessToken, refreshToken, lost>>, crossed' \in BOOLEAN,
         pairs' \in Seq([grant : Nat, honoured : BOOLEAN]), Len(pairs') >= Len(pairs),
         q.pair # 0 => /\ q.pair = Len(pairs) + 1 /\ q.pair = Len(pairs')
                       /\ q.rotated => pairs'[q.pair].honoured,
         \A i \in 1..Len(pairs) : i # refreshToken => pairs'[i] = pairs[i]
  PROVE  TokenTypes' /\ PairsApart'
<1> USE DEF TokensInv
<1>1. Len(pairs) \in Nat /\ Len(pairs') \in Nat
  BY DEF TokenTypes
<1>2. request'[t] = q /\ \A u \in TokenCalls : u # t => request'[u] = request[u]
  BY DEF TokenTypes
<1>3. q.pair \in Nat /\ q.pair <= Len(pairs') /\ q.rotated \in BOOLEAN
      /\ q.pc \in {"exchange", "refresh"}
  <2>1. q.pair \in Nat /\ q.rotated \in BOOLEAN /\ q.pc \in {"exchange", "refresh"}
    OBVIOUS
  <2>2. q.pair <= Len(pairs')
    <3>1. CASE q.pair = 0
      BY <1>1, <3>1
    <3>2. CASE q.pair # 0
      BY <1>1, <3>2
    <3> QED BY <3>1, <3>2
  <2> QED BY <2>1, <2>2
<1>4. \A u \in TokenCalls : request[u].pair <= Len(pairs)
  BY DEF TokenTypes
<1>5. TokenTypes'
  <2>1. q \in [pc : {"idle", "exchange", "refresh", "done", "failed"}, pair : Nat,
               rotated : BOOLEAN]
    OBVIOUS
  <2>2. request' \in [TokenCalls -> [pc : {"idle", "exchange", "refresh", "done", "failed"},
                                     pair : Nat, rotated : BOOLEAN]]
    BY <2>1 DEF TokenTypes
  <2>3. \A u \in TokenCalls : request'[u].pair <= Len(pairs')
    <3> SUFFICES ASSUME NEW u \in TokenCalls PROVE request'[u].pair <= Len(pairs')
      OBVIOUS
    <3>1. request[u].pair \in Nat
      BY DEF TokenTypes
    <3> QED BY <1>1, <1>2, <1>3, <1>4, <3>1
  <2>4. accessToken' \in 0..Len(pairs') /\ refreshToken' \in 0..Len(pairs')
    BY <1>1 DEF TokenTypes
  <2>5. lost' \in Nat
    BY DEF TokenTypes
  <2> QED BY <2>2, <2>3, <2>4, <2>5 DEF TokenTypes
<1>6. ASSUME NEW u \in TokenCalls, Coming(u)'
      PROVE  /\ request'[u].pair # refreshToken'
             /\ request'[u].rotated => pairs'[request'[u].pair].honoured
  <2>1. CASE u = t
    <3>1. q.pair # 0
      BY <1>2, <1>6, <2>1 DEF Coming
    <3>2. q.pair = Len(pairs) + 1 /\ (q.rotated => pairs'[q.pair].honoured)
      BY <3>1
    <3>3. refreshToken' \in 0..Len(pairs)
      BY DEF TokenTypes
    <3> QED BY <1>1, <1>2, <2>1, <3>2, <3>3
  <2>2. CASE u # t
    <3>1. Coming(u) /\ request'[u] = request[u]
      BY <1>2, <1>6, <2>2 DEF Coming, OpenRequest
    <3>2. /\ request[u].pair # refreshToken
          /\ request[u].rotated => pairs[request[u].pair].honoured
      BY <3>1 DEF PairsApart
    <3>3. request[u].pair \in 1..Len(pairs)
      BY <1>1, <1>4, <3>1 DEF TokenTypes, Coming
    <3> QED BY <3>1, <3>2, <3>3
  <2> QED BY <2>1, <2>2
<1>7. ASSUME NEW u \in TokenCalls, NEW v \in TokenCalls, Coming(u)', Coming(v)', u # v
      PROVE  request'[u].pair # request'[v].pair
  <2>1. ASSUME NEW w \in TokenCalls, Coming(w)', w # t
        PROVE  Coming(w) /\ request'[w] = request[w] /\ request[w].pair # Len(pairs) + 1
    <3>1. Coming(w) /\ request'[w] = request[w]
      BY <1>2, <2>1 DEF Coming, OpenRequest
    <3>2. request[w].pair \in Nat /\ request[w].pair <= Len(pairs)
      BY <1>4 DEF TokenTypes
    <3> QED BY <1>1, <3>1, <3>2
  <2>2. CASE u = t
    <3>1. q.pair = Len(pairs) + 1
      <4>1. q.pair # 0
        BY <1>2, <1>7, <2>2 DEF Coming
      <4> QED BY <4>1
    <3> QED BY <1>2, <1>7, <2>1, <2>2, <3>1
  <2>3. CASE v = t
    <3>1. q.pair = Len(pairs) + 1
      <4>1. q.pair # 0
        BY <1>2, <1>7, <2>3 DEF Coming
      <4> QED BY <4>1
    <3> QED BY <1>2, <1>7, <2>1, <2>3, <3>1
  <2>4. CASE u # t /\ v # t
    BY <1>7, <2>1, <2>4 DEF PairsApart
  <2> QED BY <2>2, <2>3, <2>4
<1>8. PairsApart'
  BY <1>6, <1>7 DEF PairsApart
<1> QED BY <1>5, <1>8

LEMMA ExchangeKeepsTokens ==
  ASSUME TokensInv, NEW t \in TokenCalls, ExchangeCode(t)
  PROVE  TokensInv'
<1> USE DEF TokensInv
<1>1. PICK good \in BOOLEAN, withRefresh \in BOOLEAN :
        /\ pairs' = IF good THEN Append(pairs, [grant |-> Len(pairs) + 1, honoured |-> withRefresh])
                    ELSE pairs
        /\ request' = [request EXCEPT ![t] = [pc |-> "exchange", rotated |-> good /\ withRefresh,
                                              pair |-> IF good THEN Len(pairs') ELSE 0]]
  BY DEF ExchangeCode, Issued
<1> DEFINE p == [grant |-> Len(pairs) + 1, honoured |-> withRefresh]
<1>2. /\ UNCHANGED <<accessToken, refreshToken, lost>> /\ request[t].pc = "idle"
      /\ crossed' = (crossed \/ \E u \in TokenCalls : OpenRequest(u))
  BY DEF ExchangeCode
<1>3. p \in [grant : Nat, honoured : BOOLEAN] /\ p.honoured = withRefresh /\ Len(pairs) \in Nat
  BY DEF TokenTypes
<1>9. pairs' = IF good THEN Append(pairs, p) ELSE pairs
  BY <1>1
<1> DEFINE q == [pc |-> "exchange", rotated |-> good /\ withRefresh,
                 pair |-> IF good THEN Len(pairs') ELSE 0]
<1>4. /\ pairs' \in Seq([grant : Nat, honoured : BOOLEAN]) /\ Len(pairs') >= Len(pairs)
      /\ good => Len(pairs') = Len(pairs) + 1 /\ pairs'[Len(pairs')] = p
      /\ \A i \in 1..Len(pairs) : pairs'[i] = pairs[i]
  <2> HIDE DEF p
  <2>1. CASE good
    BY <1>3, <1>9, <2>1, PairAdded DEF TokenTypes
  <2>2. CASE ~good
    BY <1>3, <1>9, <2>2 DEF TokenTypes
  <2> QED BY <2>1, <2>2
<1>5. /\ q \in [pc : {"exchange", "refresh"}, pair : Nat, rotated : BOOLEAN]
      /\ q.pc = "exchange" /\ q.rotated = (good /\ withRefresh) /\ q.pair = (IF good THEN Len(pairs') ELSE 0)
      /\ request' = [request EXCEPT ![t] = q]
  BY <1>1, <1>3, <1>4
<1>6. crossed' \in BOOLEAN
  BY <1>2, Zenon DEF TokenTypes
<1> HIDE DEF p, q
<1>7. TokenTypes' /\ PairsApart'
  <2>1. ~OpenRequest(t)
    BY <1>2 DEF OpenRequest
  <2> QED BY <1>2, <1>3, <1>4, <1>5, <1>6, <2>1, OpenedKeepsPairs
<1>8. ASSUME ~crossed' PROVE OneGrant'
  <2>1. ~crossed /\ \A u \in TokenCalls : ~OpenRequest(u)
    BY <1>2, <1>8
  <2>2. request'[t] = q /\ \A u \in TokenCalls : u # t => request'[u] = request[u]
    BY <1>5 DEF TokenTypes
  <2>3. \A u \in TokenCalls : u # t => ~OpenRequest(u)'
    BY <2>1, <2>2 DEF OpenRequest
  <2>4. OneGrant /\ \A u \in TokenCalls : ~Coming(u)
    BY <2>1 DEF Coming
  <2>5. accessToken' # 0 /\ refreshToken' # 0 =>
          pairs'[accessToken'].grant = pairs'[refreshToken'].grant
    <3> SUFFICES ASSUME accessToken # 0, refreshToken # 0
                 PROVE  pairs'[accessToken].grant = pairs'[refreshToken].grant
      BY <1>2
    <3>1. accessToken \in 1..Len(pairs) /\ refreshToken \in 1..Len(pairs)
      BY <1>3 DEF TokenTypes
    <3> QED BY <1>4, <2>4, <3>1 DEF OneGrant
  <2>6. lost' = 0 /\ refreshToken' # 0 => pairs'[refreshToken'].honoured
    <3> SUFFICES ASSUME lost = 0, refreshToken # 0 PROVE pairs'[refreshToken].honoured
      BY <1>2
    <3>1. pairs[refreshToken].honoured
      BY <2>4 DEF OneGrant
    <3>2. refreshToken \in 1..Len(pairs)
      BY <1>3 DEF TokenTypes
    <3> QED BY <1>4, <3>1, <3>2
  <2>7. \A u \in TokenCalls : request'[u].pc # "refresh"
    BY <1>5, <2>2, <2>3 DEF OpenRequest
  <2>8. \A u, v \in TokenCalls : request'[u].pc = "exchange" /\ OpenRequest(v)' => u = v
    BY <2>3 DEF OpenRequest
  <2> QED BY <2>5, <2>6, <2>7, <2>8 DEF OneGrant
<1> QED BY <1>7, <1>8

LEMMA RefreshKeepsTokens ==
  ASSUME TokensInv, NEW t \in TokenCalls, RefreshAccessToken(t)
  PROVE  TokensInv'
<1> DEFINE n == refreshToken
<1> USE DEF TokensInv
<1>1. /\ UNCHANGED <<accessToken, refreshToken, lost>> /\ request[t].pc = "idle" /\ n # 0
      /\ crossed' = (crossed \/ \E u \in TokenCalls : request[u].pc = "exchange")
      /\ ~OpenRequest(t)
  BY DEF RefreshAccessToken, OpenRequest
<1>2. crossed' \in BOOLEAN
  BY <1>1, Zenon DEF TokenTypes
<1>3. /\ Len(pairs) \in Nat /\ n \in 1..Len(pairs)
      /\ pairs[n] \in [grant : Nat, honoured : BOOLEAN]
  <2>1. /\ pairs \in Seq([grant : Nat, honoured : BOOLEAN])
        /\ refreshToken \in 0..Len(pairs) /\ refreshToken # 0
    BY <1>1 DEF TokenTypes
  <2>2. Len(pairs) \in Nat /\ n \in 1..Len(pairs)
    BY <2>1
  <2>3. \A i \in 1..Len(pairs) : pairs[i] \in [grant : Nat, honoured : BOOLEAN]
    BY <2>1, ElementOfSeq
  <2> HIDE DEF n
  <2> QED BY <2>2, <2>3
(* The token is not honoured any more: nothing comes of it.                *)
<1>4. CASE ~pairs[n].honoured
  <2> DEFINE q == [NoRequest EXCEPT !.pc = "refresh"]
  <2>1. pairs' = pairs /\ request' = [request EXCEPT ![t] = q]
    BY <1>4 DEF RefreshAccessToken
  <2>2. /\ q \in [pc : {"exchange", "refresh"}, pair : Nat, rotated : BOOLEAN]
        /\ q.pair = 0 /\ q.pc = "refresh"
    BY DEF NoRequest
  <2> HIDE DEF q
  <2>3. TokenTypes' /\ PairsApart'
    <3>1. pairs' \in Seq([grant : Nat, honoured : BOOLEAN]) /\ Len(pairs') >= Len(pairs)
      BY <1>3, <2>1 DEF TokenTypes
    <3> QED BY <1>1, <1>2, <2>1, <2>2, <3>1, OpenedKeepsPairs
  <2>4. ASSUME ~crossed' PROVE OneGrant'
    <3>1. ~crossed /\ \A u \in TokenCalls : request[u].pc # "exchange"
      BY <1>1, <2>4
    <3>2. request'[t] = q /\ \A u \in TokenCalls : u # t => request'[u] = request[u]
      BY <2>1 DEF TokenTypes
    <3> QED BY <1>1, <2>1, <2>2, <3>1, <3>2 DEF TokenTypes, OneGrant, Coming, OpenRequest
  <2> QED BY <2>3, <2>4
<1>5. CASE pairs[n].honoured
  <2>1. PICK rotated \in BOOLEAN :
          /\ pairs' = Append([pairs EXCEPT ![n].honoured = ~rotated],
                             [grant |-> pairs[n].grant, honoured |-> rotated])
          /\ request' = [request EXCEPT ![t] = [pc |-> "refresh", pair |-> Len(pairs) + 1,
                                                rotated |-> rotated]]
    BY <1>5 DEF RefreshAccessToken
  <2> DEFINE q == [pc |-> "refresh", pair |-> Len(pairs) + 1, rotated |-> rotated]
             p == [grant |-> pairs[n].grant, honoured |-> rotated]
             s == [pairs EXCEPT ![n].honoured = ~rotated]
  <2>2. /\ s \in Seq([grant : Nat, honoured : BOOLEAN]) /\ Len(s) = Len(pairs)
        /\ \A i \in 1..Len(pairs) : i # n => s[i] = pairs[i]
        /\ s[n].grant = pairs[n].grant /\ s[n].honoured = ~rotated
    <3>1. [pairs[n] EXCEPT !.honoured = ~rotated] \in [grant : Nat, honoured : BOOLEAN]
      BY <1>3
    <3>2. s = [pairs EXCEPT ![n] = [pairs[n] EXCEPT !.honoured = ~rotated]]
      OBVIOUS
    <3>3. s \in Seq([grant : Nat, honoured : BOOLEAN]) /\ Len(s) = Len(pairs)
      BY <1>3, <3>1, <3>2 DEF TokenTypes
    <3>4. s[n] = [pairs[n] EXCEPT !.honoured = ~rotated]
      BY <1>3, <3>2 DEF TokenTypes
    <3>5. \A i \in 1..Len(pairs) : i # n => s[i] = pairs[i]
      BY DEF TokenTypes
    <3> QED BY <1>3, <3>3, <3>4, <3>5
  <2>3. p \in [grant : Nat, honoured : BOOLEAN] /\ p.grant = pairs[n].grant /\ p.honoured = rotated
    BY <1>3
  <2>4. /\ q \in [pc : {"exchange", "refresh"}, pair : Nat, rotated : BOOLEAN]
        /\ q.pc = "refresh" /\ q.pair = Len(pairs) + 1 /\ q.rotated = rotated
    BY <1>3
  <2>5. pairs' = Append(s, p) /\ request' = [request EXCEPT ![t] = q]
    BY <2>1
  <2> HIDE DEF s, p, q
  <2>6. /\ pairs' \in Seq([grant : Nat, honoured : BOOLEAN]) /\ Len(pairs') = Len(pairs) + 1
        /\ pairs'[Len(pairs) + 1] = p /\ \A i \in 1..Len(pairs) : pairs'[i] = s[i]
    BY <2>2, <2>3, <2>5, PairAdded
  <2>7. TokenTypes' /\ PairsApart'
    <3>1. Len(pairs') >= Len(pairs)
      BY <1>3, <2>6
    <3>2. \A i \in 1..Len(pairs) : i # refreshToken => pairs'[i] = pairs[i]
      BY <2>2, <2>6
    <3>3. q.pair = Len(pairs) + 1 /\ q.pair = Len(pairs') /\ (q.rotated => pairs'[q.pair].honoured)
      BY <2>3, <2>4, <2>6
    <3> QED BY <1>1, <1>2, <2>4, <2>5, <2>6, <3>1, <3>2, <3>3, OpenedKeepsPairs
  <2>8. ASSUME ~crossed' PROVE OneGrant'
    <3>1. OneGrant /\ \A u \in TokenCalls : request[u].pc # "exchange"
      BY <1>1, <2>8
    <3>2. request'[t] = q /\ \A u \in TokenCalls : u # t => request'[u] = request[u]
      BY <2>5 DEF TokenTypes
    <3>3. \A i \in 1..Len(pairs) : pairs'[i].grant = pairs[i].grant
      BY <2>2, <2>6
    <3>4. /\ pairs'[n].honoured = ~rotated
          /\ pairs'[Len(pairs) + 1].grant = pairs'[n].grant
      BY <1>3, <2>2, <2>3, <2>6
    <3>5. accessToken' # 0 /\ refreshToken' # 0 =>
            pairs'[accessToken'].grant = pairs'[refreshToken'].grant
      BY <1>1, <1>3, <3>1, <3>3 DEF OneGrant, TokenTypes
    <3>6. ASSUME NEW u \in TokenCalls, request'[u].pc = "refresh", request'[u].pair # 0
          PROVE  refreshToken' # 0 /\ pairs'[request'[u].pair].grant = pairs'[refreshToken'].grant
      <4>1. CASE u = t
        BY <1>1, <2>4, <3>2, <3>4, <4>1
      <4>2. CASE u # t
        BY <1>1, <1>3, <3>1, <3>2, <3>3, <3>6, <4>2 DEF OneGrant, TokenTypes
      <4> QED BY <4>1, <4>2
    <3>7. \A u, v \in TokenCalls : request'[u].pc # "exchange"
      BY <2>4, <3>1, <3>2
    <3>8. \/ pairs'[n].honoured
          \/ \E u \in TokenCalls : request'[u].pc = "refresh" /\ request'[u].pair # 0
                                    /\ request'[u].rotated
      <4>1. CASE rotated
        <5>1. request'[t].pc = "refresh" /\ request'[t].rotated = rotated
          BY <2>4, <3>2
        <5>2. request'[t].pair # 0
          BY <1>3, <2>4, <3>2
        <5> QED BY <4>1, <5>1, <5>2
      <4>2. CASE ~rotated
        BY <3>4, <4>2
      <4> QED BY <4>1, <4>2
    <3> QED BY <1>1, <3>5, <3>6, <3>7, <3>8 DEF OneGrant, Coming, OpenRequest
  <2> QED BY <2>7, <2>8
<1> QED BY <1>4, <1>5
(* A request that ends is not open any more; the others stay as they are.  *)
LEMMA ClosedRequest ==
  ASSUME TokenTypes, NEW t \in TokenCalls, NEW pc \in {"done", "failed"},
         request' = [request EXCEPT ![t].pc = pc]
  PROVE  /\ request' \in [TokenCalls -> [pc : {"idle", "exchange", "refresh", "done", "failed"},
                                         pair : Nat, rotated : BOOLEAN]]
         /\ request'[t].pc = pc /\ request'[t].pair = request[t].pair /\ ~Coming(t)'
         /\ \A u \in TokenCalls : u # t => request'[u] = request[u]
<1> DEFINE r == [request[t] EXCEPT !.pc = pc]
<1>1. /\ request \in [TokenCalls -> [pc : {"idle", "exchange", "refresh", "done", "failed"},
                                     pair : Nat, rotated : BOOLEAN]]
      /\ request' = [request EXCEPT ![t] = r]
  BY DEF TokenTypes
<1>2. request[t] \in [pc : {"idle", "exchange", "refresh", "done", "failed"},
                      pair : Nat, rotated : BOOLEAN]
  BY <1>1
<1>3. /\ r \in [pc : {"idle", "exchange", "refresh", "done", "failed"},
                pair : Nat, rotated : BOOLEAN]
      /\ r.pc = pc /\ r.pair = request[t].pair
  BY <1>2
<1> HIDE DEF r
<1>4. request'[t] = r /\ \A u \in TokenCalls : u # t => request'[u] = request[u]
  BY <1>1
<1> QED BY <1>1, <1>3, <1>4 DEF Coming, OpenRequest

LEMMA AnswerKeepsTokens ==
  ASSUME TokensInv, NEW t \in TokenCalls, TokenAnswer(t)
  PROVE  TokensInv'
<1> DEFINE p == request[t].pair
<1> USE DEF TokensInv
<1>1. /\ UNCHANGED <<pairs, lost, crossed>> /\ Coming(t)
      /\ accessToken' = p
      /\ refreshToken' = IF request[t].rotated THEN p
                         ELSE IF request[t].pc = "exchange" THEN 0 ELSE refreshToken
      /\ request' = [request EXCEPT ![t].pc = "done"]
  BY DEF TokenAnswer, Coming
<1>2. /\ request' \in [TokenCalls -> [pc : {"idle", "exchange", "refresh", "done", "failed"},
                                      pair : Nat, rotated : BOOLEAN]]
      /\ request'[t].pc = "done" /\ request'[t].pair = p /\ ~Coming(t)'
      /\ \A u \in TokenCalls : u # t => request'[u] = request[u]
  BY <1>1, ClosedRequest
<1>3. p \in 1..Len(pairs) /\ \A u \in TokenCalls : request[u].pair <= Len(pairs)
  <2>1. p \in Nat /\ Len(pairs) \in Nat /\ p <= Len(pairs)
    BY DEF TokenTypes
  <2>2. p # 0 /\ \A u \in TokenCalls : request[u].pair <= Len(pairs)
    BY <1>1 DEF Coming, TokenTypes
  <2> HIDE DEF p
  <2> QED BY <2>1, <2>2
<1>4. \A u \in TokenCalls : Coming(u)' => u # t /\ Coming(u) /\ request'[u] = request[u]
  BY <1>2 DEF Coming, OpenRequest
<1> HIDE DEF p
<1>5. TokenTypes'
  <2>1. \A u \in TokenCalls : request'[u].pair <= Len(pairs')
    BY <1>1, <1>2, <1>3
  <2> QED BY <1>1, <1>2, <1>3, <2>1 DEF TokenTypes
<1>6. PairsApart'
  <2>1. \A u \in TokenCalls : Coming(u)' => request[u].pair # p /\ request[u].pair # refreshToken
    BY <1>1, <1>4 DEF PairsApart, p
  <2>2. \A u \in TokenCalls : Coming(u)' => request[u].pair # 0
    BY <1>4 DEF Coming
  <2> QED BY <1>1, <1>4, <2>1, <2>2 DEF PairsApart
<1>7. ASSUME ~crossed' PROVE OneGrant'
  <2>1. OneGrant
    BY <1>1, <1>7
  <2>2. request[t].pc = "refresh" =>
          refreshToken # 0 /\ pairs[p].grant = pairs[refreshToken].grant
    BY <1>1, <2>1 DEF OneGrant, Coming, p
  <2>3. ~request[t].rotated /\ refreshToken' # 0 =>
          request[t].pc = "refresh" /\ refreshToken' = refreshToken
    BY <1>1 DEF Coming, OpenRequest
  <2>4. accessToken' # 0 /\ refreshToken' # 0 =>
          pairs'[accessToken'].grant = pairs'[refreshToken'].grant
    BY <1>1, <2>2, <2>3
  <2>5. ASSUME NEW u \in TokenCalls, request'[u].pc = "refresh", request'[u].pair # 0
        PROVE  refreshToken' # 0 /\ pairs'[request'[u].pair].grant = pairs'[refreshToken'].grant
    <3>1. u # t /\ request'[u] = request[u]
      BY <1>2, <2>5
    <3>2. refreshToken # 0 /\ pairs[request[u].pair].grant = pairs[refreshToken].grant
      BY <2>1, <2>5, <3>1 DEF OneGrant
    <3>3. request[t].pc = "refresh"
      BY <1>1, <2>1, <2>5, <3>1 DEF OneGrant, Coming, OpenRequest
    <3> QED BY <1>1, <1>3, <2>2, <3>1, <3>2, <3>3
  <2>6. \A u, v \in TokenCalls : request'[u].pc = "exchange" /\ OpenRequest(v)' => u = v
    BY <1>2, <2>1 DEF OneGrant, OpenRequest
  <2>7. ASSUME lost' = 0, refreshToken' # 0, ~pairs'[refreshToken'].honoured
        PROVE  \E u \in TokenCalls : Coming(u)' /\ request'[u].rotated
    <3>1. ~request[t].rotated /\ refreshToken' = refreshToken
      BY <1>1, <2>3, <2>7 DEF PairsApart, p
    <3>2. PICK u \in TokenCalls : Coming(u) /\ request[u].rotated
      BY <1>1, <2>1, <2>7, <3>1 DEF OneGrant
    <3>3. request'[u] = request[u]
      BY <1>2, <3>1, <3>2
    <3> QED BY <3>2, <3>3 DEF Coming, OpenRequest
  <2> QED BY <2>4, <2>5, <2>6, <2>7 DEF OneGrant
<1> QED BY <1>5, <1>6, <1>7

LEMMA FailureKeepsTokens ==
  ASSUME TokensInv, NEW t \in TokenCalls, TokenFails(t)
  PROVE  TokensInv'
<1> USE DEF TokensInv
<1>1. /\ UNCHANGED <<accessToken, refreshToken, pairs, crossed>> /\ OpenRequest(t)
      /\ lost' = IF request[t].pair # 0 THEN lost + 1 ELSE lost
      /\ request' = [request EXCEPT ![t].pc = "failed"]
  BY DEF TokenFails
<1>2. /\ request' \in [TokenCalls -> [pc : {"idle", "exchange", "refresh", "done", "failed"},
                                      pair : Nat, rotated : BOOLEAN]]
      /\ request'[t].pc = "failed" /\ request'[t].pair = request[t].pair /\ ~Coming(t)'
      /\ \A u \in TokenCalls : u # t => request'[u] = request[u]
  BY <1>1, ClosedRequest
<1>3. \A u \in TokenCalls : Coming(u)' => Coming(u) /\ request'[u] = request[u]
  BY <1>2 DEF Coming, OpenRequest
<1>4. TokenTypes'
  <2>1. \A u \in TokenCalls : request'[u].pair <= Len(pairs')
    BY <1>1, <1>2 DEF TokenTypes
  <2>2. lost' \in Nat
    BY <1>1 DEF TokenTypes
  <2> QED BY <1>1, <1>2, <2>1, <2>2 DEF TokenTypes
<1>5. PairsApart'
  BY <1>1, <1>3 DEF PairsApart
<1>6. ASSUME ~crossed' PROVE OneGrant'
  <2>1. OneGrant
    BY <1>1, <1>6
  <2>2. \A u \in TokenCalls : request'[u].pc \in {"exchange", "refresh"} =>
          request'[u] = request[u]
    BY <1>2
  <2>3. ASSUME lost' = 0, refreshToken' # 0, ~pairs'[refreshToken'].honoured
        PROVE  \E u \in TokenCalls : Coming(u)' /\ request'[u].rotated
    <3>1. lost = 0 /\ ~Coming(t)
      BY <1>1, <2>3 DEF TokenTypes, Coming
    <3>2. PICK u \in TokenCalls : Coming(u) /\ request[u].rotated
      BY <1>1, <2>1, <2>3, <3>1 DEF OneGrant
    <3>3. request'[u] = request[u]
      BY <1>2, <3>1, <3>2
    <3> QED BY <3>2, <3>3 DEF Coming, OpenRequest
  <2> QED BY <1>1, <2>1, <2>2, <2>3 DEF OneGrant, OpenRequest
<1> QED BY <1>4, <1>5, <1>6

LEMMA TokensFramed ==
  ASSUME TokensInv, UNCHANGED <<accessToken, refreshToken, pairs, request, lost, crossed>>
  PROVE  TokensInv'
BY DEF TokensInv, TokenTypes, PairsApart, OneGrant, Coming, OpenRequest

LEMMA TokensInvTogether ==
  ASSUME TokensInv
  PROVE  TokensTogether
BY DEF TokensInv, OneGrant, TokensTogether, Coming
-----------------------------------------------------------------------------
(* The calls: until a request is answered nothing is changed, and what is  *)
(* read again was changed.                                                 *)
CallRecords == [pc : {"idle", "sent", "rereading", "ok", "error"}, op : Operations,
                token : Nat, changes : {0, 1}]
CallInv(r) ==
    /\ r \in CallRecords
    /\ r.pc \in {"idle", "sent"} => r.changes = 0
    /\ r.pc = "rereading" => r.changes = 1 /\ r.op.writes
    /\ r.pc = "ok" => r.changes = IF r.op.writes THEN 1 ELSE 0

CallsInv == api \in [ApiCalls -> CallRecords] /\ \A c \in ApiCalls : CallInv(api[c])

(* Only what changes an issue reads it again.                              *)
LEMMA RereadsWrite == \A op \in Operations : op.writes \in BOOLEAN /\ (op.rereads => op.writes)
<1> DEFINE kinds == {Operation(FALSE, FALSE, FALSE), Operation(TRUE, FALSE, FALSE),
                     Operation(TRUE, TRUE, TRUE), Operation(TRUE, TRUE, FALSE),
                     Operation(FALSE, TRUE, FALSE)}
<1>1. Operations \subseteq kinds
  BY DEF Operations, GetCloudInstances, GetProjects, GetIssueTypes, GetPriorities, GetIssue,
         CreateIssue, UpdateIssue, GetTransitions, TransitionIssue, AddComment, SearchIssues,
         DeleteIssue, NotionSearch, GetPage, GetPageContent, GetDatabase, QueryDatabase,
         CreatePage, UpdatePage, CreateDatabase, AppendBlocks, DeleteBlock
<1>2. \A op \in kinds : op.writes \in BOOLEAN /\ (op.rereads => op.writes)
  <2>1. \A cloud, writes, rereads \in BOOLEAN :
          /\ Operation(cloud, writes, rereads).writes = writes
          /\ Operation(cloud, writes, rereads).rereads = rereads
    BY DEF Operation
  <2> QED BY <2>1
<1> QED BY <1>1, <1>2

LEMMA ApiStepKeepsCalls ==
  ASSUME CallsInv, NEW c \in ApiCalls, NEW r, CallInv(r), ApiStep(c, r)
  PROVE  CallsInv'
<1>1. api' = [api EXCEPT ![c] = r] /\ r \in CallRecords
  BY DEF ApiStep, CallInv
<1>2. api'[c] = r /\ \A d \in ApiCalls : d # c => api'[d] = api[d]
  BY <1>1 DEF CallsInv
<1>3. \A d \in ApiCalls : CallInv(api'[d])
  BY <1>2 DEF CallsInv
<1>4. api' \in [ApiCalls -> CallRecords]
  BY <1>1 DEF CallsInv
<1> QED BY <1>3, <1>4 DEF CallsInv

LEMMA CallingKeepsCalls ==
  ASSUME CallsInv, accessToken \in Nat, NEW c \in ApiCalls, Calling(c)
  PROVE  CallsInv'
<1> DEFINE a == api[c]
<1>1. CallInv(a) /\ a \in CallRecords
  BY DEF CallsInv, CallInv
<1>2. ASSUME NEW op \in Operations, StartApi(c, op) PROVE CallsInv'
  <2> DEFINE r == [pc |-> IF accessToken = 0 \/ (op.cloud /\ ~cloudId) THEN "error" ELSE "sent",
                   op |-> op, token |-> accessToken, changes |-> 0]
  <2>1. CallInv(r)
    BY <1>2 DEF CallInv, CallRecords
  <2>2. ApiStep(c, r)
    BY <1>2 DEF StartApi
  <2> HIDE DEF r
  <2> QED BY <2>1, <2>2, ApiStepKeepsCalls
<1>3. ASSUME a.pc = "sent", ApiAnswer(c) PROVE CallsInv'
  <2> DEFINE did == [a EXCEPT !.changes = IF @ < 2 /\ a.op.writes THEN @ + 1 ELSE @]
             next == IF a.op.rereads THEN "rereading" ELSE "ok"
             reread == [did EXCEPT !.pc = next]
             broken == [did EXCEPT !.pc = "error"]
             refused == [a EXCEPT !.pc = "error"]
  <2>1. a.changes = 0 /\ a.op \in Operations /\ a.op.writes \in BOOLEAN
        /\ (a.op.rereads => a.op.writes)
    BY <1>1, <1>3, RereadsWrite DEF CallInv, CallRecords
  <2>2. did \in CallRecords /\ did.op = a.op /\ did.changes = IF a.op.writes THEN 1 ELSE 0
    BY <1>1, <2>1 DEF CallRecords
  <2>3. CallInv(refused)
    BY <1>1, <2>1 DEF CallInv, CallRecords
  <2>4. ApiStep(c, reread) \/ ApiStep(c, broken) \/ ApiStep(c, refused)
    BY <1>3 DEF ApiAnswer
  <2> HIDE DEF did
  <2>5. CallInv(broken)
    BY <2>2 DEF CallInv, CallRecords
  <2>6. CallInv(reread)
    BY <2>1, <2>2 DEF CallInv, CallRecords
  <2> HIDE DEF reread, broken, refused
  <2> QED BY <2>3, <2>4, <2>5, <2>6, ApiStepKeepsCalls
<1>4. ASSUME Reread(c) PROVE CallsInv'
  <2> DEFINE ok == [a EXCEPT !.pc = "ok"]
             error == [a EXCEPT !.pc = "error"]
  <2>1. a.pc = "rereading" /\ (ApiStep(c, ok) \/ ApiStep(c, error))
    BY <1>4 DEF Reread
  <2>2. CallInv(ok) /\ CallInv(error)
    BY <1>1, <2>1 DEF CallInv, CallRecords
  <2> HIDE DEF ok, error
  <2> QED BY <2>1, <2>2, ApiStepKeepsCalls
<1> QED BY <1>2, <1>3, <1>4 DEF Calling, ApiAnswer

LEMMA CallsInvOnce ==
  ASSUME CallsInv
  PROVE  ChangesOnce
BY DEF CallsInv, CallInv, CallRecords, ChangesOnce

-----------------------------------------------------------------------------
(* The permission matrix.                                                  *)
LEMMA MatrixGrows == PermissionsGrow
<1>1. DOMAIN DefaultPermissions = {"team:write", "team:read", "tool:approve", "mcp:manage"}
  BY DEF DefaultPermissions
<1>2. \A action \in DOMAIN DefaultPermissions :
        DefaultPermissions[action] \subseteq DefaultPermissions["team:read"]
  BY <1>1 DEF DefaultPermissions
<1>3. "unknown" \notin DOMAIN DefaultPermissions /\ "team:read" \in DOMAIN DefaultPermissions
  BY <1>1
<1> QED BY <1>2, <1>3 DEF PermissionsGrow, Can
-----------------------------------------------------------------------------
(* The request limit.  Of an ip: the requests of the window it is in, and  *)
(* those of the minute before that window.                                 *)
RequestsOf(ip) == {i \in DOMAIN asked : asked[i].ip = ip}
Since(ip) == {i \in RequestsOf(ip) : asked[i].at + ONE_MINUTE >= buckets[ip].resetAt}
Before(ip) == {i \in RequestsOf(ip) : /\ asked[i].at + ONE_MINUTE < buckets[ip].resetAt
                                    /\ asked[i].at + 2 * ONE_MINUTE > buckets[ip].resetAt}
SinceThrough(ip) == {i \in Since(ip) : ~asked[i].limited}
BeforeThrough(ip) == {i \in Before(ip) : ~asked[i].limited}

LimitTypes ==
    /\ asked \in Seq([ip : Ips, at : Nat, limited : BOOLEAN])
    /\ buckets \in [Ips -> [count : Nat, resetAt : Nat]]
    /\ seconds \in Nat
    /\ \A i \in DOMAIN asked : asked[i].at <= seconds

(* The bucket counts the requests of its window: all of them while they    *)
(* are let through, and none that came before it.                          *)
BucketCounts(ip) ==
    /\ buckets[ip].count = 0 => RequestsOf(ip) = {}
    /\ buckets[ip].count # 0 => buckets[ip].resetAt <= seconds + ONE_MINUTE
    /\ \A i \in RequestsOf(ip) : asked[i].at < buckets[ip].resetAt
    /\ Cardinality(Since(ip)) >= buckets[ip].count
    /\ Cardinality(SinceThrough(ip)) <= buckets[ip].count
    /\ Cardinality(SinceThrough(ip)) <= MAX_REQUESTS_PER_MINUTE
    /\ Cardinality(BeforeThrough(ip)) <= MAX_REQUESTS_PER_MINUTE

(* The requests of the minute that ends with i, and those let through in   *)
(* the minute that begins with it.                                         *)
Lately(i) == {j \in DOMAIN asked : /\ j <= i /\ asked[j].ip = asked[i].ip
                                   /\ asked[j].at <= asked[i].at
                                   /\ asked[i].at < asked[j].at + ONE_MINUTE}
Ahead(i) == {j \in DOMAIN asked : /\ asked[j].ip = asked[i].ip /\ ~asked[j].limited
                                  /\ asked[i].at <= asked[j].at
                                  /\ asked[j].at < asked[i].at + ONE_MINUTE}
WindowsFair == \A i \in DOMAIN asked :
    /\ asked[i].limited => Cardinality(Lately(i)) > MAX_REQUESTS_PER_MINUTE
    /\ Cardinality(Ahead(i)) <= 2 * MAX_REQUESTS_PER_MINUTE

LimitInv == LimitTypes /\ (\A ip \in Ips : BucketCounts(ip)) /\ WindowsFair
(* The requests are numbered from 1: any set of them is finite.            *)
LEMMA RequestsFinite ==
  ASSUME NEW n \in Nat, NEW S \in SUBSET (1..n)
  PROVE  IsFiniteSet(S) /\ Cardinality(S) \in Nat
<1>1. IsFiniteSet(1..n)
  BY FS_Interval
<1> QED BY <1>1, FS_Subset, FS_CardinalityType

LEMMA SmallerRequests ==
  ASSUME NEW n \in Nat, NEW T \in SUBSET (1..n), NEW S \in SUBSET T
  PROVE  Cardinality(S) <= Cardinality(T)
<1>1. IsFiniteSet(T)
  BY RequestsFinite
<1> QED BY <1>1, FS_Subset

(* What the hook does to the request it is called for.                     *)
LEMMA OneMoreRequest ==
  ASSUME LimitTypes, NEW ip \in Ips, Limit(ip)
  PROVE  /\ Len(asked) \in Nat /\ DOMAIN asked = 1..Len(asked)
         /\ Len(asked') = Len(asked) + 1 /\ DOMAIN asked' = 1..Len(asked) + 1
         /\ asked' \in Seq([ip : Ips, at : Nat, limited : BOOLEAN])
         /\ \A i \in DOMAIN asked : asked'[i] = asked[i]
         /\ asked'[Len(asked) + 1].ip = ip /\ asked'[Len(asked) + 1].at = seconds
         /\ asked'[Len(asked) + 1].limited <=> buckets'[ip].count > MAX_REQUESTS_PER_MINUTE
         /\ seconds' = seconds
         /\ buckets' \in [Ips -> [count : Nat, resetAt : Nat]]
         /\ buckets'[ip] = NextBucket(buckets[ip])
         /\ \A a \in Ips : a # ip => buckets'[a] = buckets[a]
<1> DEFINE r == [ip |-> ip, at |-> seconds,
                 limited |-> buckets'[ip].count > MAX_REQUESTS_PER_MINUTE]
<1>1. /\ asked' = Append(asked, r) /\ seconds' = seconds
      /\ buckets' = [buckets EXCEPT ![ip] = NextBucket(buckets[ip])]
  BY DEF Limit
<1>2. /\ asked \in Seq([ip : Ips, at : Nat, limited : BOOLEAN]) /\ seconds \in Nat
      /\ buckets \in [Ips -> [count : Nat, resetAt : Nat]]
  BY DEF LimitTypes
<1>3. NextBucket(buckets[ip]) \in [count : Nat, resetAt : Nat]
  <2>1. buckets[ip] \in [count : Nat, resetAt : Nat]
    BY <1>2
  <2>2. seconds + ONE_MINUTE \in Nat
    BY <1>2 DEF ONE_MINUTE
  <2>3. [buckets[ip] EXCEPT !.count = buckets[ip].count + 1] \in [count : Nat, resetAt : Nat]
    BY <2>1
  <2>4. [count |-> 1, resetAt |-> seconds + ONE_MINUTE] \in [count : Nat, resetAt : Nat]
    BY <2>2
  <2> QED BY <2>3, <2>4 DEF NextBucket
<1>4. /\ r \in [ip : Ips, at : Nat, limited : BOOLEAN] /\ r.ip = ip /\ r.at = seconds
      /\ (r.limited <=> buckets'[ip].count > MAX_REQUESTS_PER_MINUTE)
  <2>1. r \in [ip : Ips, at : Nat, limited : BOOLEAN] /\ r.ip = ip /\ r.at = seconds
    BY <1>2
  <2>2. r.limited = (buckets'[ip].count > MAX_REQUESTS_PER_MINUTE)
    OBVIOUS
  <2> HIDE DEF r
  <2>3. r.limited <=> buckets'[ip].count > MAX_REQUESTS_PER_MINUTE
    BY <2>2, Zenon
  <2> QED BY <2>1, <2>3
<1>5. /\ Len(asked) \in Nat /\ DOMAIN asked = 1..Len(asked)
  BY <1>2
<1> HIDE DEF r
<1>6. /\ asked' \in Seq([ip : Ips, at : Nat, limited : BOOLEAN])
      /\ Len(asked') = Len(asked) + 1 /\ asked'[Len(asked) + 1] = r
      /\ \A i \in 1..Len(asked) : asked'[i] = asked[i]
  BY <1>1, <1>2, <1>4
<1>7. DOMAIN asked' = 1..Len(asked) + 1
  BY <1>6
<1>8. /\ buckets' \in [Ips -> [count : Nat, resetAt : Nat]]
      /\ buckets'[ip] = NextBucket(buckets[ip])
      /\ \A a \in Ips : a # ip => buckets'[a] = buckets[a]
  BY <1>1, <1>2, <1>3
<1> QED BY <1>1, <1>4, <1>5, <1>6, <1>7, <1>8

(* A request that opens a window is the first of it; those of the window   *)
(* before become what came before.                                         *)
LEMMA WindowOpens ==
  ASSUME LimitInv, NEW ip \in Ips, Limit(ip),
         buckets[ip].count = 0 \/ buckets[ip].resetAt <= seconds
  PROVE  BucketCounts(ip)'
<1> DEFINE n == Len(asked) + 1
<1>1. LimitTypes /\ BucketCounts(ip) /\ WindowsFair
  BY DEF LimitInv
<1>2. /\ n \in Nat /\ DOMAIN asked' = 1..n /\ DOMAIN asked = 1..Len(asked) /\ Len(asked) \in Nat
      /\ \A i \in DOMAIN asked : asked'[i] = asked[i]
      /\ asked'[n].ip = ip /\ asked'[n].at = seconds /\ seconds' = seconds
      /\ asked'[n].limited <=> buckets'[ip].count > MAX_REQUESTS_PER_MINUTE
      /\ buckets'[ip] = NextBucket(buckets[ip])
  BY <1>1, OneMoreRequest
<1>3. buckets'[ip].count = 1 /\ buckets'[ip].resetAt = seconds + ONE_MINUTE
  BY <1>2 DEF NextBucket
<1>4. /\ MAX_REQUESTS_PER_MINUTE \in Nat \ {0} /\ ONE_MINUTE \in Nat \ {0} /\ seconds \in Nat
      /\ \A i \in DOMAIN asked : asked[i].at \in Nat /\ asked[i].at <= seconds
      /\ buckets[ip].resetAt \in Nat
  <2>1. \A i \in DOMAIN asked : asked[i] \in [ip : Ips, at : Nat, limited : BOOLEAN]
    BY <1>1, <1>2, ElementOfSeq DEF LimitTypes
  <2> QED BY <1>1, <2>1, LimitAssumption DEF LimitTypes, ONE_MINUTE
<1> HIDE DEF n
<1>5. /\ RequestsOf(ip)' = RequestsOf(ip) \cup {n}
      /\ \A i \in RequestsOf(ip) : i \in DOMAIN asked /\ asked[i].ip = ip
      /\ \A i \in RequestsOf(ip) : asked[i].at < seconds
  <2>1. RequestsOf(ip)' = RequestsOf(ip) \cup {n}
    BY <1>2 DEF RequestsOf, n
  <2>2. \A i \in RequestsOf(ip) : i \in DOMAIN asked /\ asked[i].ip = ip
    BY DEF RequestsOf
  <2>3. \A i \in RequestsOf(ip) : asked[i].at < seconds
    BY <1>1, <1>4, <2>2 DEF BucketCounts
  <2> QED BY <2>1, <2>2, <2>3
<1>6. Since(ip)' = {n} /\ SinceThrough(ip)' = {n}
  <2>1. Since(ip)' = {i \in RequestsOf(ip) \cup {n} :
                         asked'[i].at + ONE_MINUTE >= seconds + ONE_MINUTE}
    BY <1>3, <1>5 DEF Since
  <2>2. \A i \in RequestsOf(ip) : ~(asked'[i].at + ONE_MINUTE >= seconds + ONE_MINUTE)
    BY <1>2, <1>4, <1>5
  <2>3. asked'[n].at + ONE_MINUTE >= seconds + ONE_MINUTE
    BY <1>2, <1>4
  <2>4. Since(ip)' = {n}
    BY <2>1, <2>2, <2>3
  <2>5. ~asked'[n].limited
    BY <1>2, <1>3, <1>4
  <2> QED BY <2>4, <2>5 DEF SinceThrough
<1>7. Cardinality({n}) = 1
  BY FS_Singleton
<1>8. Cardinality(BeforeThrough(ip)') <= Cardinality(SinceThrough(ip))
  <2>1. BeforeThrough(ip)' \subseteq SinceThrough(ip)
    <3> SUFFICES ASSUME NEW i \in BeforeThrough(ip)' PROVE i \in SinceThrough(ip)
      OBVIOUS
    <3>1. /\ i \in RequestsOf(ip)' /\ ~asked'[i].limited
          /\ asked'[i].at + ONE_MINUTE < seconds + ONE_MINUTE
          /\ asked'[i].at + 2 * ONE_MINUTE > seconds + ONE_MINUTE
      BY <1>3 DEF BeforeThrough, Before
    <3>2. i # n
      BY <1>2, <1>4, <3>1
    <3>3. i \in RequestsOf(ip) /\ asked'[i] = asked[i] /\ asked[i].at \in Nat
      BY <1>2, <1>4, <1>5, <3>1, <3>2
    <3>4. buckets[ip].resetAt <= seconds
      BY <1>1, <3>3 DEF BucketCounts
    <3>5. asked[i].at + ONE_MINUTE >= buckets[ip].resetAt
      BY <1>4, <3>1, <3>3, <3>4
    <3> QED BY <3>1, <3>3, <3>5 DEF SinceThrough, Since
  <2>2. SinceThrough(ip) \subseteq 1..Len(asked)
    BY <1>2 DEF SinceThrough, Since, RequestsOf
  <2> QED BY <1>2, <2>1, <2>2, SmallerRequests
<1>9. Cardinality(BeforeThrough(ip)') <= MAX_REQUESTS_PER_MINUTE
  <2>1. /\ SinceThrough(ip) \in SUBSET (1..Len(asked))
        /\ BeforeThrough(ip)' \in SUBSET (1..n)
    BY <1>2 DEF SinceThrough, Since, RequestsOf, BeforeThrough, Before
  <2>2. Cardinality(SinceThrough(ip)) \in Nat /\ Cardinality(BeforeThrough(ip)') \in Nat
    BY <1>2, <2>1, RequestsFinite
  <2>3. Cardinality(SinceThrough(ip)) <= MAX_REQUESTS_PER_MINUTE
    BY <1>1 DEF BucketCounts
  <2> QED BY <1>4, <1>8, <2>2, <2>3
<1>10. \A i \in RequestsOf(ip)' : asked'[i].at < buckets'[ip].resetAt
  BY <1>2, <1>3, <1>4, <1>5
<1> QED BY <1>2, <1>3, <1>4, <1>6, <1>7, <1>9, <1>10 DEF BucketCounts
(* A request within a window: one more of it, and let through only if the  *)
(* bucket is not above the limit with it.                                  *)
LEMMA WindowStays ==
  ASSUME LimitInv, NEW ip \in Ips, Limit(ip),
         buckets[ip].count # 0, buckets[ip].resetAt > seconds
  PROVE  BucketCounts(ip)'
<1> DEFINE n == Len(asked) + 1
<1>1. LimitTypes /\ BucketCounts(ip) /\ WindowsFair
  BY DEF LimitInv
<1>2. /\ n \in Nat /\ DOMAIN asked' = 1..n /\ DOMAIN asked = 1..Len(asked) /\ Len(asked) \in Nat
      /\ n \notin DOMAIN asked /\ \A i \in DOMAIN asked : asked'[i] = asked[i]
      /\ asked'[n].ip = ip /\ asked'[n].at = seconds /\ seconds' = seconds
      /\ asked'[n].limited <=> buckets'[ip].count > MAX_REQUESTS_PER_MINUTE
      /\ buckets'[ip] = NextBucket(buckets[ip])
  BY <1>1, OneMoreRequest
<1>3. /\ MAX_REQUESTS_PER_MINUTE \in Nat \ {0} /\ ONE_MINUTE \in Nat \ {0} /\ seconds \in Nat
      /\ buckets[ip].resetAt \in Nat /\ buckets[ip].count \in Nat
      /\ buckets[ip] \in [count : Nat, resetAt : Nat]
  BY <1>1, LimitAssumption DEF LimitTypes, ONE_MINUTE
<1>4. buckets'[ip].count = buckets[ip].count + 1 /\ buckets'[ip].resetAt = buckets[ip].resetAt
  <2>1. ~(buckets[ip].count = 0 \/ buckets[ip].resetAt <= seconds)
    BY <1>3
  <2> QED BY <1>2, <1>3, <2>1 DEF NextBucket
<1> HIDE DEF n
<1>5. /\ RequestsOf(ip)' = RequestsOf(ip) \cup {n}
      /\ \A i \in RequestsOf(ip) : i \in DOMAIN asked /\ i # n /\ asked'[i] = asked[i]
  <2>1. RequestsOf(ip)' = RequestsOf(ip) \cup {n}
    BY <1>2 DEF RequestsOf, n
  <2> QED BY <1>2, <2>1 DEF RequestsOf
<1>6. buckets[ip].resetAt <= seconds + ONE_MINUTE
  BY <1>1 DEF BucketCounts
<1>7. Since(ip)' = Since(ip) \cup {n}
  <2>1. asked'[n].at + ONE_MINUTE >= buckets'[ip].resetAt
    BY <1>2, <1>4, <1>6
  <2> QED BY <1>4, <1>5, <2>1 DEF Since
<1>8. Before(ip)' = Before(ip) /\ BeforeThrough(ip)' = BeforeThrough(ip)
  <2>1. ~(asked'[n].at + ONE_MINUTE < buckets'[ip].resetAt)
    BY <1>2, <1>3, <1>4, <1>6
  <2>2. Before(ip)' = Before(ip)
    BY <1>4, <1>5, <2>1 DEF Before
  <2>3. \A i \in Before(ip) : asked'[i] = asked[i]
    BY <1>5 DEF Before
  <2> QED BY <2>2, <2>3 DEF BeforeThrough
<1>9. SinceThrough(ip)' = SinceThrough(ip) \cup
        (IF buckets[ip].count + 1 > MAX_REQUESTS_PER_MINUTE THEN {} ELSE {n})
  <2>1. \A i \in Since(ip) : asked'[i] = asked[i]
    BY <1>5 DEF Since
  <2> QED BY <1>2, <1>4, <1>7, <2>1 DEF SinceThrough
<1>10. /\ IsFiniteSet(Since(ip)) /\ Cardinality(Since(ip)) \in Nat /\ n \notin Since(ip)
       /\ IsFiniteSet(SinceThrough(ip)) /\ Cardinality(SinceThrough(ip)) \in Nat
       /\ n \notin SinceThrough(ip)
  <2>1. Since(ip) \in SUBSET (1..Len(asked)) /\ SinceThrough(ip) \in SUBSET (1..Len(asked))
    BY <1>2 DEF SinceThrough, Since, RequestsOf
  <2> QED BY <1>2, <2>1, RequestsFinite
<1>11. Cardinality(Since(ip)') = Cardinality(Since(ip)) + 1
  BY <1>7, <1>10, FS_AddElement
<1>12. Cardinality(SinceThrough(ip)') = IF buckets[ip].count + 1 > MAX_REQUESTS_PER_MINUTE
                                        THEN Cardinality(SinceThrough(ip))
                                        ELSE Cardinality(SinceThrough(ip)) + 1
  <2>1. CASE buckets[ip].count + 1 > MAX_REQUESTS_PER_MINUTE
    <3>1. SinceThrough(ip)' = SinceThrough(ip)
      BY <1>9, <2>1
    <3> QED BY <2>1, <3>1
  <2>2. CASE ~(buckets[ip].count + 1 > MAX_REQUESTS_PER_MINUTE)
    <3>1. SinceThrough(ip)' = SinceThrough(ip) \cup {n}
      BY <1>9, <2>2
    <3> QED BY <1>10, <2>2, <3>1, FS_AddElement
  <2> QED BY <2>1, <2>2
<1>13. /\ Cardinality(Since(ip)) >= buckets[ip].count
       /\ Cardinality(SinceThrough(ip)) <= buckets[ip].count
       /\ Cardinality(SinceThrough(ip)) <= MAX_REQUESTS_PER_MINUTE
       /\ Cardinality(BeforeThrough(ip)) <= MAX_REQUESTS_PER_MINUTE
  BY <1>1 DEF BucketCounts
<1>14. /\ Cardinality(Since(ip)') >= buckets'[ip].count
       /\ Cardinality(SinceThrough(ip)') <= buckets'[ip].count
       /\ Cardinality(SinceThrough(ip)') <= MAX_REQUESTS_PER_MINUTE
  BY <1>3, <1>4, <1>10, <1>11, <1>12, <1>13
<1>15. \A i \in RequestsOf(ip)' : asked'[i].at < buckets'[ip].resetAt
  <2>1. \A i \in RequestsOf(ip) : asked[i].at < buckets[ip].resetAt
    BY <1>1 DEF BucketCounts
  <2> QED BY <1>2, <1>4, <1>5, <2>1
<1>16. buckets'[ip].count # 0
  BY <1>3, <1>4
<1> QED BY <1>2, <1>4, <1>6, <1>8, <1>13, <1>14, <1>15, <1>16 DEF BucketCounts

(* Whoever else asks is not counted.                                       *)
LEMMA OthersUncounted ==
  ASSUME LimitInv, NEW ip \in Ips, Limit(ip), NEW a \in Ips, a # ip
  PROVE  BucketCounts(a)'
<1>1. LimitTypes /\ BucketCounts(a)
  BY DEF LimitInv
<1>2. /\ DOMAIN asked' = DOMAIN asked \cup {Len(asked) + 1} /\ asked'[Len(asked) + 1].ip = ip
      /\ \A i \in DOMAIN asked : asked'[i] = asked[i]
      /\ seconds' = seconds /\ buckets'[a] = buckets[a]
  <2>1. /\ Len(asked) \in Nat /\ DOMAIN asked = 1..Len(asked)
        /\ DOMAIN asked' = 1..Len(asked) + 1
    BY <1>1, OneMoreRequest
  <2>2. DOMAIN asked' = DOMAIN asked \cup {Len(asked) + 1}
    BY <2>1
  <2> QED BY <1>1, <2>2, OneMoreRequest
<1>3. /\ RequestsOf(a)' = RequestsOf(a)
      /\ \A i \in RequestsOf(a) : asked'[i] = asked[i]
  BY <1>2 DEF RequestsOf
<1>4. /\ Since(a)' = Since(a) /\ Before(a)' = Before(a)
      /\ \A i \in Since(a) \cup Before(a) : asked'[i] = asked[i]
  BY <1>2, <1>3 DEF Since, Before
<1>5. SinceThrough(a)' = SinceThrough(a) /\ BeforeThrough(a)' = BeforeThrough(a)
  BY <1>4 DEF SinceThrough, BeforeThrough
<1> QED BY <1>1, <1>2, <1>3, <1>4, <1>5 DEF BucketCounts
(* The windows of the requests so far: what is limited has had the limit   *)
(* before it in its minute, and the requests let through in a minute are   *)
(* of one window or of two that follow each other.                         *)
LEMMA LimitKeepsWindows ==
  ASSUME LimitInv, NEW ip \in Ips, Limit(ip), BucketCounts(ip)'
  PROVE  WindowsFair'
<1>0. PICK n : n = Len(asked) + 1
  OBVIOUS
<1>1. LimitTypes /\ BucketCounts(ip) /\ WindowsFair
  BY DEF LimitInv
<1>2. /\ n \in Nat /\ DOMAIN asked' = 1..n /\ DOMAIN asked = 1..Len(asked) /\ Len(asked) \in Nat
      /\ n \notin DOMAIN asked /\ \A i \in DOMAIN asked : asked'[i] = asked[i]
      /\ asked'[n].ip = ip /\ asked'[n].at = seconds /\ seconds' = seconds
      /\ asked'[n].limited <=> buckets'[ip].count > MAX_REQUESTS_PER_MINUTE
      /\ buckets'[ip] = NextBucket(buckets[ip])
  <2>1. Len(asked) \in Nat /\ DOMAIN asked = 1..Len(asked)
    BY <1>1, OneMoreRequest
  <2>2. n \in Nat /\ n \notin DOMAIN asked
    BY <1>0, <2>1
  <2> QED BY <1>0, <1>1, <2>1, <2>2, OneMoreRequest
<1>3. /\ MAX_REQUESTS_PER_MINUTE \in Nat \ {0} /\ ONE_MINUTE \in Nat \ {0} /\ seconds \in Nat
      /\ \A i \in DOMAIN asked : asked[i].at \in Nat /\ asked[i].at <= seconds
      /\ buckets'[ip].resetAt \in Nat /\ buckets'[ip].count \in Nat
      /\ buckets[ip] \in [count : Nat, resetAt : Nat]
  <2>1. \A i \in DOMAIN asked : asked[i] \in [ip : Ips, at : Nat, limited : BOOLEAN]
    BY <1>1, <1>2, ElementOfSeq DEF LimitTypes
  <2>2. buckets' \in [Ips -> [count : Nat, resetAt : Nat]]
    BY <1>1, OneMoreRequest
  <2> QED BY <1>1, <2>1, <2>2, LimitAssumption DEF LimitTypes, ONE_MINUTE
<1>4. DOMAIN asked' = DOMAIN asked \cup {n}
  BY <1>0, <1>2
<1>5. \A i \in DOMAIN asked' : asked'[i].at \in Nat /\ asked'[i].at <= seconds
  <2>1. asked'[n].at \in Nat /\ asked'[n].at <= seconds
    BY <1>2, <1>3
  <2>2. \A i \in DOMAIN asked : asked'[i].at \in Nat /\ asked'[i].at <= seconds
    BY <1>2, <1>3
  <2> QED BY <1>4, <2>1, <2>2
<1>6. buckets'[ip].count # 0 /\ buckets'[ip].resetAt <= seconds + ONE_MINUTE
  <2>1. buckets'[ip].count # 0
    BY <1>2, <1>3 DEF NextBucket
  <2> QED BY <1>2, <2>1 DEF BucketCounts
<1>7. ASSUME asked'[n].limited
      PROVE  Cardinality(Lately(n)') > MAX_REQUESTS_PER_MINUTE
  <2>1. buckets'[ip].count > MAX_REQUESTS_PER_MINUTE
    BY <1>2, <1>7
  <2>2. buckets'[ip].resetAt > seconds
    <3>1. n \in RequestsOf(ip)'
      BY <1>2, <1>4 DEF RequestsOf
    <3>2. asked'[n].at < buckets'[ip].resetAt
      BY <3>1 DEF BucketCounts
    <3> QED BY <1>2, <1>3, <3>2
  <2>3. Since(ip)' \subseteq Lately(n)'
    <3> SUFFICES ASSUME NEW i \in Since(ip)' PROVE i \in Lately(n)'
      OBVIOUS
    <3>1. /\ i \in DOMAIN asked' /\ asked'[i].ip = ip
          /\ asked'[i].at + ONE_MINUTE >= buckets'[ip].resetAt
      BY DEF Since, RequestsOf
    <3>2. asked'[i].at <= seconds /\ seconds < asked'[i].at + ONE_MINUTE /\ i <= n
      BY <1>2, <1>3, <1>5, <2>2, <3>1
    <3>3. /\ asked'[i].ip = asked'[n].ip /\ asked'[i].at <= asked'[n].at
          /\ asked'[n].at < asked'[i].at + ONE_MINUTE
      BY <1>2, <3>1, <3>2
    <3> QED BY <3>1, <3>2, <3>3 DEF Lately
  <2>4. Lately(n)' \in SUBSET (1..n) /\ Since(ip)' \in SUBSET (1..n)
    BY <1>2 DEF Lately, Since, RequestsOf
  <2>5. Cardinality(Since(ip)') <= Cardinality(Lately(n)')
    BY <1>2, <2>3, <2>4, SmallerRequests
  <2>6. Cardinality(Since(ip)') \in Nat /\ Cardinality(Lately(n)') \in Nat
    BY <1>2, <2>4, RequestsFinite
  <2>7. Cardinality(Since(ip)') >= buckets'[ip].count
    BY DEF BucketCounts
  <2> QED BY <1>3, <2>1, <2>5, <2>6, <2>7
(* The minutes that reach to now, those of n and of the ones before it.    *)
<1>8. ASSUME NEW i \in DOMAIN asked', asked'[i].ip = ip, asked'[i].at + ONE_MINUTE > seconds
      PROVE  Cardinality(Ahead(i)') <= 2 * MAX_REQUESTS_PER_MINUTE
  <2>1. Ahead(i)' \subseteq SinceThrough(ip)' \cup BeforeThrough(ip)'
    <3> SUFFICES ASSUME NEW j \in Ahead(i)'
                 PROVE  j \in SinceThrough(ip)' \/ j \in BeforeThrough(ip)'
      OBVIOUS
    <3>1. /\ j \in DOMAIN asked' /\ asked'[j].ip = ip /\ ~asked'[j].limited
          /\ asked'[i].at <= asked'[j].at
      BY <1>8 DEF Ahead
    <3>2. asked'[j].at + 2 * ONE_MINUTE > buckets'[ip].resetAt
      <4>1. asked'[i].at \in Nat /\ asked'[j].at \in Nat
        BY <1>5, <3>1
      <4> QED BY <1>3, <1>6, <1>8, <3>1, <4>1
    <3>3. /\ asked'[j].at + ONE_MINUTE \in Int
          /\ \/ asked'[j].at + ONE_MINUTE >= buckets'[ip].resetAt
             \/ asked'[j].at + ONE_MINUTE < buckets'[ip].resetAt
      BY <1>3, <1>5, <3>1
    <3> QED BY <3>1, <3>2, <3>3 DEF SinceThrough, BeforeThrough, Since, Before, RequestsOf
  <2>2. SinceThrough(ip)' \in SUBSET (1..n) /\ BeforeThrough(ip)' \in SUBSET (1..n)
    BY <1>2 DEF SinceThrough, BeforeThrough, Since, Before, RequestsOf
  <2> DEFINE S == SinceThrough(ip)'
             B == BeforeThrough(ip)'
             A == Ahead(i)'
  <2>3. S \cup B \in SUBSET (1..n) /\ S \cap B \in SUBSET (1..n) /\ A \in SUBSET (S \cup B)
    BY <2>1, <2>2
  <2>4. S \in SUBSET (1..n) /\ B \in SUBSET (1..n)
        /\ Cardinality(S) <= MAX_REQUESTS_PER_MINUTE
        /\ Cardinality(B) <= MAX_REQUESTS_PER_MINUTE
    BY <2>2 DEF BucketCounts
  <2> SUFFICES Cardinality(A) <= 2 * MAX_REQUESTS_PER_MINUTE
    OBVIOUS
  <2> HIDE DEF S, B, A
  <2>5. /\ IsFiniteSet(S) /\ IsFiniteSet(B) /\ Cardinality(S) \in Nat /\ Cardinality(B) \in Nat
        /\ Cardinality(S \cap B) \in Nat /\ A \in SUBSET (1..n)
        /\ Cardinality(S \cup B) \in Nat
    BY <1>2, <2>3, <2>4, RequestsFinite
  <2>6. Cardinality(A) \in Nat
    BY <1>2, <2>5, RequestsFinite
  <2>7. Cardinality(A) <= Cardinality(S \cup B)
    BY <1>2, <2>3, SmallerRequests
  <2>8. Cardinality(S \cup B) = Cardinality(S) + Cardinality(B) - Cardinality(S \cap B)
    BY <2>5, FS_Union
  <2> QED BY <1>3, <2>4, <2>5, <2>6, <2>7, <2>8
<1>9. ASSUME NEW i \in DOMAIN asked
      PROVE  /\ asked'[i].limited => Cardinality(Lately(i)') > MAX_REQUESTS_PER_MINUTE
             /\ Cardinality(Ahead(i)') <= 2 * MAX_REQUESTS_PER_MINUTE
  <2>1. /\ asked[i].limited => Cardinality(Lately(i)) > MAX_REQUESTS_PER_MINUTE
        /\ Cardinality(Ahead(i)) <= 2 * MAX_REQUESTS_PER_MINUTE
    BY <1>1 DEF WindowsFair
  <2>2. asked'[i] = asked[i] /\ i \in DOMAIN asked'
    BY <1>2, <1>4
  <2>3. Lately(i)' = Lately(i)
    <3>1. ~(n <= i)
      BY <1>0, <1>2
    <3> QED BY <1>2, <1>4, <2>2, <3>1 DEF Lately
  <2>4. CASE asked'[i].ip = ip /\ asked'[i].at + ONE_MINUTE > seconds
    BY <1>8, <2>1, <2>2, <2>3, <2>4
  <2>5. CASE ~(asked'[i].ip = ip /\ asked'[i].at + ONE_MINUTE > seconds)
    <3>1. ~(asked'[n].ip = asked'[i].ip /\ asked'[n].at < asked'[i].at + ONE_MINUTE)
      BY <1>2, <1>3, <1>5, <2>2, <2>5
    <3>2. Ahead(i)' = Ahead(i)
      BY <1>2, <1>4, <2>2, <3>1 DEF Ahead
    <3> QED BY <2>1, <2>2, <2>3, <3>2
  <2> QED BY <2>4, <2>5
<1>10. Cardinality(Ahead(n)') <= 2 * MAX_REQUESTS_PER_MINUTE
  <2>1. asked'[n].at + ONE_MINUTE > seconds
    BY <1>2, <1>3
  <2>2. n \in DOMAIN asked' /\ asked'[n].ip = ip
    BY <1>2, <1>4
  <2> QED BY <1>8, <2>1, <2>2
<1>11. \A i \in DOMAIN asked' :
        /\ asked'[i].limited => Cardinality(Lately(i)') > MAX_REQUESTS_PER_MINUTE
        /\ Cardinality(Ahead(i)') <= 2 * MAX_REQUESTS_PER_MINUTE
  BY <1>4, <1>7, <1>9, <1>10
<1> QED BY <1>11 DEF WindowsFair

LEMMA LimitKept ==
  ASSUME LimitInv, NEW ip \in Ips, Limit(ip)
  PROVE  LimitInv'
<1>1. BucketCounts(ip)'
  <2>1. CASE buckets[ip].count = 0 \/ buckets[ip].resetAt <= seconds
    BY <2>1, WindowOpens
  <2>2. CASE buckets[ip].count # 0 /\ buckets[ip].resetAt > seconds
    BY <2>2, WindowStays
  <2>3. buckets[ip].resetAt \in Nat /\ seconds \in Nat
    BY DEF LimitInv, LimitTypes
  <2> QED BY <2>1, <2>2, <2>3
<1>2. \A a \in Ips : BucketCounts(a)'
  BY <1>1, OthersUncounted
<1>3. WindowsFair'
  BY <1>1, LimitKeepsWindows
<1>4. LimitTypes'
  <2>1. LimitTypes
    BY DEF LimitInv
  <2>2. /\ DOMAIN asked' = 1..Len(asked) + 1 /\ DOMAIN asked = 1..Len(asked)
        /\ Len(asked) \in Nat
        /\ \A i \in DOMAIN asked : asked'[i] = asked[i]
        /\ asked'[Len(asked) + 1].at = seconds /\ seconds' = seconds
    BY <2>1, OneMoreRequest
  <2>3. \A i \in DOMAIN asked' : asked'[i].at <= seconds'
    <3> SUFFICES ASSUME NEW i \in DOMAIN asked' PROVE asked'[i].at <= seconds'
      OBVIOUS
    <3>1. CASE i \in DOMAIN asked
      BY <2>1, <2>2, <3>1 DEF LimitTypes
    <3>2. CASE i = Len(asked) + 1
      BY <2>1, <2>2, <3>2 DEF LimitTypes
    <3> QED BY <2>2, <3>1, <3>2
  <2> QED BY <2>1, <2>2, <2>3, OneMoreRequest DEF LimitTypes
<1> QED BY <1>2, <1>3, <1>4 DEF LimitInv

LEMMA TimeKeepsLimit ==
  ASSUME LimitInv, LimitTime
  PROVE  LimitInv'
<1>1. /\ buckets' = buckets /\ asked' = asked /\ seconds' = seconds + 1
      /\ LimitTypes /\ WindowsFair
  BY DEF LimitTime, LimitInv
<1>2. \A i \in DOMAIN asked : asked[i].at \in Nat
  <2>1. asked \in Seq([ip : Ips, at : Nat, limited : BOOLEAN]) /\ DOMAIN asked = 1..Len(asked)
    BY <1>1 DEF LimitTypes
  <2>2. \A i \in DOMAIN asked : asked[i] \in [ip : Ips, at : Nat, limited : BOOLEAN]
    BY <2>1, ElementOfSeq
  <2> QED BY <2>2
<1>3. LimitTypes'
  BY <1>1, <1>2 DEF LimitTypes
<1>4. WindowsFair'
  BY <1>1 DEF WindowsFair, Lately, Ahead
<1>5. ASSUME NEW ip \in Ips PROVE BucketCounts(ip)'
  <2>1. BucketCounts(ip) /\ buckets[ip].resetAt \in Nat /\ seconds \in Nat
    BY <1>1 DEF LimitInv, LimitTypes
  <2>2. buckets[ip].count # 0 => buckets[ip].resetAt <= seconds' + ONE_MINUTE
    BY <1>1, <2>1 DEF BucketCounts, ONE_MINUTE
  <2>3. /\ RequestsOf(ip)' = RequestsOf(ip) /\ Since(ip)' = Since(ip)
        /\ SinceThrough(ip)' = SinceThrough(ip) /\ BeforeThrough(ip)' = BeforeThrough(ip)
    BY <1>1 DEF RequestsOf, Since, Before, SinceThrough, BeforeThrough
  <2> QED BY <1>1, <2>1, <2>2, <2>3 DEF BucketCounts
<1> QED BY <1>3, <1>4, <1>5 DEF LimitInv

LEMMA LimitFramed ==
  ASSUME LimitInv, UNCHANGED limitVars
  PROVE  LimitInv'
BY ZenonT(40) DEF LimitInv, limitVars, LimitTypes, BucketCounts, WindowsFair, Lately, Ahead,
       RequestsOf, Since, Before, SinceThrough, BeforeThrough
LEMMA LimitInvFair ==
  ASSUME LimitInv
  PROVE  LimitsFair
<1>1. LimitTypes /\ WindowsFair
  BY DEF LimitInv
<1>2. \A i \in DOMAIN asked : asked[i].at \in Nat
  <2>1. asked \in Seq([ip : Ips, at : Nat, limited : BOOLEAN]) /\ DOMAIN asked = 1..Len(asked)
    BY <1>1 DEF LimitTypes
  <2>2. \A i \in DOMAIN asked : asked[i] \in [ip : Ips, at : Nat, limited : BOOLEAN]
    BY <2>1, ElementOfSeq
  <2> QED BY <2>2
<1> DEFINE of(ip, from, upto) == {i \in DOMAIN asked : /\ asked[i].ip = ip
                                                       /\ asked[i].at \in from..upto}
<1>3. ASSUME NEW i \in DOMAIN asked, NEW first,
             first = IF asked[i].at < ONE_MINUTE THEN 0 ELSE asked[i].at - ONE_MINUTE + 1
      PROVE  {j \in of(asked[i].ip, first, asked[i].at) : j <= i} = Lately(i)
  <2>1. \A j \in DOMAIN asked : asked[j].at \in first..asked[i].at <=>
          asked[j].at <= asked[i].at /\ asked[i].at < asked[j].at + ONE_MINUTE
    BY <1>2, <1>3 DEF ONE_MINUTE
  <2> QED BY <2>1 DEF Lately
<1>4. ASSUME NEW i \in DOMAIN asked
      PROVE  {j \in of(asked[i].ip, asked[i].at, asked[i].at + ONE_MINUTE - 1) :
                ~asked[j].limited} = Ahead(i)
  <2>1. \A j \in DOMAIN asked : asked[j].at \in asked[i].at..asked[i].at + ONE_MINUTE - 1 <=>
          asked[i].at <= asked[j].at /\ asked[j].at < asked[i].at + ONE_MINUTE
    BY <1>2 DEF ONE_MINUTE
  <2> QED BY <2>1 DEF Ahead
<1> HIDE DEF of
<1>5. \A i \in DOMAIN asked :
        LET first == IF asked[i].at < ONE_MINUTE THEN 0 ELSE asked[i].at - ONE_MINUTE + 1 IN
        /\ asked[i].limited => Cardinality({j \in of(asked[i].ip, first, asked[i].at) : j <= i})
                                 > MAX_REQUESTS_PER_MINUTE
        /\ Cardinality({j \in of(asked[i].ip, asked[i].at, asked[i].at + ONE_MINUTE - 1) :
                          ~asked[j].limited}) <= 2 * MAX_REQUESTS_PER_MINUTE
  BY <1>1, <1>3, <1>4 DEF WindowsFair
<1> QED BY <1>5 DEF LimitsFair, of

-----------------------------------------------------------------------------
BoundariesInv == TokensInv /\ CallsInv /\ LimitInv

LEMMA BoundariesStart ==
  ASSUME Init
  PROVE  BoundariesInv
<1> USE DEF Init
<1>1. TokensInv
  <2>1. /\ pairs = <<>> /\ accessToken = 0 /\ refreshToken = 0 /\ lost = 0 /\ crossed = FALSE
        /\ request = [t \in TokenCalls |-> NoRequest]
    BY DEF IntInit
  <2>2. /\ Len(pairs) = 0 /\ pairs \in Seq([grant : Nat, honoured : BOOLEAN])
        /\ \A t \in TokenCalls : request[t] = NoRequest
    BY <2>1
  <2>3. /\ NoRequest \in [pc : {"idle", "exchange", "refresh", "done", "failed"}, pair : Nat,
                          rotated : BOOLEAN]
        /\ NoRequest.pc = "idle" /\ NoRequest.pair = 0
    BY DEF NoRequest
  <2> HIDE DEF Init
  <2>4. \A t \in TokenCalls : request[t].pc = "idle" /\ request[t].pair = 0
    BY <2>2, <2>3
  <2>5. TokenTypes
    <3>1. request \in [TokenCalls -> [pc : {"idle", "exchange", "refresh", "done", "failed"},
                                      pair : Nat, rotated : BOOLEAN]]
      BY <2>1, <2>3
    <3>2. crossed \in BOOLEAN /\ lost \in Nat
      BY <2>1
    <3>3. /\ accessToken \in 0..Len(pairs) /\ refreshToken \in 0..Len(pairs)
          /\ \A t \in TokenCalls : request[t].pair <= Len(pairs)
      BY <2>1, <2>2, <2>4
    <3> QED BY <2>2, <3>1, <3>2, <3>3 DEF TokenTypes
  <2>6. PairsApart
    BY <2>4 DEF PairsApart, Coming, OpenRequest
  <2>7. OneGrant
    BY <2>1, <2>4 DEF OneGrant, OpenRequest
  <2> QED BY <2>5, <2>6, <2>7 DEF TokensInv
<1>2. CallsInv
  <2>1. api = [c \in ApiCalls |-> NoApi]
    BY DEF IntInit
  <2>2. NoOperation \in Operations
    BY DEF NoOperation, Operations, GetCloudInstances
  <2>3. CallInv(NoApi) /\ NoApi \in CallRecords
    BY <2>2 DEF NoApi, CallInv, CallRecords
  <2> QED BY <2>1, <2>3 DEF CallsInv
<1>3. LimitInv
  <2>1. /\ buckets = [ip \in Ips |-> [count |-> 0, resetAt |-> 0]]
        /\ seconds = 0 /\ asked = <<>>
    BY DEF LimitInit
  <2>2. /\ DOMAIN asked = {} /\ asked \in Seq([ip : Ips, at : Nat, limited : BOOLEAN])
        /\ \A ip \in Ips : buckets[ip].count = 0
        /\ buckets \in [Ips -> [count : Nat, resetAt : Nat]]
    BY <2>1
  <2>3. \A ip \in Ips : /\ RequestsOf(ip) = {} /\ Since(ip) = {} /\ SinceThrough(ip) = {}
                        /\ BeforeThrough(ip) = {}
    BY <2>2 DEF RequestsOf, Since, Before, SinceThrough, BeforeThrough
  <2>4. Cardinality({}) = 0
    BY FS_EmptySet
  <2> HIDE DEF Init
  <2>5. LimitTypes /\ WindowsFair
    BY <2>1, <2>2 DEF LimitTypes, WindowsFair
  <2>6. \A ip \in Ips : BucketCounts(ip)
    <3> SUFFICES ASSUME NEW ip \in Ips PROVE BucketCounts(ip)
      OBVIOUS
    <3>1. /\ Cardinality(Since(ip)) = 0 /\ Cardinality(SinceThrough(ip)) = 0
          /\ Cardinality(BeforeThrough(ip)) = 0 /\ RequestsOf(ip) = {}
          /\ buckets[ip].count = 0
      BY <2>2, <2>3, <2>4
    <3>2. MAX_REQUESTS_PER_MINUTE \in Nat
      BY LimitAssumption
    <3> QED BY <3>1, <3>2 DEF BucketCounts
  <2> QED BY <2>5, <2>6 DEF LimitInv
<1> QED BY <1>1, <1>2, <1>3 DEF BoundariesInv

LEMMA CallsFramed ==
  ASSUME CallsInv, UNCHANGED api
  PROVE  CallsInv'
BY DEF CallsInv

LEMMA BoundariesStep ==
  ASSUME BoundariesInv, [Next]_allVars
  PROVE  BoundariesInv'
<1> USE DEF BoundariesInv
<1>1. ASSUME UNCHANGED intVars PROVE TokensInv' /\ CallsInv'
  BY <1>1, TokensFramed, CallsFramed DEF intVars
<1>2. ASSUME Authorizing PROVE TokensInv' /\ CallsInv'
  <2>1. api' = api
    BY <1>2 DEF Authorizing, SetAccessToken, ExchangeCode, RefreshAccessToken, EnsureValidToken,
                TokenAnswer, TokenFails, TokenAges
  <2>2. CASE \E withRefresh, withExpiry \in BOOLEAN : SetAccessToken(withRefresh, withExpiry)
    BY <2>1, <2>2, SetKeepsTokens, CallsFramed
  <2>3. ASSUME NEW t \in TokenCalls, ExchangeCode(t) PROVE TokensInv'
    BY <2>3, ExchangeKeepsTokens
  <2>4. ASSUME NEW t \in TokenCalls, RefreshAccessToken(t) PROVE TokensInv'
    BY <2>4, RefreshKeepsTokens
  <2>5. ASSUME NEW t \in TokenCalls, TokenAnswer(t) PROVE TokensInv'
    BY <2>5, AnswerKeepsTokens
  <2>6. ASSUME NEW t \in TokenCalls, TokenFails(t) PROVE TokensInv'
    BY <2>6, FailureKeepsTokens
  <2>7. CASE TokenAges
    BY <2>1, <2>7, TokensFramed, CallsFramed DEF TokenAges
  <2> QED BY <1>2, <2>1, <2>2, <2>3, <2>4, <2>5, <2>6, <2>7, CallsFramed
          DEF Authorizing, EnsureValidToken
<1>3. ASSUME NEW c \in ApiCalls, Calling(c) PROVE TokensInv' /\ CallsInv'
  <2>1. UNCHANGED <<accessToken, refreshToken, pairs, request, lost, crossed>>
    BY <1>3 DEF Calling, ApiAnswer, Reread, StartApi, ApiStep
  <2>2. accessToken \in Nat
    BY DEF TokensInv, TokenTypes
  <2> QED BY <1>3, <2>1, <2>2, TokensFramed, CallingKeepsCalls
<1>4. ASSUME SetAccessToken(FALSE, FALSE) PROVE TokensInv' /\ CallsInv'
  <2>1. api' = api
    BY <1>4 DEF SetAccessToken
  <2> QED BY <1>4, <2>1, SetKeepsTokens, CallsFramed
<1>5. ASSUME LimitNext PROVE LimitInv'
  BY <1>5, LimitKept, TimeKeepsLimit DEF LimitNext
<1>6. \/ UNCHANGED <<intVars, limitVars>>
      \/ LimitNext /\ UNCHANGED intVars
      \/ Authorizing /\ UNCHANGED limitVars
      \/ (\E c \in ApiCalls : Calling(c)) /\ UNCHANGED limitVars
      \/ SetAccessToken(FALSE, FALSE) /\ UNCHANGED limitVars
  BY DEF Next, allVars, Alerts, Audit, Limits, Health, Telemetry, Clients
<1> QED BY <1>1, <1>2, <1>3, <1>4, <1>5, <1>6, LimitFramed

(* Of the tokens: what a request was given is of the grant it asked for,   *)
(* and nobody has used it; of the calls: nothing is changed before the     *)
(* answer; of the limit: what the bucket of an ip counts.  All of this     *)
(* holds in every reachable state of every part.                           *)
THEOREM BoundariesInvariance == Spec => []BoundariesInv
BY BoundariesStart, BoundariesStep, PTL DEF Spec

(* BoundariesKept is an invariant: the tokens the client has are of one    *)
(* grant unless they crossed, and its refresh token can be used or is      *)
(* being replaced unless an answer was lost; a call to another service     *)
(* changes nothing twice, and what it says it did is done; nobody is       *)
(* limited who has not asked more than the limit in the minute before, and *)
(* no minute lets through more than twice the limit, for any limit; and no *)
(* role takes a permission away.                                           *)
THEOREM BoundariesStayKept == Spec => []BoundariesKept
<1>1. BoundariesInv => BoundariesKept
  BY TokensInvTogether, CallsInvOnce, LimitInvFair, MatrixGrows
     DEF BoundariesInv, BoundariesKept
<1> QED BY <1>1, BoundariesInvariance, PTL
-----------------------------------------------------------------------------
(* The traces.  The span of a call is open while the call runs, and ended  *)
(* by what the call comes to; the counters add up.                         *)
TraceSound(r) ==
    /\ r.pc = "idle" => r.span = "none" /\ r.ended = 0 /\ r.reports = 0
    /\ r.pc = "running" => r.span = "open" /\ r.ended = 0 /\ r.reports = 0
    /\ r.pc \in {"ended", "posting"} => r.span = "ok" /\ r.ended = 1 /\ r.reports = 0
    /\ r.pc = "posting" => reporter
    /\ r.pc = "resolved" => r.span = "ok" /\ r.ended = 1 /\ (r.reports = 1 => reporter)
    /\ r.pc = "rejected" => r.span = "error" /\ r.ended = 1 /\ r.reports = 0
Answered == {q \in HttpRequests : hook[q] = "sent"}
TelemetryInv ==
    /\ TelemetryTypeOK
    /\ \A c \in Calls : TraceSound(call[c])
    /\ requestsTotal = Cardinality(Answered)
    /\ cacheStats.hits + cacheStats.misses = operations["hit"] + operations["miss"]
    /\ registry = "default" => wanted # "none"

TraceRecords == [pc : {"idle", "running", "ended", "posting", "resolved", "rejected"},
                 span : {"none", "open", "ok", "error"}, ended : 0..1,
                 value : BOOLEAN, reports : 0..1]

LEMMA SpanStepKeeps ==
  ASSUME TelemetryInv, NEW c \in Calls, NEW r \in TraceRecords, TraceSound(r), SpanStep(c, r)
  PROVE  TelemetryInv'
<1>1. /\ call' = [call EXCEPT ![c] = r] /\ call \in [Calls -> TraceRecords]
      /\ UNCHANGED <<reporter, hook, requestsTotal, cacheStats, operations, registry, wanted>>
  BY DEF SpanStep, TelemetryInv, TelemetryTypeOK, TraceRecords
<1>2. call' \in [Calls -> TraceRecords] /\ call'[c] = r
      /\ \A d \in Calls : d # c => call'[d] = call[d]
  BY <1>1
<1>3. TelemetryTypeOK'
  BY <1>1, <1>2 DEF TelemetryInv, TelemetryTypeOK, TraceRecords
<1>4. \A d \in Calls : TraceSound(call[d])'
  BY <1>1, <1>2 DEF TelemetryInv, TraceSound
<1> QED BY <1>1, <1>3, <1>4 DEF TelemetryInv, Answered

LEMMA TracingKeeps ==
  ASSUME TelemetryInv, NEW c \in Calls, Tracing(c)
  PROVE  TelemetryInv'
<1> DEFINE a == call[c]
<1>1. a \in TraceRecords /\ TraceSound(a) /\ reporter \in BOOLEAN
  BY DEF TelemetryInv, TelemetryTypeOK, TraceRecords
<1>2. CASE StartTrace(c)
  <2> DEFINE r == [a EXCEPT !.pc = "running", !.span = "open"]
  <2>1. a.pc = "idle" /\ SpanStep(c, r)  BY <1>2 DEF StartTrace
  <2>2. r \in TraceRecords /\ TraceSound(r)  BY <1>1, <2>1 DEF TraceSound, TraceRecords
  <2> QED BY <2>1, <2>2, SpanStepKeeps
<1>3. CASE Report(c)
  <2> DEFINE r == [a EXCEPT !.pc = IF reporter THEN "posting" ELSE "resolved"]
  <2>1. a.pc = "ended" /\ SpanStep(c, r)  BY <1>3 DEF Report
  <2>2. r \in TraceRecords /\ TraceSound(r)  BY <1>1, <2>1 DEF TraceSound, TraceRecords
  <2> QED BY <2>1, <2>2, SpanStepKeeps
<1>4. ASSUME NEW o \in {"value", "undefined", "throws"}, WithSpan(c, o) PROVE TelemetryInv'
  <2> DEFINE r == [a EXCEPT !.pc = IF o = "throws" THEN "rejected" ELSE "ended",
                            !.span = IF o = "throws" THEN "error" ELSE "ok",
                            !.ended = a.ended + 1, !.value = o = "value"]
  <2>1. a.pc = "running" /\ SpanStep(c, r)  BY <1>4 DEF WithSpan
  <2>2. r \in TraceRecords /\ TraceSound(r)
    <3>1. a.ended + 1 = 1 /\ 1 \in 0..1 /\ (o = "value") \in BOOLEAN
      BY <1>1, <2>1 DEF TraceSound
    <3> QED BY <1>1, <2>1, <3>1 DEF TraceSound, TraceRecords
  <2> QED BY <2>1, <2>2, SpanStepKeeps
<1>5. ASSUME NEW arrives \in BOOLEAN, Post(c, arrives) PROVE TelemetryInv'
  <2> DEFINE r == [a EXCEPT !.pc = "resolved", !.reports = IF arrives THEN a.reports + 1 ELSE a.reports]
  <2>1. a.pc = "posting" /\ SpanStep(c, r)  BY <1>5 DEF Post
  <2>2. r \in TraceRecords /\ TraceSound(r)
    <3>1. a.reports = 0 /\ a.reports + 1 = 1 /\ 1 \in 0..1
      BY <1>1, <2>1 DEF TraceSound
    <3> QED BY <1>1, <2>1, <3>1 DEF TraceSound, TraceRecords
  <2> QED BY <2>1, <2>2, SpanStepKeeps
<1> QED BY <1>2, <1>3, <1>4, <1>5 DEF Tracing

LEMMA AnsweredCounts ==
  \A s \in SUBSET HttpRequests : IsFiniteSet(s) /\ Cardinality(s) \in 0..Cardinality(HttpRequests)
<1> SUFFICES ASSUME NEW s \in SUBSET HttpRequests
             PROVE IsFiniteSet(s) /\ Cardinality(s) \in 0..Cardinality(HttpRequests)
  OBVIOUS
<1>1. IsFiniteSet(s) /\ Cardinality(s) <= Cardinality(HttpRequests)
  BY TelemetryAssumption, FS_Subset
<1>2. Cardinality(s) \in Nat /\ Cardinality(HttpRequests) \in Nat
  BY <1>1, TelemetryAssumption, FS_CardinalityType
<1> QED BY <1>1, <1>2

LEMMA HookingKeeps ==
  ASSUME TelemetryInv, NEW q \in HttpRequests, Hooking(q)
  PROVE  TelemetryInv'
<1> DEFINE Marks == {"new", "timed", "untimed", "sent", "sent_untimed", "aborted"}
<1>1. hook \in [HttpRequests -> Marks] /\ requestsTotal = Cardinality(Answered)
  BY DEF TelemetryInv, TelemetryTypeOK
<1>2. PICK at \in Marks :
        /\ HttpStep(q, at) /\ hook[q] # "sent"
        /\ requestsTotal' = IF at = "sent" THEN requestsTotal + 1 ELSE requestsTotal
  BY DEF Hooking, OnSend, Abort, OnRequest
<1>3. /\ hook' = [hook EXCEPT ![q] = at] /\ hook' \in [HttpRequests -> Marks]
      /\ UNCHANGED <<reporter, call, cacheStats, operations, registry, wanted>>
  BY <1>1, <1>2 DEF HttpStep
<1>4. requestsTotal' = Cardinality(Answered')
  <2>1. CASE at = "sent"
    <3>1. Answered' = Answered \cup {q} /\ q \notin Answered
      BY <1>1, <1>2, <1>3, <2>1 DEF Answered
    <3>2. IsFiniteSet(Answered)
      BY AnsweredCounts DEF Answered
    <3> QED BY <1>1, <1>2, <2>1, <3>1, <3>2, FS_AddElement
  <2>2. CASE at # "sent"
    <3>1. Answered' = Answered
      BY <1>1, <1>2, <1>3, <2>2 DEF Answered
    <3> QED BY <1>1, <1>2, <2>2, <3>1
  <2> QED BY <2>1, <2>2
<1>5. requestsTotal' \in 0..Cardinality(HttpRequests)
  BY <1>4, AnsweredCounts DEF Answered
<1>6. TelemetryTypeOK'
  BY <1>3, <1>5 DEF TelemetryInv, TelemetryTypeOK
<1>7. \A c \in Calls : TraceSound(call[c])'
  BY <1>3 DEF TelemetryInv, TraceSound
<1> QED BY <1>3, <1>4, <1>6, <1>7 DEF TelemetryInv

LEMMA CountingKeeps ==
  ASSUME TelemetryInv, Counting
  PROVE  TelemetryInv'
<1>1. ASSUME NEW hit \in BOOLEAN, RecordCacheRead(hit) PROVE TelemetryInv'
  <2>1. /\ UNCHANGED <<reporter, call, hook, requestsTotal, registry, wanted>>
        /\ cacheStats.hits + cacheStats.misses < MaxCacheReads
        /\ cacheStats' = IF hit THEN [cacheStats EXCEPT !.hits = cacheStats.hits + 1]
                         ELSE [cacheStats EXCEPT !.misses = cacheStats.misses + 1]
        /\ operations' = [operations EXCEPT ![IF hit THEN "hit" ELSE "miss"] =
                                              operations[IF hit THEN "hit" ELSE "miss"] + 1]
    BY <1>1 DEF RecordCacheRead
  <2>2. /\ cacheStats \in [hits : 0..MaxCacheReads, misses : 0..MaxCacheReads]
        /\ operations \in [{"hit", "miss"} -> 0..MaxCacheReads]
        /\ cacheStats.hits + cacheStats.misses = operations["hit"] + operations["miss"]
    BY DEF TelemetryInv, TelemetryTypeOK
  <2>3. /\ cacheStats.hits \in Nat /\ cacheStats.misses \in Nat /\ MaxCacheReads \in Nat
        /\ operations["hit"] \in Nat /\ operations["miss"] \in Nat
    BY <2>2, TelemetryAssumption
  <2>4. /\ cacheStats.hits + 1 \in 0..MaxCacheReads /\ cacheStats.misses + 1 \in 0..MaxCacheReads
        /\ operations["hit"] + 1 \in 0..MaxCacheReads /\ operations["miss"] + 1 \in 0..MaxCacheReads
    BY <2>1, <2>2, <2>3
  <2>5. /\ cacheStats' \in [hits : 0..MaxCacheReads, misses : 0..MaxCacheReads]
        /\ operations' \in [{"hit", "miss"} -> 0..MaxCacheReads]
        /\ cacheStats'.hits + cacheStats'.misses = operations'["hit"] + operations'["miss"]
    <3>1. CASE hit
      BY <2>1, <2>2, <2>3, <2>4, <3>1
    <3>2. CASE ~hit
      BY <2>1, <2>2, <2>3, <2>4, <3>2
    <3> QED BY <3>1, <3>2
  <2>6. TelemetryTypeOK'
    BY <2>1, <2>5 DEF TelemetryInv, TelemetryTypeOK
  <2> QED BY <2>1, <2>5, <2>6 DEF TelemetryInv, TraceSound, Answered
<1>2. ASSUME NEW r, NEW w, RegistryStep(r, w), r \in {"none", "empty", "bare", "default"},
             w \in {"none", "bare", "default"}, r = "default" => w # "none"
      PROVE  TelemetryInv'
  BY <1>2 DEF RegistryStep, TelemetryInv, TelemetryTypeOK, TraceSound, Answered
<1>3. registry \in {"none", "empty", "bare", "default"} /\ wanted \in {"none", "bare", "default"}
  BY DEF TelemetryInv, TelemetryTypeOK
<1> QED BY <1>1, <1>2, <1>3 DEF Counting, InitRegistry, ClearRegistry, ResetRegistry

LEMMA TelemetryFramed ==
  ASSUME TelemetryInv, UNCHANGED telVars
  PROVE  TelemetryInv'
BY DEF TelemetryInv, TelemetryTypeOK, TraceSound, Answered, telVars

LEMMA TelemetryStarts ==
  ASSUME TelemetryInit
  PROVE  TelemetryInv
<1>1. Answered = {} /\ Cardinality({}) = 0
  BY FS_EmptySet DEF TelemetryInit, Answered
<1>2. 0 \in 0..Cardinality(HttpRequests)
  BY <1>1, AnsweredCounts DEF Answered
<1>3. TelemetryTypeOK
  BY <1>2, TelemetryAssumption DEF TelemetryInit, TelemetryTypeOK, NoCall
<1> QED BY <1>1, <1>3 DEF TelemetryInit, TelemetryInv, TraceSound, NoCall

LEMMA TelemetryTells ==
  ASSUME TelemetryInv
  PROVE  TracesTold
<1>1. ASSUME NEW c \in Calls
      PROVE  /\ call[c].pc \in {"ended", "posting", "resolved"} => call[c].span = "ok"
             /\ call[c].pc = "rejected" => call[c].span = "error" /\ call[c].reports = 0
             /\ call[c].ended = 1 <=> call[c].span \in {"ok", "error"}
             /\ call[c].reports = 1 => reporter /\ call[c].span = "ok"
  <2>1. call[c] \in TraceRecords /\ TraceSound(call[c])
    BY DEF TelemetryInv, TelemetryTypeOK, TraceRecords
  <2> QED BY <2>1 DEF TraceRecords, TraceSound
<1>2. Scraped = {"node"} => registry = "default"
  BY DEF Scraped
<1> QED BY <1>1, <1>2 DEF TelemetryInv, TracesTold, Answered
-----------------------------------------------------------------------------
(* The objectives: a status is that of the last value.                     *)
SloRecords == [current : Int, consumed : Nat, status : {"none", "healthy", "warning", "critical"}]
SloJudged(id, s) ==
    s.status # "none" => /\ s.current \in Nat /\ s.consumed = Consumed(id, s.current)
                         /\ s.status = BudgetStatus(id, s.current)
SlosInv == sloStatus \in [DOMAIN SLOs -> SloRecords]
           /\ \A id \in DOMAIN SLOs : SloJudged(id, sloStatus[id])

LEMMA BudgetLeft ==
  ASSUME NEW id \in DOMAIN SLOs, NEW v \in Nat
  PROVE  /\ SLOs[id].budget \in Nat /\ SLOs[id].budget > 0
         /\ Consumed(id, v) \in Nat /\ Remaining(id, v) \in Nat
         /\ BudgetStatus(id, v) \in {"healthy", "warning", "critical"}
         /\ BudgetStatus(id, v) = "healthy" <=> 4 * Remaining(id, v) >= SLOs[id].budget
         /\ BudgetStatus(id, v) = "critical" <=> 10 * Remaining(id, v) < SLOs[id].budget
<1>1. SLOs[id].budget \in Nat /\ SLOs[id].budget > 0 /\ SLOs[id].target \in Nat
  BY SloAssumption
<1>2. Consumed(id, v) \in Nat
  BY <1>1 DEF Consumed
<1>3. Remaining(id, v) \in Nat
  BY <1>1, <1>2 DEF Remaining
<1>4. /\ BudgetStatus(id, v) \in {"healthy", "warning", "critical"}
      /\ BudgetStatus(id, v) = "healthy" <=> 4 * Remaining(id, v) >= SLOs[id].budget
      /\ BudgetStatus(id, v) = "critical" <=> 10 * Remaining(id, v) < SLOs[id].budget
  BY <1>1, <1>3 DEF BudgetStatus
<1> QED BY <1>1, <1>2, <1>3, <1>4

LEMMA CalculateKeeps ==
  ASSUME SlosInv, NEW id \in DOMAIN SLOs, NEW v \in SloValues, CalculateStatus(id, v)
  PROVE  SlosInv'
<1> DEFINE r == [current |-> v, consumed |-> Consumed(id, v), status |-> BudgetStatus(id, v)]
<1>1. v \in Nat /\ v \in Int
  BY SloAssumption
<1>2. r \in SloRecords /\ SloJudged(id, r)
  BY <1>1, BudgetLeft DEF SloRecords, SloJudged
<1>3. sloStatus' = [sloStatus EXCEPT ![id] = r]
  BY DEF CalculateStatus
<1> HIDE DEF r
<1>4. /\ sloStatus' \in [DOMAIN SLOs -> SloRecords] /\ sloStatus'[id] = r
      /\ \A o \in DOMAIN SLOs : o # id => sloStatus'[o] = sloStatus[o]
  BY <1>2, <1>3 DEF SlosInv
<1>5. ASSUME NEW o \in DOMAIN SLOs PROVE SloJudged(o, sloStatus'[o])
  BY <1>2, <1>4 DEF SlosInv
<1> QED BY <1>4, <1>5 DEF SlosInv, SloJudged

(* Of two parts x/b and y/c the larger is not below a threshold 1/k that   *)
(* the smaller reaches.                                                    *)
LEMMA LargerPart ==
  ASSUME NEW x \in Nat, NEW b \in Nat, NEW y \in Nat, NEW c \in Nat, b > 0, c > 0, NEW k \in Nat,
         x * c >= y * b, k * y >= c
  PROVE  k * x >= b
<1>1. (k * y) * b >= c * b
  BY SMT
<1>2. (k * x) * c >= (k * y) * b
  <2>1. k * (x * c) >= k * (y * b)
    <3> DEFINE m == x * c
               n == y * b
    <3>1. m \in Nat /\ n \in Nat /\ m >= n
      BY SMT
    <3> HIDE DEF m, n
    <3>2. k * m >= k * n
      BY <3>1, SMT
    <3> QED BY <3>2 DEF m, n
  <2>2. k * (x * c) = (k * x) * c /\ k * (y * b) = (k * y) * b
    BY SMT
  <2> QED BY <2>1, <2>2
<1>3. (k * x) * c >= b * c
  <2>1. c * b = b * c /\ (k * x) * c \in Int /\ (k * y) * b \in Int /\ c * b \in Int
    BY SMT
  <2> QED BY <1>1, <1>2, <2>1
<1>4. k * x \in Nat
  BY SMT
<1> QED
  <2> DEFINE z == k * x
  <2> HIDE DEF z
  <2> SUFFICES ASSUME z < b, z \in Nat, z * c >= b * c PROVE FALSE
    BY <1>3, <1>4 DEF z
  <2>1. b - z > 0 /\ b - z \in Nat
    OBVIOUS
  <2>2. (b - z) * c > 0
    BY <2>1, SMT
  <2> QED BY <2>2, SMT

LEMMA SlosAreRanked ==
  ASSUME SlosInv
  PROVE  SlosRanked
<1> DEFINE H == ByStatus("healthy")
           W == ByStatus("warning")
           C == ByStatus("critical")
<1>1. \A id \in DOMAIN SLOs : sloStatus[id].status \in {"none", "healthy", "warning", "critical"}
  BY DEF SlosInv, SloRecords
<1>2. ASSUME NEW id \in Reported
      PROVE  /\ id \in DOMAIN SLOs /\ sloStatus[id].current \in Nat
             /\ sloStatus[id].status = BudgetStatus(id, sloStatus[id].current)
  BY <1>2 DEF Reported, SlosInv, SloJudged
<1>3. Cardinality(Reported) = Cardinality(H) + Cardinality(W) + Cardinality(C)
  <2>1. H \cup W \cup C = Reported /\ H \cap W = {} /\ (H \cup W) \cap C = {}
    BY <1>1 DEF ByStatus, Reported
  <2>2. IsFiniteSet(Reported)
    BY SloAssumption, FS_Subset DEF Reported
  <2>3. IsFiniteSet(H) /\ IsFiniteSet(W) /\ IsFiniteSet(C)
    BY <2>1, <2>2, FS_Subset
  <2> HIDE DEF H, W, C
  <2>4. /\ IsFiniteSet(H \cup W)
        /\ Cardinality(H \cup W) = Cardinality(H) + Cardinality(W) - Cardinality(H \cap W)
    BY <2>3, FS_Union
  <2>5. Cardinality((H \cup W) \cup C) =
          Cardinality(H \cup W) + Cardinality(C) - Cardinality((H \cup W) \cap C)
    BY <2>3, <2>4, FS_Union
  <2>6. Cardinality({}) = 0
    BY FS_EmptySet
  <2>7. Cardinality(H) \in Nat /\ Cardinality(W) \in Nat /\ Cardinality(C) \in Nat
    BY <2>3, FS_CardinalityType
  <2>8. Cardinality(H \cup W) = Cardinality(H) + Cardinality(W)
    <3>1. Cardinality(H \cap W) = 0
      BY <2>1, <2>6
    <3> QED BY <2>4, <2>7, <3>1
  <2>9. Cardinality((H \cup W) \cup C) = Cardinality(H \cup W) + Cardinality(C)
    <3>2. Cardinality((H \cup W) \cap C) = 0
      BY <2>1, <2>6
    <3>1. Cardinality((H \cup W) \cap C) = 0 /\ Cardinality(H \cup W) \in Nat
      BY <2>4, <3>2, FS_CardinalityType
    <3> QED BY <2>5, <2>7, <3>1
  <2>10. Cardinality((H \cup W) \cup C) = Cardinality(Reported)
    BY <2>1
  <2> QED BY <2>8, <2>9, <2>10
<1>4. ASSUME NEW a \in Reported, NEW b \in Reported,
             Remaining(a, sloStatus[a].current) * SLOs[b].budget
               >= Remaining(b, sloStatus[b].current) * SLOs[a].budget
      PROVE  Rank(sloStatus[a].status) <= Rank(sloStatus[b].status)
  <2> DEFINE x == Remaining(a, sloStatus[a].current)
             y == Remaining(b, sloStatus[b].current)
             m == SLOs[a].budget
             n == SLOs[b].budget
  <2>1. /\ x \in Nat /\ m \in Nat /\ m > 0
        /\ sloStatus[a].status \in {"healthy", "warning", "critical"}
        /\ sloStatus[a].status = "healthy" <=> 4 * x >= m
        /\ sloStatus[a].status = "critical" <=> 10 * x < m
    BY <1>2, BudgetLeft
  <2>2. /\ y \in Nat /\ n \in Nat /\ n > 0
        /\ sloStatus[b].status \in {"healthy", "warning", "critical"}
        /\ sloStatus[b].status = "healthy" <=> 4 * y >= n
        /\ sloStatus[b].status = "critical" <=> 10 * y < n
    BY <1>2, BudgetLeft
  <2>3. x * n >= y * m
    BY <1>4
  <2> HIDE DEF x, y, m, n
  <2>4. 4 * y >= n => 4 * x >= m
    BY <2>1, <2>2, <2>3, LargerPart
  <2>5. 10 * y >= n => 10 * x >= m
    BY <2>1, <2>2, <2>3, LargerPart
  <2>6. sloStatus[b].status = "healthy" => sloStatus[a].status = "healthy"
    BY <2>1, <2>2, <2>4
  <2>7. sloStatus[a].status = "critical" => sloStatus[b].status = "critical"
    BY <2>1, <2>2, <2>5
  <2> QED BY <2>1, <2>2, <2>6, <2>7 DEF Rank
<1>5. ASSUME NEW id \in Reported, TimeToExhaustion(id) = "null" PROVE id \in ByStatus("critical")
  <2>1. sloStatus[id].status # "none"
    BY DEF Reported
  <2>2. Remaining(id, sloStatus[id].current) = 0
    BY <1>5, <2>1 DEF TimeToExhaustion
  <2>3. /\ SLOs[id].budget \in Nat /\ SLOs[id].budget > 0
        /\ sloStatus[id].status = "critical" <=>
             10 * Remaining(id, sloStatus[id].current) < SLOs[id].budget
    BY <1>2, BudgetLeft
  <2> QED BY <2>2, <2>3 DEF ByStatus
<1> QED BY <1>3, <1>4, <1>5 DEF SlosRanked
-----------------------------------------------------------------------------
(* The probes: the verdict so far is what the results so far say.          *)
ProbeRecords == [kind : {"idle", "health", "ready", "one", "done_health", "done_ready", "done_one"},
                 results : Seq(Results), rejected : SUBSET (1..3),
                 verdict : Results \cup {"none", "ready", "not_ready"}, code : {0, 200, 404, 503}]
Said(results, word) == \E i \in 1..Len(results) : results[i] = word
CriticalFailed(results) == \E i \in 1..Len(results) : Critical(HealthSeq[i]) /\ results[i] = "unhealthy"
HealthSays(results, verdict) ==
    /\ verdict \in Results
    /\ verdict = "unhealthy" <=> CriticalFailed(results)
    /\ verdict = "degraded" <=> ~CriticalFailed(results) /\ Said(results, "degraded")
ReadySays(results, verdict) ==
    /\ verdict \in {"ready", "not_ready"}
    /\ verdict = "ready" <=> \A i \in 1..Len(results) : results[i] = "healthy"
ProbeSound(r) ==
    /\ r \in ProbeRecords
    /\ r.kind = "health" => Len(r.results) < 3 /\ HealthSays(r.results, r.verdict)
    /\ r.kind = "ready" => Len(r.results) < 2 /\ ReadySays(r.results, r.verdict)
    /\ r.kind = "done_health" => /\ Len(r.results) = 3 /\ HealthSays(r.results, r.verdict)
                                 /\ r.code = StatusCode(r.verdict)
    /\ r.kind = "done_ready" => /\ Len(r.results) = 2 /\ ReadySays(r.results, r.verdict)
                                /\ r.code = StatusCode(r.verdict)
    /\ r.kind = "done_one" => (r.code = 503 <=> r.results = <<"unhealthy">>)
ProbesInv == DOMAIN probe = Probes /\ \A p \in Probes : ProbeSound(probe[p])

LEMMA ChecksAre ==
  /\ ChecksOf("health") = HealthSeq /\ ChecksOf("done_health") = HealthSeq
  /\ ChecksOf("ready") = ReadinessSeq /\ ChecksOf("done_ready") = ReadinessSeq
  /\ Len(HealthSeq) = 3 /\ Len(ReadinessSeq) = 2
  /\ DOMAIN HealthSeq = 1..3 /\ DOMAIN ReadinessSeq = 1..2
BY DEF ChecksOf, HealthSeq, ReadinessSeq

(* One more result.                                                        *)
LEMMA ResultAdded ==
  ASSUME NEW s \in Seq(Results), NEW x \in Results
  PROVE  /\ Append(s, x) \in Seq(Results) /\ Len(s) \in Nat /\ Len(Append(s, x)) = Len(s) + 1
         /\ Append(s, x)[Len(s) + 1] = x
         /\ \A i \in 1..Len(s) : Append(s, x)[i] = s[i]
         /\ \A i : i \in 1..Len(Append(s, x)) <=> i \in 1..Len(s) \/ i = Len(s) + 1
OBVIOUS

LEMMA HealthVerdict ==
  ASSUME NEW s \in Seq(Results), NEW v, HealthSays(s, v), NEW x \in Results, NEW rejected \in BOOLEAN,
         rejected => x = "unhealthy"
  PROVE  HealthSays(Append(s, x), Verdict("health", v, HealthSeq[Len(s) + 1], x, rejected))
<1> DEFINE t == Append(s, x)
           w == Verdict("health", v, HealthSeq[Len(s) + 1], x, rejected)
<1>1. /\ Len(s) \in Nat /\ t[Len(s) + 1] = x /\ \A i \in 1..Len(s) : t[i] = s[i]
      /\ \A i : i \in 1..Len(t) <=> i \in 1..Len(s) \/ i = Len(s) + 1
  BY ResultAdded
<1>2. w = IF Critical(HealthSeq[Len(s) + 1]) /\ x = "unhealthy" THEN "unhealthy"
          ELSE IF ~rejected /\ x = "degraded" /\ v # "unhealthy" THEN "degraded" ELSE v
  BY DEF Verdict
<1> HIDE DEF t, w
<1>3. CriticalFailed(t) <=> CriticalFailed(s) \/ (Critical(HealthSeq[Len(s) + 1]) /\ x = "unhealthy")
  BY <1>1 DEF CriticalFailed
<1>4. Said(t, "degraded") <=> Said(s, "degraded") \/ x = "degraded"
  BY <1>1 DEF Said
<1>5. HealthSays(t, w)
  BY <1>2, <1>3, <1>4 DEF HealthSays, Results
<1> QED BY <1>5 DEF t, w

LEMMA ReadyVerdict ==
  ASSUME NEW s \in Seq(Results), NEW v, ReadySays(s, v), NEW x \in Results, NEW rejected, NEW name
  PROVE  ReadySays(Append(s, x), Verdict("ready", v, name, x, rejected))
<1> DEFINE t == Append(s, x)
           w == Verdict("ready", v, name, x, rejected)
<1>1. /\ Len(s) \in Nat /\ t[Len(s) + 1] = x /\ \A i \in 1..Len(s) : t[i] = s[i]
      /\ \A i : i \in 1..Len(t) <=> i \in 1..Len(s) \/ i = Len(s) + 1
  BY ResultAdded
<1>2. w = IF x = "healthy" THEN v ELSE "not_ready"
  BY DEF Verdict
<1> HIDE DEF t, w
<1>3. (\A i \in 1..Len(t) : t[i] = "healthy") <=>
        (\A i \in 1..Len(s) : s[i] = "healthy") /\ x = "healthy"
  BY <1>1
<1>4. ReadySays(t, w)
  BY <1>2, <1>3 DEF ReadySays
<1> QED BY <1>4 DEF t, w

LEMMA ProbeBecomes ==
  ASSUME ProbesInv, NEW p \in Probes, NEW r, ProbeSound(r), probe' = [probe EXCEPT ![p] = r]
  PROVE  ProbesInv'
<1>1. DOMAIN probe' = Probes /\ probe'[p] = r /\ \A o \in Probes : o # p => probe'[o] = probe[o]
  BY DEF ProbesInv
<1>2. \A o \in Probes : ProbeSound(probe'[o])
  BY <1>1 DEF ProbesInv
<1> QED BY <1>1, <1>2 DEF ProbesInv, ProbeSound

LEMMA AskKeeps ==
  ASSUME ProbesInv, NEW p \in Probes, NEW kind \in {"health", "ready"}, Ask(p, kind)
  PROVE  ProbesInv'
<1> DEFINE r == [NoProbe EXCEPT !.kind = kind, !.verdict = IF kind = "health" THEN "healthy" ELSE "ready"]
<1>1. probe' = [probe EXCEPT ![p] = r]
  BY DEF Ask
<1>2. /\ r.kind = kind /\ r.results = <<>> /\ r \in ProbeRecords
      /\ r.verdict = IF kind = "health" THEN "healthy" ELSE "ready"
  <2>1. <<>> \in Seq(Results) /\ {} \in SUBSET (1..3)
    OBVIOUS
  <2>2. NoProbe \in ProbeRecords /\ NoProbe.results = <<>>
    BY <2>1 DEF NoProbe, ProbeRecords
  <2>3. "healthy" \in Results
    BY DEF Results
  <2>4. /\ r.kind = kind /\ r.results = <<>> /\ r.rejected = NoProbe.rejected
        /\ r.verdict = (IF kind = "health" THEN "healthy" ELSE "ready") /\ r.code = NoProbe.code
    BY DEF NoProbe
  <2> DEFINE b == [NoProbe EXCEPT !.kind = kind]
             w == IF kind = "health" THEN "healthy" ELSE "ready"
  <2>5. b \in ProbeRecords
    BY <2>2 DEF ProbeRecords
  <2>6. r \in ProbeRecords
    <3>1. r = [b EXCEPT !.verdict = w]
      OBVIOUS
    <3>2. w \in Results \cup {"none", "ready", "not_ready"}
      BY <2>3
    <3> HIDE DEF b, w, r
    <3> QED BY <2>5, <3>1, <3>2 DEF ProbeRecords
  <2> QED BY <2>4, <2>6
<1> HIDE DEF r
<1>3. Len(r.results) = 0
  BY <1>2
<1>4. ~CriticalFailed(r.results) /\ ~Said(r.results, "degraded")
      /\ \A i \in 1..Len(r.results) : r.results[i] = "healthy"
  BY <1>3 DEF CriticalFailed, Said
<1>5. ProbeSound(r)
  BY <1>2, <1>3, <1>4 DEF ProbeSound, HealthSays, ReadySays, Results
<1> QED BY <1>1, <1>5, ProbeBecomes

LEMMA CheckKeeps ==
  ASSUME ProbesInv, NEW p \in Probes, Check(p)
  PROVE  ProbesInv'
<1> DEFINE kind == probe[p].kind
           s == probe[p].results
           i == Len(s) + 1
           last == i = Len(ChecksOf(kind))
<1>1. ProbeSound(probe[p]) /\ probe[p] \in ProbeRecords /\ s \in Seq(Results) /\ Len(s) \in Nat
  <2>1. ProbeSound(probe[p]) /\ probe[p] \in ProbeRecords
    BY DEF ProbesInv, ProbeSound
  <2>2. s \in Seq(Results)
    BY <2>1 DEF ProbeRecords
  <2> QED BY <2>1, <2>2
<1>2. kind \in {"health", "ready"}
  BY DEF Check
<1>3. PICK rejected \in BOOLEAN :
        \E result \in IF rejected THEN {"unhealthy"} ELSE Answers(ChecksOf(kind)[i]) :
          LET v == Verdict(kind, probe[p].verdict, ChecksOf(kind)[i], result, rejected) IN
          probe' = [probe EXCEPT ![p] =
                     [kind |-> IF ~last THEN kind ELSE IF kind = "health" THEN "done_health"
                               ELSE "done_ready",
                      results |-> Append(probe[p].results, result),
                      rejected |-> IF rejected THEN probe[p].rejected \cup {i} ELSE probe[p].rejected,
                      verdict |-> v,
                      code |-> IF last THEN StatusCode(v) ELSE 0]]
  BY DEF Check
<1>4. PICK x \in IF rejected THEN {"unhealthy"} ELSE Answers(ChecksOf(kind)[i]) :
        probe' = [probe EXCEPT ![p] =
                     [kind |-> IF ~last THEN kind ELSE IF kind = "health" THEN "done_health"
                               ELSE "done_ready",
                      results |-> Append(probe[p].results, x),
                      rejected |-> IF rejected THEN probe[p].rejected \cup {i} ELSE probe[p].rejected,
                      verdict |-> Verdict(kind, probe[p].verdict, ChecksOf(kind)[i], x, rejected),
                      code |-> IF last
                               THEN StatusCode(Verdict(kind, probe[p].verdict, ChecksOf(kind)[i], x, rejected))
                               ELSE 0]]
  BY <1>3
<1>5. x \in Results /\ (rejected => x = "unhealthy")
  BY <1>4 DEF Answers, Results
<1> DEFINE v == Verdict(kind, probe[p].verdict, ChecksOf(kind)[i], x, rejected)
           c == IF last THEN StatusCode(v) ELSE 0
           k == IF ~last THEN kind ELSE IF kind = "health" THEN "done_health" ELSE "done_ready"
           j == IF rejected THEN probe[p].rejected \cup {i} ELSE probe[p].rejected
           t == Append(s, x)
           r == [kind |-> k, results |-> t, rejected |-> j, verdict |-> v, code |-> c]
<1>6. t \in Seq(Results) /\ Len(t) = Len(s) + 1
  BY <1>1, <1>5, ResultAdded
<1>7. c \in {0, 200, 503}
  BY DEF StatusCode
<1>8. CASE kind = "health"
  <2>1. HealthSays(s, probe[p].verdict) /\ Len(s) < 3 /\ (last <=> Len(s) = 2)
    <3>1. HealthSays(s, probe[p].verdict) /\ Len(s) < 3
      BY <1>1, <1>8 DEF ProbeSound
    <3>2. Len(ChecksOf(kind)) = 3
      BY <1>8, ChecksAre
    <3>3. last <=> Len(s) = 2
      <4> DEFINE m == Len(s)
      <4>1. m \in Nat /\ (last <=> m + 1 = 3)
        BY <1>1, <3>2
      <4> HIDE DEF m, last
      <4>2. last <=> m = 2
        BY <4>1
      <4> QED BY <4>2 DEF m
    <3> QED BY <3>1, <3>3
  <2>2. HealthSays(t, v)
    BY <1>1, <1>5, <1>8, <2>1, HealthVerdict, ChecksAre
  <2>3. j \in SUBSET (1..3)
    BY <1>1, <2>1 DEF ProbeRecords
  <2>4. v \in Results
    BY <2>2 DEF HealthSays
  <2>5. k = IF Len(s) = 2 THEN "done_health" ELSE "health"
    BY <1>8, <2>1
  <2>6. Len(s) = 2 => c = StatusCode(v)
    BY <2>1
  <2> HIDE DEF v, c, k, j, t, last
  <2>7. r \in ProbeRecords
    BY <1>6, <1>7, <2>3, <2>4, <2>5 DEF ProbeRecords
  <2>8. ProbeSound(r)
    <3>1. r.kind = k /\ r.results = t /\ r.verdict = v /\ r.code = c
      OBVIOUS
    <3> HIDE DEF r
    <3>2. CASE Len(s) = 2
      <4>1. r.kind = "done_health" /\ r.code = StatusCode(r.verdict) /\ HealthSays(r.results, r.verdict)
        BY <2>2, <2>5, <2>6, <3>1, <3>2
      <4>2. Len(r.results) = 3
        BY <1>6, <3>1, <3>2
      <4> QED BY <2>7, <4>1, <4>2 DEF ProbeSound
    <3>3. CASE Len(s) # 2
      <4>1. r.kind = "health" /\ HealthSays(r.results, r.verdict)
        BY <2>2, <2>5, <3>1, <3>3
      <4>2. Len(r.results) < 3
        <5> DEFINE m == Len(s)
        <5>1. m \in Nat /\ m < 3 /\ m # 2 /\ Len(r.results) = m + 1
          BY <1>1, <1>6, <2>1, <3>1, <3>3
        <5> HIDE DEF m
        <5> QED BY <5>1
      <4> QED BY <2>7, <4>1, <4>2 DEF ProbeSound
    <3> QED BY <3>2, <3>3
  <2> HIDE DEF r
  <2>9. probe' = [probe EXCEPT ![p] = r]
    BY <1>4 DEF r, v, c, k, j, t, last
  <2> QED BY <2>8, <2>9, ProbeBecomes
<1>9. CASE kind = "ready"
  <2>1. ReadySays(s, probe[p].verdict) /\ Len(s) < 2 /\ (last <=> Len(s) = 1)
    <3>1. ReadySays(s, probe[p].verdict) /\ Len(s) < 2
      BY <1>1, <1>9 DEF ProbeSound
    <3>2. Len(ChecksOf(kind)) = 2
      BY <1>9, ChecksAre
    <3>3. last <=> Len(s) = 1
      <4> DEFINE m == Len(s)
      <4>1. m \in Nat /\ (last <=> m + 1 = 2)
        BY <1>1, <3>2
      <4> HIDE DEF m, last
      <4>2. last <=> m = 1
        BY <4>1
      <4> QED BY <4>2 DEF m
    <3> QED BY <3>1, <3>3
  <2>2. ReadySays(t, v)
    BY <1>1, <1>5, <1>9, <2>1, ReadyVerdict
  <2>3. j \in SUBSET (1..3)
    BY <1>1, <2>1 DEF ProbeRecords
  <2>4. v \in {"ready", "not_ready"}
    BY <2>2 DEF ReadySays
  <2>5. k = IF Len(s) = 1 THEN "done_ready" ELSE "ready"
    BY <1>9, <2>1
  <2>6. Len(s) = 1 => c = StatusCode(v)
    BY <2>1
  <2> HIDE DEF v, c, k, j, t, last
  <2>7. r \in ProbeRecords
    BY <1>6, <1>7, <2>3, <2>4, <2>5 DEF ProbeRecords
  <2>8. ProbeSound(r)
    <3>1. r.kind = k /\ r.results = t /\ r.verdict = v /\ r.code = c
      OBVIOUS
    <3> HIDE DEF r
    <3>2. CASE Len(s) = 1
      <4>1. r.kind = "done_ready" /\ r.code = StatusCode(r.verdict) /\ ReadySays(r.results, r.verdict)
        BY <2>2, <2>5, <2>6, <3>1, <3>2
      <4>2. Len(r.results) = 2
        BY <1>6, <3>1, <3>2
      <4> QED BY <2>7, <4>1, <4>2 DEF ProbeSound
    <3>3. CASE Len(s) # 1
      <4>1. r.kind = "ready" /\ ReadySays(r.results, r.verdict)
        BY <2>2, <2>5, <3>1, <3>3
      <4>2. Len(r.results) < 2
        <5> DEFINE m == Len(s)
        <5>1. m \in Nat /\ m < 2 /\ m # 1 /\ Len(r.results) = m + 1
          BY <1>1, <1>6, <2>1, <3>1, <3>3
        <5> HIDE DEF m
        <5> QED BY <5>1
      <4> QED BY <2>7, <4>1, <4>2 DEF ProbeSound
    <3> QED BY <3>2, <3>3
  <2> HIDE DEF r
  <2>9. probe' = [probe EXCEPT ![p] = r]
    BY <1>4 DEF r, v, c, k, j, t, last
  <2> QED BY <2>8, <2>9, ProbeBecomes
<1> QED BY <1>2, <1>8, <1>9

LEMMA AskOneKeeps ==
  ASSUME ProbesInv, NEW p \in Probes, AskOne(p)
  PROVE  ProbesInv'
<1>1. <<>> \in Seq(Results) /\ {} \in SUBSET (1..3) /\ <<>> # <<"unhealthy">>
  OBVIOUS
<1>2. ProbeSound(OneProbe("one", <<>>, 0)) /\ ProbeSound(OneProbe("done_one", <<>>, 404))
  BY <1>1 DEF OneProbe, ProbeSound, ProbeRecords
<1> QED BY <1>2, ProbeBecomes DEF AskOne

LEMMA CheckIndividualKeeps ==
  ASSUME ProbesInv, NEW p \in Probes, CheckIndividual(p)
  PROVE  ProbesInv'
<1>1. PICK x \in Results :
        probe' = [probe EXCEPT ![p] = OneProbe("done_one", <<x>>, StatusCode(x))]
  BY DEF CheckIndividual
<1>2. <<x>> \in Seq(Results) /\ {} \in SUBSET (1..3)
  OBVIOUS
<1>3. StatusCode(x) \in {200, 503} /\ (StatusCode(x) = 503 <=> x = "unhealthy")
  BY DEF StatusCode, Results
<1>4. <<x>> = <<"unhealthy">> <=> x = "unhealthy"
  OBVIOUS
<1>5. ProbeSound(OneProbe("done_one", <<x>>, StatusCode(x)))
  BY <1>2, <1>3, <1>4 DEF OneProbe, ProbeSound, ProbeRecords
<1> QED BY <1>1, <1>5, ProbeBecomes

LEMMA ProbesAreJudged ==
  ASSUME ProbesInv
  PROVE  HealthJudged
<1> SUFFICES ASSUME NEW p \in Probes
    PROVE LET seq == ChecksOf(probe[p].kind)
              got(r) == {i \in DOMAIN probe[p].results : probe[p].results[i] = r}
          IN
          /\ probe[p].kind = "done_health" =>
               /\ probe[p].code = 503 <=> \E i \in got("unhealthy") : Critical(seq[i])
               /\ probe[p].verdict = "degraded" <=> got("degraded") # {} /\ probe[p].code = 200
          /\ probe[p].kind = "done_ready" =>
               (probe[p].code = 503 <=> got("healthy") # DOMAIN seq)
          /\ probe[p].kind = "done_one" =>
               (probe[p].code = 503 <=> probe[p].results = <<"unhealthy">>)
  BY DEF HealthJudged
<1> DEFINE s == probe[p].results
           got(r) == {i \in DOMAIN s : s[i] = r}
<1>1. ProbeSound(probe[p]) /\ s \in Seq(Results) /\ DOMAIN s = 1..Len(s)
  <2>1. ProbeSound(probe[p]) /\ probe[p] \in ProbeRecords
    BY DEF ProbesInv, ProbeSound
  <2>2. s \in Seq(Results)
    BY <2>1 DEF ProbeRecords
  <2> QED BY <2>1, <2>2
<1>2. ASSUME probe[p].kind = "done_health"
      PROVE  /\ probe[p].code = 503 <=> \E i \in got("unhealthy") : Critical(HealthSeq[i])
             /\ probe[p].verdict = "degraded" <=> got("degraded") # {} /\ probe[p].code = 200
  <2>1. HealthSays(s, probe[p].verdict) /\ probe[p].code = StatusCode(probe[p].verdict)
    BY <1>1, <1>2 DEF ProbeSound
  <2>2. CriticalFailed(s) <=> \E i \in got("unhealthy") : Critical(HealthSeq[i])
    BY <1>1 DEF CriticalFailed
  <2>3. Said(s, "degraded") <=> got("degraded") # {}
    BY <1>1 DEF Said
  <2> HIDE DEF got, s
  <2> QED BY <2>1, <2>2, <2>3 DEF HealthSays, StatusCode, Results
<1>3. ASSUME probe[p].kind = "done_ready"
      PROVE  probe[p].code = 503 <=> got("healthy") # DOMAIN ReadinessSeq
  <2>1. /\ ReadySays(s, probe[p].verdict) /\ probe[p].code = StatusCode(probe[p].verdict)
        /\ Len(s) = 2
    BY <1>1, <1>3 DEF ProbeSound
  <2>2. (\A i \in 1..Len(s) : s[i] = "healthy") <=> got("healthy") = DOMAIN ReadinessSeq
    BY <1>1, <2>1, ChecksAre
  <2> HIDE DEF got, s
  <2> QED BY <2>1, <2>2 DEF ReadySays, StatusCode
<1>4. ASSUME probe[p].kind = "done_one"
      PROVE  probe[p].code = 503 <=> probe[p].results = <<"unhealthy">>
  BY <1>1, <1>4 DEF ProbeSound
<1> QED BY <1>2, <1>3, <1>4, ChecksAre

LEMMA HealthTyped ==
  ASSUME ProbesInv, SlosInv
  PROVE  HealthTypeOK
<1>1. ASSUME NEW p \in Probes
      PROVE  /\ probe[p].kind \in {"idle", "health", "ready", "one", "done_health", "done_ready",
                                    "done_one"}
             /\ \A i \in DOMAIN probe[p].results : probe[p].results[i] \in Results
             /\ probe[p].rejected \subseteq 1..3
             /\ probe[p].verdict \in Results \cup {"none", "ready", "not_ready"}
             /\ probe[p].code \in {0, 200, 404, 503}
  <2>1. probe[p] \in ProbeRecords
    BY DEF ProbesInv, ProbeSound
  <2>2. probe[p].results \in Seq(Results)
    BY <2>1 DEF ProbeRecords
  <2>3. \A i \in DOMAIN probe[p].results : probe[p].results[i] \in Results
    BY <2>2
  <2> QED BY <2>1, <2>3 DEF ProbeRecords
<1> QED BY <1>1 DEF HealthTypeOK, SlosInv, SloRecords

LEMMA HealthFramed ==
  ASSUME ProbesInv, SlosInv
  PROVE  (UNCHANGED probe => ProbesInv') /\ (UNCHANGED sloStatus => SlosInv')
<1>1. UNCHANGED probe => ProbesInv'
  BY DEF ProbesInv, ProbeSound
<1>2. UNCHANGED sloStatus => SlosInv'
  BY DEF SlosInv, SloJudged
<1> QED BY <1>1, <1>2

LEMMA HealthStarts ==
  ASSUME HealthInit
  PROVE  ProbesInv /\ SlosInv
<1>1. ProbeSound(NoProbe)
  <2>1. NoProbe \in ProbeRecords /\ NoProbe.kind = "idle"
    BY DEF NoProbe, ProbeRecords
  <2> QED BY <2>1 DEF ProbeSound
<1>2. ProbesInv
  BY <1>1 DEF HealthInit, ProbesInv
<1>3. NoStatus \in SloRecords /\ NoStatus.status = "none"
  BY DEF NoStatus, SloRecords
<1>4. SlosInv
  BY <1>3 DEF HealthInit, SlosInv, SloJudged
<1> QED BY <1>2, <1>4
-----------------------------------------------------------------------------
(* The audit log: where the entries are.                                   *)
Entry == 1..MaxEntries
Aboard(under) == UNION {ToSet(s) : s \in under}
Placed(sent, held, under, n) ==
    /\ ToSet(sent) \cup ToSet(held) \cup Aboard(under) = 1..n
    /\ \A s \in under \cup {sent, held} : IsInjective(s)
    /\ Apart(sent, held)
    /\ \A s \in under : /\ Apart(s, sent) /\ Apart(s, held)
                        /\ \A t \in under \ {s} : Apart(s, t)
Rising(s) == \A i, j \in DOMAIN s : i < j => s[i] < s[j]

AuditInv ==
    /\ logLevel \in LogLevels /\ entries \in 0..MaxEntries /\ stopAt \in 0..MaxEntries
    /\ buffer \in Seq(Entry) /\ shipped \in Seq(Entry) /\ ships \subseteq Seq(Entry)
    /\ timers \in 0..1 /\ logger \in {"on", "stopping", "off"} /\ early \in BOOLEAN
    /\ shipFailures \in 0..MaxShipFailures /\ shipper \in BOOLEAN
    /\ Placed(shipped, buffer, ships, entries)
    /\ shipFailures = 0 => Rising(buffer)
    /\ ~shipper => shipped = <<>> /\ ships = {}
    /\ shipper /\ logger = "stopping" /\ ~early /\ shipFailures = 0 =>
         lastShip \in ships /\ 1..stopAt \subseteq ToSet(shipped) \cup ToSet(lastShip)
    /\ shipper /\ logger = "off" /\ ~early /\ shipFailures = 0 => 1..stopAt \subseteq ToSet(shipped)

LEMMA SetOfEntries ==
  ASSUME NEW T, NEW s \in Seq(T)
  PROVE  /\ Len(s) \in Nat /\ DOMAIN s = 1..Len(s) /\ ToSet(s) = {s[i] : i \in 1..Len(s)}
         /\ \A i \in 1..Len(s) : s[i] \in T
<1>1. Len(s) \in Nat /\ DOMAIN s = 1..Len(s) /\ \A i \in 1..Len(s) : s[i] \in T
  OBVIOUS
<1> QED BY <1>1 DEF ToSet

LEMMA SetOfNone == ToSet(<<>>) = {} /\ IsInjective(<<>>)
<1>1. DOMAIN <<>> = {}
  OBVIOUS
<1> QED BY <1>1 DEF ToSet, IsInjective

LEMMA SetOfAppended ==
  ASSUME NEW T, NEW s \in Seq(T), NEW e \in T
  PROVE  /\ Append(s, e) \in Seq(T) /\ ToSet(Append(s, e)) = ToSet(s) \cup {e}
         /\ IsInjective(s) /\ e \notin ToSet(s) => IsInjective(Append(s, e))
<1> DEFINE r == Append(s, e)
           n == Len(s)
<1>1. n \in Nat /\ ToSet(s) = {s[i] : i \in 1..n} /\ DOMAIN s = 1..n
  BY SetOfEntries
<1>2. /\ r \in Seq(T) /\ DOMAIN r = 1..(n + 1) /\ r[n + 1] = e
      /\ \A i \in 1..n : r[i] = s[i]
  BY <1>1
<1> HIDE DEF r, n
<1>3. ToSet(r) = ToSet(s) \cup {e}
  <2>1. ToSet(r) = {r[i] : i \in 1..(n + 1)}
    BY <1>2 DEF ToSet
  <2>2. \A i : i \in 1..(n + 1) <=> i \in 1..n \/ i = n + 1
    BY <1>1
  <2> QED BY <1>1, <1>2, <2>1, <2>2
<1>4. ASSUME IsInjective(s), e \notin ToSet(s) PROVE IsInjective(r)
  <2>1. ASSUME NEW i \in 1..(n + 1), NEW j \in 1..(n + 1), r[i] = r[j] PROVE i = j
    <3>1. i \in 1..n \/ i = n + 1
      BY <1>1
    <3>2. j \in 1..n \/ j = n + 1
      BY <1>1
    <3> QED BY <1>1, <1>2, <1>4, <2>1, <3>1, <3>2 DEF IsInjective
  <2> QED BY <1>2, <2>1 DEF IsInjective
<1> QED BY <1>2, <1>3, <1>4 DEF r

LEMMA SetOfJoined ==
  ASSUME NEW T, NEW s \in Seq(T), NEW t \in Seq(T)
  PROVE  /\ s \o t \in Seq(T) /\ ToSet(s \o t) = ToSet(s) \cup ToSet(t)
         /\ IsInjective(s) /\ IsInjective(t) /\ Apart(s, t) => IsInjective(s \o t)
<1> DEFINE r == s \o t
           n == Len(s)
           m == Len(t)
<1>1. /\ n \in Nat /\ ToSet(s) = {s[i] : i \in 1..n} /\ DOMAIN s = 1..n
      /\ m \in Nat /\ ToSet(t) = {t[i] : i \in 1..m} /\ DOMAIN t = 1..m
  BY SetOfEntries
<1>2. /\ r \in Seq(T) /\ DOMAIN r = 1..(n + m)
      /\ \A i \in 1..n : r[i] = s[i]
      /\ \A i \in 1..m : r[n + i] = t[i]
  <2>1. /\ r \in Seq(T) /\ Len(r) = n + m
        /\ \A i \in 1..(n + m) : r[i] = IF i <= n THEN s[i] ELSE t[i - n]
    BY ConcatProperties
  <2>2. DOMAIN r = 1..(n + m)
    BY <2>1
  <2>3. \A i \in 1..n : i \in 1..(n + m) /\ i <= n
    BY <1>1
  <2>4. \A i \in 1..m : n + i \in 1..(n + m) /\ ~(n + i <= n) /\ (n + i) - n = i
    BY <1>1
  <2> HIDE DEF r, n, m
  <2> QED BY <2>1, <2>2, <2>3, <2>4
<1>3. \A k \in 1..(n + m) : k \in 1..n \/ \E i \in 1..m : k = n + i
  <2>1. ASSUME NEW k \in 1..(n + m), k \notin 1..n PROVE k - n \in 1..m /\ k = n + (k - n)
    BY <1>1, <2>1
  <2> QED BY <2>1
<1>4. \A i \in 1..m : n + i \in 1..(n + m)
  BY <1>1
<1>5. \A i \in 1..n : i \in 1..(n + m)
  BY <1>1
<1> HIDE DEF r, n, m
<1>6. ToSet(r) = ToSet(s) \cup ToSet(t)
  <2>1. ToSet(r) = {r[i] : i \in 1..(n + m)}
    BY <1>2 DEF ToSet
  <2>2. ASSUME NEW x \in ToSet(r) PROVE x \in ToSet(s) \cup ToSet(t)
    <3>1. PICK k \in 1..(n + m) : x = r[k]
      BY <2>1, <2>2
    <3>2. CASE k \in 1..n
      BY <1>1, <1>2, <3>1, <3>2
    <3>3. CASE \E i \in 1..m : k = n + i
      BY <1>1, <1>2, <3>1, <3>3
    <3> QED BY <1>3, <3>2, <3>3
  <2>3. ASSUME NEW x \in ToSet(s) \cup ToSet(t) PROVE x \in ToSet(r)
    BY <1>1, <1>2, <1>4, <1>5, <2>1
  <2> QED BY <2>2, <2>3
<1>7. ASSUME IsInjective(s), IsInjective(t), Apart(s, t) PROVE IsInjective(r)
  <2>1. \A i \in 1..n, j \in 1..m : s[i] # t[j]
    BY <1>1, <1>7 DEF Apart
  <2>2. ASSUME NEW i \in 1..(n + m), NEW j \in 1..(n + m), r[i] = r[j] PROVE i = j
    <3>1. CASE i \in 1..n /\ j \in 1..n
      BY <1>1, <1>2, <1>7, <2>2, <3>1 DEF IsInjective
    <3>2. CASE \E a \in 1..m, b \in 1..m : i = n + a /\ j = n + b
      <4>1. PICK a \in 1..m, b \in 1..m : i = n + a /\ j = n + b
        BY <3>2
      <4>2. t[a] = t[b]
        BY <1>2, <2>2, <4>1
      <4>3. a = b
        BY <1>1, <1>7, <4>2 DEF IsInjective
      <4> QED BY <4>1, <4>3
    <3>3. CASE i \in 1..n /\ \E b \in 1..m : j = n + b
      BY <1>2, <2>1, <2>2, <3>3
    <3>4. CASE j \in 1..n /\ \E a \in 1..m : i = n + a
      BY <1>2, <2>1, <2>2, <3>4
    <3> QED BY <1>3, <3>1, <3>2, <3>3, <3>4
  <2> QED BY <1>2, <2>2 DEF IsInjective
<1> QED BY <1>2, <1>6, <1>7 DEF r

LEMMA WhatIsAboard ==
  ASSUME NEW under
  PROVE  /\ \A x : x \in Aboard(under) <=> \E s \in under : x \in ToSet(s)
         /\ \A s : Aboard(under \cup {s}) = Aboard(under) \cup ToSet(s)
         /\ \A s \in under : Aboard(under) = Aboard(under \ {s}) \cup ToSet(s)
<1>1. \A more, x : x \in Aboard(more) <=> \E s \in more : x \in ToSet(s)
  BY Zenon DEF Aboard
<1>2. ASSUME NEW s PROVE Aboard(under \cup {s}) = Aboard(under) \cup ToSet(s)
  BY <1>1
<1>3. ASSUME NEW s \in under PROVE Aboard(under) = Aboard(under \ {s}) \cup ToSet(s)
  BY <1>1
<1> QED BY <1>1, <1>2, <1>3

LEMMA ApartBoth == ASSUME NEW s, NEW t PROVE Apart(s, t) <=> Apart(t, s)
BY DEF Apart

(* A flush puts the buffer on its way.                                     *)
LEMMA FlushPlaces ==
  ASSUME NEW sent, NEW held, NEW under, NEW n, Placed(sent, held, under, n)
  PROVE  Placed(sent, <<>>, IF held = <<>> THEN under ELSE under \cup {held}, n)
<1>1. CASE held = <<>>
  BY <1>1
<1>2. CASE held # <<>>
  <2> DEFINE more == under \cup {held}
  <2>1. ToSet(sent) \cup ToSet(<<>>) \cup Aboard(more) = 1..n
    <3>1. Aboard(more) = Aboard(under) \cup ToSet(held)
      BY WhatIsAboard
    <3> HIDE DEF more
    <3> QED BY <3>1, SetOfNone DEF Placed
  <2>2. \A s \in more \cup {sent, <<>>} : IsInjective(s)
    BY SetOfNone DEF Placed
  <2>3. Apart(sent, <<>>) /\ \A s : Apart(s, <<>>)
    BY SetOfNone DEF Apart
  <2>4. \A s \in more : Apart(s, sent) /\ \A t \in more \ {s} : Apart(s, t)
    BY ApartBoth DEF Placed
  <2> QED BY <1>2, <2>1, <2>2, <2>3, <2>4 DEF Placed
<1> QED BY <1>1, <1>2

LEMMA LogPlaces ==
  ASSUME NEW sent, NEW held \in Seq(Entry), NEW under, NEW n \in Nat, n + 1 \in Entry,
         Placed(sent, held, under, n)
  PROVE  Placed(sent, Append(held, n + 1), under, n + 1)
<1> DEFINE b == Append(held, n + 1)
<1>1. ToSet(b) = ToSet(held) \cup {n + 1}
      /\ (IsInjective(held) /\ n + 1 \notin ToSet(held) => IsInjective(b))
  BY SetOfAppended
<1> HIDE DEF b
<1>2. n + 1 \notin 1..n /\ 1..(n + 1) = 1..n \cup {n + 1}
  OBVIOUS
<1>3. n + 1 \notin ToSet(held) /\ n + 1 \notin ToSet(sent) /\ \A s \in under : n + 1 \notin ToSet(s)
  BY <1>2, WhatIsAboard DEF Placed
<1>4. ToSet(sent) \cup ToSet(b) \cup Aboard(under) = 1..(n + 1)
  BY <1>1, <1>2 DEF Placed
<1>5. \A s \in under \cup {sent, b} : IsInjective(s)
  BY <1>1, <1>3 DEF Placed
<1>6. Apart(sent, b) /\ \A s \in under : Apart(s, b)
  BY <1>1, <1>3 DEF Placed, Apart
<1>7. Placed(sent, b, under, n + 1)
  BY <1>4, <1>5, <1>6 DEF Placed
<1> QED BY <1>7 DEF b

LEMMA DonePlaces ==
  ASSUME NEW sent \in Seq(Entry), NEW held, NEW under \in SUBSET Seq(Entry), NEW n,
         Placed(sent, held, under, n), NEW s \in under
  PROVE  Placed(sent \o s, held, under \ {s}, n)
<1> DEFINE a == sent \o s
           rest == under \ {s}
<1>1. ToSet(a) = ToSet(sent) \cup ToSet(s)
      /\ (IsInjective(sent) /\ IsInjective(s) /\ Apart(sent, s) => IsInjective(a))
  BY SetOfJoined
<1>2. Aboard(under) = Aboard(rest) \cup ToSet(s)
  BY WhatIsAboard
<1> HIDE DEF a
<1>3. ToSet(a) \cup ToSet(held) \cup Aboard(rest) = 1..n
  <2> HIDE DEF rest
  <2> QED BY <1>1, <1>2 DEF Placed
<1>4. IsInjective(a)
  BY <1>1, ApartBoth DEF Placed
<1>5. \A t \in rest \cup {a, held} : IsInjective(t)
  BY <1>4 DEF Placed
<1>6. Apart(a, held) /\ \A t \in rest : Apart(t, a)
  BY <1>1 DEF Placed, Apart
<1>7. \A t \in rest : Apart(t, held) /\ \A u \in rest \ {t} : Apart(t, u)
  BY DEF Placed
<1>8. Placed(a, held, rest, n)
  BY <1>3, <1>5, <1>6, <1>7 DEF Placed
<1> QED BY <1>8 DEF a

LEMMA FailPlaces ==
  ASSUME NEW sent, NEW held \in Seq(Entry), NEW under \in SUBSET Seq(Entry), NEW n,
         Placed(sent, held, under, n), NEW s \in under
  PROVE  Placed(sent, s \o held, under \ {s}, n)
<1> DEFINE b == s \o held
           rest == under \ {s}
<1>1. ToSet(b) = ToSet(s) \cup ToSet(held)
      /\ (IsInjective(s) /\ IsInjective(held) /\ Apart(s, held) => IsInjective(b))
  BY SetOfJoined
<1>2. Aboard(under) = Aboard(rest) \cup ToSet(s)
  BY WhatIsAboard
<1> HIDE DEF b
<1>3. ToSet(sent) \cup ToSet(b) \cup Aboard(rest) = 1..n
  <2> HIDE DEF rest
  <2> QED BY <1>1, <1>2 DEF Placed
<1>4. IsInjective(b)
  BY <1>1 DEF Placed
<1>5. \A t \in rest \cup {sent, b} : IsInjective(t)
  BY <1>4 DEF Placed
<1>6. Apart(sent, b) /\ \A t \in rest : Apart(t, b)
  BY <1>1 DEF Placed, Apart
<1>7. \A t \in rest : Apart(t, sent) /\ \A u \in rest \ {t} : Apart(t, u)
  BY DEF Placed
<1>8. Placed(sent, b, rest, n)
  BY <1>3, <1>5, <1>6, <1>7 DEF Placed
<1> QED BY <1>8 DEF b

(* A buffer that was flushed, or to which the next entry was added.        *)
LEMMA RisingOn ==
  ASSUME NEW s \in Seq(Entry), Rising(s), NEW n \in Nat, ToSet(s) \subseteq 1..n
  PROVE  Rising(<<>>) /\ Rising(Append(s, n + 1))
<1> DEFINE r == Append(s, n + 1)
           m == Len(s)
<1>1. m \in Nat /\ DOMAIN s = 1..m /\ \A i \in 1..m : s[i] \in 1..n
  BY SetOfEntries
<1>2. DOMAIN r = 1..(m + 1) /\ r[m + 1] = n + 1 /\ \A i \in 1..m : r[i] = s[i]
  BY <1>1
<1> HIDE DEF r, m
<1>3. ASSUME NEW i \in 1..(m + 1), NEW j \in 1..(m + 1), i < j PROVE r[i] < r[j]
  <2>1. i \in 1..m
    BY <1>1, <1>3
  <2>2. CASE j = m + 1
    BY <1>1, <1>2, <2>1, <2>2
  <2>3. CASE j # m + 1
    <3>1. j \in 1..m
      BY <1>1, <2>3
    <3> QED BY <1>1, <1>2, <1>3, <2>1, <3>1 DEF Rising
  <2> QED BY <2>2, <2>3
<1>4. Rising(r)
  BY <1>2, <1>3 DEF Rising
<1>5. Rising(<<>>)
  BY DEF Rising
<1> QED BY <1>4, <1>5 DEF r
LEMMA FlushTypes ==
  ASSUME NEW b \in Seq(Entry), ships \subseteq Seq(Entry), Flush(b), NEW n,
         Placed(shipped, b, ships, n), shipper \in BOOLEAN
  PROVE  \E held \in {b, <<>>}, under \in SUBSET Seq(Entry) :
           /\ buffer' = held /\ ships' = under /\ ships \subseteq under
           /\ shipper => held = <<>> /\ under = (IF b = <<>> THEN ships ELSE ships \cup {b})
           /\ ~shipper => held = b /\ under = ships
           /\ Placed(shipped, held, under, n)
<1>1. CASE b = <<>> \/ ~shipper
  <2>1. buffer' = b /\ ships' = ships
    BY <1>1 DEF Flush
  <2> QED BY <1>1, <2>1
<1>2. CASE ~(b = <<>> \/ ~shipper)
  <2>1. buffer' = <<>> /\ ships' = ships \cup {b} /\ ships \cup {b} \in SUBSET Seq(Entry)
    BY <1>2 DEF Flush
  <2>2. Placed(shipped, <<>>, IF b = <<>> THEN ships ELSE ships \cup {b}, n)
    BY FlushPlaces
  <2>3. Placed(shipped, <<>>, ships \cup {b}, n)
    BY <1>2, <2>2
  <2> QED BY <1>2, <2>1, <2>3
<1> QED BY <1>1, <1>2

LEMMA PlacedNext ==
  ASSUME NEW sent, NEW held, NEW under, NEW n, Placed(sent, held, under, n),
         shipped' = sent, buffer' = held, ships' = under, entries' = n
  PROVE  Placed(shipped, buffer, ships, entries)'
BY DEF Placed, Apart, Aboard

(* What the log promises about a shutdown.                                 *)
StopKept ==
    /\ shipper /\ logger = "stopping" /\ ~early /\ shipFailures = 0 =>
         lastShip \in ships /\ 1..stopAt \subseteq ToSet(shipped) \cup ToSet(lastShip)
    /\ shipper /\ logger = "off" /\ ~early /\ shipFailures = 0 => 1..stopAt \subseteq ToSet(shipped)

LEMMA LogKeeps ==
  ASSUME AuditInv, NEW severity, Log(severity)
  PROVE  AuditInv'
<1> DEFINE b == Append(buffer, entries + 1)
<1>1. /\ entries \in Nat /\ entries + 1 \in Entry /\ entries' = entries + 1
      /\ entries + 1 \in 0..MaxEntries
      /\ UNCHANGED <<logLevel, shipper, shipped, timers, logger, lastShip, early, stopAt, shipFailures>>
  BY AuditAssumption DEF Log, AuditInv, Entry
<1>2. /\ buffer \in Seq(Entry) /\ ships \subseteq Seq(Entry) /\ shipper \in BOOLEAN
      /\ Placed(shipped, buffer, ships, entries)
  BY DEF AuditInv
<1>3. b \in Seq(Entry) /\ Placed(shipped, b, ships, entries + 1)
  BY <1>1, <1>2, LogPlaces, SetOfAppended
<1>4. shipFailures = 0 => Rising(b) /\ Rising(<<>>)
  <2>1. ToSet(buffer) \subseteq 1..entries
    BY <1>2 DEF Placed
  <2> QED BY <1>1, <1>2, <2>1, RisingOn DEF AuditInv
<1>5. Flush(b) \/ (buffer' = b /\ ships' = ships)
  BY DEF Log
<1> HIDE DEF b
<1>11. PICK held \in {b, <<>>}, under \in SUBSET Seq(Entry) :
         /\ buffer' = held /\ ships' = under /\ ships \subseteq under
         /\ ~shipper => under = ships
         /\ Placed(shipped, held, under, entries + 1)
  <2>1. CASE Flush(b)
    BY <1>2, <1>3, <2>1, FlushTypes
  <2>2. CASE buffer' = b /\ ships' = ships
    BY <1>2, <1>3, <2>2
  <2> QED BY <1>5, <2>1, <2>2
<1>6. buffer' \in Seq(Entry) /\ ships' \subseteq Seq(Entry) /\ ships \subseteq ships'
  <2>1. <<>> \in Seq(Entry)
    OBVIOUS
  <2>2. held \in Seq(Entry)
    BY <1>3, <2>1
  <2> QED BY <1>11, <2>2
<1>8. Placed(shipped, buffer, ships, entries)'
  BY <1>1, <1>11, PlacedNext
<1>9. StopKept'
  BY <1>1, <1>6 DEF AuditInv, StopKept
<1>10. Placed(shipped, buffer, ships, entries)' /\ (shipFailures = 0 => Rising(buffer))'
  BY <1>1, <1>4, <1>8, <1>11 DEF Rising
<1>12. (~shipper => shipped = <<>> /\ ships = {})'
  BY <1>1, <1>11 DEF AuditInv
<1> QED BY <1>1, <1>6, <1>9, <1>10, <1>12 DEF AuditInv, StopKept

LEMMA FlushIntervalKeeps ==
  ASSUME AuditInv, FlushInterval
  PROVE  AuditInv'
<1>1. /\ Flush(buffer) /\ buffer # <<>>
      /\ UNCHANGED <<logLevel, shipper, entries, shipped, timers, logger, lastShip, early, stopAt,
                  shipFailures>>
  BY DEF FlushInterval
<1>2. /\ buffer \in Seq(Entry) /\ ships \subseteq Seq(Entry) /\ shipper \in BOOLEAN
      /\ Placed(shipped, buffer, ships, entries)
  BY DEF AuditInv
<1>6. PICK held \in {buffer, <<>>}, under \in SUBSET Seq(Entry) :
        /\ buffer' = held /\ ships' = under /\ ships \subseteq under
        /\ ~shipper => held = buffer /\ under = ships
        /\ Placed(shipped, held, under, entries)
  BY <1>1, <1>2, FlushTypes
<1>3. buffer' \in Seq(Entry) /\ ships' \subseteq Seq(Entry) /\ ships \subseteq ships'
  <2>1. <<>> \in Seq(Entry)
    OBVIOUS
  <2> QED BY <1>2, <1>6, <2>1
<1>4. Placed(shipped, buffer, ships, entries)' /\ (shipFailures = 0 => Rising(buffer))'
  <2>1. Rising(<<>>) /\ (shipFailures = 0 => Rising(buffer))
    BY DEF Rising, AuditInv
  <2> QED BY <1>1, <1>6, <2>1, PlacedNext DEF Rising
<1>5. StopKept'
  BY <1>1, <1>3 DEF AuditInv, StopKept
<1>7. (~shipper => shipped = <<>> /\ ships = {})'
  BY <1>1, <1>6 DEF AuditInv
<1> QED BY <1>1, <1>3, <1>4, <1>5, <1>7 DEF AuditInv, StopKept

LEMMA ShutdownKeeps ==
  ASSUME AuditInv, Shutdown
  PROVE  AuditInv'
<1>1. /\ Flush(buffer) /\ logger = "on" /\ timers' = 0
      /\ lastShip' = buffer /\ early' = (ships # {}) /\ stopAt' = entries
      /\ logger' = IF buffer = <<>> \/ ~shipper THEN "off" ELSE "stopping"
      /\ UNCHANGED <<logLevel, shipper, entries, shipped, shipFailures>>
  BY DEF Shutdown
<1>2. /\ buffer \in Seq(Entry) /\ ships \subseteq Seq(Entry) /\ shipper \in BOOLEAN
      /\ Placed(shipped, buffer, ships, entries)
  BY DEF AuditInv
<1>8. PICK held \in {buffer, <<>>}, under \in SUBSET Seq(Entry) :
        /\ buffer' = held /\ ships' = under /\ ships \subseteq under
        /\ shipper => held = <<>> /\ under = (IF buffer = <<>> THEN ships ELSE ships \cup {buffer})
        /\ ~shipper => held = buffer /\ under = ships
        /\ Placed(shipped, held, under, entries)
  BY <1>1, <1>2, FlushTypes
<1>3. buffer' \in Seq(Entry) /\ ships' \subseteq Seq(Entry)
  <2>1. <<>> \in Seq(Entry)
    OBVIOUS
  <2> QED BY <1>2, <1>8, <2>1
<1>4. Placed(shipped, buffer, ships, entries)' /\ (shipFailures = 0 => Rising(buffer))'
  <2>1. Rising(<<>>) /\ (shipFailures = 0 => Rising(buffer))
    BY DEF Rising, AuditInv
  <2> QED BY <1>1, <1>8, <2>1, PlacedNext DEF Rising
<1>5. StopKept'
  <2>1. ~early' => 1..entries \subseteq ToSet(shipped) \cup ToSet(buffer)
    <3>1. ships = {} => Aboard(ships) = {}
      BY WhatIsAboard
    <3> QED BY <1>1, <1>2, <3>1 DEF Placed
  <2>2. buffer = <<>> => ToSet(buffer) = {}
    BY SetOfNone
  <2>3. ToSet(shipped)' = ToSet(shipped) /\ ToSet(lastShip)' = ToSet(buffer)
    BY <1>1 DEF ToSet
  <2>4. shipper => ships' = (IF buffer = <<>> THEN ships ELSE ships \cup {buffer})
    BY <1>8
  <2> QED BY <1>1, <2>1, <2>2, <2>3, <2>4 DEF StopKept
<1>6. early' \in BOOLEAN /\ logger' \in {"on", "stopping", "off"} /\ 0 \in 0..1
  BY <1>1
<1>7. timers' \in 0..1 /\ stopAt' \in 0..MaxEntries
  BY <1>1, <1>6 DEF AuditInv
<1>9. (~shipper => shipped = <<>> /\ ships = {})'
  BY <1>1, <1>8 DEF AuditInv
<1> QED BY <1>1, <1>2, <1>3, <1>4, <1>5, <1>6, <1>7, <1>9 DEF AuditInv, StopKept

LEMMA ShipDoneKeeps ==
  ASSUME AuditInv, NEW s \in ships, ShipDone(s)
  PROVE  AuditInv'
<1>1. /\ ships' = ships \ {s} /\ shipped' = shipped \o s
      /\ logger' = (IF logger = "stopping" /\ lastShip = s THEN "off" ELSE logger)
      /\ UNCHANGED <<logLevel, shipper, entries, buffer, timers, lastShip, early, stopAt, shipFailures>>
  BY DEF ShipDone
<1>6. shipper /\ shipper' = shipper
  BY <1>1 DEF AuditInv
<1>2. /\ buffer \in Seq(Entry) /\ shipped \in Seq(Entry) /\ ships \subseteq Seq(Entry)
      /\ Placed(shipped, buffer, ships, entries) /\ s \in Seq(Entry)
  BY DEF AuditInv
<1>3. /\ shipped' \in Seq(Entry) /\ ToSet(shipped \o s) = ToSet(shipped) \cup ToSet(s)
      /\ Placed(shipped \o s, buffer, ships \ {s}, entries)
  BY <1>1, <1>2, DonePlaces, SetOfJoined
<1>4. Placed(shipped, buffer, ships, entries)' /\ (shipFailures = 0 => Rising(buffer))'
  <2>1. Placed(shipped, buffer, ships, entries)'
    BY <1>1, <1>3, PlacedNext
  <2> QED BY <1>1, <2>1 DEF AuditInv, Rising
<1>5. StopKept'
  <2>1. ToSet(shipped') = ToSet(shipped) \cup ToSet(s)
    BY <1>1, <1>3
  <2> QED BY <1>1, <2>1 DEF AuditInv, StopKept
<1> QED BY <1>1, <1>2, <1>3, <1>4, <1>5, <1>6 DEF AuditInv, StopKept

LEMMA ShipFailsKeeps ==
  ASSUME AuditInv, NEW s \in ships, ShipFails(s)
  PROVE  AuditInv'
<1>1. /\ ships' = ships \ {s} /\ buffer' = s \o buffer /\ shipFailures' = shipFailures + 1
      /\ shipFailures < MaxShipFailures
      /\ logger' = (IF logger = "stopping" /\ lastShip = s THEN "off" ELSE logger)
      /\ UNCHANGED <<logLevel, shipper, entries, shipped, timers, lastShip, early, stopAt>>
  BY DEF ShipFails
<1>6. shipper /\ shipper' = shipper
  BY <1>1 DEF AuditInv
<1>2. /\ buffer \in Seq(Entry) /\ shipped \in Seq(Entry) /\ ships \subseteq Seq(Entry)
      /\ Placed(shipped, buffer, ships, entries) /\ s \in Seq(Entry)
  BY DEF AuditInv
<1>3. /\ buffer' \in Seq(Entry) /\ Placed(shipped, s \o buffer, ships \ {s}, entries)
  BY <1>1, <1>2, FailPlaces, SetOfJoined
<1>4. Placed(shipped, buffer, ships, entries)'
  BY <1>1, <1>3, PlacedNext
<1>5. shipFailures' \in 0..MaxShipFailures /\ shipFailures' # 0
  BY <1>1, AuditAssumption DEF AuditInv
<1> QED BY <1>1, <1>2, <1>3, <1>4, <1>5, <1>6 DEF AuditInv, StopKept

LEMMA AuditFramed ==
  ASSUME AuditInv, UNCHANGED auditVars
  PROVE  AuditInv'
BY DEF AuditInv, auditVars, Placed, Apart, Rising

LEMMA AuditStep ==
  ASSUME AuditInv, AuditNext
  PROVE  AuditInv'
BY LogKeeps, FlushIntervalKeeps, ShutdownKeeps, ShipDoneKeeps, ShipFailsKeeps DEF AuditNext

LEMMA AuditStarts ==
  ASSUME AuditInit
  PROVE  AuditInv
<1>1. Placed(<<>>, <<>>, {}, 0)
  <2>1. Aboard({}) = {} /\ 1..0 = {}
    BY DEF Aboard
  <2> QED BY <2>1, SetOfNone DEF Placed, Apart
<1>2. Rising(<<>>) /\ <<>> \in Seq(Entry)
  BY DEF Rising
<1>3. Placed(shipped, buffer, ships, entries) /\ Rising(buffer)
  BY <1>1, <1>2 DEF AuditInit
<1>4. 0 \in 0..MaxEntries /\ 0 \in 0..MaxShipFailures /\ 1 \in 0..1 /\ {} \subseteq Seq(Entry)
  BY AuditAssumption
<1>5. /\ logLevel \in LogLevels /\ shipper \in BOOLEAN /\ entries = 0 /\ buffer = <<>> /\ ships = {} /\ shipped = <<>>
      /\ timers = 1 /\ logger = "on" /\ early = FALSE /\ stopAt = 0 /\ shipFailures = 0
  BY DEF AuditInit
<1> QED BY <1>2, <1>3, <1>4, <1>5 DEF AuditInv

LEMMA AuditKept ==
  ASSUME AuditInv
  PROVE  EntriesKept /\ AuditTypeOK
<1>1. EntriesKept
  <2>1. ToSet(shipped) \cup ToSet(buffer) \cup Aboard(ships) = 1..entries
    BY DEF AuditInv, Placed
  <2>2. ~shipper => ToSet(buffer) = 1..entries
    BY <2>1, SetOfNone, WhatIsAboard DEF AuditInv
  <2> QED BY <2>2 DEF AuditInv, Placed, Aboard, Rising, EntriesKept
<1>2. \A t \in Seq(Entry) : \A i \in DOMAIN t : t[i] \in 1..MaxEntries
  BY SetOfEntries DEF Entry
<1>3. AuditTypeOK
  BY <1>2 DEF AuditInv, AuditTypeOK
<1> QED BY <1>1, <1>3

LEMMA LaxerLevels == LevelsNest
<1>1. ASSUME NEW q \in Requests
      PROVE  /\ Logged("critical", q) => Logged("high", q)
             /\ Logged("high", q) => Logged("all", q)
             /\ q.method # "GET" => Logged("all", q)
  BY DEF Logged, ShouldLog, ShouldAudit
<1>2. ASSUME NEW q \in Requests, q.method = "DELETE" \/ q.resource = "permissions"
      PROVE  Logged("critical", q)
  <2>1. q.resource \in Resources
    BY DEF Requests
  <2>2. Verb(q) \in {"delete", "DELETE", "grant", "revoke"}
    <3>1. CASE q.resource = "permissions"
      BY <3>1 DEF Verb
    <3>2. CASE q.resource = "other" /\ q.method = "DELETE"
      BY <3>2 DEF Verb
    <3>3. CASE q.resource \in {"users", "teams", "runs"} /\ q.method = "DELETE"
      BY <3>3 DEF Verb
    <3> QED BY <1>2, <2>1, <3>1, <3>2, <3>3 DEF Resources
  <2>3. InferSeverity(Verb(q), q.ok) = "critical"
    BY <2>2 DEF InferSeverity
  <2> QED BY <1>2, <2>3 DEF Logged, ShouldLog, ShouldAudit
<1>3. ASSUME NEW e \in Told
      PROVE  /\ \A level \in LogLevels :
                  LoggedTold(level, e) => ShouldLog(level, InferSeverity(e.verb, e.ok))
             /\ e.verb \in {"grant", "revoke"} => LoggedTold("high", e) /\ ~LoggedTold("critical", e)
             /\ e.verb = "delete" => ~LoggedTold("high", e)
  BY DEF Told, Event, LoggedTold, ShouldLog, InferSeverity, LogLevels
<1> QED BY <1>1, <1>2, <1>3 DEF LevelsNest
-----------------------------------------------------------------------------
(* Induction: a set of naturals that has 0 and the successor of each of    *)
(* its members has them all.                                               *)
Less == {ss \in Nat \X Nat : ss[1] < ss[2]}

LEMMA Induct ==
  ASSUME NEW P, 0 \in P, \A n \in Nat : n \in P => n + 1 \in P
  PROVE  Nat \subseteq P
<1> SUFFICES ASSUME ~(Nat \subseteq P) PROVE FALSE
  OBVIOUS
<1> DEFINE Bad == {n \in Nat : n \notin P}
<1>1. Bad # {} /\ Bad \subseteq Nat
  OBVIOUS
<1>2. IsWellFoundedOn(Less, Nat)
  BY NatLessThanWellFounded DEF OpToRel, Less
<1>3. PICK n \in Bad : \A m \in Bad : ~(<<m, n>> \in Less)
  BY <1>1, <1>2, WFMin
<1>4. n \in Nat /\ n \notin P /\ n # 0
  OBVIOUS
<1>5. n - 1 \in Nat /\ n - 1 + 1 = n /\ n - 1 < n
  BY <1>4
<1>6. <<n - 1, n>> \in Less
  BY <1>4, <1>5 DEF Less
<1>7. n - 1 \in P
  BY <1>3, <1>5, <1>6
<1> QED BY <1>4, <1>5, <1>7
-----------------------------------------------------------------------------
(* The alerts.  Alert numbers and windows agree with the history, also     *)
(* between the rules of one evaluation.                                    *)
Alert == [key : Keys, resolved : BOOLEAN, held : BOOLEAN, at : Nat, sent : Nat]
Window == [count : Nat, windowStart : Nat]
OfRule(h, r) == {i \in DOMAIN h : h[i].key[1] = r}
OpenedSince(h, r, start) == {i \in OfRule(h, r) : h[i].at >= start}

AlertAgrees(a, h, i) ==
    /\ h[i].sent <= RuleSeq[h[i].key[1]].channels /\ h[i].at <= now
    /\ ~h[i].resolved <=> a[h[i].key] = i
ActiveAgrees(a, h, k) ==
    a[k] # 0 => a[k] \in DOMAIN h /\ h[a[k]].key = k /\ h[a[k]].held
(* A window has counted every alert of its rule since it began, all within *)
(* the period; without a window there was no alert at this time.           *)
WindowAgrees(h, w, r) ==
    /\ w.count <= Len(h) /\ w.windowStart <= now
    /\ RuleSeq[r].max = 0 => w.count = 0
    /\ RuleSeq[r].max # 0 /\ w.count = 0 => \A i \in OfRule(h, r) : h[i].at < now
    /\ w.count > 0 =>
         /\ w.count <= RuleSeq[r].max
         /\ Cardinality(OpenedSince(h, r, w.windowStart)) <= w.count
         /\ \A i \in OpenedSince(h, r, w.windowStart) :
              h[i].at <= w.windowStart + RuleSeq[r].period
Agree(a, h, t) ==
    /\ a \in [Keys -> Nat] /\ h \in Seq(Alert) /\ t \in [RuleIds -> Window]
    /\ \A i \in DOMAIN h : AlertAgrees(a, h, i)
    /\ \A k \in Keys : ActiveAgrees(a, h, k)
    /\ \A r \in RuleIds : WindowAgrees(h, t[r], r)
AlertInv ==
    /\ now \in 0..MaxTime /\ Len(history) <= MaxAlerts
    /\ Agree(alerts, history, throttle)

LEMMA RulesAre ==
  /\ Len(RuleSeq) \in Nat /\ RuleIds = 1..Len(RuleSeq)
  /\ \A r \in RuleIds : /\ RuleSeq[r].max \in Nat /\ RuleSeq[r].period \in Nat
                        /\ RuleSeq[r].channels \in Nat /\ RuleSeq[r].threshold \in Nat
<1>1. RuleSeq \in Seq([metric : Metrics, filter : Labels \cup {NoLabel},
                       operator : {"gt", "gte", "lt", "lte", "eq", "neq"}, threshold : Nat,
                       max : Nat, period : Nat, channels : Nat])
  BY RuleAssumption
<1>2. Len(RuleSeq) \in Nat /\ RuleIds = 1..Len(RuleSeq)
  BY <1>1 DEF RuleIds
<1>3. \A r \in RuleIds : RuleSeq[r] \in [metric : Metrics, filter : Labels \cup {NoLabel},
                       operator : {"gt", "gte", "lt", "lte", "eq", "neq"}, threshold : Nat,
                       max : Nat, period : Nat, channels : Nat]
  <2> DEFINE R == [metric : Metrics, filter : Labels \cup {NoLabel},
                   operator : {"gt", "gte", "lt", "lte", "eq", "neq"}, threshold : Nat,
                   max : Nat, period : Nat, channels : Nat]
  <2>1. RuleSeq \in Seq(R)
    BY <1>1
  <2> HIDE DEF R
  <2>2. \A r \in 1..Len(RuleSeq) : RuleSeq[r] \in R
    BY <2>1
  <2> QED BY <1>2, <2>2 DEF R
<1> QED BY <1>2, <1>3

LEMMA HistoryIs ==
  ASSUME NEW h \in Seq(Alert)
  PROVE  /\ Len(h) \in Nat /\ DOMAIN h = 1..Len(h)
         /\ \A i \in DOMAIN h : /\ h[i] \in Alert /\ h[i].key \in Keys /\ h[i].key[1] \in RuleIds
                                /\ h[i].at \in Nat /\ h[i].sent \in Nat
                                /\ h[i].key = <<h[i].key[1], h[i].key[2]>>
<1>1. Len(h) \in Nat /\ DOMAIN h = 1..Len(h) /\ \A i \in DOMAIN h : h[i] \in Alert
  OBVIOUS
<1>2. \A k \in Keys : k[1] \in RuleIds /\ k = <<k[1], k[2]>>
  BY DEF Keys
<1> QED BY <1>1, <1>2 DEF Alert

LEMMA OpenedFinite ==
  ASSUME NEW h \in Seq(Alert), NEW s \in SUBSET DOMAIN h
  PROVE  IsFiniteSet(s) /\ Cardinality(s) \in Nat
<1>1. Len(h) \in Nat /\ DOMAIN h = 1..Len(h)
  BY HistoryIs
<1>2. IsFiniteSet(1..Len(h))
  BY <1>1, FS_Interval
<1> QED BY <1>1, <1>2, FS_Subset, FS_CardinalityType

(* An alert that is opened: not active before, and within the limit of its *)
(* window, which it begins or extends.                                     *)
NewAlert(r, label) == [key |-> <<r, label>>, resolved |-> FALSE, held |-> TRUE, at |-> now, sent |-> 0]
NextWindow(w, r) == IF RuleSeq[r].max = 0 THEN w ELSE UpdateThrottleState(w)
Free(w, r) ==
    RuleSeq[r].max # 0 =>
      w.count = 0 \/ (w.count < RuleSeq[r].max /\ now <= w.windowStart + RuleSeq[r].period)

LEMMA OpenAgrees ==
  ASSUME NEW a, NEW h, NEW t, Agree(a, h, t), now \in Nat, NEW r \in RuleIds,
         NEW label \in Labels \cup {NoLabel}, a[<<r, label>>] = 0, Free(t[r], r)
  PROVE  Agree([a EXCEPT ![<<r, label>>] = Len(h) + 1], Append(h, NewAlert(r, label)),
               [t EXCEPT ![r] = NextWindow(t[r], r)])
<1> DEFINE k == <<r, label>>
           n == Len(h)
           b == [a EXCEPT ![k] = n + 1]
           e == NewAlert(r, label)
           g == Append(h, e)
           w == NextWindow(t[r], r)
           u == [t EXCEPT ![r] = w]
<1>1. /\ a \in [Keys -> Nat] /\ h \in Seq(Alert) /\ t \in [RuleIds -> Window]
      /\ \A i \in DOMAIN h : AlertAgrees(a, h, i)
      /\ \A o \in Keys : ActiveAgrees(a, h, o)
      /\ \A q \in RuleIds : WindowAgrees(h, t[q], q)
  BY DEF Agree
<1>2. /\ n \in Nat /\ DOMAIN h = 1..n
      /\ \A i \in DOMAIN h : /\ h[i] \in Alert /\ h[i].key \in Keys /\ h[i].key[1] \in RuleIds
                             /\ h[i].at \in Nat /\ h[i].sent \in Nat
  BY <1>1, HistoryIs
<1>3. k \in Keys /\ k[1] = r
  BY DEF Keys
<1>4. e \in Alert
  BY <1>3 DEF NewAlert, Alert
<1>5. e.key = k /\ e.resolved = FALSE /\ e.held = TRUE /\ e.at = now /\ e.sent = 0
  BY DEF NewAlert
<1>6. /\ g \in Seq(Alert) /\ Len(g) = n + 1 /\ DOMAIN g = 1..(n + 1) /\ g[n + 1] = e
      /\ \A i \in 1..n : g[i] = h[i]
  BY <1>1, <1>2, <1>4
<1>7. b \in [Keys -> Nat] /\ b[k] = n + 1 /\ \A o \in Keys : o # k => b[o] = a[o]
  BY <1>1, <1>2, <1>3
<1>8. /\ RuleSeq[r].max \in Nat /\ RuleSeq[r].period \in Nat /\ RuleSeq[r].channels \in Nat
      /\ t[r] \in Window /\ t[r].count \in Nat /\ t[r].windowStart \in Nat
  BY <1>1, RulesAre DEF Window
<1>9. w \in Window
  BY <1>8 DEF NextWindow, UpdateThrottleState, Window
<1>10. u \in [RuleIds -> Window] /\ u[r] = w /\ \A q \in RuleIds : q # r => u[q] = t[q]
  BY <1>1, <1>9
<1> HIDE DEF b, e, g, w, u, n, k
<1>11. ASSUME NEW i \in DOMAIN g PROVE AlertAgrees(b, g, i)
  <2>1. CASE i = n + 1
    <3>1. g[i].key = k /\ g[i].resolved = FALSE /\ g[i].at = now /\ g[i].sent = 0
      BY <1>5, <1>6, <2>1
    <3> QED BY <1>3, <1>7, <1>8, <2>1, <3>1 DEF AlertAgrees
  <2>2. CASE i \in 1..n
    <3>1. g[i] = h[i] /\ AlertAgrees(a, h, i) /\ h[i].key \in Keys
      BY <1>1, <1>2, <1>6, <2>2
    <3>2. CASE h[i].key # k
      BY <1>7, <3>1, <3>2 DEF AlertAgrees
    <3>3. CASE h[i].key = k
      <4>1. a[k] # i /\ b[k] # i
        BY <1>2, <1>7, <2>2 DEF k
      <4> QED BY <3>1, <3>3, <4>1 DEF AlertAgrees
    <3> QED BY <3>2, <3>3
  <2> QED BY <1>2, <1>6, <2>1, <2>2
<1>12. ASSUME NEW o \in Keys PROVE ActiveAgrees(b, g, o)
  <2>1. CASE o = k
    <3>1. b[o] = n + 1 /\ n + 1 \in DOMAIN g /\ g[n + 1].key = o /\ g[n + 1].held = TRUE
      BY <1>2, <1>5, <1>6, <1>7, <2>1
    <3> QED BY <3>1 DEF ActiveAgrees
  <2>2. CASE o # k
    <3>1. b[o] = a[o] /\ ActiveAgrees(a, h, o)
      BY <1>1, <1>7, <2>2
    <3>2. \A i \in DOMAIN h : i \in DOMAIN g /\ g[i] = h[i]
      BY <1>2, <1>6
    <3> QED BY <3>1, <3>2 DEF ActiveAgrees
  <2> QED BY <2>1, <2>2
<1>13. ASSUME NEW q \in RuleIds, q # r PROVE WindowAgrees(g, u[q], q)
  <2>1. u[q] = t[q] /\ WindowAgrees(h, t[q], q) /\ t[q] \in Window
    BY <1>1, <1>10, <1>13
  <2>2. OfRule(g, q) = OfRule(h, q) /\ \A i \in OfRule(h, q) : g[i] = h[i]
    BY <1>2, <1>3, <1>5, <1>6, <1>13 DEF OfRule
  <2>3. \A start : OpenedSince(g, q, start) = OpenedSince(h, q, start)
    BY <2>2 DEF OpenedSince
  <2>4. t[q].count <= n => t[q].count <= Len(g)
    BY <1>2, <1>6, <2>1 DEF Window
  <2>5. \A start : \A i \in OpenedSince(h, q, start) : g[i] = h[i]
    BY <2>2 DEF OpenedSince
  <2> QED BY <2>1, <2>2, <2>3, <2>4, <2>5 DEF WindowAgrees, n
<1>14. WindowAgrees(g, w, r)
  <2>1. WindowAgrees(h, t[r], r) /\ OfRule(g, r) = OfRule(h, r) \cup {n + 1}
    <3>1. WindowAgrees(h, t[r], r)
      BY <1>1
    <3>2. \A i : i \in DOMAIN g <=> i \in DOMAIN h \/ i = n + 1
      BY <1>2, <1>6
    <3> QED BY <1>2, <1>3, <1>5, <1>6, <3>1, <3>2 DEF OfRule
  <2>2. \A i \in OfRule(h, r) : g[i] = h[i] /\ i # n + 1 /\ i \in DOMAIN h /\ h[i].at \in Nat
    BY <1>2, <1>6 DEF OfRule
  <2>3. g[n + 1].at = now /\ \A i \in OfRule(h, r) : h[i].at <= now
    BY <1>1, <1>5, <1>6 DEF OfRule, AlertAgrees
  <2>4. CASE RuleSeq[r].max = 0
    <3>1. w = t[r] /\ t[r].count = 0
      BY <2>1, <2>4 DEF w, NextWindow, WindowAgrees
    <3> QED BY <1>2, <1>6, <2>1, <2>4, <3>1 DEF WindowAgrees
  <2>5. CASE RuleSeq[r].max # 0 /\ t[r].count = 0
    <3>1. w.count = 1 /\ w.windowStart = now
      BY <2>5 DEF w, NextWindow, UpdateThrottleState
    <3>2. \A i \in OfRule(h, r) : h[i].at < now
      BY <2>1, <2>5 DEF WindowAgrees
    <3>3. OpenedSince(g, r, now) = {n + 1}
      BY <2>1, <2>2, <2>3, <3>2 DEF OpenedSince
    <3>4. Cardinality({n + 1}) = 1
      BY FS_Singleton
    <3>5. 1 <= Len(g) /\ 1 <= RuleSeq[r].max /\ now <= now + RuleSeq[r].period /\ now <= now
      BY <1>2, <1>6, <1>8, <2>5
    <3> QED BY <2>3, <2>5, <3>1, <3>3, <3>4, <3>5 DEF WindowAgrees
  <2>6. CASE RuleSeq[r].max # 0 /\ t[r].count # 0
    <3> DEFINE start == t[r].windowStart
               s == OpenedSince(h, r, start)
    <3>1. w.count = t[r].count + 1 /\ w.windowStart = start
      BY <1>8, <2>6 DEF w, NextWindow, UpdateThrottleState, Window
    <3>2. /\ t[r].count < RuleSeq[r].max /\ now <= start + RuleSeq[r].period
          /\ t[r].count <= n /\ start <= now /\ Cardinality(s) <= t[r].count
          /\ \A i \in s : h[i].at <= start + RuleSeq[r].period
      BY <1>8, <2>1, <2>6 DEF Free, WindowAgrees, n
    <3>3. OpenedSince(g, r, start) = s \cup {n + 1} /\ n + 1 \notin s
      BY <2>1, <2>2, <2>3, <3>2 DEF OpenedSince
    <3>4. s \in SUBSET DOMAIN h
      BY DEF OpenedSince, OfRule
    <3>5. IsFiniteSet(s) /\ Cardinality(s) \in Nat
      BY <1>1, <3>4, OpenedFinite
    <3>6. Cardinality(s \cup {n + 1}) = Cardinality(s) + 1
      BY <3>3, <3>5, FS_AddElement
    <3>7. \A i \in s : g[i].at = h[i].at
      BY <2>2 DEF OpenedSince
    <3> HIDE DEF start, s
    <3>8. /\ w.count <= Len(g) /\ w.count <= RuleSeq[r].max /\ w.count # 0
          /\ Cardinality(s \cup {n + 1}) <= w.count
      <4>1. w.count <= Len(g) /\ w.count # 0
        BY <1>2, <1>6, <1>8, <3>1, <3>2
      <4>2. w.count <= RuleSeq[r].max
        BY <1>8, <3>1, <3>2
      <4>3. Cardinality(s \cup {n + 1}) <= w.count
        BY <1>8, <3>1, <3>2, <3>5, <3>6
      <4> QED BY <4>1, <4>2, <4>3
    <3>9. \A i \in s \cup {n + 1} : g[i].at <= start + RuleSeq[r].period
      BY <2>3, <3>2, <3>7
    <3> QED BY <2>6, <3>1, <3>2, <3>3, <3>8, <3>9 DEF WindowAgrees
  <2> QED BY <2>4, <2>5, <2>6
<1>15. \A q \in RuleIds : WindowAgrees(g, u[q], q)
  BY <1>10, <1>13, <1>14
<1>16. Agree(b, g, u)
  BY <1>6, <1>7, <1>10, <1>11, <1>12, <1>15 DEF Agree
<1> QED BY <1>16 DEF b, e, g, w, u, n, k
(* A window that is over is dropped.                                       *)
LEMMA DropAgrees ==
  ASSUME NEW a, NEW h, NEW t, Agree(a, h, t), now \in Nat, NEW r \in RuleIds,
         t[r].count > 0, now - t[r].windowStart > RuleSeq[r].period
  PROVE  Agree(a, h, [t EXCEPT ![r] = NoWindow])
<1> DEFINE u == [t EXCEPT ![r] = NoWindow]
           start == t[r].windowStart
<1>1. /\ h \in Seq(Alert) /\ t \in [RuleIds -> Window]
      /\ \A q \in RuleIds : WindowAgrees(h, t[q], q)
  BY DEF Agree
<1>2. NoWindow \in Window /\ NoWindow.count = 0 /\ NoWindow.windowStart = 0
  BY DEF NoWindow, Window
<1>3. u \in [RuleIds -> Window] /\ u[r] = NoWindow /\ \A q \in RuleIds : q # r => u[q] = t[q]
  BY <1>1, <1>2
<1>4. /\ start \in Nat /\ RuleSeq[r].period \in Nat /\ Len(h) \in Nat
      /\ \A i \in OfRule(h, r) : h[i].at \in Nat
  BY <1>1, RulesAre, HistoryIs DEF Window, OfRule
<1>5. \A i \in OpenedSince(h, r, start) : h[i].at <= start + RuleSeq[r].period
  BY <1>1 DEF WindowAgrees
<1>6. \A i \in OfRule(h, r) : h[i].at >= start => h[i].at <= start + RuleSeq[r].period
  BY <1>5 DEF OpenedSince
<1>7. start <= now
  BY <1>1 DEF WindowAgrees
<1>8. \A i \in OfRule(h, r) : h[i].at < now
  <2> DEFINE p == RuleSeq[r].period
  <2>1. p \in Nat /\ start \in Nat /\ now - start > p
    BY <1>4
  <2>2. ASSUME NEW i \in OfRule(h, r) PROVE h[i].at < now
    <3> DEFINE m == h[i].at
    <3>1. m \in Nat /\ (m >= start => m <= start + p)
      BY <1>4, <1>6
    <3> HIDE DEF m, p, start
    <3>2. m < now
      BY <1>7, <2>1, <3>1
    <3> QED BY <3>2 DEF m
  <2> QED BY <2>2
<1> HIDE DEF u, start
<1>9. WindowAgrees(h, NoWindow, r)
  BY <1>2, <1>4, <1>8 DEF WindowAgrees
<1>10. \A q \in RuleIds : WindowAgrees(h, u[q], q)
  BY <1>1, <1>3, <1>9
<1>11. Agree(a, h, u)
  BY <1>3, <1>10 DEF Agree
<1> QED BY <1>11 DEF u

(* The alerts of a rule are resolved.                                      *)
ResolvedAlerts(a, r) == [k \in Keys |-> IF k[1] = r THEN 0 ELSE a[k]]
ResolvedHistory(a, h, r) ==
    [i \in DOMAIN h |-> IF h[i].key[1] = r /\ i = a[h[i].key]
                        THEN [h[i] EXCEPT !.resolved = TRUE] ELSE h[i]]

LEMMA ResolveAgrees ==
  ASSUME NEW a, NEW h, NEW t, Agree(a, h, t), NEW r \in RuleIds
  PROVE  Agree(ResolvedAlerts(a, r), ResolvedHistory(a, h, r), t)
<1> DEFINE b == ResolvedAlerts(a, r)
           g == ResolvedHistory(a, h, r)
<1>1. /\ a \in [Keys -> Nat] /\ h \in Seq(Alert) /\ t \in [RuleIds -> Window]
      /\ \A i \in DOMAIN h : AlertAgrees(a, h, i)
      /\ \A k \in Keys : ActiveAgrees(a, h, k)
      /\ \A q \in RuleIds : WindowAgrees(h, t[q], q)
  BY DEF Agree
<1>2. /\ Len(h) \in Nat /\ DOMAIN h = 1..Len(h)
      /\ \A i \in DOMAIN h : h[i] \in Alert /\ h[i].key \in Keys
  BY <1>1, HistoryIs
<1>3. \A i \in DOMAIN h :
        /\ g[i] \in Alert /\ g[i].key = h[i].key /\ g[i].at = h[i].at /\ g[i].sent = h[i].sent
        /\ g[i].held = h[i].held
        /\ IF h[i].key[1] = r /\ i = a[h[i].key] THEN g[i].resolved = TRUE
           ELSE g[i].resolved = h[i].resolved
  <2>1. ASSUME NEW i \in DOMAIN h
        PROVE  /\ g[i] \in Alert /\ g[i].key = h[i].key /\ g[i].at = h[i].at /\ g[i].sent = h[i].sent
               /\ g[i].held = h[i].held
               /\ IF h[i].key[1] = r /\ i = a[h[i].key] THEN g[i].resolved = TRUE
                  ELSE g[i].resolved = h[i].resolved
    <3>1. h[i] \in Alert /\ g[i] = IF h[i].key[1] = r /\ i = a[h[i].key]
                                   THEN [h[i] EXCEPT !.resolved = TRUE] ELSE h[i]
      BY <1>2 DEF ResolvedHistory
    <3> QED BY <3>1 DEF Alert
  <2> QED BY <2>1
<1>4. g \in Seq(Alert) /\ Len(g) = Len(h) /\ DOMAIN g = DOMAIN h
  <2>1. DOMAIN g = 1..Len(h)
    BY <1>2 DEF ResolvedHistory
  <2>2. \A i \in 1..Len(h) : g[i] \in Alert
    BY <1>2, <1>3
  <2>3. g = [i \in 1..Len(h) |-> g[i]]
    BY <1>2 DEF ResolvedHistory
  <2> HIDE DEF g
  <2>4. g \in [1..Len(h) -> Alert]
    BY <2>2, <2>3
  <2> QED BY <1>2, <2>1, <2>4
<1>5. b \in [Keys -> Nat] /\ \A k \in Keys : b[k] = IF k[1] = r THEN 0 ELSE a[k]
  BY <1>1 DEF ResolvedAlerts
<1> HIDE DEF b, g
<1>6. ASSUME NEW i \in DOMAIN h PROVE AlertAgrees(b, g, i)
  <2>1. AlertAgrees(a, h, i) /\ h[i].key \in Keys /\ i # 0 /\ g[i].key = h[i].key
    BY <1>1, <1>2, <1>3
  <2>2. g[i].sent <= RuleSeq[g[i].key[1]].channels /\ g[i].at <= now
    BY <1>3, <2>1 DEF AlertAgrees
  <2>3. CASE h[i].key[1] = r /\ i = a[h[i].key]
    <3>1. g[i].resolved = TRUE /\ b[g[i].key] # i
      BY <1>3, <1>5, <2>1, <2>3
    <3> QED BY <2>2, <3>1 DEF AlertAgrees
  <2>4. CASE h[i].key[1] = r /\ i # a[h[i].key]
    <3>1. g[i].resolved = h[i].resolved /\ b[g[i].key] # i
      BY <1>3, <1>5, <2>1, <2>4
    <3>2. h[i].resolved
      BY <2>1, <2>4, Zenon DEF AlertAgrees
    <3> QED BY <2>2, <3>1, <3>2 DEF AlertAgrees
  <2>5. CASE h[i].key[1] # r
    <3>1. g[i].resolved = h[i].resolved /\ b[g[i].key] = a[h[i].key]
      BY <1>3, <1>5, <2>1, <2>5
    <3> QED BY <2>1, <2>2, <3>1 DEF AlertAgrees
  <2> QED BY <2>3, <2>4, <2>5
<1>7. ASSUME NEW k \in Keys PROVE ActiveAgrees(b, g, k)
  <2>1. ActiveAgrees(a, h, k) /\ (b[k] # 0 => b[k] = a[k])
    BY <1>1, <1>5
  <2> QED BY <1>3, <1>4, <2>1 DEF ActiveAgrees
<1>8. ASSUME NEW q \in RuleIds PROVE WindowAgrees(g, t[q], q)
  <2>1. OfRule(g, q) = OfRule(h, q) /\ \A i \in OfRule(h, q) : g[i].at = h[i].at
    BY <1>3, <1>4 DEF OfRule
  <2>2. /\ \A start : OpenedSince(g, q, start) = OpenedSince(h, q, start)
        /\ \A start : \A i \in OpenedSince(h, q, start) : g[i].at = h[i].at
    BY <2>1 DEF OpenedSince
  <2>3. WindowAgrees(h, t[q], q)
    BY <1>1
  <2> QED BY <1>4, <2>1, <2>2, <2>3 DEF WindowAgrees
<1>9. Agree(b, g, t)
  BY <1>1, <1>4, <1>5, <1>6, <1>7, <1>8 DEF Agree
<1> QED BY <1>9 DEF b, g
(* One rule after the other.                                               *)
Stages == [alerts : [Keys -> Nat], history : Seq(Alert), throttle : [RuleIds -> Window]]
SoundStage(s) == s \in Stages /\ Agree(s.alerts, s.history, s.throttle)
OnlyRule(s, u, r) == \A k \in Keys : k[1] # r => u.alerts[k] = s.alerts[k]

LEMMA OpenKeeps ==
  ASSUME NEW s, SoundStage(s), now \in Nat, NEW r \in RuleIds, NEW label \in Labels \cup {NoLabel},
         s.alerts[<<r, label>>] = 0, Free(s.throttle[r], r)
  PROVE  SoundStage(Opened(s, r, label)) /\ OnlyRule(s, Opened(s, r, label), r)
<1> DEFINE k == <<r, label>>
           a == [s.alerts EXCEPT ![k] = Len(s.history) + 1]
           h == Append(s.history, NewAlert(r, label))
           t == [s.throttle EXCEPT ![r] = NextWindow(s.throttle[r], r)]
           u == Opened(s, r, label)
<1>1. s \in Stages /\ Agree(s.alerts, s.history, s.throttle)
  BY DEF SoundStage
<1>2. Agree(a, h, t)
  BY <1>1, OpenAgrees
<1>3. a \in [Keys -> Nat] /\ h \in Seq(Alert) /\ t \in [RuleIds -> Window]
  BY <1>2 DEF Agree
<1>4. u = [s EXCEPT !.history = h, !.alerts = a, !.throttle = t]
  BY <1>1 DEF Opened, NewAlert, NextWindow, Stages
<1>5. \A o \in Keys : o[1] # r => a[o] = s.alerts[o]
  BY <1>1 DEF Stages
<1> HIDE DEF a, h, t, u
<1>6. u \in Stages /\ u.alerts = a /\ u.history = h /\ u.throttle = t
  BY <1>1, <1>3, <1>4 DEF Stages
<1>7. SoundStage(u)
  BY <1>2, <1>6 DEF SoundStage
<1> QED BY <1>5, <1>6, <1>7 DEF OnlyRule, u

LEMMA DropKeeps ==
  ASSUME NEW s, SoundStage(s), now \in Nat, NEW r \in RuleIds
  PROVE  /\ SoundStage(Unthrottled(s, r)) /\ Unthrottled(s, r).alerts = s.alerts
         /\ Unthrottled(s, r).throttle[r].count = 0
            \/ now <= Unthrottled(s, r).throttle[r].windowStart + RuleSeq[r].period
<1>1. s \in Stages /\ Agree(s.alerts, s.history, s.throttle)
  BY DEF SoundStage
<1>2. /\ s.alerts \in [Keys -> Nat] /\ s.history \in Seq(Alert) /\ s.throttle \in [RuleIds -> Window]
      /\ s.throttle[r].count \in Nat /\ s.throttle[r].windowStart \in Nat
      /\ RuleSeq[r].period \in Nat
  BY <1>1, RulesAre DEF Stages, Window
<1>3. CASE Over(s, r)
  <2> DEFINE t == [s.throttle EXCEPT ![r] = NoWindow]
             u == [s EXCEPT !.throttle = t]
  <2>1. Unthrottled(s, r) = u
    BY <1>1, <1>3 DEF Unthrottled, Stages
  <2>2. Agree(s.alerts, s.history, t)
    BY <1>1, <1>3, DropAgrees DEF Over
  <2>3. t \in [RuleIds -> Window] /\ t[r].count = 0
    BY <1>2, <2>2 DEF Agree, NoWindow
  <2> HIDE DEF t
  <2>4. u \in Stages /\ u.alerts = s.alerts /\ u.history = s.history /\ u.throttle = t
    BY <1>1, <2>3 DEF Stages
  <2> QED BY <2>1, <2>2, <2>3, <2>4 DEF SoundStage
<1>4. CASE ~Over(s, r)
  <2>1. Unthrottled(s, r) = s
    BY <1>4 DEF Unthrottled
  <2>2. s.throttle[r].count = 0 \/ now <= s.throttle[r].windowStart + RuleSeq[r].period
    <3> DEFINE c == s.throttle[r].count
               w == s.throttle[r].windowStart
               p == RuleSeq[r].period
    <3>1. c \in Nat /\ w \in Nat /\ p \in Nat /\ ~(c > 0 /\ now - w > p)
      BY <1>2, <1>4 DEF Over
    <3> HIDE DEF c, w, p
    <3>2. c = 0 \/ now <= w + p
      BY <3>1
    <3> QED BY <3>2 DEF c, w, p
  <2> QED BY <2>1, <2>2
<1> QED BY <1>3, <1>4

LEMMA TriggerKeeps ==
  ASSUME NEW s, SoundStage(s), now \in Nat, NEW r \in RuleIds, NEW label \in Labels \cup {NoLabel}
  PROVE  SoundStage(TriggerAlert(s, r, label)) /\ OnlyRule(s, TriggerAlert(s, r, label), r)
<1> DEFINE u == TriggerAlert(s, r, label)
           v == IF RuleSeq[r].max = 0 THEN s ELSE Unthrottled(s, r)
<1>1. CASE s.alerts[<<r, label>>] # 0
  BY <1>1 DEF TriggerAlert, OnlyRule
<1>2. CASE s.alerts[<<r, label>>] = 0
  <2>1. /\ SoundStage(v) /\ v.alerts = s.alerts
        /\ RuleSeq[r].max # 0 => \/ v.throttle[r].count = 0
                                 \/ now <= v.throttle[r].windowStart + RuleSeq[r].period
    BY DropKeeps
  <2>2. u = IF RuleSeq[r].max > 0 /\ IsThrottled(v, r) THEN v ELSE Opened(v, r, label)
    BY <1>2 DEF TriggerAlert
  <2> HIDE DEF u, v
  <2>3. CASE RuleSeq[r].max > 0 /\ IsThrottled(v, r)
    <3>1. u = v
      BY <2>2, <2>3
    <3> QED BY <2>1, <3>1 DEF OnlyRule, u
  <2>4. CASE ~(RuleSeq[r].max > 0 /\ IsThrottled(v, r))
    <3>1. u = Opened(v, r, label)
      BY <2>2, <2>4
    <3>2. RuleSeq[r].max \in Nat /\ v.throttle[r].count \in Nat
      BY <2>1, RulesAre DEF SoundStage, Stages, Window
    <3>3. Free(v.throttle[r], r)
      BY <2>1, <2>4, <3>2 DEF Free, IsThrottled
    <3>4. SoundStage(u) /\ OnlyRule(v, u, r)
      BY <1>2, <2>1, <3>1, <3>3, OpenKeeps
    <3> QED BY <2>1, <3>4 DEF OnlyRule, u
  <2> QED BY <2>3, <2>4
<1> QED BY <1>1, <1>2 DEF SoundStage, Stages

LEMMA ResolveKeeps ==
  ASSUME NEW s, SoundStage(s), NEW r \in RuleIds
  PROVE  /\ SoundStage(ResolveAlert(s, r)) /\ OnlyRule(s, ResolveAlert(s, r), r)
         /\ \A k \in Keys : k[1] = r => ResolveAlert(s, r).alerts[k] = 0
<1> DEFINE u == ResolveAlert(s, r)
           a == ResolvedAlerts(s.alerts, r)
           h == ResolvedHistory(s.alerts, s.history, r)
<1>1. s \in Stages /\ Agree(s.alerts, s.history, s.throttle)
  BY DEF SoundStage
<1>2. Agree(a, h, s.throttle)
  BY <1>1, ResolveAgrees
<1>3. u = [s EXCEPT !.history = h, !.alerts = a]
  BY <1>1 DEF ResolveAlert, ResolvedAlerts, ResolvedHistory, Stages
<1>4. a \in [Keys -> Nat] /\ h \in Seq(Alert)
  BY <1>2 DEF Agree
<1>5. \A k \in Keys : a[k] = IF k[1] = r THEN 0 ELSE s.alerts[k]
  BY DEF ResolvedAlerts
<1> HIDE DEF a, h, u
<1>6. u \in Stages /\ u.alerts = a /\ u.history = h /\ u.throttle = s.throttle
  BY <1>1, <1>3, <1>4 DEF Stages
<1>7. SoundStage(u)
  BY <1>2, <1>6 DEF SoundStage
<1> QED BY <1>5, <1>6, <1>7 DEF OnlyRule, u

(* The stages of an evaluation are a function of how many rules it has     *)
(* gone through.                                                           *)
IsAfter(g, metric, value, label, n) ==
    g = [m \in 0..n |->
          IF m = 0 THEN [alerts |-> alerts, history |-> history, throttle |-> throttle]
          ELSE IF Concerns(m, metric, label) THEN Evaluate(g[m - 1], m, value, label)
          ELSE g[m - 1]]

LEMMA EvaluatedIs ==
  ASSUME NEW metric, NEW value, NEW label
  PROVE  Evaluated(metric, value, label) =
           (CHOOSE g : IsAfter(g, metric, value, label, Len(RuleSeq)))[Len(RuleSeq)]
BY DEF Evaluated, IsAfter
LEMMA AfterExists ==
  ASSUME NEW metric, NEW value, NEW label
  PROVE  \A n \in Nat : \E g : IsAfter(g, metric, value, label, n)
<1> DEFINE start == [alerts |-> alerts, history |-> history, throttle |-> throttle]
           Step(s, m) == IF Concerns(m, metric, label) THEN Evaluate(s, m, value, label) ELSE s
           Is(g, n) == g = [m \in 0..n |-> IF m = 0 THEN start ELSE Step(g[m - 1], m)]
           P == {n \in Nat : \E g : Is(g, n)}
<1>1. ASSUME NEW g, NEW n \in Nat, Is(g, n) PROVE IsAfter(g, metric, value, label, n)
  BY <1>1 DEF IsAfter
<1> HIDE DEF start, Step
<1>2. 0 \in P
  <2>1. Is([m \in 0..0 |-> start], 0)
    OBVIOUS
  <2> QED BY <2>1
<1>3. ASSUME NEW n \in Nat, n \in P PROVE n + 1 \in P
  <2>1. PICK g : Is(g, n)
    BY <1>3
  <2> DEFINE h == [m \in 0..(n + 1) |-> IF m = n + 1 THEN Step(g[n], n + 1) ELSE g[m]]
  <2>2. ASSUME NEW m \in 0..(n + 1)
        PROVE  h[m] = IF m = 0 THEN start ELSE Step(h[m - 1], m)
    <3>1. CASE m = n + 1
      <4>1. h[m] = Step(g[n], n + 1) /\ h[m - 1] = g[n] /\ m # 0
        BY <3>1
      <4> QED BY <3>1, <4>1
    <3>2. CASE m = 0
      <4>1. h[m] = g[0] /\ g[0] = start
        BY <2>1, <3>2
      <4> QED BY <3>2, <4>1
    <3>3. CASE m # n + 1 /\ m # 0
      <4>1. m \in 0..n /\ m - 1 \in 0..(n + 1) /\ m - 1 # n + 1
        BY <3>3
      <4>2. h[m] = g[m] /\ h[m - 1] = g[m - 1]
        BY <3>3, <4>1
      <4>3. g[m] = Step(g[m - 1], m)
        BY <2>1, <3>3, <4>1
      <4> QED BY <3>3, <4>2, <4>3
    <3> QED BY <3>1, <3>2, <3>3
  <2>3. h = [m \in 0..(n + 1) |-> h[m]]
    OBVIOUS
  <2> HIDE DEF h
  <2>4. Is(h, n + 1)
    BY <2>2, <2>3
  <2> QED BY <2>4
<1> HIDE DEF Is
<1>4. \A n \in Nat : n \in P => n + 1 \in P
  BY <1>3
<1> HIDE DEF P
<1>5. Nat \subseteq P
  BY <1>2, <1>4, Induct
<1>6. \A n \in Nat : \E g : Is(g, n)
  BY <1>5 DEF P
<1> QED BY <1>1, <1>6

(* After the first n rules no alert is active that the value contradicts.  *)
Cleared(s, metric, value, label, n) ==
    \A k \in Keys : k[1] <= n /\ Concerns(k[1], metric, label) /\ ~Holds(k[1], value) => s.alerts[k] = 0

LEMMA EvaluateKeeps ==
  ASSUME NEW s, SoundStage(s), now \in Nat, NEW r \in RuleIds, NEW value,
         NEW label \in Labels \cup {NoLabel}
  PROVE  /\ SoundStage(Evaluate(s, r, value, label)) /\ OnlyRule(s, Evaluate(s, r, value, label), r)
         /\ ~Holds(r, value) => \A k \in Keys : k[1] = r => Evaluate(s, r, value, label).alerts[k] = 0
BY TriggerKeeps, ResolveKeeps DEF Evaluate

LEMMA StageKeeps ==
  ASSUME NEW metric, NEW value, NEW label \in Labels \cup {NoLabel}, now \in Nat,
         NEW n \in Nat, n + 1 \in RuleIds, NEW s, SoundStage(s), Cleared(s, metric, value, label, n),
         NEW u, u = IF Concerns(n + 1, metric, label) THEN Evaluate(s, n + 1, value, label) ELSE s
  PROVE  SoundStage(u) /\ Cleared(u, metric, value, label, n + 1)
<1>1. \A k \in Keys : k[1] \in Nat
  BY RulesAre DEF Keys
<1>2. CASE Concerns(n + 1, metric, label)
  <2>1. /\ SoundStage(u) /\ OnlyRule(s, u, n + 1)
        /\ ~Holds(n + 1, value) => \A k \in Keys : k[1] = n + 1 => u.alerts[k] = 0
    BY <1>2, EvaluateKeeps
  <2>2. ASSUME NEW k \in Keys, k[1] <= n + 1, Concerns(k[1], metric, label), ~Holds(k[1], value)
        PROVE  u.alerts[k] = 0
    <3>1. CASE k[1] = n + 1
      BY <2>1, <2>2, <3>1
    <3>2. CASE k[1] # n + 1
      <4>1. k[1] <= n
        BY <1>1, <2>2, <3>2
      <4> QED BY <2>1, <2>2, <3>2, <4>1 DEF OnlyRule, Cleared
    <3> QED BY <3>1, <3>2
  <2> QED BY <2>1, <2>2 DEF Cleared
<1>3. CASE ~Concerns(n + 1, metric, label)
  <2>1. \A k \in Keys : k[1] <= n + 1 /\ k[1] # n + 1 => k[1] <= n
    BY <1>1
  <2> QED BY <1>3, <2>1 DEF Cleared
<1> QED BY <1>2, <1>3

LEMMA EvaluatedKeeps ==
  ASSUME AlertInv, NEW metric, NEW value, NEW label \in Labels \cup {NoLabel}
  PROVE  /\ SoundStage(Evaluated(metric, value, label))
         /\ Cleared(Evaluated(metric, value, label), metric, value, label, Len(RuleSeq))
<1> DEFINE N == Len(RuleSeq)
           g == CHOOSE f : IsAfter(f, metric, value, label, N)
           start == [alerts |-> alerts, history |-> history, throttle |-> throttle]
<1>1. N \in Nat /\ RuleIds = 1..N /\ \A k \in Keys : k[1] \in RuleIds
  BY RulesAre DEF Keys
<1>2. IsAfter(g, metric, value, label, N)
  BY <1>1, AfterExists
<1>3. Evaluated(metric, value, label) = g[N]
  BY EvaluatedIs
<1> HIDE DEF N, g
<1>4. now \in Nat /\ SoundStage(start) /\ Cleared(start, metric, value, label, 0)
  <2>1. now \in Nat
    BY RuleAssumption DEF AlertInv
  <2>2. SoundStage(start)
    BY DEF AlertInv, Agree, SoundStage, Stages
  <2>3. \A k \in Keys : ~(k[1] <= 0)
    BY <1>1
  <2> QED BY <2>1, <2>2, <2>3 DEF Cleared
<1>5. g[0] = start
  BY <1>1, <1>2 DEF IsAfter
<1>6. \A n \in Nat : n + 1 <= N =>
        g[n + 1] = IF Concerns(n + 1, metric, label) THEN Evaluate(g[n], n + 1, value, label)
                   ELSE g[n]
  <2>1. ASSUME NEW n \in Nat, n + 1 <= N
        PROVE  g[n + 1] = IF Concerns(n + 1, metric, label) THEN Evaluate(g[n], n + 1, value, label)
                          ELSE g[n]
    <3>1. n + 1 \in 0..N /\ n + 1 # 0 /\ n + 1 - 1 = n
      BY <1>1, <2>1
    <3>2. \A m \in 0..N : g[m] = IF m = 0 THEN start
                               ELSE IF Concerns(m, metric, label)
                                    THEN Evaluate(g[m - 1], m, value, label)
                               ELSE g[m - 1]
      BY <1>2, Zenon DEF IsAfter
    <3> HIDE DEF start
    <3> QED BY <3>1, <3>2
  <2> QED BY <2>1
<1> HIDE DEF start
<1> DEFINE P == {n \in Nat : n <= N => SoundStage(g[n]) /\ Cleared(g[n], metric, value, label, n)}
<1>7. 0 \in P
  BY <1>4, <1>5
<1>8. ASSUME NEW n \in Nat, n \in P PROVE n + 1 \in P
  <2>1. CASE n + 1 <= N
    <3>1. n <= N /\ n + 1 \in RuleIds
      BY <1>1, <2>1
    <3>2. SoundStage(g[n]) /\ Cleared(g[n], metric, value, label, n)
      BY <1>8, <3>1
    <3>3. SoundStage(g[n + 1]) /\ Cleared(g[n + 1], metric, value, label, n + 1)
      BY <1>4, <1>6, <2>1, <3>1, <3>2, StageKeeps
    <3> QED BY <3>3
  <2>2. CASE ~(n + 1 <= N)
    BY <2>2
  <2> QED BY <2>1, <2>2
<1>9. \A n \in Nat : n \in P => n + 1 \in P
  BY <1>8
<1> HIDE DEF P
<1>10. N \in P
  BY <1>1, <1>7, <1>9, Induct
<1>11. SoundStage(g[N]) /\ Cleared(g[N], metric, value, label, N)
  BY <1>1, <1>10 DEF P
<1> QED BY <1>3, <1>11 DEF N

(* What the windows say is of the rules and the times of the alerts alone. *)
LEMMA WindowsKept ==
  ASSUME NEW h, NEW g, DOMAIN g = DOMAIN h, Len(g) = Len(h),
         \A i \in DOMAIN h : g[i].key = h[i].key /\ g[i].at = h[i].at,
         NEW w, NEW q, WindowAgrees(h, w, q)
  PROVE  WindowAgrees(g, w, q)
<1>1. OfRule(g, q) = OfRule(h, q) /\ \A i \in OfRule(h, q) : g[i].at = h[i].at
  BY DEF OfRule
<1>2. /\ \A start : OpenedSince(g, q, start) = OpenedSince(h, q, start)
      /\ \A start : \A i \in OpenedSince(h, q, start) : g[i].at = h[i].at
  BY <1>1 DEF OpenedSince
<1> QED BY <1>1, <1>2 DEF WindowAgrees

(* The alerts whose rule the value contradicts are no longer held.         *)
HeldHistory(h, metric, value, label) ==
    [i \in DOMAIN h |-> [h[i] EXCEPT !.held = @ /\ ~Contradicts(metric, value, label, h[i])]]

LEMMA HoldAgrees ==
  ASSUME NEW a, NEW h, NEW t, Agree(a, h, t), NEW metric, NEW value, NEW label,
         \A k \in Keys : Concerns(k[1], metric, label) /\ ~Holds(k[1], value) => a[k] = 0
  PROVE  Agree(a, HeldHistory(h, metric, value, label), t) /\ Len(HeldHistory(h, metric, value, label)) = Len(h)
<1> DEFINE g == HeldHistory(h, metric, value, label)
<1>1. /\ a \in [Keys -> Nat] /\ h \in Seq(Alert) /\ t \in [RuleIds -> Window]
      /\ \A i \in DOMAIN h : AlertAgrees(a, h, i)
      /\ \A k \in Keys : ActiveAgrees(a, h, k)
      /\ \A q \in RuleIds : WindowAgrees(h, t[q], q)
  BY DEF Agree
<1>2. /\ Len(h) \in Nat /\ DOMAIN h = 1..Len(h)
      /\ \A i \in DOMAIN h : h[i] \in Alert /\ h[i].key \in Keys
  BY <1>1, HistoryIs
<1>3. \A i \in DOMAIN h :
        /\ g[i] \in Alert /\ g[i].key = h[i].key /\ g[i].at = h[i].at /\ g[i].sent = h[i].sent
        /\ g[i].resolved = h[i].resolved
        /\ h[i].held /\ ~Contradicts(metric, value, label, h[i]) => g[i].held
  <2>1. ASSUME NEW i \in DOMAIN h
        PROVE  /\ g[i] \in Alert /\ g[i].key = h[i].key /\ g[i].at = h[i].at /\ g[i].sent = h[i].sent
               /\ g[i].resolved = h[i].resolved
               /\ h[i].held /\ ~Contradicts(metric, value, label, h[i]) => g[i].held
    <3>1. PICK b \in BOOLEAN : b = (h[i].held /\ ~Contradicts(metric, value, label, h[i]))
      BY Zenon
    <3>2. h[i] \in Alert /\ g[i] = [h[i] EXCEPT !.held = b]
      BY <1>2, <3>1 DEF HeldHistory
    <3> HIDE DEF g
    <3>3. /\ g[i] \in Alert /\ g[i].key = h[i].key /\ g[i].at = h[i].at /\ g[i].sent = h[i].sent
          /\ g[i].resolved = h[i].resolved /\ g[i].held = b
      BY <3>2 DEF Alert
    <3>4. h[i].held /\ ~Contradicts(metric, value, label, h[i]) => g[i].held
      BY <3>1, <3>3, Zenon
    <3> QED BY <3>3, <3>4
  <2> QED BY <2>1
<1>4. g \in Seq(Alert) /\ Len(g) = Len(h) /\ DOMAIN g = DOMAIN h
  <2>1. DOMAIN g = 1..Len(h)
    BY <1>2 DEF HeldHistory
  <2>2. \A i \in 1..Len(h) : g[i] \in Alert
    BY <1>2, <1>3
  <2>3. g = [i \in 1..Len(h) |-> g[i]]
    BY <1>2 DEF HeldHistory
  <2> HIDE DEF g
  <2>4. g \in [1..Len(h) -> Alert]
    BY <2>2, <2>3
  <2> QED BY <1>2, <2>1, <2>4
<1> HIDE DEF g
<1>5. ASSUME NEW i \in DOMAIN h PROVE AlertAgrees(a, g, i)
  <2>1. AlertAgrees(a, h, i) /\ g[i].resolved = h[i].resolved
    BY <1>1, <1>3
  <2>2. g[i].sent = h[i].sent /\ g[i].at = h[i].at /\ g[i].key = h[i].key
    BY <1>3
  <2> QED BY <2>1, <2>2 DEF AlertAgrees
<1>6. ASSUME NEW k \in Keys, a[k] # 0
      PROVE  a[k] \in DOMAIN g /\ g[a[k]].key = k /\ g[a[k]].held
  <2>1. a[k] \in DOMAIN h /\ h[a[k]].key = k /\ h[a[k]].held
    BY <1>1, <1>6 DEF ActiveAgrees
  <2>2. ~Contradicts(metric, value, label, h[a[k]])
    BY <1>6, <2>1 DEF Contradicts
  <2> QED BY <1>3, <1>4, <2>1, <2>2
<1>7. \A q \in RuleIds : WindowAgrees(g, t[q], q)
  BY <1>1, <1>3, <1>4, WindowsKept
<1>8. Agree(a, g, t)
  BY <1>1, <1>4, <1>5, <1>6, <1>7 DEF Agree, ActiveAgrees
<1> QED BY <1>4, <1>8 DEF g

LEMMA AgreeNext ==
  ASSUME NEW a, NEW h, NEW t, a = alerts', h = history', t = throttle', now' = now, Agree(a, h, t)
  PROVE  Agree(alerts, history, throttle)'
BY DEF Agree, AlertAgrees, ActiveAgrees, WindowAgrees, OfRule, OpenedSince

LEMMA MetricKeeps ==
  ASSUME AlertInv, NEW metric, NEW value, NEW label \in Labels \cup {NoLabel},
         EvaluateMetric(metric, value, label)
  PROVE  AlertInv'
<1> DEFINE s == Evaluated(metric, value, label)
<1>1. SoundStage(s) /\ Cleared(s, metric, value, label, Len(RuleSeq))
  BY EvaluatedKeeps
<1>2. /\ Len(s.history) <= MaxAlerts /\ alerts' = s.alerts /\ throttle' = s.throttle
      /\ history' = HeldHistory(s.history, metric, value, label) /\ now' = now
  BY DEF EvaluateMetric, HeldHistory
<1> HIDE DEF s
<1>3. \A k \in Keys : k[1] <= Len(RuleSeq)
  BY RulesAre DEF Keys
<1>4. \A k \in Keys : Concerns(k[1], metric, label) /\ ~Holds(k[1], value) => s.alerts[k] = 0
  BY <1>1, <1>3 DEF Cleared
<1>5. Agree(s.alerts, s.history, s.throttle)
  BY <1>1 DEF SoundStage
<1>6. /\ Agree(s.alerts, HeldHistory(s.history, metric, value, label), s.throttle)
      /\ Len(HeldHistory(s.history, metric, value, label)) = Len(s.history)
  BY <1>4, <1>5, HoldAgrees
<1>7. Agree(alerts, history, throttle)'
  BY <1>2, <1>6, AgreeNext
<1> QED BY <1>2, <1>6, <1>7 DEF AlertInv

LEMMA SendKeeps ==
  ASSUME AlertInv, NEW i, SendNotification(i) PROVE AlertInv'
<1>1. Agree(alerts, history, throttle) /\ now \in 0..MaxTime /\ Len(history) <= MaxAlerts
  BY DEF AlertInv
<1> DEFINE a == alerts
           h == history
           t == throttle
           e == [h[i] EXCEPT !.sent = @ + 1]
           g == [h EXCEPT ![i] = e]
<1>2. /\ a \in [Keys -> Nat] /\ h \in Seq(Alert) /\ t \in [RuleIds -> Window]
      /\ \A j \in DOMAIN h : AlertAgrees(a, h, j)
      /\ \A k \in Keys : ActiveAgrees(a, h, k)
      /\ \A q \in RuleIds : WindowAgrees(h, t[q], q)
  BY <1>1 DEF Agree
<1>3. /\ Len(h) \in Nat /\ DOMAIN h = 1..Len(h)
      /\ \A j \in DOMAIN h : h[j] \in Alert /\ h[j].sent \in Nat /\ h[j].key[1] \in RuleIds
  BY <1>2, HistoryIs
<1>4. /\ i \in DOMAIN h /\ h[i].sent < RuleSeq[h[i].key[1]].channels
      /\ alerts' = a /\ throttle' = t /\ now' = now
  BY DEF SendNotification
<1>5. history' = g
  BY <1>2, <1>3, <1>4 DEF SendNotification, Alert
<1>6. /\ e \in Alert /\ e.key = h[i].key /\ e.at = h[i].at /\ e.resolved = h[i].resolved
      /\ e.held = h[i].held /\ e.sent = h[i].sent + 1
  BY <1>3, <1>4 DEF Alert
<1>7. h[i].sent + 1 <= RuleSeq[h[i].key[1]].channels
  BY <1>3, <1>4, RulesAre
<1> HIDE DEF a, h, t, e
<1>8. g \in Seq(Alert) /\ Len(g) = Len(h) /\ DOMAIN g = DOMAIN h
  BY <1>2, <1>4, <1>6
<1>9. g[i] = e /\ \A j \in DOMAIN h : j # i => g[j] = h[j]
  BY <1>2, <1>4
<1> HIDE DEF g
<1>10. \A j \in DOMAIN h : /\ g[j].key = h[j].key /\ g[j].at = h[j].at
                          /\ g[j].resolved = h[j].resolved /\ g[j].held = h[j].held
  BY <1>6, <1>9
<1>11. \A j \in DOMAIN h : g[j].sent <= RuleSeq[g[j].key[1]].channels
  <2>1. \A j \in DOMAIN h : h[j].sent <= RuleSeq[h[j].key[1]].channels
    BY <1>2 DEF AlertAgrees
  <2> QED BY <1>6, <1>7, <1>9, <1>10, <2>1
<1>12. \A j \in DOMAIN h : AlertAgrees(a, g, j)
  BY <1>2, <1>10, <1>11 DEF AlertAgrees
<1>13. \A k \in Keys : ActiveAgrees(a, g, k)
  BY <1>2, <1>8, <1>10 DEF ActiveAgrees
<1>14. \A q \in RuleIds : WindowAgrees(g, t[q], q)
  BY <1>2, <1>8, <1>10, WindowsKept
<1>15. Agree(a, g, t)
  BY <1>2, <1>8, <1>12, <1>13, <1>14 DEF Agree
<1>16. Agree(alerts, history, throttle)'
  BY <1>4, <1>5, <1>15, AgreeNext
<1> QED BY <1>1, <1>4, <1>5, <1>8, <1>16 DEF AlertInv, h

LEMMA TimeKeeps == ASSUME AlertInv, AlertTime PROVE AlertInv'
<1>1. Agree(alerts, history, throttle) /\ now \in 0..MaxTime /\ Len(history) <= MaxAlerts
  BY DEF AlertInv
<1>2. now \in Nat /\ now' = now + 1 /\ now' \in 0..MaxTime /\ UNCHANGED <<alerts, history, throttle>>
  BY <1>1, RuleAssumption DEF AlertTime
<1>3. \A i \in DOMAIN history : history[i].at \in Nat
  BY <1>1, HistoryIs DEF Agree
<1>4. \A i \in DOMAIN history : AlertAgrees(alerts, history, i)'
  BY <1>1, <1>2, <1>3 DEF Agree, AlertAgrees
<1>5. \A i \in DOMAIN history : history[i].at < now'
  BY <1>1, <1>2, <1>3 DEF Agree, AlertAgrees
<1>6. ASSUME NEW q \in RuleIds PROVE WindowAgrees(history, throttle[q], q)'
  <2>1. WindowAgrees(history, throttle[q], q) /\ throttle[q].windowStart \in Nat
    BY <1>1 DEF Agree, Window
  <2>2. throttle[q].windowStart <= now'
    BY <1>2, <2>1 DEF WindowAgrees
  <2>3. \A i \in OfRule(history, q) : history[i].at < now'
    BY <1>5 DEF OfRule
  <2> QED BY <1>2, <2>1, <2>2, <2>3 DEF WindowAgrees, OfRule, OpenedSince
<1>7. Agree(alerts, history, throttle)'
  BY <1>1, <1>2, <1>4, <1>6 DEF Agree, ActiveAgrees
<1> QED BY <1>1, <1>2, <1>7 DEF AlertInv

LEMMA AlertStep == ASSUME AlertInv, AlertNext PROVE AlertInv'
BY MetricKeeps, SendKeeps, TimeKeeps DEF AlertNext

LEMMA AlertFramed == ASSUME AlertInv, UNCHANGED alertVars PROVE AlertInv'
<1>1. now' = now /\ alerts' = alerts /\ history' = history /\ throttle' = throttle
  BY DEF alertVars
<1>2. Agree(alerts, history, throttle)'
  BY <1>1, AgreeNext DEF AlertInv
<1> QED BY <1>1, <1>2 DEF AlertInv

LEMMA AlertStarts == AlertInit => AlertInv
<1> SUFFICES ASSUME AlertInit PROVE AlertInv
  OBVIOUS
<1>1. /\ alerts = [k \in Keys |-> 0] /\ history = <<>> /\ now = 0
      /\ throttle = [r \in RuleIds |-> NoWindow]
  BY DEF AlertInit
<1>2. /\ alerts \in [Keys -> Nat] /\ history \in Seq(Alert) /\ DOMAIN history = {}
      /\ Len(history) = 0
  BY <1>1
<1>3. NoWindow \in Window /\ NoWindow.count = 0 /\ NoWindow.windowStart = 0
  BY DEF NoWindow, Window
<1>4. throttle \in [RuleIds -> Window] /\ \A r \in RuleIds : throttle[r] = NoWindow
  BY <1>1, <1>3
<1>5. \A r \in RuleIds : OfRule(history, r) = {}
  BY <1>2 DEF OfRule
<1>6. \A r \in RuleIds : WindowAgrees(history, throttle[r], r)
  BY <1>1, <1>2, <1>3, <1>4, <1>5 DEF WindowAgrees
<1>7. Agree(alerts, history, throttle)
  BY <1>1, <1>2, <1>4, <1>6 DEF Agree, ActiveAgrees
<1> QED BY <1>1, <1>2, <1>7, RuleAssumption DEF AlertInv

LEMMA AlertsTold == AlertInv => AlertsAgree /\ AlertTypeOK
<1> SUFFICES ASSUME AlertInv PROVE AlertsAgree /\ AlertTypeOK
  OBVIOUS
<1>1. Agree(alerts, history, throttle) /\ now \in 0..MaxTime /\ Len(history) <= MaxAlerts
  BY DEF AlertInv
<1>2. /\ alerts \in [Keys -> Nat] /\ history \in Seq(Alert) /\ throttle \in [RuleIds -> Window]
      /\ \A i \in DOMAIN history : AlertAgrees(alerts, history, i)
      /\ \A k \in Keys : ActiveAgrees(alerts, history, k)
      /\ \A q \in RuleIds : WindowAgrees(history, throttle[q], q)
  BY <1>1 DEF Agree
<1>3. /\ Len(history) \in Nat /\ DOMAIN history = 1..Len(history)
      /\ \A i \in DOMAIN history : /\ history[i] \in Alert /\ history[i].key \in Keys
                                   /\ history[i].key[1] \in RuleIds
                                   /\ history[i].at \in Nat /\ history[i].sent \in Nat
  BY <1>2, HistoryIs
<1>4. now \in Nat /\ MaxTime \in Nat /\ MaxAlerts \in Nat
  BY <1>1, RuleAssumption
<1>5. \A i \in DOMAIN history : ~history[i].resolved <=> alerts[history[i].key] = i
  BY <1>2 DEF AlertAgrees
<1>6. \A k \in Keys : alerts[k] # 0 =>
        alerts[k] \in DOMAIN history /\ history[alerts[k]].key = k /\ history[alerts[k]].held
  BY <1>2 DEF ActiveAgrees
<1>7. ASSUME NEW r \in RuleIds, throttle[r].count > 0
      PROVE  Cardinality({i \in DOMAIN history :
                            /\ history[i].key[1] = r
                            /\ history[i].at >= throttle[r].windowStart
                            /\ history[i].at <= throttle[r].windowStart + RuleSeq[r].period})
               <= RuleSeq[r].max
  <2> DEFINE opened == {i \in DOMAIN history :
                          /\ history[i].key[1] = r
                          /\ history[i].at >= throttle[r].windowStart
                          /\ history[i].at <= throttle[r].windowStart + RuleSeq[r].period}
             s == OpenedSince(history, r, throttle[r].windowStart)
  <2>1. opened \subseteq s /\ s \in SUBSET DOMAIN history
    BY DEF OpenedSince, OfRule
  <2>2. IsFiniteSet(s) /\ Cardinality(s) \in Nat
    BY <1>2, <2>1, OpenedFinite
  <2>3. throttle[r].count \in Nat /\ RuleSeq[r].max \in Nat
    BY <1>2, RulesAre DEF Window
  <2>4. Cardinality(s) <= throttle[r].count /\ throttle[r].count <= RuleSeq[r].max
    BY <1>2, <1>7 DEF WindowAgrees
  <2> HIDE DEF s, opened
  <2>5. Cardinality(opened) \in Nat /\ Cardinality(opened) <= Cardinality(s)
    BY <2>1, <2>2, FS_Subset, FS_CardinalityType
  <2>6. Cardinality(opened) <= RuleSeq[r].max
    BY <2>2, <2>3, <2>4, <2>5
  <2> QED BY <2>6 DEF opened
<1>8. AlertsAgree
  BY <1>5, <1>6, <1>7 DEF AlertsAgree
<1>9. alerts \in [Keys -> 0..MaxAlerts]
  <2>1. \A k \in Keys : alerts[k] \in 0..MaxAlerts
    BY <1>1, <1>2, <1>3, <1>4, <1>6
  <2> QED BY <1>2, <2>1
<1>10. throttle \in [RuleIds -> [count : 0..MaxAlerts, windowStart : 0..MaxTime]]
  <2>1. ASSUME NEW r \in RuleIds
        PROVE  throttle[r] \in [count : 0..MaxAlerts, windowStart : 0..MaxTime]
    <3>1. throttle[r] \in Window /\ throttle[r].count \in Nat /\ throttle[r].windowStart \in Nat
      BY <1>2 DEF Window
    <3>2. throttle[r].count <= Len(history) /\ throttle[r].windowStart <= now
      BY <1>2 DEF WindowAgrees
    <3>3. throttle[r].count \in 0..MaxAlerts /\ throttle[r].windowStart \in 0..MaxTime
      BY <1>1, <1>3, <1>4, <3>1, <3>2
    <3> QED BY <3>1, <3>3 DEF Window
  <2> QED BY <1>2, <2>1
<1>11. \A i \in DOMAIN history :
         /\ history[i].key \in Keys /\ {history[i].resolved, history[i].held} \subseteq BOOLEAN
         /\ history[i].at \in 0..MaxTime
         /\ history[i].sent \in 0..RuleSeq[history[i].key[1]].channels
  <2>1. ASSUME NEW i \in DOMAIN history
        PROVE  /\ history[i].key \in Keys /\ {history[i].resolved, history[i].held} \subseteq BOOLEAN
               /\ history[i].at \in 0..MaxTime
               /\ history[i].sent \in 0..RuleSeq[history[i].key[1]].channels
    <3>1. history[i].at <= now /\ history[i].sent <= RuleSeq[history[i].key[1]].channels
      BY <1>2 DEF AlertAgrees
    <3>2. history[i].resolved \in BOOLEAN /\ history[i].held \in BOOLEAN
      BY <1>3 DEF Alert
    <3>3. {history[i].resolved, history[i].held} \subseteq BOOLEAN
      BY <3>2, Zenon
    <3>4. history[i].at \in 0..MaxTime /\ history[i].sent \in 0..RuleSeq[history[i].key[1]].channels
      BY <1>1, <1>3, <1>4, <3>1, RulesAre
    <3> QED BY <1>3, <3>3, <3>4
  <2> QED BY <2>1
<1>12. AlertTypeOK
  BY <1>1, <1>9, <1>10, <1>11 DEF AlertTypeOK
<1> QED BY <1>8, <1>12
-----------------------------------------------------------------------------
(* The types of the clients and of the limit: what their invariants leave  *)
(* open.  The calls carry tokens that were issued.                         *)
ClientsTyped ==
    /\ cloudId \in BOOLEAN /\ tokenExpiresAt \in {"unknown", "fresh", "due"}
    /\ Len(pairs) <= MaxPairs /\ \A i \in DOMAIN pairs : pairs[i].grant \in 1..MaxPairs
    /\ \A c \in ApiCalls : api[c].token <= Len(pairs)
    /\ lost <= MaxLost
LimitTyped ==
    /\ seconds <= MaxSeconds /\ Len(asked) <= MaxRequests
    /\ \A ip \in Ips : /\ buckets[ip].count <= Len(asked)
                       /\ buckets[ip].resetAt <= seconds + ONE_MINUTE

LEMMA PairIssued ==
  ASSUME NEW s \in Seq([grant : Nat, honoured : BOOLEAN]), NEW p \in [grant : Nat, honoured : BOOLEAN],
         Len(s) < MaxPairs, p.grant \in 1..MaxPairs, \A i \in DOMAIN s : s[i].grant \in 1..MaxPairs
  PROVE  /\ Len(Append(s, p)) <= MaxPairs /\ Len(Append(s, p)) = Len(s) + 1 /\ Len(s) \in Nat
         /\ \A i \in DOMAIN Append(s, p) : Append(s, p)[i].grant \in 1..MaxPairs
<1>1. /\ Append(s, p) \in Seq([grant : Nat, honoured : BOOLEAN])
      /\ Len(s) \in Nat /\ Len(Append(s, p)) = Len(s) + 1
      /\ Append(s, p)[Len(s) + 1] = p
      /\ \A i \in 1..Len(s) : Append(s, p)[i] = s[i]
  BY PairAdded
<1>2. DOMAIN s = 1..Len(s) /\ DOMAIN Append(s, p) = 1..(Len(s) + 1)
  BY <1>1
<1>3. \A i \in 1..(Len(s) + 1) : i \in 1..Len(s) \/ i = Len(s) + 1
  BY <1>1
<1>4. \A i \in DOMAIN Append(s, p) : Append(s, p)[i].grant \in 1..MaxPairs
  BY <1>1, <1>2, <1>3
<1> QED BY <1>1, <1>4, TokenAssumption

(* A step that issues at most one pair, and to the calls nothing.          *)
LEMMA ClientsKept ==
  ASSUME ClientsTyped, TokensInv, CallsInv, NEW s, s = pairs',
         Len(s) \in Nat, Len(pairs) <= Len(s), Len(s) <= MaxPairs,
         \A i \in DOMAIN s : s[i].grant \in 1..MaxPairs,
         UNCHANGED <<cloudId, api>>, lost' <= MaxLost, tokenExpiresAt' \in {"unknown", "fresh", "due"}
  PROVE  ClientsTyped'
<1>1. \A c \in ApiCalls : api[c].token \in Nat /\ api[c].token <= Len(pairs)
  BY DEF CallsInv, CallRecords, ClientsTyped
<1>2. Len(pairs) \in Nat
  BY DEF TokensInv, TokenTypes
<1>3. \A c \in ApiCalls : api[c].token <= Len(s)
  BY <1>1, <1>2
<1> QED BY <1>3 DEF ClientsTyped

LEMMA SetTyped ==
  ASSUME ClientsTyped, TokensInv, CallsInv, NEW r \in BOOLEAN, NEW x \in BOOLEAN, SetAccessToken(r, x)
  PROVE  ClientsTyped'
<1> DEFINE p == [grant |-> Len(pairs) + 1, honoured |-> r]
<1>1. /\ pairs \in Seq([grant : Nat, honoured : BOOLEAN]) /\ Len(pairs) \in Nat
      /\ Len(pairs) < MaxPairs /\ MaxPairs \in Nat
      /\ \A i \in DOMAIN pairs : pairs[i].grant \in 1..MaxPairs
  BY TokenAssumption DEF SetAccessToken, TokensInv, TokenTypes, ClientsTyped
<1>2. p \in [grant : Nat, honoured : BOOLEAN] /\ p.grant \in 1..MaxPairs
  BY <1>1
<1>3. pairs' = Append(pairs, p)
  BY DEF SetAccessToken, Issued
<1> HIDE DEF p
<1>4. /\ Len(Append(pairs, p)) <= MaxPairs /\ Len(Append(pairs, p)) = Len(pairs) + 1
      /\ \A i \in DOMAIN Append(pairs, p) : Append(pairs, p)[i].grant \in 1..MaxPairs
  BY <1>1, <1>2, PairIssued
<1>5. /\ UNCHANGED <<cloudId, api, lost>> /\ lost <= MaxLost
      /\ tokenExpiresAt' \in {"unknown", "fresh", "due"}
  BY DEF SetAccessToken, ClientsTyped
<1>6. /\ Len(pairs') \in Nat /\ Len(pairs) <= Len(pairs') /\ Len(pairs') <= MaxPairs
      /\ \A i \in DOMAIN pairs' : pairs'[i].grant \in 1..MaxPairs
  BY <1>1, <1>3, <1>4
<1>7. lost' <= MaxLost
  BY <1>5
<1> QED BY <1>5, <1>6, <1>7, ClientsKept

LEMMA ExchangeTyped ==
  ASSUME ClientsTyped, TokensInv, CallsInv, NEW t \in TokenCalls, ExchangeCode(t)
  PROVE  ClientsTyped'
<1>1. /\ pairs \in Seq([grant : Nat, honoured : BOOLEAN]) /\ Len(pairs) \in Nat
      /\ Len(pairs) <= MaxPairs /\ MaxPairs \in Nat
      /\ \A i \in DOMAIN pairs : pairs[i].grant \in 1..MaxPairs
  BY TokenAssumption DEF TokensInv, TokenTypes, ClientsTyped
<1>2. /\ UNCHANGED <<cloudId, api, lost>> /\ lost <= MaxLost
      /\ tokenExpiresAt' \in {"unknown", "fresh", "due"}
  BY DEF ExchangeCode, ClientsTyped
<1>3. PICK r \in BOOLEAN :
        \/ pairs' = pairs
        \/ Len(pairs) < MaxPairs /\ pairs' = Append(pairs, [grant |-> Len(pairs) + 1, honoured |-> r])
  BY DEF ExchangeCode, Issued
<1> DEFINE p == [grant |-> Len(pairs) + 1, honoured |-> r]
<1>4. CASE pairs' = pairs
  BY <1>1, <1>2, <1>4, ClientsKept
<1>5. CASE Len(pairs) < MaxPairs /\ pairs' = Append(pairs, p)
  <2>1. p \in [grant : Nat, honoured : BOOLEAN] /\ p.grant \in 1..MaxPairs
    BY <1>1, <1>5
  <2>3. pairs' = Append(pairs, p)
    BY <1>5
  <2> HIDE DEF p
  <2>2. /\ Len(Append(pairs, p)) <= MaxPairs /\ Len(Append(pairs, p)) = Len(pairs) + 1
        /\ \A i \in DOMAIN Append(pairs, p) : Append(pairs, p)[i].grant \in 1..MaxPairs
    BY <1>1, <1>5, <2>1, PairIssued
  <2>4. /\ Len(pairs') \in Nat /\ Len(pairs) <= Len(pairs') /\ Len(pairs') <= MaxPairs
        /\ \A i \in DOMAIN pairs' : pairs'[i].grant \in 1..MaxPairs
    BY <1>1, <2>2, <2>3
  <2>5. lost' <= MaxLost
    BY <1>2
  <2> QED BY <1>2, <2>4, <2>5, ClientsKept
<1> QED BY <1>3, <1>4, <1>5

LEMMA RefreshTyped ==
  ASSUME ClientsTyped, TokensInv, CallsInv, NEW t \in TokenCalls, RefreshAccessToken(t)
  PROVE  ClientsTyped'
<1>1. /\ pairs \in Seq([grant : Nat, honoured : BOOLEAN]) /\ Len(pairs) \in Nat
      /\ Len(pairs) <= MaxPairs /\ MaxPairs \in Nat /\ DOMAIN pairs = 1..Len(pairs)
      /\ \A i \in DOMAIN pairs : pairs[i].grant \in 1..MaxPairs
  BY TokenAssumption DEF TokensInv, TokenTypes, ClientsTyped
<1>2. /\ UNCHANGED <<cloudId, api, lost>> /\ lost <= MaxLost
      /\ tokenExpiresAt' \in {"unknown", "fresh", "due"}
  BY DEF RefreshAccessToken, ClientsTyped
<1>3. CASE ~pairs[refreshToken].honoured
  <2>1. pairs' = pairs
    BY <1>3 DEF RefreshAccessToken
  <2> QED BY <1>1, <1>2, <2>1, ClientsKept
<1>4. CASE pairs[refreshToken].honoured
  <2>1. PICK rotated \in BOOLEAN :
          /\ Len(pairs) < MaxPairs
          /\ pairs' = Append([pairs EXCEPT ![refreshToken].honoured = ~rotated],
                             [grant |-> pairs[refreshToken].grant, honoured |-> rotated])
    BY <1>4 DEF RefreshAccessToken
  <2>2. refreshToken \in DOMAIN pairs /\ pairs[refreshToken] \in [grant : Nat, honoured : BOOLEAN]
    <3>1. refreshToken \in 0..Len(pairs) /\ refreshToken # 0
      BY DEF RefreshAccessToken, TokensInv, TokenTypes
    <3>2. refreshToken \in DOMAIN pairs
      BY <1>1, <3>1
    <3> QED BY <1>1, <3>2, ElementOfSeq
  <2> DEFINE e == [pairs[refreshToken] EXCEPT !.honoured = ~rotated]
             s == [pairs EXCEPT ![refreshToken] = e]
             p == [grant |-> pairs[refreshToken].grant, honoured |-> rotated]
  <2>3. e \in [grant : Nat, honoured : BOOLEAN] /\ e.grant = pairs[refreshToken].grant
    BY <2>2
  <2>4. p \in [grant : Nat, honoured : BOOLEAN] /\ p.grant \in 1..MaxPairs
    BY <1>1, <2>2
  <2>5. pairs' = Append(s, p)
    BY <2>1
  <2> HIDE DEF e, p
  <2>6. s \in Seq([grant : Nat, honoured : BOOLEAN]) /\ Len(s) = Len(pairs) /\ DOMAIN s = DOMAIN pairs
    BY <1>1, <2>2, <2>3
  <2>7. \A i \in DOMAIN s : s[i].grant \in 1..MaxPairs
    BY <1>1, <2>2, <2>3
  <2> HIDE DEF s
  <2>8. /\ Len(Append(s, p)) <= MaxPairs /\ Len(Append(s, p)) = Len(s) + 1
        /\ \A i \in DOMAIN Append(s, p) : Append(s, p)[i].grant \in 1..MaxPairs
    BY <2>1, <2>4, <2>6, <2>7, PairIssued
  <2> QED BY <1>1, <1>2, <2>5, <2>6, <2>8, ClientsKept
<1> QED BY <1>3, <1>4

LEMMA AuthorizingTyped ==
  ASSUME ClientsTyped, TokensInv, CallsInv, Authorizing
  PROVE  ClientsTyped'
<1>1. /\ Len(pairs) \in Nat /\ Len(pairs) <= MaxPairs /\ lost \in Nat /\ lost <= MaxLost
      /\ MaxLost \in Nat /\ \A i \in DOMAIN pairs : pairs[i].grant \in 1..MaxPairs
      /\ tokenExpiresAt \in {"unknown", "fresh", "due"}
  BY TokenAssumption DEF TokensInv, TokenTypes, ClientsTyped
<1>2. ASSUME UNCHANGED <<cloudId, api, pairs>>, lost' <= MaxLost,
             tokenExpiresAt' \in {"unknown", "fresh", "due"}
      PROVE  ClientsTyped'
  BY <1>1, <1>2, ClientsKept
<1>3. ASSUME NEW t \in TokenCalls, TokenAnswer(t) PROVE ClientsTyped'
  BY <1>1, <1>2, <1>3 DEF TokenAnswer
<1>4. ASSUME NEW t \in TokenCalls, TokenFails(t) PROVE ClientsTyped'
  <2>1. lost' <= MaxLost
    BY <1>1, <1>4, TokenAssumption DEF TokenFails
  <2> QED BY <1>1, <1>2, <1>4, <2>1 DEF TokenFails
<1>5. ASSUME TokenAges PROVE ClientsTyped'
  BY <1>1, <1>2, <1>5 DEF TokenAges
<1> QED BY <1>3, <1>4, <1>5, SetTyped, ExchangeTyped, RefreshTyped DEF Authorizing, EnsureValidToken

LEMMA CallingTyped ==
  ASSUME ClientsTyped, TokensInv, CallsInv, NEW c \in ApiCalls, Calling(c)
  PROVE  ClientsTyped'
<1>1. UNCHANGED <<cloudId, tokenExpiresAt, pairs, lost>>
  BY DEF Calling, ApiAnswer, Reread, StartApi, ApiStep
<1>2. accessToken <= Len(pairs) /\ api[c] \in CallRecords /\ api[c].token <= Len(pairs)
  BY DEF ClientsTyped, TokensInv, TokenTypes, CallsInv
<1>3. PICK r : r.token <= Len(pairs) /\ api' = [api EXCEPT ![c] = r]
  <2>1. CASE ApiAnswer(c)
    <3> DEFINE did == [api[c] EXCEPT !.changes = IF @ < 2 /\ api[c].op.writes THEN @ + 1 ELSE @]
    <3>1. PICK r \in {[did EXCEPT !.pc = IF api[c].op.rereads THEN "rereading" ELSE "ok"],
                      [did EXCEPT !.pc = "error"], [api[c] EXCEPT !.pc = "error"]} :
            api' = [api EXCEPT ![c] = r]
      BY <2>1 DEF ApiAnswer, ApiStep
    <3>2. did.token = api[c].token
      BY <1>2 DEF CallRecords
    <3>3. r.token = api[c].token
      BY <1>2, <3>1, <3>2 DEF CallRecords
    <3> QED BY <1>2, <3>1, <3>3
  <2>2. CASE Reread(c)
    <3>1. PICK r \in {[api[c] EXCEPT !.pc = "ok"], [api[c] EXCEPT !.pc = "error"]} :
            api' = [api EXCEPT ![c] = r]
      BY <2>2 DEF Reread, ApiStep
    <3>2. r.token = api[c].token
      BY <1>2, <3>1 DEF CallRecords
    <3> QED BY <1>2, <3>1, <3>2
  <2>3. ASSUME NEW op \in Operations, StartApi(c, op)
        PROVE  \E r : r.token <= Len(pairs) /\ api' = [api EXCEPT ![c] = r]
    BY <1>2, <2>3 DEF StartApi, ApiStep
  <2> QED BY <2>1, <2>2, <2>3 DEF Calling
<1>4. \A d \in ApiCalls : api'[d].token <= Len(pairs)
  BY <1>3 DEF ClientsTyped, CallsInv
<1> QED BY <1>1, <1>4 DEF ClientsTyped

LEMMA LimitStaysTyped ==
  ASSUME LimitTyped, LimitInv, LimitNext
  PROVE  LimitTyped'
<1>1. /\ LimitTypes /\ seconds \in Nat /\ MaxRequests \in Nat /\ MaxSeconds \in Nat
      /\ buckets \in [Ips -> [count : Nat, resetAt : Nat]] /\ Len(asked) \in Nat
  BY LimitAssumption DEF LimitInv, LimitTypes
<1>2. CASE LimitTime
  <2>1. /\ UNCHANGED <<buckets, asked>> /\ seconds' = seconds + 1 /\ seconds' <= MaxSeconds
    BY <1>1, <1>2 DEF LimitTime
  <2>2. \A ip \in Ips : buckets[ip].resetAt <= seconds' + ONE_MINUTE
    BY <1>1, <2>1 DEF LimitTyped, ONE_MINUTE
  <2> QED BY <2>1, <2>2 DEF LimitTyped
<1>3. ASSUME NEW ip \in Ips, Limit(ip) PROVE LimitTyped'
  <2>1. /\ Len(asked') = Len(asked) + 1 /\ seconds' = seconds
        /\ buckets' \in [Ips -> [count : Nat, resetAt : Nat]]
        /\ buckets'[ip] = NextBucket(buckets[ip])
        /\ \A a \in Ips : a # ip => buckets'[a] = buckets[a]
    BY <1>1, <1>3, OneMoreRequest
  <2>2. Len(asked') <= MaxRequests
    BY <1>1, <1>3, <2>1 DEF Limit
  <2>3. \A a \in Ips : /\ buckets[a].count \in Nat /\ buckets[a].resetAt \in Nat
                       /\ buckets[a].count <= Len(asked)
                       /\ buckets[a].resetAt <= seconds + ONE_MINUTE
    BY <1>1 DEF LimitTyped
  <2>4. buckets'[ip].count <= Len(asked) + 1 /\ buckets'[ip].resetAt <= seconds + ONE_MINUTE
    <3>1. CASE buckets[ip].count = 0 \/ buckets[ip].resetAt <= seconds
      BY <1>1, <2>1, <3>1 DEF NextBucket, ONE_MINUTE
    <3>2. CASE ~(buckets[ip].count = 0 \/ buckets[ip].resetAt <= seconds)
      <4>1. buckets'[ip] = [buckets[ip] EXCEPT !.count = @ + 1]
        BY <2>1, <3>2 DEF NextBucket
      <4>2. buckets[ip] \in [count : Nat, resetAt : Nat]
        BY <1>1
      <4>3. buckets'[ip].count = buckets[ip].count + 1 /\ buckets'[ip].resetAt = buckets[ip].resetAt
        BY <4>1, <4>2
      <4> QED BY <1>1, <2>3, <4>3
    <3> QED BY <3>1, <3>2
  <2>5. \A a \in Ips : buckets'[a].count <= Len(asked) + 1 /\ buckets'[a].resetAt <= seconds + ONE_MINUTE
    <3>1. ASSUME NEW a \in Ips, a # ip
          PROVE  buckets'[a].count <= Len(asked) + 1 /\ buckets'[a].resetAt <= seconds + ONE_MINUTE
      <4>1. buckets'[a] = buckets[a]
        BY <2>1, <3>1
      <4>2. /\ buckets[a].count \in Nat /\ buckets[a].count <= Len(asked)
            /\ buckets[a].resetAt <= seconds + ONE_MINUTE
        BY <2>3
      <4> QED BY <1>1, <4>1, <4>2
    <3> QED BY <2>4, <3>1
  <2>6. seconds' <= MaxSeconds
    BY <2>1 DEF LimitTyped
  <2> QED BY <2>1, <2>2, <2>5, <2>6 DEF LimitTyped
<1> QED BY <1>2, <1>3 DEF LimitNext

LEMMA ClientsFramed ==
  ASSUME ClientsTyped, UNCHANGED intVars
  PROVE  ClientsTyped'
BY DEF ClientsTyped, intVars

LEMMA LimitFramedTyped ==
  ASSUME LimitTyped, UNCHANGED limitVars
  PROVE  LimitTyped'
BY DEF LimitTyped, limitVars

LEMMA ClientsAndLimitStart ==
  ASSUME IntInit, LimitInit
  PROVE  ClientsTyped /\ LimitTyped
<1>1. ClientsTyped
  <2>1. /\ pairs = <<>> /\ lost = 0 /\ cloudId \in BOOLEAN /\ tokenExpiresAt = "unknown"
        /\ api = [c \in ApiCalls |-> NoApi]
    BY DEF IntInit
  <2>2. Len(pairs) = 0 /\ DOMAIN pairs = {} /\ \A c \in ApiCalls : api[c].token = 0
    BY <2>1 DEF NoApi
  <2> QED BY <2>1, <2>2, TokenAssumption DEF ClientsTyped
<1>2. LimitTyped
  <2>1. /\ buckets = [ip \in Ips |-> [count |-> 0, resetAt |-> 0]]
        /\ seconds = 0 /\ asked = <<>>
    BY DEF LimitInit
  <2>2. Len(asked) = 0 /\ \A ip \in Ips : buckets[ip].count = 0 /\ buckets[ip].resetAt = 0
    BY <2>1
  <2> QED BY <2>1, <2>2, LimitAssumption DEF LimitTyped, ONE_MINUTE
<1> QED BY <1>1, <1>2

LEMMA ClientsAndLimitTyped ==
  ASSUME BoundariesInv, ClientsTyped, LimitTyped
  PROVE  IntTypeOK /\ LimitTypeOK
<1>1. IntTypeOK
  <2>1. /\ pairs \in Seq([grant : Nat, honoured : BOOLEAN])
        /\ accessToken \in 0..Len(pairs) /\ refreshToken \in 0..Len(pairs)
        /\ request \in [TokenCalls -> [pc : {"idle", "exchange", "refresh", "done", "failed"},
                                       pair : Nat, rotated : BOOLEAN]]
        /\ \A t \in TokenCalls : request[t].pair <= Len(pairs)
        /\ lost \in Nat /\ crossed \in BOOLEAN
    BY DEF BoundariesInv, TokensInv, TokenTypes
  <2>2. /\ Len(pairs) \in Nat /\ Len(pairs) <= MaxPairs /\ MaxPairs \in Nat /\ MaxLost \in Nat
        /\ cloudId \in BOOLEAN /\ tokenExpiresAt \in {"unknown", "fresh", "due"}
        /\ \A i \in DOMAIN pairs : pairs[i].grant \in 1..MaxPairs
        /\ lost <= MaxLost
    BY <2>1, TokenAssumption DEF ClientsTyped
  <2>3. {accessToken, refreshToken} \subseteq 0..Len(pairs)
    BY <2>1
  <2>4. \A i \in DOMAIN pairs : pairs[i].honoured \in BOOLEAN
    <3>1. DOMAIN pairs = 1..Len(pairs)
      BY <2>1
    <3>2. \A i \in DOMAIN pairs : pairs[i] \in [grant : Nat, honoured : BOOLEAN]
      BY <2>1, <3>1, ElementOfSeq
    <3> QED BY <3>2
  <2>5. request \in [TokenCalls -> [pc : {"idle", "exchange", "refresh", "done", "failed"},
                                    pair : 0..MaxPairs, rotated : BOOLEAN]]
    <3>1. ASSUME NEW t \in TokenCalls
          PROVE  request[t] \in [pc : {"idle", "exchange", "refresh", "done", "failed"},
                                 pair : 0..MaxPairs, rotated : BOOLEAN]
      <4>1. request[t] \in [pc : {"idle", "exchange", "refresh", "done", "failed"},
                            pair : Nat, rotated : BOOLEAN]
        BY <2>1
      <4>2. request[t].pair \in 0..MaxPairs
        BY <2>1, <2>2, <4>1
      <4> QED BY <4>1, <4>2
    <3> QED BY <2>1, <3>1
  <2>6. \A c \in ApiCalls :
         /\ api[c].pc \in {"idle", "sent", "rereading", "ok", "error"} /\ api[c].changes \in 0..2
         /\ api[c].op \in Operations /\ api[c].token \in 0..Len(pairs)
    <3>1. ASSUME NEW c \in ApiCalls
          PROVE  /\ api[c].pc \in {"idle", "sent", "rereading", "ok", "error"} /\ api[c].changes \in 0..2
                 /\ api[c].op \in Operations /\ api[c].token \in 0..Len(pairs)
      <4>1. api[c] \in CallRecords
        BY DEF BoundariesInv, CallsInv
      <4>2. api[c].token <= Len(pairs)
        BY DEF ClientsTyped
      <4>3. /\ api[c].pc \in {"idle", "sent", "rereading", "ok", "error"} /\ api[c].changes \in {0, 1}
            /\ api[c].op \in Operations /\ api[c].token \in Nat
        BY <4>1 DEF CallRecords
      <4> HIDE DEF CallRecords
      <4> QED BY <2>2, <4>2, <4>3
    <3> QED BY <3>1
  <2>7. lost \in 0..MaxLost
    BY <2>1, <2>2
  <2> QED BY <2>1, <2>2, <2>3, <2>4, <2>5, <2>6, <2>7 DEF IntTypeOK
<1>2. LimitTypeOK
  <2>1. /\ buckets \in [Ips -> [count : Nat, resetAt : Nat]] /\ seconds \in Nat /\ Len(asked) \in Nat
        /\ MaxSeconds \in Nat /\ MaxRequests \in Nat
    BY LimitAssumption DEF BoundariesInv, LimitInv, LimitTypes
  <2>2. ASSUME NEW ip \in Ips
        PROVE  buckets[ip] \in [count : 0..MaxRequests, resetAt : 0..MaxSeconds + ONE_MINUTE]
    <3>1. buckets[ip] \in [count : Nat, resetAt : Nat] /\ buckets[ip].count \in Nat
          /\ buckets[ip].resetAt \in Nat
      BY <2>1
    <3>2. buckets[ip].count \in 0..MaxRequests /\ buckets[ip].resetAt \in 0..MaxSeconds + ONE_MINUTE
      BY <2>1, <3>1 DEF LimitTyped, ONE_MINUTE
    <3> QED BY <3>1, <3>2
  <2>3. buckets \in [Ips -> [count : 0..MaxRequests, resetAt : 0..MaxSeconds + ONE_MINUTE]]
    BY <2>1, <2>2
  <2> QED BY <2>1, <2>3 DEF LimitTyped, LimitTypeOK
<1> QED BY <1>1, <1>2
-----------------------------------------------------------------------------
SignalsInv == /\ TelemetryInv /\ ProbesInv /\ SlosInv /\ AuditInv /\ AlertInv
              /\ ClientsTyped /\ LimitTyped

LEMMA SignalsStart == Init => SignalsInv
BY AlertStarts, AuditStarts, HealthStarts, TelemetryStarts, ClientsAndLimitStart DEF Init, SignalsInv

LEMMA SignalsStep ==
  ASSUME SignalsInv, BoundariesInv, [Next]_allVars
  PROVE  SignalsInv'
<1> USE DEF SignalsInv
<1>1. ASSUME UNCHANGED healthVars PROVE ProbesInv' /\ SlosInv'
  BY <1>1, HealthFramed DEF healthVars
<1>2. ASSUME NEW p \in Probes, Probing(p) PROVE ProbesInv' /\ SlosInv'
  <2>1. UNCHANGED sloStatus
    BY <1>2 DEF Probing, Ask, Check, AskOne, CheckIndividual
  <2>2. ProbesInv'
    BY <1>2, AskKeeps, CheckKeeps, AskOneKeeps, CheckIndividualKeeps DEF Probing
  <2> QED BY <2>1, <2>2, HealthFramed
<1>3. ASSUME NEW id \in DOMAIN SLOs, NEW v \in SloValues, CalculateStatus(id, v)
      PROVE  ProbesInv' /\ SlosInv'
  <2>1. UNCHANGED probe
    BY <1>3 DEF CalculateStatus
  <2> QED BY <1>3, <2>1, HealthFramed, CalculateKeeps
<1>4. /\ AlertNext \/ UNCHANGED alertVars
      /\ AuditNext \/ UNCHANGED auditVars
      /\ \/ \E p \in Probes : Probing(p)
         \/ \E id \in DOMAIN SLOs, v \in SloValues : CalculateStatus(id, v)
         \/ UNCHANGED healthVars
      /\ \/ \E c \in Calls : Tracing(c)
         \/ \E q \in HttpRequests : Hooking(q)
         \/ Counting
         \/ UNCHANGED telVars
      /\ \/ Authorizing
         \/ \E c \in ApiCalls : Calling(c)
         \/ SetAccessToken(FALSE, FALSE)
         \/ UNCHANGED intVars
      /\ LimitNext \/ UNCHANGED limitVars
  BY DEF Next, allVars, Alerts, Audit, Limits, Health, Telemetry, Clients
<1>5. AlertInv'
  BY <1>4, AlertStep, AlertFramed
<1>6. AuditInv'
  BY <1>4, AuditStep, AuditFramed
<1>7. ProbesInv' /\ SlosInv'
  BY <1>1, <1>2, <1>3, <1>4
<1>8. TelemetryInv'
  BY <1>4, TracingKeeps, HookingKeeps, CountingKeeps, TelemetryFramed
<1>9. ClientsTyped'
  BY <1>4, AuthorizingTyped, CallingTyped, SetTyped, ClientsFramed DEF BoundariesInv
<1>10. LimitTyped'
  BY <1>4, LimitStaysTyped, LimitFramedTyped DEF BoundariesInv
<1> QED BY <1>5, <1>6, <1>7, <1>8, <1>9, <1>10

(* Of the alerts: what is active is what the history has unresolved, and a *)
(* window has counted every alert of its rule since it began; of the audit *)
(* log: every entry is in one place, the buffer where there is no shipper; *)
(* of a probe: the verdict is that of the results so far; of a span: how   *)
(* often it was ended and reported is told by where its call is.  All of   *)
(* it holds in every part, for any rules, objectives, limits and numbers   *)
(* of calls.                                                               *)
THEOREM SignalsInvariance == Spec => [](SignalsInv /\ BoundariesInv)
<1>1. SignalsInv /\ BoundariesInv /\ [Next]_allVars => (SignalsInv /\ BoundariesInv)'
  BY SignalsStep, BoundariesStep
<1> QED BY <1>1, SignalsStart, BoundariesStart, PTL DEF Spec

(* SignalsTrue is an invariant: the active alerts are the unresolved ones, *)
(* each about a condition nothing has contradicted, and no rule opens more *)
(* in a window than it may; every audit entry is in one place, once, the   *)
(* buffer in order while no shipment failed; with a shipper a shutdown     *)
(* that met no other shipment leaves nothing of before it unshipped, and   *)
(* without one all entries stay in the buffer; a laxer level logs all that *)
(* a stricter one does, and what is told is never rated above its type; an *)
(* answer about the system's health is what its checks said; objectives    *)
(* are ranked by what is left of their budgets; and every traced call that *)
(* settles has ended its span once, with the status of its outcome.        *)
THEOREM SignalsStayTrue == Spec => []SignalsTrue
<1>1. SignalsInv => SignalsTrue
  BY AlertsTold, AuditKept, LaxerLevels, ProbesAreJudged, SlosAreRanked, TelemetryTells
     DEF SignalsInv, SignalsTrue
<1> QED BY <1>1, SignalsInvariance, PTL

(* TypeOK is an invariant: the state of every part is of its type.         *)
THEOREM ObservabilityTyped == Spec => []TypeOK
<1>1. SignalsInv /\ BoundariesInv => TypeOK
  BY AlertsTold, AuditKept, HealthTyped, ClientsAndLimitTyped
     DEF SignalsInv, TelemetryInv, TypeOK
<1> QED BY <1>1, SignalsInvariance, PTL
=============================================================================
