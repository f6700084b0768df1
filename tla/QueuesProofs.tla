---------------------------- MODULE QueuesProofs ----------------------------
(***************************************************************************)
(* What the queues, their workers, the manager and the team hierarchy keep *)
(* for every value of the constants.  The three parts of MCQueues share no *)
(* variable, so that each has an inductive invariant of its own: WorkerInv,*)
(* ManagerInv and TeamInv.                                                 *)
(*                                                                         *)
(* The argument for the workers: an attempt of a job is open while it may  *)
(* be started once more without a new mishap, because it waits or because  *)
(* the slot that owns it has gone on to something else; a job that is open *)
(* was run no more often than there were mishaps.  Taking it closes it,    *)
(* and only a mishap opens it again.  A notice is delivered per run and    *)
(* channel, which the slots that have yet to try the channel have not used *)
(* up.  That every attempt begun was rejected, lost its lock, is under way *)
(* or has completed (StartsCounted) is an invariant next to these.  The    *)
(* counts of a completed chunk are all of its items; the chunks that were  *)
(* cut of a batch have its items between them, which is a sum over a set:  *)
(* the first section proves what SumFunctionOnSet needs, by induction over *)
(* the natural numbers as a set that contains 0 and every successor.       *)
(*                                                                         *)
(* For the manager: the generations that are not its last are those that   *)
(* another start of the same turn overtook, and all of them stay live.     *)
(*                                                                         *)
(* For the hierarchy: the record of a team that was never registered is    *)
(* empty, and a sequence of sub-tasks is completed ones, one that runs or  *)
(* ended it, and pending ones.                                             *)
(***************************************************************************)
EXTENDS MCQueues, FiniteSetTheorems, WellFoundedInduction, TLAPS

-----------------------------------------------------------------------------
(* Sums over finite sets.                                                  *)

OneOf(s) == CHOOSE x \in s : TRUE
IsSum(g, f, S) == g = [s \in SUBSET S |-> IF s = {} THEN 0 ELSE f[OneOf(s)] + g[s \ {OneOf(s)}]]

LEMMA SumIs == ASSUME NEW f, NEW S PROVE SumFunctionOnSet(f, S) = (CHOOSE g : IsSum(g, f, S))[S]
  BY DEF SumFunctionOnSet, FoldFunctionOnSet, MapThenFoldSet, IsSum, OneOf

Less == {ss \in Nat \X Nat : ss[1] < ss[2]}
LEMMA LessWF == IsWellFoundedOn(Less, Nat)
  BY NatLessThanWellFounded DEF OpToRel, Less
LEMMA LeastNat == ASSUME NEW T, T \subseteq Nat, T # {} PROVE \E n \in T : \A m \in T : n <= m
<1>1. PICK n \in T : \A m \in T : ~(<<m, n>> \in Less)
  BY LessWF, WFMin
<1>2. ASSUME NEW m \in T PROVE n <= m
  <2>1. n \in Nat /\ m \in Nat
    OBVIOUS
  <2>2. ~(m < n)
    BY <1>1, <2>1 DEF Less
  <2> QED BY <2>1, <2>2
<1> QED BY <1>2

LEMMA Induct == ASSUME NEW P, 0 \in P, \A n \in Nat : n \in P => n + 1 \in P PROVE Nat \subseteq P
<1> SUFFICES ASSUME ~(Nat \subseteq P) PROVE FALSE
  OBVIOUS
<1> DEFINE Bad == {n \in Nat : n \notin P}
<1>1. Bad # {} /\ Bad \subseteq Nat
  OBVIOUS
<1>2. PICK n \in Bad : \A m \in Bad : n <= m
  BY <1>1, LeastNat
<1>3. n \in Nat /\ n \notin P /\ n # 0
  OBVIOUS
<1>4. n - 1 \in Nat /\ n - 1 + 1 = n
  BY <1>3
<1>5. n - 1 \notin Bad
  BY <1>2, <1>4
<1> QED BY <1>3, <1>4, <1>5

LEMMA OneOfIn == ASSUME NEW s, s # {} PROVE OneOf(s) \in s
  BY DEF OneOf

LEMMA CardLess == ASSUME NEW s, IsFiniteSet(s), s # {}, NEW x \in s
  PROVE IsFiniteSet(s \ {x}) /\ Cardinality(s) \in Nat /\ Cardinality(s \ {x}) = Cardinality(s) - 1 /\ Cardinality(s) >= 1
<1>1. IsFiniteSet(s \ {x}) /\ Cardinality(s \ {x}) = Cardinality(s) - 1
  BY FS_RemoveElement
<1>2. Cardinality(s) \in Nat /\ Cardinality(s \ {x}) \in Nat
  BY <1>1, FS_CardinalityType
<1> QED BY <1>1, <1>2

LEMMA CardZero == ASSUME NEW s, IsFiniteSet(s), Cardinality(s) <= 0 PROVE s = {}
<1>1. Cardinality(s) \in Nat /\ Cardinality(s) = 0
  <2>1. Cardinality(s) \in Nat
    BY FS_CardinalityType
  <2> QED BY <2>1
<1> QED BY <1>1, FS_EmptySet

Small(S, n) == {s \in SUBSET S : Cardinality(s) <= n}
IsSumUpTo(g, f, S, n) == g = [s \in Small(S, n) |-> IF s = {} THEN 0 ELSE f[OneOf(s)] + g[s \ {OneOf(s)}]]

LEMMA SumExists == ASSUME NEW S, IsFiniteSet(S), NEW f PROVE \E g : IsSum(g, f, S)
<1> DEFINE P == {n \in Nat : \E g : IsSumUpTo(g, f, S, n)}
<1>1. 0 \in P
  <2> DEFINE g == [s \in Small(S, 0) |-> 0]
  <2>1. ASSUME NEW s \in Small(S, 0) PROVE s = {}
    <3>1. IsFiniteSet(s) /\ Cardinality(s) <= 0
      BY FS_Subset DEF Small
    <3> QED BY <3>1, CardZero
  <2>2. IsSumUpTo(g, f, S, 0)
    BY <2>1 DEF IsSumUpTo
  <2> QED BY <2>2
<1>2. ASSUME NEW n \in Nat, n \in P PROVE n + 1 \in P
  <2>1. PICK g : IsSumUpTo(g, f, S, n)
    BY <1>2
  <2> DEFINE h == [s \in Small(S, n + 1) |-> IF s = {} THEN 0 ELSE f[OneOf(s)] + g[s \ {OneOf(s)}]]
  <2>2. ASSUME NEW s \in Small(S, n + 1), s # {}
        PROVE s \ {OneOf(s)} \in Small(S, n)
    <3>1. IsFiniteSet(s) /\ Cardinality(s) <= n + 1
      BY <2>2, FS_Subset DEF Small
    <3>2. Cardinality(s \ {OneOf(s)}) = Cardinality(s) - 1 /\ Cardinality(s) \in Nat
      BY <2>2, <3>1, CardLess, OneOfIn
    <3> QED BY <3>1, <3>2 DEF Small
  <2>3. Small(S, n) \subseteq Small(S, n + 1)
    <3>1. \A s \in SUBSET S : Cardinality(s) \in Nat
      BY FS_Subset, FS_CardinalityType
    <3> QED BY <3>1 DEF Small
  <2>4. ASSUME NEW s \in Small(S, n) PROVE h[s] = g[s]
    BY <2>1, <2>3 DEF IsSumUpTo
  <2>5. h = [s \in Small(S, n + 1) |-> IF s = {} THEN 0 ELSE f[OneOf(s)] + h[s \ {OneOf(s)}]]
    BY <2>2, <2>4
  <2>6. IsSumUpTo(h, f, S, n + 1)
    BY <2>5 DEF IsSumUpTo
  <2> QED BY <2>6
<1>3. Cardinality(S) \in Nat /\ Cardinality(S) \in P
  <2>1. Nat \subseteq P
    BY <1>1, <1>2, Induct
  <2> QED BY <2>1, FS_CardinalityType
<1>4. Small(S, Cardinality(S)) = SUBSET S
  BY FS_Subset DEF Small
<1> QED BY <1>3, <1>4 DEF IsSumUpTo, IsSum

LEMMA SumUnique == ASSUME NEW S, IsFiniteSet(S), NEW U, U \subseteq S, NEW f, NEW g, NEW h,
                          IsSum(g, f, S), IsSum(h, f, U)
  PROVE \A s \in SUBSET U : g[s] = h[s]
<1> DEFINE P == {n \in Nat : \A s \in SUBSET U : Cardinality(s) <= n => g[s] = h[s]}
<1>0. \A s \in SUBSET U : s \in SUBSET S /\ IsFiniteSet(s) /\ Cardinality(s) \in Nat
  BY FS_Subset, FS_CardinalityType
<1>1. 0 \in P
  <2>1. ASSUME NEW s \in SUBSET U, Cardinality(s) <= 0 PROVE g[s] = h[s]
    <3>1. s = {}
      BY <1>0, <2>1, CardZero
    <3> QED BY <1>0, <3>1 DEF IsSum
  <2> QED BY <2>1
<1>2. ASSUME NEW n \in Nat, n \in P PROVE n + 1 \in P
  <2>1. ASSUME NEW s \in SUBSET U, Cardinality(s) <= n + 1 PROVE g[s] = h[s]
    <3>1. CASE s = {}
      BY <1>0, <3>1 DEF IsSum
    <3>2. CASE s # {}
      <4> DEFINE r == s \ {OneOf(s)}
      <4>1. r \in SUBSET U /\ Cardinality(r) <= n
        BY <1>0, <2>1, <3>2, CardLess, OneOfIn
      <4>2. g[r] = h[r]
        BY <1>2, <4>1
      <4>3. g[s] = f[OneOf(s)] + g[r] /\ h[s] = f[OneOf(s)] + h[r]
        BY <1>0, <3>2 DEF IsSum
      <4> QED BY <4>2, <4>3
    <3> QED BY <3>1, <3>2
  <2> QED BY <2>1
<1>3. Nat \subseteq P
  BY <1>1, <1>2, Induct
<1> QED BY <1>0, <1>3

LEMMA SumEmpty == ASSUME NEW f PROVE SumFunctionOnSet(f, {}) = 0
<1>1. IsSum(CHOOSE g : IsSum(g, f, {}), f, {})
  BY SumExists, FS_EmptySet
<1> QED BY <1>1, SumIs DEF IsSum

LEMMA SumStep == ASSUME NEW S, IsFiniteSet(S), S # {}, NEW f
  PROVE SumFunctionOnSet(f, S) = f[OneOf(S)] + SumFunctionOnSet(f, S \ {OneOf(S)})
<1> DEFINE R == S \ {OneOf(S)}
<1>1. IsFiniteSet(R)
  BY FS_Subset
<1>2. PICK g : g = (CHOOSE k : IsSum(k, f, S)) /\ IsSum(g, f, S)
  BY SumExists
<1>3. PICK h : h = (CHOOSE k : IsSum(k, f, R)) /\ IsSum(h, f, R)
  BY <1>1, SumExists
<1>4. g[R] = h[R]
  <2>1. R \subseteq S /\ R \in SUBSET R
    OBVIOUS
  <2> HIDE DEF R
  <2>2. \A s \in SUBSET R : g[s] = h[s]
    BY <1>1, <1>2, <1>3, <2>1, SumUnique
  <2> QED BY <2>1, <2>2
<1>5. g[S] = f[OneOf(S)] + g[R]
  BY <1>2 DEF IsSum
<1> QED BY <1>2, <1>3, <1>4, <1>5, SumIs

LEMMA InductSets ==
  ASSUME NEW T, IsFiniteSet(T), NEW Q, \A s \in SUBSET T : (\A x \in s : s \ {x} \in Q) => s \in Q
  PROVE  \A s \in SUBSET T : s \in Q
<1> DEFINE P == {n \in Nat : \A s \in SUBSET T : Cardinality(s) <= n => s \in Q}
<1>0. \A s \in SUBSET T : IsFiniteSet(s) /\ Cardinality(s) \in Nat
  BY FS_Subset, FS_CardinalityType
<1>1. 0 \in P
  <2>1. ASSUME NEW s \in SUBSET T, Cardinality(s) <= 0 PROVE s \in Q
    <3>1. s = {}
      BY <1>0, <2>1, CardZero
    <3> QED BY <3>1
  <2> QED BY <2>1
<1>2. ASSUME NEW n \in Nat, n \in P PROVE n + 1 \in P
  <2>1. ASSUME NEW s \in SUBSET T, Cardinality(s) <= n + 1 PROVE s \in Q
    <3>1. ASSUME NEW x \in s PROVE s \ {x} \in Q
      <4>1. s \ {x} \in SUBSET T /\ Cardinality(s \ {x}) <= n
        BY <1>0, <2>1, CardLess
      <4> QED BY <1>2, <4>1
    <3> QED BY <3>1
  <2> QED BY <2>1
<1>3. Nat \subseteq P
  BY <1>1, <1>2, Induct
<1> QED BY <1>0, <1>3

LEMMA SumNat == ASSUME NEW T, NEW f \in [T -> Nat], NEW S \in SUBSET T, IsFiniteSet(S)
  PROVE SumFunctionOnSet(f, S) \in Nat
<1> DEFINE Q == {s \in SUBSET S : SumFunctionOnSet(f, s) \in Nat}
<1>1. ASSUME NEW s \in SUBSET S, \A x \in s : s \ {x} \in Q PROVE s \in Q
  <2>1. CASE s = {}
    BY <2>1, SumEmpty
  <2>2. CASE s # {}
    <3>1. IsFiniteSet(s) /\ OneOf(s) \in s /\ f[OneOf(s)] \in Nat
      BY <2>2, FS_Subset, OneOfIn
    <3>2. SumFunctionOnSet(f, s \ {OneOf(s)}) \in Nat
      BY <1>1, <3>1
    <3>3. SumFunctionOnSet(f, s) = f[OneOf(s)] + SumFunctionOnSet(f, s \ {OneOf(s)})
      BY <2>2, <3>1, SumStep
    <3>4. SumFunctionOnSet(f, s) \in Nat
      BY <3>1, <3>2, <3>3
    <3> QED BY <3>4
  <2> QED BY <2>1, <2>2
<1>3. \A s \in SUBSET S : (\A x \in s : s \ {x} \in Q) => s \in Q
  BY <1>1
<1>4. S \in Q => SumFunctionOnSet(f, S) \in Nat
  OBVIOUS
<1> HIDE DEF Q
<1>2. S \in Q
  BY <1>3, InductSets
<1> QED BY <1>2, <1>4

LEMMA SumRemove == ASSUME NEW T, NEW f \in [T -> Nat], NEW S \in SUBSET T, IsFiniteSet(S)
  PROVE \A x \in S : SumFunctionOnSet(f, S) = f[x] + SumFunctionOnSet(f, S \ {x})
<1> DEFINE Sum(s) == SumFunctionOnSet(f, s)
<1> DEFINE Q == {s \in SUBSET S : \A x \in s : Sum(s) = f[x] + Sum(s \ {x})}
<1>0. \A s \in SUBSET S : IsFiniteSet(s) /\ Sum(s) \in Nat
  BY FS_Subset, SumNat
<1>3. \A s \in SUBSET S : s # {} => Sum(s) = f[OneOf(s)] + Sum(s \ {OneOf(s)})
  BY <1>0, SumStep
<1> HIDE DEF Sum
<1>1. ASSUME NEW s \in SUBSET S, \A x \in s : s \ {x} \in Q PROVE s \in Q
  <2>1. ASSUME NEW x \in s PROVE Sum(s) = f[x] + Sum(s \ {x})
    <3> DEFINE y == OneOf(s)
    <3>1. y \in s
      BY OneOfIn
    <3> HIDE DEF y
    <3>2. Sum(s) = f[y] + Sum(s \ {y})
      BY <1>3 DEF y
    <3>3. CASE x = y
      BY <3>2, <3>3
    <3>4. CASE x # y
      <4>1. Sum(s \ {y}) = f[x] + Sum((s \ {y}) \ {x})
        BY <1>1, <3>1, <3>4
      <4>2. Sum(s \ {x}) = f[y] + Sum((s \ {x}) \ {y})
        BY <1>1, <3>1, <3>4
      <4>3. (s \ {y}) \ {x} = (s \ {x}) \ {y}
        OBVIOUS
      <4> DEFINE c == Sum((s \ {y}) \ {x})
      <4>4. c \in Nat /\ f[x] \in Nat /\ f[y] \in Nat
        BY <1>0, <3>1
      <4>5. Sum(s \ {y}) = f[x] + c /\ Sum(s \ {x}) = f[y] + c
        BY <4>1, <4>2, <4>3
      <4> HIDE DEF c
      <4> QED BY <3>2, <4>4, <4>5
    <3> QED BY <3>3, <3>4
  <2> QED BY <2>1
<1>5. \A s \in SUBSET S : (\A x \in s : s \ {x} \in Q) => s \in Q
  BY <1>1
<1>2. \A s \in SUBSET S : s \in Q
  <2> HIDE DEF Q
  <2> QED BY <1>5, InductSets
<1> QED BY <1>2 DEF Sum

LEMMA SumAdd == ASSUME NEW T, NEW f \in [T -> Nat], NEW S \in SUBSET T, IsFiniteSet(S), NEW x \in T, x \notin S
  PROVE SumFunctionOnSet(f, S \cup {x}) = SumFunctionOnSet(f, S) + f[x]
<1>1. IsFiniteSet(S \cup {x}) /\ S \cup {x} \in SUBSET T /\ x \in S \cup {x}
  BY FS_AddElement
<1>2. (S \cup {x}) \ {x} = S
  OBVIOUS
<1>3. SumFunctionOnSet(f, S \cup {x}) = f[x] + SumFunctionOnSet(f, S)
  BY <1>1, <1>2, SumRemove
<1>4. SumFunctionOnSet(f, S) \in Nat /\ f[x] \in Nat
  BY SumNat
<1> QED BY <1>3, <1>4

LEMMA SumSubset == ASSUME NEW T, NEW f \in [T -> Nat], NEW U \in SUBSET T, IsFiniteSet(U)
  PROVE \A S \in SUBSET U : SumFunctionOnSet(f, S) <= SumFunctionOnSet(f, U)
<1> DEFINE Sum(s) == SumFunctionOnSet(f, s)
<1> DEFINE Q == {s \in SUBSET U : \A S \in SUBSET s : Sum(S) <= Sum(s)}
<1>0. \A s \in SUBSET U : IsFiniteSet(s) /\ Sum(s) \in Nat
  BY FS_Subset, SumNat
<1>3. \A s \in SUBSET U : \A x \in s : Sum(s) = f[x] + Sum(s \ {x})
  <2>1. ASSUME NEW s \in SUBSET U, NEW x \in s PROVE Sum(s) = f[x] + Sum(s \ {x})
    <3>1. s \in SUBSET T /\ IsFiniteSet(s)
      BY <1>0
    <3> QED BY <3>1, SumRemove
  <2> QED BY <2>1
<1> HIDE DEF Sum
<1>1. ASSUME NEW s \in SUBSET U, \A x \in s : s \ {x} \in Q PROVE s \in Q
  <2>1. ASSUME NEW S \in SUBSET s PROVE Sum(S) <= Sum(s)
    <3>1. CASE S = s
      BY <1>0, <3>1
    <3>2. CASE S # s
      <4>1. PICK x \in s : x \notin S
        BY <3>2
      <4>2. S \in SUBSET (s \ {x}) /\ s \ {x} \in Q
        BY <1>1, <4>1
      <4>3. Sum(S) <= Sum(s \ {x})
        BY <4>2
      <4>4. Sum(s) = f[x] + Sum(s \ {x}) /\ f[x] \in Nat /\ Sum(s \ {x}) \in Nat /\ Sum(S) \in Nat /\ Sum(s) \in Nat
        BY <1>0, <1>3
      <4> QED BY <4>3, <4>4
    <3> QED BY <3>1, <3>2
  <2> QED BY <2>1
<1>4. \A s \in SUBSET U : (\A x \in s : s \ {x} \in Q) => s \in Q
  BY <1>1
<1>2. U \in Q
  <2> HIDE DEF Q
  <2> QED BY <1>4, InductSets
<1> QED BY <1>2 DEF Sum

LEMMA SumLess == ASSUME NEW T, NEW f \in [T -> Nat], NEW g \in [T -> Nat], NEW S \in SUBSET T, IsFiniteSet(S),
                        \A x \in S : f[x] <= g[x]
  PROVE SumFunctionOnSet(f, S) <= SumFunctionOnSet(g, S)
<1> DEFINE F(s) == SumFunctionOnSet(f, s)
<1> DEFINE G(s) == SumFunctionOnSet(g, s)
<1> DEFINE Q == {s \in SUBSET S : F(s) <= G(s)}
<1>0. \A s \in SUBSET S : IsFiniteSet(s) /\ F(s) \in Nat /\ G(s) \in Nat
  BY FS_Subset, SumNat
<1>3. \A s \in SUBSET S : \A x \in s : F(s) = f[x] + F(s \ {x}) /\ G(s) = g[x] + G(s \ {x})
  <2>1. ASSUME NEW s \in SUBSET S, NEW x \in s PROVE F(s) = f[x] + F(s \ {x}) /\ G(s) = g[x] + G(s \ {x})
    <3>1. s \in SUBSET T /\ IsFiniteSet(s)
      BY <1>0
    <3> QED BY <3>1, SumRemove
  <2> QED BY <2>1
<1>4. F({}) = 0 /\ G({}) = 0
  BY SumEmpty
<1> HIDE DEF F, G
<1>1. ASSUME NEW s \in SUBSET S, \A x \in s : s \ {x} \in Q PROVE s \in Q
  <2>1. CASE s = {}
    BY <2>1, <1>4
  <2>2. CASE s # {}
    <3>1. PICK x \in s : TRUE
      BY <2>2
    <3>2. F(s \ {x}) <= G(s \ {x}) /\ f[x] <= g[x] /\ f[x] \in Nat /\ g[x] \in Nat
      BY <1>1
    <3>3. F(s) = f[x] + F(s \ {x}) /\ G(s) = g[x] + G(s \ {x}) /\ F(s \ {x}) \in Nat /\ G(s \ {x}) \in Nat
      BY <1>0, <1>3
    <3>4. F(s) <= G(s)
      BY <3>2, <3>3
    <3> QED BY <3>4
  <2> QED BY <2>1, <2>2
<1>5. \A s \in SUBSET S : (\A x \in s : s \ {x} \in Q) => s \in Q
  BY <1>1
<1>2. S \in Q
  <2> HIDE DEF Q
  <2> QED BY <1>5, InductSets
<1> QED BY <1>2 DEF F, G

LEMMA SumPlus == ASSUME NEW T, NEW f \in [T -> Nat], NEW g \in [T -> Nat], NEW h \in [T -> Nat], NEW S \in SUBSET T,
                        IsFiniteSet(S), \A x \in S : h[x] = f[x] + g[x]
  PROVE SumFunctionOnSet(h, S) = SumFunctionOnSet(f, S) + SumFunctionOnSet(g, S)
<1> DEFINE F(s) == SumFunctionOnSet(f, s)
<1> DEFINE G(s) == SumFunctionOnSet(g, s)
<1> DEFINE H(s) == SumFunctionOnSet(h, s)
<1> DEFINE Q == {s \in SUBSET S : H(s) = F(s) + G(s)}
<1>0. \A s \in SUBSET S : IsFiniteSet(s) /\ F(s) \in Nat /\ G(s) \in Nat
  BY FS_Subset, SumNat
<1>3. \A s \in SUBSET S : \A x \in s : F(s) = f[x] + F(s \ {x}) /\ G(s) = g[x] + G(s \ {x}) /\ H(s) = h[x] + H(s \ {x})
  <2>1. ASSUME NEW s \in SUBSET S, NEW x \in s PROVE F(s) = f[x] + F(s \ {x}) /\ G(s) = g[x] + G(s \ {x}) /\ H(s) = h[x] + H(s \ {x})
    <3>1. s \in SUBSET T /\ IsFiniteSet(s)
      BY <1>0
    <3> QED BY <3>1, SumRemove
  <2> QED BY <2>1
<1>4. F({}) = 0 /\ G({}) = 0 /\ H({}) = 0
  BY SumEmpty
<1> HIDE DEF F, G, H
<1>1. ASSUME NEW s \in SUBSET S, \A x \in s : s \ {x} \in Q PROVE s \in Q
  <2>1. CASE s = {}
    BY <2>1, <1>4
  <2>2. CASE s # {}
    <3>1. PICK x \in s : TRUE
      BY <2>2
    <3>2. H(s \ {x}) = F(s \ {x}) + G(s \ {x}) /\ h[x] = f[x] + g[x] /\ f[x] \in Nat /\ g[x] \in Nat
      BY <1>1
    <3>3. F(s) = f[x] + F(s \ {x}) /\ G(s) = g[x] + G(s \ {x}) /\ H(s) = h[x] + H(s \ {x}) /\ F(s \ {x}) \in Nat /\ G(s \ {x}) \in Nat
      BY <1>0, <1>3
    <3>4. H(s) = F(s) + G(s)
      BY <3>2, <3>3
    <3> QED BY <3>4
  <2> QED BY <2>1, <2>2
<1>5. \A s \in SUBSET S : (\A x \in s : s \ {x} \in Q) => s \in Q
  BY <1>1
<1>2. S \in Q
  <2> HIDE DEF Q
  <2> QED BY <1>5, InductSets
<1> QED BY <1>2 DEF F, G, H

-----------------------------------------------------------------------------
(* The workers.                                                            *)

(* An attempt of the job is open: it may be started once more without a    *)
(* mishap to come.                                                         *)
Abandoned(id) == \E s \in Slots : jobs[id].owner = s /\ slot[s].job # id
Open(id) == jobs[id].state \in {"absent", "waiting", "delayed", "failed"} \/ Abandoned(id)
AttemptsBounded == \A id \in JobIds :
    /\ runs[id] <= 1 + mishaps /\ jobs[id].stalls <= mishaps
    /\ Open(id) => runs[id] <= mishaps
    /\ Abandoned(id) => jobs[id].stalls < mishaps

Owned == \A id \in JobIds :
    /\ Is(id, "active") <=> jobs[id].owner # NoSlot
    /\ \A s \in Slots : jobs[id].owner = s /\ mishaps = 0 => slot[s].job = id

OfTeam == {"begin", "notify", "finish", "apologize"}
SlotsWork == \A s \in Slots :
    /\ slot[s].at = "idle" => slot[s] = Idle
    /\ slot[s].at # "idle" => slot[s].job \in JobIds
    /\ slot[s].at \in OfTeam => slot[s].job[1] = "team"
    /\ slot[s].at = "send" => slot[s].job[1] \in Notices /\ slot[s].done + 1 <= Len(Channels(slot[s].job))
    /\ slot[s].at = "item" => slot[s].job[1] = "batch" /\ slot[s].done + slot[s].failed < ChunkItems(slot[s].job)
    /\ slot[s].at = "tool" => slot[s].job[1] = "tool"

Told ==
    /\ NoticesMatch
    /\ \A s \in Slots : slot[s].at = "finish" => <<"complete", slot[s].job[2]>> \in added
    /\ \A s \in Slots : slot[s].at = "apologize" => mishaps > 0

(* The slots that have yet to try the n-th channel of the notice.          *)
Sending(id, n) == {s \in Slots : slot[s].at = "send" /\ slot[s].job = id /\ slot[s].done < n}
DeliveredBounded == \A id \in JobIds : id[1] \in Notices =>
    /\ delivered[<<id, "in_app">>] + Cardinality(Sending(id, 1)) <= runs[id]
    /\ delivered[<<id, "email">>] + Cardinality(Sending(id, 2)) <= runs[id]

Counted == \A id \in JobIds : id[1] = "batch" =>
    /\ counts[id].done + counts[id].failed \in {0, ChunkItems(id)}
    /\ Is(id, "completed") => counts[id].done + counts[id].failed = ChunkItems(id)

WorkerInv == WorkerTypeOK /\ AttemptsBounded /\ Owned /\ SlotsWork /\ Told /\ DeliveredBounded /\ Counted


(* What a step of a processor does to the slots and to the jobs.           *)
Others(s) == slot' \in [Slots -> Work] /\ \A z \in Slots : z # s => slot'[z] = slot[z]
SlotStep(s) ==
    /\ Others(s)
    /\ \/ slot'[s].job = slot[s].job
       \/ slot'[s] = Idle /\ jobs'[slot[s].job].owner # s
Waits(j) == jobs[j].state = "absent" /\ jobs'[j].state = "waiting" /\ jobs'[j].owner = NoSlot
            /\ jobs'[j].outcome = "none" /\ jobs'[j].made = 0 /\ jobs'[j].stalls = 0
Released(j) ==
    /\ jobs'[j].owner = NoSlot /\ jobs'[j].stalls = jobs[j].stalls
    /\ \/ jobs'[j].state = "completed"
       \/ /\ mishaps' = mishaps + 1 /\ jobs'[j].state \in {"delayed", "failed"}
          /\ jobs'[j].outcome = jobs[j].outcome
JobsMove(s) ==
    /\ jobs' \in [JobIds -> Job]
    /\ \A j \in JobIds : \/ jobs'[j] = jobs[j] \/ Waits(j)
                         \/ j = slot[s].job /\ jobs[j].owner = s /\ Released(j)
MishapsGrow == mishaps' \in 0..MaxMishaps /\ mishaps' >= mishaps

LEMMA SlotTypes == ASSUME WorkerTypeOK, NEW s \in Slots
  PROVE /\ slot[s] \in Work /\ slot[s].job \in JobIds \cup {NoJobId} /\ slot[s].done \in Nat
        /\ slot[s].failed \in Nat /\ slot[s] = [at |-> slot[s].at, job |-> slot[s].job, done |-> slot[s].done, failed |-> slot[s].failed]
  BY DEF WorkerTypeOK, Work

LEMMA IdleWork == Idle \in Work
  BY WorkerAssumption DEF Idle, Work

LEMMA NoJobIdOut == NoJobId \notin JobIds
<1>1. NoJobId[1] = "none"
  BY DEF NoJobId
<1>2. NoJobId[1] \notin Queues
  BY <1>1 DEF Queues
<1> QED BY <1>2, QueueAssumption

LEMMA GoesFacts ==
  ASSUME WorkerInv, NEW s \in Slots, NEW step \in {"begin", "notify", "finish", "apologize"}, Goes(s, step)
  PROVE  /\ Others(s) /\ slot'[s] = [slot[s] EXCEPT !.at = step]
         /\ slot'[s].at = step /\ slot'[s].job = slot[s].job
<1>1. slot[s] \in Work /\ slot \in [Slots -> Work]
  BY DEF WorkerInv, WorkerTypeOK
<1>2. [slot[s] EXCEPT !.at = step] \in Work
  BY <1>1 DEF Work
<1>3. slot' = [slot EXCEPT ![s] = [slot[s] EXCEPT !.at = step]]
  BY DEF Goes
<1>4. slot'[s] = [slot[s] EXCEPT !.at = step] /\ Others(s)
  BY <1>1, <1>2, <1>3 DEF Others
<1> QED BY <1>1, <1>4 DEF Work

LEMMA RestFacts ==
  ASSUME WorkerInv, NEW s \in Slots, slot' = [slot EXCEPT ![s] = Idle]
  PROVE  Others(s) /\ slot'[s] = Idle
<1>1. slot \in [Slots -> Work]
  BY DEF WorkerInv, WorkerTypeOK
<1> QED BY <1>1, IdleWork DEF Others

LEMMA SettledFacts ==
  ASSUME WorkerInv, NEW s \in Slots, NEW id \in JobIds, NEW result \in {"completed", "failed"}
  PROVE  LET new == Settled(id, s, result) IN
         /\ new \in [JobIds -> Job]
         /\ \A j \in JobIds : j # id \/ jobs[j].owner # s => new[j] = jobs[j]
         /\ jobs[id].owner = s => /\ new[id].state = "completed" /\ new[id].owner = NoSlot
                                  /\ new[id].outcome = result /\ new[id].stalls = jobs[id].stalls
                                  /\ new[id].started = jobs[id].started /\ new[id].made = jobs[id].made
<1>1. jobs \in [JobIds -> Job] /\ jobs[id] \in Job
  BY DEF WorkerInv, WorkerTypeOK, QueueTypeOK
<1> DEFINE new == [jobs[id] EXCEPT !.state = "completed", !.owner = NoSlot, !.outcome = result]
<1>2. /\ new \in Job /\ new.state = "completed" /\ new.owner = NoSlot /\ new.outcome = result
      /\ new.stalls = jobs[id].stalls /\ new.started = jobs[id].started /\ new.made = jobs[id].made
  BY <1>1 DEF Job, States, Outcomes
<1>3. Settled(id, s, result) = IF jobs[id].owner # s THEN jobs ELSE [jobs EXCEPT ![id] = new]
  BY <1>1 DEF Settled
<1> QED BY <1>1, <1>2, <1>3

LEMMA AddedFacts ==
  ASSUME WorkerInv, NEW id \in JobIds
  PROVE  /\ Added(id) \in [JobIds -> Job]
         /\ \A j \in JobIds : j # id \/ jobs[j].state # "absent" => Added(id)[j] = jobs[j]
         /\ jobs[id].state = "absent" => /\ Added(id)[id].state = "waiting" /\ Added(id)[id].owner = NoSlot
                                         /\ Added(id)[id].outcome = "none" /\ Added(id)[id].made = 0 /\ Added(id)[id].stalls = 0
                                         /\ Added(id)[id].started = 0
<1>1. jobs \in [JobIds -> Job]
  BY DEF WorkerInv, WorkerTypeOK, QueueTypeOK
<1> DEFINE new == [NoJob EXCEPT !.state = "waiting"]
<1>2. new \in Job /\ new.state = "waiting" /\ new.owner = NoSlot /\ new.outcome = "none" /\ new.made = 0 /\ new.stalls = 0
      /\ new.started = 0
  BY QueueAssumption DEF Job, States, Outcomes, NoJob
<1>3. Added(id) = IF jobs[id].state = "absent" THEN [jobs EXCEPT ![id] = new] ELSE jobs
  BY DEF Added, Is
<1> QED BY <1>1, <1>2, <1>3

LEMMA RejectedFacts ==
  ASSUME WorkerInv, NEW s \in Slots, NEW id \in JobIds
  PROVE  LET new == Rejected(id, s) IN
         /\ new \in [JobIds -> Job]
         /\ \A j \in JobIds : j # id \/ jobs[j].owner # s => new[j] = jobs[j]
         /\ jobs[id].owner = s => /\ new[id].state \in {"delayed", "failed"} /\ new[id].owner = NoSlot
                                  /\ new[id].outcome = jobs[id].outcome /\ new[id].stalls = jobs[id].stalls
                                  /\ new[id].started = jobs[id].started /\ new[id].made = jobs[id].made + 1
<1>1. jobs \in [JobIds -> Job] /\ jobs[id] \in Job
  BY DEF WorkerInv, WorkerTypeOK, QueueTypeOK
<1>2. jobs[id].made + 1 \in Nat
  BY <1>1 DEF Job
<1> DEFINE more == jobs[id].made + 1
<1> HIDE DEF more
<1> DEFINE late == [jobs[id] EXCEPT !.state = "delayed", !.owner = NoSlot, !.made = more]
           over == [jobs[id] EXCEPT !.state = "failed", !.owner = NoSlot, !.made = more]
<1>3. ASSUME jobs[id].owner = s
      PROVE /\ late \in Job /\ late.state = "delayed" /\ late.owner = NoSlot /\ late.outcome = jobs[id].outcome
            /\ late.stalls = jobs[id].stalls /\ late.made = more /\ late.started = jobs[id].started
  <2>1. more \in Nat
    BY <1>2 DEF more
  <2> QED BY <1>1, <2>1 DEF Job, States
<1>4. ASSUME jobs[id].owner = s
      PROVE /\ over \in Job /\ over.state = "failed" /\ over.owner = NoSlot /\ over.outcome = jobs[id].outcome
            /\ over.stalls = jobs[id].stalls /\ over.made = more /\ over.started = jobs[id].started
  <2>1. more \in Nat
    BY <1>2 DEF more
  <2> QED BY <1>1, <2>1 DEF Job, States
<1>5. Rejected(id, s) = IF jobs[id].owner # s THEN jobs
                        ELSE IF jobs[id].made + 1 < attempts THEN [jobs EXCEPT ![id] = late] ELSE [jobs EXCEPT ![id] = over]
  BY <1>1 DEF Rejected, more
<1> HIDE DEF late, over
<1>6. CASE jobs[id].owner # s
  BY <1>1, <1>5, <1>6
<1>7. CASE jobs[id].owner = s /\ jobs[id].made + 1 < attempts
  BY <1>1, <1>3, <1>5, <1>7 DEF more
<1>8. CASE jobs[id].owner = s /\ ~(jobs[id].made + 1 < attempts)
  BY <1>1, <1>4, <1>5, <1>8 DEF more
<1> QED BY <1>6, <1>7, <1>8

LEMMA StepKeepsAttempts ==
  ASSUME WorkerInv, NEW s \in Slots, slot[s].job \in JobIds, SlotStep(s), JobsMove(s), MishapsGrow, runs' = runs
  PROVE  AttemptsBounded'
<1>1. ASSUME NEW j \in JobIds, Abandoned(j)' PROVE Abandoned(j)
  <2>1. PICK z \in Slots : jobs'[j].owner = z /\ slot'[z].job # j
    BY <1>1 DEF Abandoned
  <2>2. jobs'[j] = jobs[j]
    BY <2>1, QueueAssumption DEF JobsMove, Waits, Released
  <2>3. CASE z # s
    BY <2>1, <2>2, <2>3 DEF SlotStep, Others, Abandoned
  <2>4. CASE z = s
    BY <2>1, <2>2, <2>4 DEF SlotStep, Others, Abandoned
  <2> QED BY <2>3, <2>4
<1>2. ASSUME NEW j \in JobIds
      PROVE /\ runs'[j] <= 1 + mishaps' /\ jobs'[j].stalls <= mishaps'
            /\ Open(j)' => runs'[j] <= mishaps'
            /\ Abandoned(j)' => jobs'[j].stalls < mishaps'
  <2>1. runs[j] \in Nat /\ mishaps \in Nat /\ mishaps' \in Nat /\ mishaps <= mishaps' /\ jobs[j].stalls \in Nat
    BY QueueAssumption DEF WorkerInv, WorkerTypeOK, QueueTypeOK, Job, MishapsGrow, MaxRuns
  <2>2. /\ runs[j] <= 1 + mishaps /\ jobs[j].stalls <= mishaps /\ (Open(j) => runs[j] <= mishaps)
        /\ (Abandoned(j) => jobs[j].stalls < mishaps)
    BY DEF WorkerInv, AttemptsBounded
  <2>3. Open(j)' <=> jobs'[j].state \in {"absent", "waiting", "delayed", "failed"} \/ Abandoned(j)'
    BY DEF Open
  <2>4. CASE jobs'[j] = jobs[j]
    <3>1. Open(j)' => Open(j)
      BY <1>1, <2>3, <2>4 DEF Open
    <3> QED BY <1>1, <2>1, <2>2, <2>4, <3>1
  <2>5. CASE Waits(j)
    <3>1. Open(j)
      BY <2>5 DEF Open, Waits
    <3> QED BY <1>1, <2>1, <2>2, <2>5, <3>1, QueueAssumption DEF Waits
  <2>6. CASE j = slot[s].job /\ jobs[j].owner = s /\ Released(j)
    <3>1. ~Abandoned(j)'
      BY <2>6, QueueAssumption DEF Abandoned, Released
    <3>2. Open(j)' => mishaps' = mishaps + 1
      BY <2>3, <2>6, <3>1 DEF Released
    <3> QED BY <2>1, <2>2, <2>6, <3>1, <3>2 DEF Released
  <2> QED BY <2>4, <2>5, <2>6 DEF JobsMove
<1> QED BY <1>2 DEF AttemptsBounded

LEMMA StepKeepsOwned ==
  ASSUME WorkerInv, NEW s \in Slots, slot[s].job \in JobIds, SlotStep(s), JobsMove(s), MishapsGrow
  PROVE  Owned'
<1>1. ASSUME NEW j \in JobIds PROVE jobs'[j].state = "active" <=> jobs'[j].owner # NoSlot
  <2>1. jobs[j].state = "active" <=> jobs[j].owner # NoSlot
    BY DEF WorkerInv, Owned, Is
  <2> QED BY <2>1 DEF JobsMove, Waits, Released
<1>2. ASSUME NEW j \in JobIds, NEW z \in Slots, jobs'[j].owner = z, mishaps' = 0 PROVE slot'[z].job = j
  <2>1. jobs'[j] = jobs[j] /\ mishaps = 0
    BY <1>2, QueueAssumption DEF JobsMove, Waits, Released, MishapsGrow, WorkerInv, WorkerTypeOK, QueueTypeOK
  <2>2. slot[z].job = j
    BY <1>2, <2>1 DEF WorkerInv, Owned
  <2> QED BY <1>2, <2>2 DEF SlotStep, Others
<1> QED BY <1>1, <1>2 DEF Owned, Is

LEMMA TypesOfRest ==
  ASSUME WorkerInv, UNCHANGED <<runs, delivered, counts, paused>>, MishapsGrow, jobs' \in [JobIds -> Job],
         slot' \in [Slots -> Work], added' \subseteq JobIds
  PROVE  WorkerTypeOK'
  BY DEF WorkerInv, WorkerTypeOK, QueueTypeOK, MishapsGrow

LEMMA JobsStay == ASSUME WorkerInv, NEW s \in Slots, UNCHANGED jobs PROVE JobsMove(s)
  BY DEF JobsMove, WorkerInv, WorkerTypeOK, QueueTypeOK

LEMMA JobsWait == ASSUME NEW s \in Slots, jobs' \in [JobIds -> Job], \A j \in JobIds : jobs'[j] = jobs[j] \/ Waits(j)
  PROVE JobsMove(s)
  BY DEF JobsMove

LEMMA SlotGoes == ASSUME NEW s \in Slots, Others(s), slot'[s].job = slot[s].job PROVE SlotStep(s)
  BY DEF SlotStep

LEMMA Steady ==
  ASSUME WorkerInv, NEW s \in Slots, slot[s].at # "idle", UNCHANGED mishaps \/ Mishap
  PROVE  /\ slot[s].job \in JobIds /\ MishapsGrow
         /\ UNCHANGED mishaps \/ mishaps' = mishaps + 1
<1>1. mishaps \in 0..MaxMishaps
  BY DEF WorkerInv, WorkerTypeOK, QueueTypeOK
<1> QED BY <1>1, QueueAssumption DEF WorkerInv, SlotsWork, MishapsGrow, Mishap

(* A step that is not of a notice leaves the deliveries to come alone.     *)
LEMMA SendingKept ==
  ASSUME WorkerInv, NEW s \in Slots, Others(s), slot[s].at # "send", slot'[s].at # "send",
         UNCHANGED <<runs, delivered>>
  PROVE  DeliveredBounded'
<1>1. ASSUME NEW id, NEW n PROVE Sending(id, n)' = Sending(id, n)
  BY DEF Sending, Others
<1> QED BY <1>1 DEF WorkerInv, DeliveredBounded

(* A processor that ends with a result keeps the invariant if the notice   *)
(* of the result was added and a chunk has its items counted.              *)
LEMMA EndsKeeps ==
  ASSUME WorkerInv, NEW s \in Slots, NEW result \in {"completed", "failed"}, slot[s].at # "idle", slot[s].at # "send",
         slot[s].job[1] \in {"team", "tool"}, slot[s].job[1] = "team" =>
           (result = "completed" /\ <<"complete", slot[s].job[2]>> \in added),
         Ends(s, result), UNCHANGED mishaps \/ Mishap, UNCHANGED <<paused, added, runs, delivered, counts>>
  PROVE  WorkerInv'
<1> DEFINE id == slot[s].job
<1>1. id \in JobIds /\ MishapsGrow
  BY Steady
<1>2. slot' = [slot EXCEPT ![s] = Idle] /\ jobs' = Settled(id, s, result)
  BY DEF Ends, Id
<1>12. Others(s) /\ slot'[s] = Idle
  BY <1>2, RestFacts
<1>3. Others(s) /\ slot'[s] = Idle /\ slot'[s].at = "idle"
  BY <1>12 DEF Idle
<1> HIDE DEF id
<1>4. /\ jobs' \in [JobIds -> Job]
      /\ \A j \in JobIds : j # id \/ jobs[j].owner # s => jobs'[j] = jobs[j]
      /\ jobs[id].owner = s => /\ jobs'[id].state = "completed" /\ jobs'[id].owner = NoSlot
                               /\ jobs'[id].outcome = result /\ jobs'[id].stalls = jobs[id].stalls
  BY <1>1, <1>2, SettledFacts
<1>5. SlotStep(s) /\ JobsMove(s)
  BY <1>1, <1>3, <1>4, QueueAssumption DEF SlotStep, JobsMove, Released, id
<1>6. WorkerTypeOK'
  BY <1>1, <1>3, <1>4, TypesOfRest DEF Others, WorkerInv, WorkerTypeOK
<1>7. AttemptsBounded' /\ Owned'
  BY <1>1, <1>5, StepKeepsAttempts, StepKeepsOwned DEF id
<1>8. SlotsWork'
  BY <1>3 DEF SlotsWork, WorkerInv, Others, OfTeam, Idle
<1>9. Told'
  <2>1. ASSUME NEW j \in JobIds, j[1] = "team"
        PROVE /\ jobs'[j].outcome = "completed" => <<"complete", j[2]>> \in added'
              /\ jobs'[j].outcome = "failed" => <<"failed", j[2]>> \in added'
              /\ <<"failed", j[2]>> \in added' => mishaps' > 0
    <3>1. /\ jobs[j].outcome = "completed" => <<"complete", j[2]>> \in added
          /\ jobs[j].outcome = "failed" => <<"failed", j[2]>> \in added
          /\ <<"failed", j[2]>> \in added => mishaps > 0
      BY <2>1 DEF WorkerInv, Told, NoticesMatch
    <3>2. mishaps > 0 => mishaps' > 0
      BY <1>1, QueueAssumption DEF MishapsGrow, WorkerInv, WorkerTypeOK, QueueTypeOK
    <3>3. CASE j = id /\ jobs[id].owner = s
      BY <1>4, <2>1, <3>1, <3>2, <3>3 DEF id
    <3>4. CASE ~(j = id /\ jobs[id].owner = s)
      BY <1>4, <3>1, <3>2, <3>4
    <3> QED BY <3>3, <3>4
  <2>2. NoticesMatch'
    BY <2>1 DEF NoticesMatch
  <2>3. mishaps > 0 => mishaps' > 0
    BY <1>1, QueueAssumption DEF MishapsGrow, WorkerInv, WorkerTypeOK, QueueTypeOK
  <2>4. \A z \in Slots : slot'[z].at = "finish" => <<"complete", slot'[z].job[2]>> \in added'
    BY <1>3 DEF WorkerInv, Told, Others
  <2>5. \A z \in Slots : slot'[z].at = "apologize" => mishaps' > 0
    BY <1>3, <2>3 DEF WorkerInv, Told, Others
  <2> QED BY <2>2, <2>4, <2>5 DEF Told
<1>10. DeliveredBounded'
  BY <1>3, SendingKept
<1>11. Counted'
  <2>1. id[1] # "batch"
    BY DEF id
  <2> QED BY <1>4, <2>1 DEF WorkerInv, Counted, Is
<1> QED BY <1>6, <1>7, <1>8, <1>9, <1>10, <1>11 DEF WorkerInv

LEMMA BeginStep ==
  ASSUME WorkerInv, NEW s \in Slots, Begin(s)
  PROVE  WorkerInv'
<1>1. slot[s].at = "begin" /\ slot[s].at # "idle" /\ (UNCHANGED mishaps \/ Mishap)
      /\ UNCHANGED <<jobs, paused, added, runs, delivered, counts>>
  BY DEF Begin, At
<1>2. slot[s].job \in JobIds /\ MishapsGrow
  BY <1>1, Steady
<1>3. PICK step \in {"notify", "apologize"} : Goes(s, step) /\ (step = "apologize" => Mishap)
  BY DEF Begin
<1>4. Others(s) /\ slot'[s].at = step /\ slot'[s].job = slot[s].job
  BY <1>3, GoesFacts
<1>5. SlotStep(s) /\ JobsMove(s)
  BY <1>1, <1>4, SlotGoes, JobsStay
<1>6. WorkerTypeOK'
  BY <1>1, <1>2, <1>4, TypesOfRest DEF Others, WorkerInv, WorkerTypeOK, QueueTypeOK
<1>7. AttemptsBounded' /\ Owned'
  BY <1>1, <1>2, <1>5, StepKeepsAttempts, StepKeepsOwned
<1>8. SlotsWork'
  BY <1>1, <1>3, <1>4 DEF SlotsWork, WorkerInv, Others, OfTeam
<1>9. Told'
  <2>1. mishaps > 0 => mishaps' > 0
    BY <1>2, QueueAssumption DEF MishapsGrow, WorkerInv, WorkerTypeOK, QueueTypeOK
  <2>2. NoticesMatch'
    BY <1>1, <2>1 DEF Told, NoticesMatch, WorkerInv
  <2>3. step = "apologize" => mishaps' > 0
    BY <1>3, QueueAssumption DEF Mishap, WorkerInv, WorkerTypeOK, QueueTypeOK
  <2>4. \A z \in Slots : slot'[z].at = "finish" => <<"complete", slot'[z].job[2]>> \in added'
    BY <1>1, <1>4 DEF WorkerInv, Told, Others
  <2>5. \A z \in Slots : slot'[z].at = "apologize" => mishaps' > 0
    BY <1>4, <2>1, <2>3 DEF WorkerInv, Told, Others
  <2> QED BY <2>2, <2>4, <2>5 DEF Told
<1>10. DeliveredBounded'
  BY <1>1, <1>3, <1>4, SendingKept
<1>11. Counted'
  BY <1>1 DEF WorkerInv, Counted, Is
<1> QED BY <1>6, <1>7, <1>8, <1>9, <1>10, <1>11 DEF WorkerInv

LEMMA SendRunCompleteStep ==
  ASSUME WorkerInv, NEW s \in Slots, SendRunComplete(s)
  PROVE  WorkerInv'
<1> DEFINE notice == Notice(s, "complete")
<1>1. slot[s].at = "notify" /\ slot[s].at # "idle" /\ (UNCHANGED mishaps \/ Mishap)
      /\ UNCHANGED <<paused, runs, delivered, counts>>
  BY DEF SendRunComplete, At
<1>2. slot[s].job \in JobIds /\ MishapsGrow
  BY <1>1, Steady
<1>3. notice \in JobIds /\ notice = <<"complete", slot[s].job[2]>> /\ notice[1] = "complete"
  BY <1>1, <1>2, WorkerAssumption DEF WorkerInv, SlotsWork, OfTeam, Notice, Id
<1>4. PICK step \in {"finish", "apologize"} :
        /\ Goes(s, step) /\ (step = "apologize" => Mishap)
        /\ \/ step = "finish" /\ jobs' = Added(notice) /\ added' = added \cup {notice}
           \/ step = "apologize" /\ UNCHANGED <<jobs, added>>
  BY DEF SendRunComplete, Sends
<1> HIDE DEF notice
<1>5. Others(s) /\ slot'[s].at = step /\ slot'[s].job = slot[s].job
  BY <1>4, GoesFacts
<1>6. /\ jobs' \in [JobIds -> Job] /\ added' \subseteq JobIds /\ added \subseteq added'
      /\ \A j \in JobIds : jobs'[j] = jobs[j] \/ Waits(j)
      /\ \A id \in added' \ added : id = notice
  <2>1. jobs \in [JobIds -> Job] /\ added \subseteq JobIds
    BY DEF WorkerInv, WorkerTypeOK, QueueTypeOK
  <2>2. CASE jobs' = Added(notice) /\ added' = added \cup {notice}
    <3>1. jobs' \in [JobIds -> Job] /\ \A j \in JobIds : jobs'[j] = jobs[j] \/ Waits(j)
      BY <1>3, <2>2, AddedFacts DEF Waits
    <3> QED BY <1>3, <2>1, <2>2, <3>1
  <2>3. CASE UNCHANGED <<jobs, added>>
    BY <2>1, <2>3
  <2> QED BY <1>4, <2>2, <2>3
<1>7. SlotStep(s) /\ JobsMove(s)
  BY <1>5, <1>6, SlotGoes, JobsWait
<1>8. WorkerTypeOK'
  BY <1>1, <1>2, <1>5, <1>6, TypesOfRest DEF Others
<1>9. AttemptsBounded' /\ Owned'
  BY <1>1, <1>2, <1>7, StepKeepsAttempts, StepKeepsOwned
<1>10. SlotsWork'
  BY <1>1, <1>4, <1>5 DEF SlotsWork, WorkerInv, Others, OfTeam
<1>11. Told'
  <2>1. NoticesMatch'
    <3>1. ASSUME NEW id \in JobIds, id[1] = "team"
          PROVE /\ jobs'[id].outcome = "completed" => <<"complete", id[2]>> \in added'
                /\ jobs'[id].outcome = "failed" => <<"failed", id[2]>> \in added'
                /\ <<"failed", id[2]>> \in added' => mishaps' > 0
      <4>1. /\ jobs[id].outcome = "completed" => <<"complete", id[2]>> \in added
            /\ jobs[id].outcome = "failed" => <<"failed", id[2]>> \in added
            /\ <<"failed", id[2]>> \in added => mishaps > 0
        BY <3>1 DEF WorkerInv, Told, NoticesMatch
      <4>2. <<"failed", id[2]>> \in added' => <<"failed", id[2]>> \in added
        BY <1>3, <1>6
      <4>3. jobs'[id].outcome \in {"none", jobs[id].outcome}
        BY <1>6 DEF Waits
      <4>4. mishaps > 0 => mishaps' > 0
        BY <1>2, QueueAssumption DEF MishapsGrow, WorkerInv, WorkerTypeOK, QueueTypeOK
      <4> QED BY <1>6, <4>1, <4>2, <4>3, <4>4
    <3> QED BY <3>1 DEF NoticesMatch
  <2>2. \A z \in Slots : slot'[z].at = "finish" => <<"complete", slot'[z].job[2]>> \in added'
    BY <1>3, <1>4, <1>5, <1>6 DEF WorkerInv, Told, Others
  <2>3. \A z \in Slots : slot'[z].at = "apologize" => mishaps' > 0
    BY <1>2, <1>4, <1>5, QueueAssumption DEF WorkerInv, Told, Others, MishapsGrow, Mishap, WorkerTypeOK, QueueTypeOK
  <2> QED BY <2>1, <2>2, <2>3 DEF Told
<1>12. DeliveredBounded'
  BY <1>1, <1>4, <1>5, SendingKept
<1>13. Counted'
  BY <1>1, <1>6 DEF WorkerInv, Counted, Is, Waits
<1> QED BY <1>8, <1>9, <1>10, <1>11, <1>12, <1>13 DEF WorkerInv

LEMMA FinishStep ==
  ASSUME WorkerInv, NEW s \in Slots, Finish(s)
  PROVE  WorkerInv'
<1>1. slot[s].at = "finish" /\ slot[s].at # "idle" /\ (UNCHANGED mishaps \/ Mishap)
      /\ UNCHANGED <<paused, added, runs, delivered, counts>>
  BY DEF Finish, At
<1>2. slot[s].job \in JobIds /\ MishapsGrow /\ slot[s].job[1] = "team" /\ <<"complete", slot[s].job[2]>> \in added
  BY <1>1, Steady DEF WorkerInv, SlotsWork, OfTeam, Told
<1>3. CASE Goes(s, "apologize") /\ Mishap /\ UNCHANGED jobs
  <2>1. Others(s) /\ slot'[s].at = "apologize" /\ slot'[s].job = slot[s].job
    BY <1>3, GoesFacts
  <2>2. SlotStep(s) /\ JobsMove(s)
    BY <1>3, <2>1, SlotGoes, JobsStay
  <2>3. WorkerTypeOK'
    BY <1>1, <1>2, <1>3, <2>1, TypesOfRest DEF Others, WorkerInv, WorkerTypeOK, QueueTypeOK
  <2>4. AttemptsBounded' /\ Owned'
    BY <1>1, <1>2, <2>2, StepKeepsAttempts, StepKeepsOwned
  <2>5. SlotsWork'
    BY <1>1, <2>1 DEF SlotsWork, WorkerInv, Others, OfTeam
  <2>6. Told'
    BY <1>1, <1>2, <1>3, <2>1 DEF Told, NoticesMatch, WorkerInv, Others, MishapsGrow, Mishap, WorkerTypeOK, QueueTypeOK
  <2>7. DeliveredBounded'
    BY <1>1, <2>1, SendingKept
  <2>8. Counted'
    BY <1>1, <1>3 DEF WorkerInv, Counted, Is
  <2> QED BY <2>3, <2>4, <2>5, <2>6, <2>7, <2>8 DEF WorkerInv
<1>4. CASE Ends(s, "completed") /\ UNCHANGED mishaps
  BY <1>1, <1>2, <1>4, EndsKeeps
<1> QED BY <1>3, <1>4 DEF Finish

LEMMA ExecuteToolStep ==
  ASSUME WorkerInv, NEW s \in Slots, ExecuteTool(s)
  PROVE  WorkerInv'
<1>1. slot[s].at = "tool" /\ slot[s].job[1] = "tool"
  BY DEF ExecuteTool, At, WorkerInv, SlotsWork
<1>2. CASE Ends(s, "completed") /\ UNCHANGED mishaps
  BY <1>1, <1>2, EndsKeeps DEF ExecuteTool
<1>3. CASE Ends(s, "failed") /\ Mishap
  BY <1>1, <1>3, EndsKeeps DEF ExecuteTool
<1> QED BY <1>2, <1>3 DEF ExecuteTool

(* The notice of the result of the job was added.                          *)
Heard(j) ==
    \/ jobs'[j].outcome = "none"
    \/ jobs'[j].outcome = "completed" /\ <<"complete", j[2]>> \in added'
    \/ jobs'[j].outcome = "failed" /\ <<"failed", j[2]>> \in added'

LEMMA ToldKept ==
  ASSUME WorkerInv, NEW s \in Slots, Others(s), slot'[s].at \notin {"finish", "apologize"}, MishapsGrow, added \subseteq added',
         \A j \in JobIds : j[1] = "team" =>
           /\ jobs'[j].outcome # jobs[j].outcome => Heard(j)
           /\ <<"failed", j[2]>> \in added' \ added => mishaps > 0
  PROVE  Told'
<1>1. mishaps > 0 => mishaps' > 0
  BY QueueAssumption DEF MishapsGrow, WorkerInv, WorkerTypeOK, QueueTypeOK
<1>2. ASSUME NEW j \in JobIds, j[1] = "team"
      PROVE /\ jobs'[j].outcome = "completed" => <<"complete", j[2]>> \in added'
            /\ jobs'[j].outcome = "failed" => <<"failed", j[2]>> \in added'
            /\ <<"failed", j[2]>> \in added' => mishaps' > 0
  <2>1. /\ jobs[j].outcome = "completed" => <<"complete", j[2]>> \in added
        /\ jobs[j].outcome = "failed" => <<"failed", j[2]>> \in added
        /\ <<"failed", j[2]>> \in added => mishaps > 0
    BY <1>2 DEF WorkerInv, Told, NoticesMatch
  <2>2. CASE jobs'[j].outcome = jobs[j].outcome
    BY <1>1, <1>2, <2>1, <2>2
  <2>3. CASE jobs'[j].outcome # jobs[j].outcome
    BY <1>1, <1>2, <2>1, <2>3 DEF Heard
  <2> QED BY <2>2, <2>3
<1>3. NoticesMatch'
  BY <1>2 DEF NoticesMatch
<1>4. \A z \in Slots : slot'[z].at = "finish" => <<"complete", slot'[z].job[2]>> \in added'
  BY DEF WorkerInv, Told, Others
<1>5. \A z \in Slots : slot'[z].at = "apologize" => mishaps' > 0
  BY <1>1 DEF WorkerInv, Told, Others
<1> QED BY <1>3, <1>4, <1>5 DEF Told

LEMMA SendRunFailedStep ==
  ASSUME WorkerInv, NEW s \in Slots, SendRunFailed(s)
  PROVE  WorkerInv'
<1> DEFINE id == slot[s].job
           notice == Notice(s, "failed")
<1>1. slot[s].at = "apologize" /\ slot[s].at # "idle" /\ (UNCHANGED mishaps \/ Mishap) /\ slot[s].at # "send"
      /\ UNCHANGED <<paused, runs, delivered, counts>> /\ slot' = [slot EXCEPT ![s] = Idle]
  BY DEF SendRunFailed, At
<1>2. id \in JobIds /\ MishapsGrow /\ id[1] = "team" /\ mishaps > 0
  BY <1>1, Steady DEF WorkerInv, SlotsWork, OfTeam, Told
<1>3. notice \in JobIds /\ notice = <<"failed", id[2]>> /\ notice[1] = "failed" /\ notice # id
  <2>1. notice = <<"failed", id[2]>>
    BY DEF Notice, Id
  <2>2. notice \in JobIds
    BY <1>2, <2>1, WorkerAssumption
  <2> QED BY <1>2, <2>1, <2>2
<1>12. Others(s) /\ slot'[s] = Idle
  BY <1>1, RestFacts
<1>4. Others(s) /\ slot'[s] = Idle /\ slot'[s].at = "idle"
  BY <1>12 DEF Idle
<1>5. \/ /\ jobs' = [Settled(id, s, "failed") EXCEPT ![notice] = Added(notice)[notice]]
         /\ added' = added \cup {notice}
      \/ Mishap /\ jobs' = Rejected(id, s) /\ UNCHANGED added
  BY DEF SendRunFailed, Id
<1> HIDE DEF id, notice
<1>6. added \in SUBSET JobIds /\ added' \in SUBSET JobIds /\ added \subseteq added' /\ \A x \in added' \ added : x = notice
  BY <1>3, <1>5 DEF WorkerInv, WorkerTypeOK
<1>7. /\ jobs' \in [JobIds -> Job]
      /\ \A j \in JobIds : \/ jobs'[j] = jobs[j] \/ Waits(j)
                           \/ /\ j = id /\ jobs[j].owner = s /\ Released(j)
                              /\ \/ jobs'[j].outcome = jobs[j].outcome
                                 \/ jobs'[j].outcome = "failed" /\ notice \in added'
      /\ jobs'[id].owner # s
  <2>1. CASE jobs' = [Settled(id, s, "failed") EXCEPT ![notice] = Added(notice)[notice]] /\ added' = added \cup {notice}
    <3> DEFINE new == Settled(id, s, "failed")
               put == Added(notice)
    <3>1. /\ new \in [JobIds -> Job]
          /\ \A j \in JobIds : j # id \/ jobs[j].owner # s => new[j] = jobs[j]
          /\ jobs[id].owner = s => /\ new[id].state = "completed" /\ new[id].owner = NoSlot
                                   /\ new[id].outcome = "failed" /\ new[id].stalls = jobs[id].stalls
      BY <1>2, SettledFacts
    <3>2. /\ put \in [JobIds -> Job]
          /\ jobs[notice].state # "absent" => put[notice] = jobs[notice]
          /\ jobs[notice].state = "absent" => /\ put[notice].state = "waiting" /\ put[notice].owner = NoSlot
                                              /\ put[notice].outcome = "none" /\ put[notice].made = 0 /\ put[notice].stalls = 0
      BY <1>3, AddedFacts
    <3> HIDE DEF new, put
    <3>3. jobs' = [new EXCEPT ![notice] = put[notice]]
      BY <2>1 DEF new, put
    <3>4. jobs' \in [JobIds -> Job] /\ jobs'[notice] = put[notice] /\ \A j \in JobIds : j # notice => jobs'[j] = new[j]
      BY <1>3, <3>1, <3>2, <3>3
    <3>5. jobs'[notice] = jobs[notice] \/ Waits(notice)
      BY <3>2, <3>4 DEF Waits
    <3>6. jobs[id].owner = s => Released(id) /\ jobs'[id].outcome = "failed"
      BY <1>2, <1>3, <3>1, <3>4 DEF Released
    <3>7. jobs'[id].owner # s
      BY <1>2, <1>3, <3>1, <3>4, QueueAssumption
    <3> QED BY <1>2, <1>3, <2>1, <3>1, <3>4, <3>5, <3>6, <3>7
  <2>2. CASE Mishap /\ jobs' = Rejected(id, s) /\ UNCHANGED added
    <3>1. /\ jobs' \in [JobIds -> Job]
          /\ \A j \in JobIds : j # id \/ jobs[j].owner # s => jobs'[j] = jobs[j]
          /\ jobs[id].owner = s => /\ jobs'[id].state \in {"delayed", "failed"} /\ jobs'[id].owner = NoSlot
                                   /\ jobs'[id].outcome = jobs[id].outcome /\ jobs'[id].stalls = jobs[id].stalls
      BY <1>2, <2>2, RejectedFacts
    <3>2. jobs[id].owner = s => Released(id) /\ jobs'[id].outcome = jobs[id].outcome
      <4>1. mishaps' = mishaps + 1
        BY <2>2 DEF Mishap
      <4> QED BY <3>1, <4>1 DEF Released
    <3>3. jobs'[id].owner # s
      BY <1>2, <3>1, QueueAssumption
    <3> QED BY <3>1, <3>2, <3>3
  <2> QED BY <1>5, <2>1, <2>2
<1>8. SlotStep(s) /\ JobsMove(s)
  <2>1. JobsMove(s)
    BY <1>7 DEF JobsMove, id
  <2>2. jobs'[id].owner # s
    BY <1>7
  <2> QED BY <1>4, <2>1, <2>2 DEF SlotStep, id
<1>9. WorkerTypeOK'
  BY <1>1, <1>2, <1>4, <1>6, <1>7, TypesOfRest DEF Others
<1>10. AttemptsBounded' /\ Owned'
  BY <1>1, <1>2, <1>8, StepKeepsAttempts, StepKeepsOwned DEF id
<1>11. SlotsWork'
  BY <1>4 DEF SlotsWork, WorkerInv, Others, OfTeam, Idle
<1>13. Told'
  <2>1. ASSUME NEW j \in JobIds, j[1] = "team"
        PROVE /\ jobs'[j].outcome # jobs[j].outcome => Heard(j)
              /\ <<"failed", j[2]>> \in added' \ added => mishaps > 0
    BY <1>2, <1>3, <1>7 DEF Waits, Heard
  <2> QED BY <1>2, <1>4, <1>6, <2>1, ToldKept
<1>14. DeliveredBounded'
  BY <1>1, <1>4, SendingKept
<1>15. Counted'
  <2>1. id[1] # "batch"
    BY <1>2
  <2> QED BY <1>1, <1>7, <2>1 DEF WorkerInv, Counted, Is, Waits
<1> QED BY <1>9, <1>10, <1>11, <1>13, <1>14, <1>15 DEF WorkerInv

-----------------------------------------------------------------------------
LEMMA SendingFinite == \A id, n : IsFiniteSet(Sending(id, n)) /\ Cardinality(Sending(id, n)) \in Nat
<1>1. ASSUME NEW id, NEW n PROVE IsFiniteSet(Sending(id, n))
  <2>1. Sending(id, n) \subseteq Slots
    BY DEF Sending
  <2> QED BY <2>1, FS_Subset, QueueAssumption
<1> QED BY <1>1, FS_CardinalityType

LEMMA SendingFinitePrime == \A id, n : Cardinality(Sending(id, n)') \in Nat
<1>1. ASSUME NEW id, NEW n PROVE IsFiniteSet(Sending(id, n)')
  <2>1. Sending(id, n)' \subseteq Slots
    BY DEF Sending
  <2> QED BY <2>1, FS_Subset, QueueAssumption
<1> QED BY <1>1, FS_CardinalityType

LEMMA SendingLost ==
  ASSUME NEW s \in Slots, Others(s), NEW id, NEW n, s \in Sending(id, n), s \notin Sending(id, n)'
  PROVE  Cardinality(Sending(id, n)') = Cardinality(Sending(id, n)) - 1
<1>1. Sending(id, n)' = Sending(id, n) \ {s}
  BY DEF Sending, Others
<1> QED BY <1>1, SendingFinite, FS_RemoveElement

LEMMA SendingSame ==
  ASSUME NEW s \in Slots, Others(s), NEW id, NEW n, s \in Sending(id, n) <=> s \in Sending(id, n)'
  PROVE  Cardinality(Sending(id, n)') = Cardinality(Sending(id, n))
<1>1. Sending(id, n)' = Sending(id, n)
  BY DEF Sending, Others
<1> QED BY <1>1

LEMMA SendingMore ==
  ASSUME NEW s \in Slots, Others(s), NEW id, NEW n, s \notin Sending(id, n), s \in Sending(id, n)'
  PROVE  Cardinality(Sending(id, n)') = Cardinality(Sending(id, n)) + 1
<1>1. Sending(id, n)' = Sending(id, n) \cup {s}
  BY DEF Sending, Others
<1> QED BY <1>1, SendingFinite, FS_AddElement

LEMMA DeliveredTypes == ASSUME WorkerInv, NEW id \in JobIds, id[1] \in Notices
  PROVE /\ <<id, "in_app">> \in Deliveries /\ <<id, "email">> \in Deliveries
        /\ delivered[<<id, "in_app">>] \in Nat /\ delivered[<<id, "email">>] \in Nat /\ runs[id] \in Nat
        /\ runs[id] <= 1 + MaxMishaps
<1>1. <<id, "in_app">> \in Deliveries /\ <<id, "email">> \in Deliveries
  BY DEF Deliveries
<1>2. delivered \in [Deliveries -> 0..MaxRuns] /\ runs \in [JobIds -> 0..MaxRuns] /\ mishaps \in 0..MaxMishaps
  BY DEF WorkerInv, WorkerTypeOK, QueueTypeOK
<1>3. runs[id] <= 1 + mishaps
  BY DEF WorkerInv, AttemptsBounded
<1>4. runs[id] \in Nat /\ runs[id] <= 1 + MaxMishaps
  BY <1>2, <1>3, QueueAssumption DEF MaxRuns
<1>5. delivered[<<id, "in_app">>] \in 0..MaxRuns /\ delivered[<<id, "email">>] \in 0..MaxRuns
  BY <1>1, <1>2
<1> QED BY <1>1, <1>4, <1>5

LEMMA SendNotificationStep ==
  ASSUME WorkerInv, NEW s \in Slots, SendNotification(s)
  PROVE  WorkerInv'
<1> DEFINE id == slot[s].job
           d == slot[s].done
           ch == Channels(id)[d + 1]
           last == d + 1 = Len(Channels(id))
<1>1. slot[s].at = "send" /\ slot[s].at # "idle" /\ (UNCHANGED mishaps \/ Mishap)
      /\ UNCHANGED <<paused, added, runs, counts>>
  BY DEF SendNotification, At
<1>2. id \in JobIds /\ MishapsGrow /\ id[1] \in Notices /\ d \in Nat /\ d + 1 <= Len(Channels(id))
  BY <1>1, Steady, SlotTypes DEF WorkerInv, SlotsWork
<1>3. /\ ch = (IF d = 0 THEN "in_app" ELSE "email") /\ d \in {0, 1}
      /\ last => (IF id[1] = "complete" THEN d = 0 ELSE d = 1)
      /\ ~last => d = 0 /\ id[1] # "complete"
  BY <1>2 DEF Channels
<1>4. \/ delivered' = [delivered EXCEPT ![<<id, ch>>] = @ + 1]
      \/ UNCHANGED delivered
  BY DEF SendNotification, Id
<1>5. \/ last /\ slot' = [slot EXCEPT ![s] = Idle] /\ jobs' = Settled(id, s, "completed")
      \/ ~last /\ slot' = [slot EXCEPT ![s].done = @ + 1] /\ UNCHANGED jobs
  BY DEF SendNotification, Id, Ends
<1> HIDE DEF id, d, ch, last
<1>6. /\ Others(s)
      /\ \/ slot'[s] = Idle /\ slot'[s].at = "idle" /\ last
         \/ slot'[s].at = "send" /\ slot'[s].job = id /\ slot'[s].done = d + 1 /\ ~last
  <2>1. CASE last /\ slot' = [slot EXCEPT ![s] = Idle]
    <3>1. Others(s) /\ slot'[s] = Idle
      BY <2>1, RestFacts
    <3> QED BY <2>1, <3>1 DEF Idle
  <2>2. CASE ~last /\ slot' = [slot EXCEPT ![s].done = @ + 1]
    <3> DEFINE w == [slot[s] EXCEPT !.done = d + 1]
    <3>1. slot[s] \in Work /\ slot \in [Slots -> Work]
      BY DEF WorkerInv, WorkerTypeOK
    <3>2. d + 1 \in Nat
      BY <1>2
    <3>3. w \in Work /\ w.at = slot[s].at /\ w.job = slot[s].job /\ w.done = d + 1
      BY <3>1, <3>2 DEF Work
    <3>4. slot' = [slot EXCEPT ![s] = w]
      BY <2>2 DEF d
    <3> HIDE DEF w
    <3>5. Others(s) /\ slot'[s] = w
      BY <3>1, <3>3, <3>4 DEF Others
    <3> QED BY <1>1, <2>2, <3>3, <3>5 DEF id
  <2> QED BY <1>5, <2>1, <2>2
<1>7. /\ jobs' \in [JobIds -> Job]
      /\ \A j \in JobIds : jobs'[j] = jobs[j] \/ (j = id /\ jobs[j].owner = s /\ Released(j) /\ last)
      /\ last => jobs'[id].owner # s
  <2>1. CASE last /\ jobs' = Settled(id, s, "completed")
    <3>1. /\ jobs' \in [JobIds -> Job]
          /\ \A j \in JobIds : j # id \/ jobs[j].owner # s => jobs'[j] = jobs[j]
          /\ jobs[id].owner = s => /\ jobs'[id].state = "completed" /\ jobs'[id].owner = NoSlot
                                   /\ jobs'[id].outcome = "completed" /\ jobs'[id].stalls = jobs[id].stalls
      BY <1>2, <2>1, SettledFacts
    <3>2. jobs[id].owner = s => Released(id)
      BY <3>1 DEF Released
    <3>3. jobs'[id].owner # s
      BY <1>2, <3>1, QueueAssumption
    <3> QED BY <1>2, <2>1, <3>1, <3>2, <3>3
  <2>2. CASE ~last /\ UNCHANGED jobs
    BY <2>2 DEF WorkerInv, WorkerTypeOK, QueueTypeOK
  <2> QED BY <1>5, <2>1, <2>2
<1>8. SlotStep(s) /\ JobsMove(s)
  <2>1. JobsMove(s)
    BY <1>7 DEF JobsMove, id
  <2> QED BY <1>6, <1>7, <2>1 DEF SlotStep, id
<1>9. AttemptsBounded' /\ Owned'
  BY <1>1, <1>2, <1>8, StepKeepsAttempts, StepKeepsOwned DEF id
<1>10. SlotsWork'
  BY <1>2, <1>3, <1>6 DEF SlotsWork, WorkerInv, Others, OfTeam, Idle, Channels
<1>11. Told'
  <2>1. ASSUME NEW j \in JobIds, j[1] = "team"
        PROVE /\ jobs'[j].outcome # jobs[j].outcome => Heard(j)
              /\ <<"failed", j[2]>> \in added' \ added => mishaps > 0
    BY <1>1, <1>2, <1>7, <2>1 DEF Notices
  <2>2. slot'[s].at \notin {"finish", "apologize"}
    BY <1>6
  <2> QED BY <1>1, <1>2, <1>6, <2>1, <2>2, ToldKept
<1>12. ASSUME NEW j \in JobIds, j[1] \in Notices
       PROVE /\ delivered'[<<j, "in_app">>] + Cardinality(Sending(j, 1)') <= runs[j]
             /\ delivered'[<<j, "email">>] + Cardinality(Sending(j, 2)') <= runs[j]
  <2>1. /\ delivered[<<j, "in_app">>] + Cardinality(Sending(j, 1)) <= runs[j]
        /\ delivered[<<j, "email">>] + Cardinality(Sending(j, 2)) <= runs[j]
        /\ Cardinality(Sending(j, 1)) \in Nat /\ Cardinality(Sending(j, 2)) \in Nat
    BY <1>12, SendingFinite DEF WorkerInv, DeliveredBounded
  <2>2. /\ delivered[<<j, "in_app">>] \in Nat /\ delivered[<<j, "email">>] \in Nat /\ runs[j] \in Nat
        /\ <<j, "in_app">> \in Deliveries /\ <<j, "email">> \in Deliveries /\ delivered \in [Deliveries -> 0..MaxRuns]
    BY <1>12, DeliveredTypes DEF WorkerInv, WorkerTypeOK
  <2>3. CASE j # id
    <3>1. delivered'[<<j, "in_app">>] = delivered[<<j, "in_app">>] /\ delivered'[<<j, "email">>] = delivered[<<j, "email">>]
      BY <1>4, <2>2, <2>3
    <3>2. \A n : s \notin Sending(j, n) /\ s \notin Sending(j, n)'
      BY <1>1, <1>6, <2>3 DEF Sending, id
    <3>3. Cardinality(Sending(j, 1)') = Cardinality(Sending(j, 1)) /\ Cardinality(Sending(j, 2)') = Cardinality(Sending(j, 2))
      BY <1>6, <3>2, SendingSame
    <3> QED BY <2>1, <3>1, <3>3
  <2>4. CASE j = id
    <3>1. CASE d = 0
      <4>5. \/ delivered' = [delivered EXCEPT ![<<j, "in_app">>] = delivered[<<j, "in_app">>] + 1]
            \/ UNCHANGED delivered
        BY <1>3, <1>4, <2>4, <3>1
      <4>6. <<j, "email">> # <<j, "in_app">>
        OBVIOUS
      <4>1. delivered'[<<j, "in_app">>] <= delivered[<<j, "in_app">>] + 1 /\ delivered'[<<j, "email">>] = delivered[<<j, "email">>]
            /\ delivered'[<<j, "in_app">>] \in Nat
        BY <2>2, <4>5, <4>6
      <4>2. s \in Sending(j, 1) /\ s \notin Sending(j, 1)' /\ s \in Sending(j, 2)
        BY <1>1, <1>6, <2>4, <3>1 DEF Sending, id, d
      <4>3. Cardinality(Sending(j, 1)') = Cardinality(Sending(j, 1)) - 1
        BY <1>6, <4>2, SendingLost
      <4>4. \/ Cardinality(Sending(j, 2)') = Cardinality(Sending(j, 2)) - 1
            \/ Cardinality(Sending(j, 2)') = Cardinality(Sending(j, 2))
        BY <1>6, <4>2, SendingLost, SendingSame
      <4> QED BY <2>1, <2>2, <4>1, <4>3, <4>4
    <3>2. CASE d = 1
      <4>5. \/ delivered' = [delivered EXCEPT ![<<j, "email">>] = delivered[<<j, "email">>] + 1]
            \/ UNCHANGED delivered
        BY <1>3, <1>4, <2>4, <3>2
      <4>6. <<j, "email">> # <<j, "in_app">>
        OBVIOUS
      <4>1. delivered'[<<j, "email">>] <= delivered[<<j, "email">>] + 1 /\ delivered'[<<j, "in_app">>] = delivered[<<j, "in_app">>]
            /\ delivered'[<<j, "email">>] \in Nat
        BY <2>2, <4>5, <4>6
      <4>2. s \in Sending(j, 2) /\ s \notin Sending(j, 2)' /\ s \notin Sending(j, 1) /\ s \notin Sending(j, 1)'
        BY <1>1, <1>3, <1>6, <2>4, <3>2 DEF Sending, id, d
      <4>3. Cardinality(Sending(j, 2)') = Cardinality(Sending(j, 2)) - 1
        BY <1>6, <4>2, SendingLost
      <4>4. Cardinality(Sending(j, 1)') = Cardinality(Sending(j, 1))
        BY <1>6, <4>2, SendingSame
      <4> QED BY <2>1, <2>2, <4>1, <4>3, <4>4
    <3> QED BY <1>3, <3>1, <3>2
  <2> QED BY <2>3, <2>4
<1>13. DeliveredBounded'
  BY <1>1, <1>12 DEF DeliveredBounded
<1>14. delivered' \in [Deliveries -> 0..MaxRuns]
  <2>1. delivered \in [Deliveries -> 0..MaxRuns]
    BY DEF WorkerInv, WorkerTypeOK
  <2>2. CASE UNCHANGED delivered
    BY <2>1, <2>2
  <2>3. CASE delivered' = [delivered EXCEPT ![<<id, ch>>] = @ + 1]
    <3>1. ch \in {"in_app", "email"} /\ <<id, ch>> \in Deliveries /\ delivered[<<id, ch>>] \in Nat /\ delivered'[<<id, ch>>] = delivered[<<id, ch>>] + 1
      BY <1>2, <1>3, <2>1, <2>3, DeliveredTypes
    <3>2. delivered'[<<id, ch>>] <= runs[id]
      <4>6. PICK j \in JobIds : j = id /\ j[1] \in Notices
        BY <1>2
      <4>1. Cardinality(Sending(j, 1)') \in Nat /\ Cardinality(Sending(j, 2)') \in Nat
        BY SendingFinitePrime
      <4>2. runs[j] \in Nat
        BY <4>6, DeliveredTypes
      <4>3. delivered'[<<j, "in_app">>] + Cardinality(Sending(j, 1)') <= runs[j]
            /\ delivered'[<<j, "email">>] + Cardinality(Sending(j, 2)') <= runs[j]
        BY <1>12, <4>6
      <4>4. CASE ch = "in_app"
        BY <3>1, <4>1, <4>2, <4>3, <4>6, <4>4
      <4>5. CASE ch = "email"
        BY <3>1, <4>1, <4>2, <4>3, <4>6, <4>5
      <4> QED BY <3>1, <4>4, <4>5
    <3>3. delivered[<<id, ch>>] + 1 \in 0..MaxRuns
      <4>1. runs[id] <= 1 + MaxMishaps /\ runs[id] \in Nat
        BY <1>2, DeliveredTypes
      <4> QED BY <3>1, <3>2, <4>1, QueueAssumption DEF MaxRuns
    <3> QED BY <2>1, <2>3, <3>1, <3>3
  <2> QED BY <1>4, <2>2, <2>3
<1>15. WorkerTypeOK'
  BY <1>1, <1>2, <1>6, <1>7, <1>14 DEF WorkerInv, WorkerTypeOK, QueueTypeOK, MishapsGrow, Others
<1>16. Counted'
  <2>1. id[1] # "batch"
    BY <1>2 DEF Notices
  <2> QED BY <1>1, <1>7, <2>1 DEF WorkerInv, Counted, Is
<1> QED BY <1>9, <1>10, <1>11, <1>13, <1>15, <1>16 DEF WorkerInv

-----------------------------------------------------------------------------
LEMMA ChunkItemsIs ==
  ASSUME NEW id \in JobIds, id[1] = "batch"
  PROVE  LET n == Items[id[2]] IN
         /\ ChunkItems(id) \in 1..n /\ id[3] \in Nat /\ id[3] * chunkSize \in Nat /\ n \in Nat
         /\ ChunkItems(id) = IF chunkSize <= n - id[3] * chunkSize THEN chunkSize ELSE n - id[3] * chunkSize
<1> DEFINE n == Items[id[2]]
           m == id[3] * chunkSize
           a == chunkSize
           c == n - m
<1>1. id[3] \in Nat /\ a \in Nat \ {0} /\ n \in Nat /\ m < n
  <2>1. id[3] \in Nat /\ n \in Nat /\ m < n
    BY WorkerAssumption
  <2> QED BY <2>1, WorkerAssumption
<1>2. m \in Nat
  BY <1>1
<1>5. ChunkItems(id) = Min({a, c})
  BY DEF ChunkItems
<1> HIDE DEF m, n
<1>3. c \in Int /\ c > 0 /\ c <= n /\ a \in Int /\ a > 0
  BY <1>1, <1>2
<1> HIDE DEF a, c
<1>4. Min({a, c}) = IF a <= c THEN a ELSE c
  <2>1. CASE a <= c
    <3>1. \A x \in {a, c} : (\A y \in {a, c} : x <= y) => x = a
      BY <1>3, <2>1
    <3>2. \A y \in {a, c} : a <= y
      BY <1>3, <2>1
    <3> QED BY <2>1, <3>1, <3>2 DEF Min
  <2>2. CASE ~(a <= c)
    <3>1. \A x \in {a, c} : (\A y \in {a, c} : x <= y) => x = c
      BY <1>3, <2>2
    <3>2. \A y \in {a, c} : c <= y
      BY <1>3, <2>2
    <3> QED BY <2>2, <3>1, <3>2 DEF Min
  <2> QED BY <2>1, <2>2
<1>6. (IF a <= c THEN a ELSE c) \in 1..n
  BY <1>1, <1>3
<1> QED BY <1>1, <1>2, <1>4, <1>5, <1>6 DEF a, c, m, n

LEMMA ProcessItemStep ==
  ASSUME WorkerInv, NEW s \in Slots, ProcessItem(s)
  PROVE  WorkerInv'
<1> DEFINE id == slot[s].job
           done == slot[s].done
           failed == slot[s].failed
<1>1. slot[s].at = "item" /\ slot[s].at # "idle" /\ slot[s].at # "send" /\ UNCHANGED <<paused, added, runs, delivered>>
  BY DEF ProcessItem, At
<1>2. PICK kind \in {"done", "failed"} :
        /\ UNCHANGED mishaps \/ Mishap
        /\ IF Ended(Item(s, kind)) THEN Returns(s, Item(s, kind))
           ELSE slot' = [slot EXCEPT ![s] = Item(s, kind)] /\ UNCHANGED <<jobs, counts>>
  BY DEF ProcessItem
<1>3. id \in JobIds /\ MishapsGrow /\ id[1] = "batch" /\ done + failed < ChunkItems(id) /\ done \in Nat /\ failed \in Nat
  BY <1>1, <1>2, Steady, SlotTypes DEF WorkerInv, SlotsWork
<1>4. ChunkItems(id) \in Nat /\ ChunkItems(id) > 0
  BY <1>3, ChunkItemsIs
<1> DEFINE w == Item(s, kind)
<1>5. /\ w \in Work /\ w.at = "item" /\ w.job = id /\ w.done + w.failed = done + failed + 1
      /\ w.done \in Nat /\ w.failed \in Nat /\ w.done + w.failed <= ChunkItems(id)
  <2>1. slot[s] \in Work
    BY DEF WorkerInv, WorkerTypeOK
  <2>2. CASE kind = "done"
    <3>1. w = [slot[s] EXCEPT !.done = done + 1]
      BY <2>2 DEF Item
    <3>2. done + 1 \in Nat /\ done + 1 + failed = done + failed + 1
      BY <1>3
    <3>3. w \in Work /\ w.at = "item" /\ w.job = id /\ w.done = done + 1 /\ w.failed = failed
      BY <1>1, <2>1, <3>1, <3>2 DEF Work
    <3> HIDE DEF w, done, failed, id
    <3> QED BY <1>3, <1>4, <3>2, <3>3
  <2>3. CASE kind = "failed"
    <3>1. w = [slot[s] EXCEPT !.failed = failed + 1]
      BY <2>3 DEF Item
    <3>2. failed + 1 \in Nat /\ done + (failed + 1) = done + failed + 1
      BY <1>3
    <3>3. w \in Work /\ w.at = "item" /\ w.job = id /\ w.done = done /\ w.failed = failed + 1
      BY <1>1, <2>1, <3>1, <3>2 DEF Work
    <3> HIDE DEF w, done, failed, id
    <3> QED BY <1>3, <1>4, <3>2, <3>3
  <2> QED BY <2>2, <2>3
<1>6. \/ /\ w.done + w.failed = ChunkItems(id) /\ slot' = [slot EXCEPT ![s] = Idle]
         /\ jobs' = Settled(id, s, IF w.failed = 0 THEN "completed" ELSE "failed")
         /\ counts' = IF jobs[id].owner # s THEN counts
                      ELSE [counts EXCEPT ![id] = [done |-> w.done, failed |-> w.failed]]
      \/ w.done + w.failed # ChunkItems(id) /\ slot' = [slot EXCEPT ![s] = w] /\ UNCHANGED <<jobs, counts>>
  BY <1>2, <1>5 DEF Ended, Returns, Ends, Id
<1> HIDE DEF w, id, done, failed
<1>7. Others(s) /\ \/ slot'[s] = Idle /\ slot'[s].at = "idle" /\ jobs'[id].owner # s
                   \/ slot'[s] = w /\ w.done + w.failed < ChunkItems(id)
  <2>1. CASE /\ slot' = [slot EXCEPT ![s] = Idle]
             /\ jobs' = Settled(id, s, IF w.failed = 0 THEN "completed" ELSE "failed")
    <3>1. Others(s) /\ slot'[s] = Idle
      BY <2>1, RestFacts
    <3>2. jobs'[id].owner # s
      BY <1>3, <2>1, SettledFacts, QueueAssumption
    <3> QED BY <3>1, <3>2 DEF Idle
  <2>2. CASE w.done + w.failed # ChunkItems(id) /\ slot' = [slot EXCEPT ![s] = w]
    <3>1. slot \in [Slots -> Work]
      BY DEF WorkerInv, WorkerTypeOK
    <3>2. Others(s) /\ slot'[s] = w
      BY <1>5, <2>2, <3>1 DEF Others
    <3> QED BY <1>4, <1>5, <2>2, <3>2
  <2> QED BY <1>6, <2>1, <2>2
<1>8. /\ jobs' \in [JobIds -> Job]
      /\ \A j \in JobIds : jobs'[j] = jobs[j] \/ (j = id /\ jobs[j].owner = s /\ Released(j))
      /\ \A j \in JobIds : j = id /\ jobs[j].owner = s => \/ jobs'[j] = jobs[j] /\ counts' = counts
                                                          \/ /\ counts' = [counts EXCEPT ![j] = [done |-> w.done, failed |-> w.failed]]
                                                             /\ w.done + w.failed = ChunkItems(j)
      /\ jobs[id].owner # s => counts' = counts
  <2>1. CASE UNCHANGED <<jobs, counts>>
    BY <2>1 DEF WorkerInv, WorkerTypeOK, QueueTypeOK
  <2>2. CASE /\ w.done + w.failed = ChunkItems(id)
             /\ jobs' = Settled(id, s, IF w.failed = 0 THEN "completed" ELSE "failed")
             /\ counts' = IF jobs[id].owner # s THEN counts
                          ELSE [counts EXCEPT ![id] = [done |-> w.done, failed |-> w.failed]]
    <3>1. /\ jobs' \in [JobIds -> Job]
          /\ \A j \in JobIds : j # id \/ jobs[j].owner # s => jobs'[j] = jobs[j]
          /\ jobs[id].owner = s => /\ jobs'[id].state = "completed" /\ jobs'[id].owner = NoSlot
                                   /\ jobs'[id].stalls = jobs[id].stalls
      BY <1>3, <2>2, SettledFacts
    <3>2. jobs[id].owner = s => Released(id)
      BY <3>1 DEF Released
    <3> QED BY <2>2, <3>1, <3>2
  <2> QED BY <1>6, <2>1, <2>2
<1>9. SlotStep(s) /\ JobsMove(s)
  <2>1. JobsMove(s)
    BY <1>8 DEF JobsMove, id
  <2>2. SlotStep(s)
    BY <1>5, <1>7 DEF SlotStep, id
  <2> QED BY <2>1, <2>2
<1>10. AttemptsBounded' /\ Owned'
  BY <1>1, <1>3, <1>9, StepKeepsAttempts, StepKeepsOwned DEF id
<1>11. SlotsWork'
  BY <1>3, <1>5, <1>7 DEF SlotsWork, WorkerInv, Others, OfTeam, Idle
<1>12. Told'
  <2>1. ASSUME NEW j \in JobIds, j[1] = "team"
        PROVE /\ jobs'[j].outcome # jobs[j].outcome => Heard(j)
              /\ <<"failed", j[2]>> \in added' \ added => mishaps > 0
    BY <1>1, <1>3, <1>8, <2>1
  <2>2. slot'[s].at \notin {"finish", "apologize"}
    BY <1>5, <1>7
  <2> QED BY <1>1, <1>3, <1>7, <2>1, <2>2, ToldKept
<1>13. DeliveredBounded'
  <2>1. slot'[s].at # "send"
    BY <1>5, <1>7
  <2> QED BY <1>1, <1>7, <2>1, SendingKept
<1>14. counts' \in [JobIds -> [done : Nat, failed : Nat]]
  <2>1. counts \in [JobIds -> [done : Nat, failed : Nat]]
    BY DEF WorkerInv, WorkerTypeOK
  <2>2. [done |-> w.done, failed |-> w.failed] \in [done : Nat, failed : Nat]
    BY <1>5
  <2> QED BY <1>6, <2>1, <2>2
<1>15. WorkerTypeOK'
  BY <1>1, <1>3, <1>7, <1>8, <1>14 DEF WorkerInv, WorkerTypeOK, QueueTypeOK, MishapsGrow, Others
<1>16. Counted'
  <2>1. ASSUME NEW j \in JobIds, j[1] = "batch"
        PROVE /\ counts'[j].done + counts'[j].failed \in {0, ChunkItems(j)}
              /\ jobs'[j].state = "completed" => counts'[j].done + counts'[j].failed = ChunkItems(j)
    <3>1. /\ counts[j].done + counts[j].failed \in {0, ChunkItems(j)}
          /\ jobs[j].state = "completed" => counts[j].done + counts[j].failed = ChunkItems(j)
      BY <2>1 DEF WorkerInv, Counted, Is
    <3>2. counts \in [JobIds -> [done : Nat, failed : Nat]]
      BY DEF WorkerInv, WorkerTypeOK
    <3>3. CASE jobs'[j] = jobs[j] /\ counts'[j] = counts[j]
      BY <3>1, <3>3
    <3>4. CASE counts' = [counts EXCEPT ![j] = [done |-> w.done, failed |-> w.failed]] /\ w.done + w.failed = ChunkItems(j)
      BY <3>2, <3>4
    <3>5. \/ jobs'[j] = jobs[j] /\ counts'[j] = counts[j]
          \/ j = id /\ jobs[j].owner = s
      BY <1>6, <1>8, <3>2
    <3> QED BY <1>8, <3>3, <3>4, <3>5
  <2> QED BY <2>1 DEF Counted, Is
<1> QED BY <1>10, <1>11, <1>12, <1>13, <1>15, <1>16 DEF WorkerInv

LEMMA StalledFacts ==
  ASSUME WorkerInv, NEW id \in JobIds, Is(id, "active"), mishaps < MaxMishaps \/ Abandoned(id)
  PROVE  LET new == Stalled(id) IN
         /\ new \in [JobIds -> Job] /\ \A j \in JobIds : j # id => new[j] = jobs[j]
         /\ new[id].owner = NoSlot /\ new[id].stalls = jobs[id].stalls + 1 /\ new[id].made = jobs[id].made
         /\ new[id].started = jobs[id].started
         /\ new[id].state \in {"waiting", "failed"} /\ new[id].outcome = jobs[id].outcome
<1>1. jobs \in [JobIds -> Job] /\ jobs[id] \in Job /\ mishaps \in 0..MaxMishaps
  BY DEF WorkerInv, WorkerTypeOK, QueueTypeOK
<1>2. jobs[id].stalls <= mishaps /\ (Abandoned(id) => jobs[id].stalls < mishaps)
  BY DEF WorkerInv, AttemptsBounded, Is
<1> DEFINE more == jobs[id].stalls + 1
<1>3. more \in 0..MaxMishaps
  <2>1. jobs[id].stalls \in 0..MaxMishaps
    BY <1>1 DEF Job
  <2> QED BY <1>1, <1>2, <2>1, QueueAssumption
<1>4. Stalled(id) = IF jobs[id].stalls < maxStalledCount
                    THEN [jobs EXCEPT ![id] = [jobs[id] EXCEPT !.state = "waiting", !.owner = NoSlot, !.stalls = more]]
                    ELSE [jobs EXCEPT ![id] = [jobs[id] EXCEPT !.state = "failed", !.owner = NoSlot, !.stalls = more]]
  BY <1>1 DEF Stalled
<1>5. more = jobs[id].stalls + 1
  OBVIOUS
<1> HIDE DEF more
<1>6. ASSUME NEW state \in {"waiting", "failed"},
             Stalled(id) = [jobs EXCEPT ![id] = [jobs[id] EXCEPT !.state = state, !.owner = NoSlot, !.stalls = more]]
      PROVE  /\ Stalled(id) \in [JobIds -> Job] /\ \A j \in JobIds : j # id => Stalled(id)[j] = jobs[j]
             /\ Stalled(id)[id].owner = NoSlot /\ Stalled(id)[id].stalls = more /\ Stalled(id)[id].made = jobs[id].made
             /\ Stalled(id)[id].started = jobs[id].started
             /\ Stalled(id)[id].state = state /\ Stalled(id)[id].outcome = jobs[id].outcome
  <2> DEFINE new == [jobs[id] EXCEPT !.state = state, !.owner = NoSlot, !.stalls = more]
  <2>1. /\ new \in Job /\ new.owner = NoSlot /\ new.stalls = more /\ new.made = jobs[id].made
        /\ new.started = jobs[id].started
        /\ new.state = state /\ new.outcome = jobs[id].outcome
    BY <1>1, <1>3 DEF Job, States
  <2> HIDE DEF new
  <2>2. Stalled(id) = [jobs EXCEPT ![id] = new]
    BY <1>6 DEF new
  <2> QED BY <1>1, <2>1, <2>2
<1> QED BY <1>2, <1>4, <1>5, <1>6

LEMMA AbandonedWhenExpired == ASSUME WorkerInv, NEW id \in JobIds, Expire(id) PROVE Abandoned(id)
<1>1. jobs[id].owner # NoSlot /\ jobs[id].owner \in Slots \cup {NoSlot} /\ \A s \in Slots : slot[s].job # id
  BY DEF Expire, WorkerInv, Owned, Is, WorkerTypeOK, QueueTypeOK, Job
<1> QED BY <1>1 DEF Abandoned

LEMMA StalledAttempts ==
  ASSUME WorkerInv, NEW id \in JobIds, UNCHANGED <<slot, runs>>,
         mishaps' = mishaps + 1 \/ (mishaps' = mishaps /\ Abandoned(id)), jobs' \in [JobIds -> Job],
         \A j \in JobIds : j # id => jobs'[j] = jobs[j],
         jobs'[id].owner = NoSlot, jobs'[id].stalls = jobs[id].stalls + 1, jobs'[id].made = jobs[id].made
  PROVE  AttemptsBounded'
<1>0. /\ mishaps \in Nat /\ mishaps' \in Nat /\ mishaps <= mishaps'
      /\ \A j \in JobIds : runs[j] \in Nat /\ jobs[j].stalls \in Nat
  BY QueueAssumption DEF WorkerInv, WorkerTypeOK, QueueTypeOK, MaxRuns, Job
<1>1. ASSUME NEW j \in JobIds
      PROVE /\ runs'[j] <= 1 + mishaps' /\ jobs'[j].stalls <= mishaps'
            /\ Open(j)' => runs'[j] <= mishaps'
            /\ Abandoned(j)' => jobs'[j].stalls < mishaps'
  <2>1. /\ runs[j] <= 1 + mishaps /\ jobs[j].stalls <= mishaps /\ (Open(j) => runs[j] <= mishaps)
        /\ (Abandoned(j) => jobs[j].stalls < mishaps)
    BY DEF WorkerInv, AttemptsBounded
  <2>2. CASE j # id
    <3>1. (Abandoned(j)' <=> Abandoned(j)) /\ (Open(j)' <=> Open(j))
      BY <2>2 DEF Abandoned, Open
    <3> QED BY <1>0, <2>1, <2>2, <3>1
  <2>3. CASE j = id
    <3>1. ~Abandoned(j)'
      BY <2>3, QueueAssumption DEF Abandoned
    <3>2. Abandoned(j) => Open(j)
      BY DEF Open
    <3> QED BY <1>0, <2>1, <2>3, <3>1, <3>2
  <2> QED BY <2>2, <2>3
<1> QED BY <1>1 DEF AttemptsBounded

LEMMA AddJobStep ==
  ASSUME WorkerInv, NEW id \in JobIds, AddJob(id)
  PROVE  WorkerInv'
<1>1. WorkerTypeOK'
  <2>1. jobs' \in [JobIds -> Job] /\ added' \subseteq JobIds
    BY AddedFacts DEF AddJob, WorkerInv, WorkerTypeOK
  <2> QED BY <2>1 DEF WorkerInv, WorkerTypeOK, QueueTypeOK, AddJob
<1>2. AttemptsBounded'
  BY QueueAssumption, WorkerAssumption DEF WorkerInv, AttemptsBounded, Open, Abandoned, Is, NoJob, WorkerTypeOK, QueueTypeOK, Job, AddJob, Added
<1>3. Owned'
  BY QueueAssumption, WorkerAssumption DEF WorkerInv, Owned, Is, NoJob, WorkerTypeOK, QueueTypeOK, Job, AddJob, Added
<1>4. SlotsWork'
  BY QueueAssumption, WorkerAssumption DEF WorkerInv, SlotsWork, OfTeam, Is, WorkerTypeOK, QueueTypeOK, Work, AddJob, Added
<1>5. Told'
  BY QueueAssumption, WorkerAssumption DEF WorkerInv, Told, NoticesMatch, Is, NoJob, WorkerTypeOK, QueueTypeOK, Job, AddJob, Added
<1>6. DeliveredBounded'
  BY QueueAssumption, WorkerAssumption DEF WorkerInv, DeliveredBounded, Sending, Is, WorkerTypeOK, QueueTypeOK, Work, AddJob, Added
<1>7. Counted'
  BY QueueAssumption, WorkerAssumption DEF WorkerInv, Counted, Is, NoJob, WorkerTypeOK, QueueTypeOK, Job, AddJob, Added
<1> QED BY <1>1, <1>2, <1>3, <1>4, <1>5, <1>6, <1>7 DEF WorkerInv

LEMMA AddBatchStep ==
  ASSUME WorkerInv, NEW name, AddBatch(name)
  PROVE  WorkerInv'
<1>1. WorkerTypeOK'
  <2>1. jobs \in [JobIds -> Job] /\ added \subseteq JobIds /\ mishaps \in 0..MaxMishaps
    BY DEF WorkerInv, WorkerTypeOK, QueueTypeOK
  <2>2. PICK ok \in SUBSET Cut(name) :
          /\ IF ok = Cut(name) THEN UNCHANGED mishaps ELSE Mishap
          /\ added' = added \cup ok
          /\ jobs' = [j \in JobIds |-> IF j \in ok THEN Added(j)[j] ELSE jobs[j]]
    BY DEF AddBatch
  <2>3. \A j \in JobIds : Added(j)[j] \in Job
    BY AddedFacts
  <2>4. jobs' \in [JobIds -> Job] /\ added' \subseteq JobIds /\ mishaps' \in 0..MaxMishaps
    BY <2>1, <2>2, <2>3, QueueAssumption DEF Cut, Mishap
  <2> QED BY <2>4 DEF WorkerInv, WorkerTypeOK, QueueTypeOK, AddBatch
<1>2. AttemptsBounded'
  BY QueueAssumption, WorkerAssumption DEF WorkerInv, AttemptsBounded, Open, Abandoned, Is, NoJob, WorkerTypeOK, QueueTypeOK, Job, AddBatch, Added, Cut, Mishap
<1>3. Owned'
  BY QueueAssumption, WorkerAssumption DEF WorkerInv, Owned, Is, NoJob, WorkerTypeOK, QueueTypeOK, Job, AddBatch, Added, Cut, Mishap
<1>4. SlotsWork'
  BY QueueAssumption, WorkerAssumption DEF WorkerInv, SlotsWork, OfTeam, Is, WorkerTypeOK, QueueTypeOK, Work, AddBatch, Added, Cut, Mishap
<1>5. Told'
  BY QueueAssumption, WorkerAssumption DEF WorkerInv, Told, NoticesMatch, Is, NoJob, WorkerTypeOK, QueueTypeOK, Job, AddBatch, Added, Cut, Mishap
<1>6. DeliveredBounded'
  BY QueueAssumption, WorkerAssumption DEF WorkerInv, DeliveredBounded, Sending, Is, WorkerTypeOK, QueueTypeOK, Work, AddBatch, Added, Cut, Mishap
<1>7. Counted'
  BY QueueAssumption, WorkerAssumption DEF WorkerInv, Counted, Is, NoJob, WorkerTypeOK, QueueTypeOK, Job, AddBatch, Added, Cut, Mishap
<1> QED BY <1>1, <1>2, <1>3, <1>4, <1>5, <1>6, <1>7 DEF WorkerInv

LEMMA CancelJobStep ==
  ASSUME WorkerInv, NEW id \in JobIds, CancelJob(id), UNCHANGED workerOwn
  PROVE  WorkerInv'
<1>1. WorkerTypeOK'
  BY QueueAssumption, WorkerAssumption DEF WorkerInv, WorkerTypeOK, QueueTypeOK, Job, Outcomes, States, NoJob, Work, AttemptsBounded, MaxRuns, Is, CancelJob, Removed, Removable, Mishap, workerOwn
<1>2. AttemptsBounded'
  BY QueueAssumption, WorkerAssumption DEF WorkerInv, AttemptsBounded, Open, Abandoned, Is, NoJob, WorkerTypeOK, QueueTypeOK, Job, CancelJob, Removed, Removable, Mishap, workerOwn
<1>3. Owned'
  BY QueueAssumption, WorkerAssumption DEF WorkerInv, Owned, Is, NoJob, WorkerTypeOK, QueueTypeOK, Job, CancelJob, Removed, Removable, Mishap, workerOwn
<1>4. SlotsWork'
  BY QueueAssumption, WorkerAssumption DEF WorkerInv, SlotsWork, OfTeam, Is, WorkerTypeOK, QueueTypeOK, Work, CancelJob, Removed, Removable, Mishap, workerOwn
<1>5. Told'
  BY QueueAssumption, WorkerAssumption DEF WorkerInv, Told, NoticesMatch, Is, NoJob, WorkerTypeOK, QueueTypeOK, Job, CancelJob, Removed, Removable, Mishap, workerOwn
<1>6. DeliveredBounded'
  BY QueueAssumption, WorkerAssumption DEF WorkerInv, DeliveredBounded, Sending, Is, WorkerTypeOK, QueueTypeOK, Work, CancelJob, Removed, Removable, Mishap, workerOwn
<1>7. Counted'
  BY QueueAssumption, WorkerAssumption DEF WorkerInv, Counted, Is, NoJob, WorkerTypeOK, QueueTypeOK, Job, CancelJob, Removed, Removable, Mishap, workerOwn
<1> QED BY <1>1, <1>2, <1>3, <1>4, <1>5, <1>6, <1>7 DEF WorkerInv

LEMMA CancelBatchStep ==
  ASSUME WorkerInv, NEW ids, CancelBatch(ids), UNCHANGED workerOwn
  PROVE  WorkerInv'
<1>1. WorkerTypeOK'
  BY QueueAssumption, WorkerAssumption DEF WorkerInv, WorkerTypeOK, QueueTypeOK, Job, Outcomes, States, NoJob, Work, AttemptsBounded, MaxRuns, Is, CancelBatch, Removed, Removable, Mishap, workerOwn
<1>2. AttemptsBounded'
  BY QueueAssumption, WorkerAssumption DEF WorkerInv, AttemptsBounded, Open, Abandoned, Is, NoJob, WorkerTypeOK, QueueTypeOK, Job, CancelBatch, Removed, Removable, Mishap, workerOwn
<1>3. Owned'
  BY QueueAssumption, WorkerAssumption DEF WorkerInv, Owned, Is, NoJob, WorkerTypeOK, QueueTypeOK, Job, CancelBatch, Removed, Removable, Mishap, workerOwn
<1>4. SlotsWork'
  BY QueueAssumption, WorkerAssumption DEF WorkerInv, SlotsWork, OfTeam, Is, WorkerTypeOK, QueueTypeOK, Work, CancelBatch, Removed, Removable, Mishap, workerOwn
<1>5. Told'
  BY QueueAssumption, WorkerAssumption DEF WorkerInv, Told, NoticesMatch, Is, NoJob, WorkerTypeOK, QueueTypeOK, Job, CancelBatch, Removed, Removable, Mishap, workerOwn
<1>6. DeliveredBounded'
  BY QueueAssumption, WorkerAssumption DEF WorkerInv, DeliveredBounded, Sending, Is, WorkerTypeOK, QueueTypeOK, Work, CancelBatch, Removed, Removable, Mishap, workerOwn
<1>7. Counted'
  BY QueueAssumption, WorkerAssumption DEF WorkerInv, Counted, Is, NoJob, WorkerTypeOK, QueueTypeOK, Job, CancelBatch, Removed, Removable, Mishap, workerOwn
<1> QED BY <1>1, <1>2, <1>3, <1>4, <1>5, <1>6, <1>7 DEF WorkerInv

LEMMA CleanJobsStep ==
  ASSUME WorkerInv, CleanJobs, UNCHANGED workerOwn
  PROVE  WorkerInv'
<1>1. WorkerTypeOK'
  BY QueueAssumption, WorkerAssumption DEF WorkerInv, WorkerTypeOK, QueueTypeOK, Job, Outcomes, States, NoJob, Work, AttemptsBounded, MaxRuns, Is, CleanJobs, Mishap, workerOwn
<1>2. AttemptsBounded'
  BY QueueAssumption, WorkerAssumption DEF WorkerInv, AttemptsBounded, Open, Abandoned, Is, NoJob, WorkerTypeOK, QueueTypeOK, Job, CleanJobs, Mishap, workerOwn
<1>3. Owned'
  BY QueueAssumption, WorkerAssumption DEF WorkerInv, Owned, Is, NoJob, WorkerTypeOK, QueueTypeOK, Job, CleanJobs, Mishap, workerOwn
<1>4. SlotsWork'
  BY QueueAssumption, WorkerAssumption DEF WorkerInv, SlotsWork, OfTeam, Is, WorkerTypeOK, QueueTypeOK, Work, CleanJobs, Mishap, workerOwn
<1>5. Told'
  BY QueueAssumption, WorkerAssumption DEF WorkerInv, Told, NoticesMatch, Is, NoJob, WorkerTypeOK, QueueTypeOK, Job, CleanJobs, Mishap, workerOwn
<1>6. DeliveredBounded'
  BY QueueAssumption, WorkerAssumption DEF WorkerInv, DeliveredBounded, Sending, Is, WorkerTypeOK, QueueTypeOK, Work, CleanJobs, Mishap, workerOwn
<1>7. Counted'
  BY QueueAssumption, WorkerAssumption DEF WorkerInv, Counted, Is, NoJob, WorkerTypeOK, QueueTypeOK, Job, CleanJobs, Mishap, workerOwn
<1> QED BY <1>1, <1>2, <1>3, <1>4, <1>5, <1>6, <1>7 DEF WorkerInv

LEMMA PauseResumeStep ==
  ASSUME WorkerInv, PauseResume, UNCHANGED workerOwn
  PROVE  WorkerInv'
<1>1. WorkerTypeOK'
  BY QueueAssumption, WorkerAssumption DEF WorkerInv, WorkerTypeOK, QueueTypeOK, Job, Outcomes, States, NoJob, Work, AttemptsBounded, MaxRuns, Is, PauseResume, Mishap, workerOwn
<1>2. AttemptsBounded'
  BY QueueAssumption, WorkerAssumption DEF WorkerInv, AttemptsBounded, Open, Abandoned, Is, NoJob, WorkerTypeOK, QueueTypeOK, Job, PauseResume, Mishap, workerOwn
<1>3. Owned'
  BY QueueAssumption, WorkerAssumption DEF WorkerInv, Owned, Is, NoJob, WorkerTypeOK, QueueTypeOK, Job, PauseResume, Mishap, workerOwn
<1>4. SlotsWork'
  BY QueueAssumption, WorkerAssumption DEF WorkerInv, SlotsWork, OfTeam, Is, WorkerTypeOK, QueueTypeOK, Work, PauseResume, Mishap, workerOwn
<1>5. Told'
  BY QueueAssumption, WorkerAssumption DEF WorkerInv, Told, NoticesMatch, Is, NoJob, WorkerTypeOK, QueueTypeOK, Job, PauseResume, Mishap, workerOwn
<1>6. DeliveredBounded'
  BY QueueAssumption, WorkerAssumption DEF WorkerInv, DeliveredBounded, Sending, Is, WorkerTypeOK, QueueTypeOK, Work, PauseResume, Mishap, workerOwn
<1>7. Counted'
  BY QueueAssumption, WorkerAssumption DEF WorkerInv, Counted, Is, NoJob, WorkerTypeOK, QueueTypeOK, Job, PauseResume, Mishap, workerOwn
<1> QED BY <1>1, <1>2, <1>3, <1>4, <1>5, <1>6, <1>7 DEF WorkerInv

LEMMA PromoteStep ==
  ASSUME WorkerInv, NEW id \in JobIds, Promote(id), UNCHANGED workerOwn
  PROVE  WorkerInv'
<1>1. WorkerTypeOK'
  <2> DEFINE new == [jobs[id] EXCEPT !.state = "waiting"]
  <2>1. jobs \in [JobIds -> Job] /\ new \in Job
    BY DEF WorkerInv, WorkerTypeOK, QueueTypeOK, Job, States
  <2>2. jobs' = [jobs EXCEPT ![id] = new]
    BY DEF Promote
  <2> HIDE DEF new
  <2>3. jobs' \in [JobIds -> Job]
    BY <2>1, <2>2
  <2> QED BY <2>3 DEF WorkerInv, WorkerTypeOK, QueueTypeOK, Promote, workerOwn
<1>2. AttemptsBounded'
  BY QueueAssumption, WorkerAssumption DEF WorkerInv, AttemptsBounded, Open, Abandoned, Is, NoJob, WorkerTypeOK, QueueTypeOK, Job, Promote, workerOwn
<1>3. Owned'
  BY QueueAssumption, WorkerAssumption DEF WorkerInv, Owned, Is, NoJob, WorkerTypeOK, QueueTypeOK, Job, Promote, workerOwn
<1>4. SlotsWork'
  BY QueueAssumption, WorkerAssumption DEF WorkerInv, SlotsWork, OfTeam, Is, WorkerTypeOK, QueueTypeOK, Work, Promote, workerOwn
<1>5. Told'
  BY QueueAssumption, WorkerAssumption DEF WorkerInv, Told, NoticesMatch, Is, NoJob, WorkerTypeOK, QueueTypeOK, Job, Promote, workerOwn
<1>6. DeliveredBounded'
  BY QueueAssumption, WorkerAssumption DEF WorkerInv, DeliveredBounded, Sending, Is, WorkerTypeOK, QueueTypeOK, Work, Promote, workerOwn
<1>7. Counted'
  BY QueueAssumption, WorkerAssumption DEF WorkerInv, Counted, Is, NoJob, WorkerTypeOK, QueueTypeOK, Job, Promote, workerOwn
<1> QED BY <1>1, <1>2, <1>3, <1>4, <1>5, <1>6, <1>7 DEF WorkerInv

LEMMA CrashStep ==
  ASSUME WorkerInv, NEW s \in Slots, Crash(s)
  PROVE  WorkerInv'
<1>1. WorkerTypeOK'
  BY QueueAssumption, WorkerAssumption DEF WorkerInv, WorkerTypeOK, QueueTypeOK, Job, Outcomes, States, NoJob, Work, AttemptsBounded, MaxRuns, Is, Crash, At, Mishap, Idle
<1>2. AttemptsBounded'
  BY QueueAssumption, WorkerAssumption DEF WorkerInv, AttemptsBounded, Open, Abandoned, Is, NoJob, WorkerTypeOK, QueueTypeOK, Job, Crash, At, Mishap, Idle
<1>3. Owned'
  BY QueueAssumption, WorkerAssumption DEF WorkerInv, Owned, Is, NoJob, WorkerTypeOK, QueueTypeOK, Job, Crash, At, Mishap, Idle
<1>4. SlotsWork'
  BY QueueAssumption, WorkerAssumption DEF WorkerInv, SlotsWork, OfTeam, Is, WorkerTypeOK, QueueTypeOK, Work, Crash, At, Mishap, Idle
<1>5. Told'
  BY QueueAssumption, WorkerAssumption DEF WorkerInv, Told, NoticesMatch, Is, NoJob, WorkerTypeOK, QueueTypeOK, Job, Crash, At, Mishap, Idle
<1>6. DeliveredBounded'
  <2>1. Others(s) /\ slot'[s] = Idle
    BY RestFacts DEF Crash
  <2>2. ASSUME NEW j, NEW n PROVE Cardinality(Sending(j, n)') <= Cardinality(Sending(j, n))
    <3>1. s \notin Sending(j, n)'
      BY <2>1 DEF Sending, Idle
    <3>2. \/ Cardinality(Sending(j, n)') = Cardinality(Sending(j, n)) - 1
          \/ Cardinality(Sending(j, n)') = Cardinality(Sending(j, n))
      BY <2>1, <3>1, SendingLost, SendingSame
    <3> QED BY <3>2, SendingFinite
  <2>3. ASSUME NEW j \in JobIds, j[1] \in Notices
        PROVE /\ delivered[<<j, "in_app">>] + Cardinality(Sending(j, 1)') <= runs[j]
              /\ delivered[<<j, "email">>] + Cardinality(Sending(j, 2)') <= runs[j]
    <3>1. /\ delivered[<<j, "in_app">>] + Cardinality(Sending(j, 1)) <= runs[j]
          /\ delivered[<<j, "email">>] + Cardinality(Sending(j, 2)) <= runs[j]
      BY <2>3 DEF WorkerInv, DeliveredBounded
    <3>2. delivered[<<j, "in_app">>] \in Nat /\ delivered[<<j, "email">>] \in Nat /\ runs[j] \in Nat
      BY <2>3, DeliveredTypes
    <3>3. Cardinality(Sending(j, 1)') \in Nat /\ Cardinality(Sending(j, 2)') \in Nat
      BY SendingFinitePrime
    <3>4. Cardinality(Sending(j, 1)') <= Cardinality(Sending(j, 1)) /\ Cardinality(Sending(j, 2)') <= Cardinality(Sending(j, 2))
      BY <2>2
    <3>5. Cardinality(Sending(j, 1)) \in Nat /\ Cardinality(Sending(j, 2)) \in Nat
      BY SendingFinite
    <3> QED BY <3>1, <3>2, <3>3, <3>4, <3>5
  <2>4. UNCHANGED <<delivered, runs>>
    BY DEF Crash
  <2> QED BY <2>3, <2>4 DEF DeliveredBounded
<1>7. Counted'
  BY QueueAssumption, WorkerAssumption DEF WorkerInv, Counted, Is, NoJob, WorkerTypeOK, QueueTypeOK, Job, Crash, At, Mishap, Idle
<1> QED BY <1>1, <1>2, <1>3, <1>4, <1>5, <1>6, <1>7 DEF WorkerInv

LEMMA StallStep ==
  ASSUME WorkerInv, NEW id \in JobIds, Stall(id)
  PROVE  WorkerInv'
<1>1. WorkerTypeOK'
  <2>1. jobs' \in [JobIds -> Job] /\ MishapsGrow
    BY StalledFacts, QueueAssumption DEF Stall, Mishap, MishapsGrow, WorkerInv, WorkerTypeOK, QueueTypeOK
  <2> QED BY <2>1 DEF WorkerInv, WorkerTypeOK, QueueTypeOK, Stall, workerOwn, MishapsGrow
<1>2. AttemptsBounded'
  <2>1. mishaps' = mishaps + 1 /\ mishaps \in 0..MaxMishaps /\ UNCHANGED <<slot, runs>>
    BY DEF Stall, Mishap, workerOwn, WorkerInv, WorkerTypeOK, QueueTypeOK
  <2>2. /\ jobs' \in [JobIds -> Job] /\ \A j \in JobIds : j # id => jobs'[j] = jobs[j]
        /\ jobs'[id].owner = NoSlot /\ jobs'[id].stalls = jobs[id].stalls + 1 /\ jobs'[id].made = jobs[id].made
    BY StalledFacts DEF Stall, Mishap
  <2> QED BY <2>1, <2>2, StalledAttempts
<1>3. Owned'
  BY QueueAssumption, WorkerAssumption DEF WorkerInv, Owned, Is, NoJob, WorkerTypeOK, QueueTypeOK, Job, Stall, Stalled, Mishap, workerOwn
<1>4. SlotsWork'
  BY QueueAssumption, WorkerAssumption DEF WorkerInv, SlotsWork, OfTeam, Is, WorkerTypeOK, QueueTypeOK, Work, Stall, Stalled, Mishap, workerOwn
<1>5. Told'
  BY QueueAssumption, WorkerAssumption DEF WorkerInv, Told, NoticesMatch, Is, NoJob, WorkerTypeOK, QueueTypeOK, Job, Stall, Stalled, Mishap, workerOwn
<1>6. DeliveredBounded'
  BY QueueAssumption, WorkerAssumption DEF WorkerInv, DeliveredBounded, Sending, Is, WorkerTypeOK, QueueTypeOK, Work, Stall, Stalled, Mishap, workerOwn
<1>7. Counted'
  BY QueueAssumption, WorkerAssumption DEF WorkerInv, Counted, Is, NoJob, WorkerTypeOK, QueueTypeOK, Job, Stall, Stalled, Mishap, workerOwn
<1> QED BY <1>1, <1>2, <1>3, <1>4, <1>5, <1>6, <1>7 DEF WorkerInv

LEMMA ExpireStep ==
  ASSUME WorkerInv, NEW id \in JobIds, Expire(id)
  PROVE  WorkerInv'
<1>1. WorkerTypeOK'
  <2>1. jobs' \in [JobIds -> Job]
    BY StalledFacts, AbandonedWhenExpired DEF Expire
  <2> QED BY <2>1 DEF WorkerInv, WorkerTypeOK, QueueTypeOK, Expire, workerOwn
<1>2. AttemptsBounded'
  <2>1. mishaps' = mishaps /\ mishaps \in 0..MaxMishaps /\ UNCHANGED <<slot, runs>>
    BY DEF Expire, workerOwn, WorkerInv, WorkerTypeOK, QueueTypeOK
  <2>2. Abandoned(id)
    BY AbandonedWhenExpired
  <2>3. /\ jobs' \in [JobIds -> Job] /\ \A j \in JobIds : j # id => jobs'[j] = jobs[j]
        /\ jobs'[id].owner = NoSlot /\ jobs'[id].stalls = jobs[id].stalls + 1 /\ jobs'[id].made = jobs[id].made
    BY <2>2, StalledFacts DEF Expire
  <2> QED BY <2>1, <2>2, <2>3, StalledAttempts
<1>3. Owned'
  BY QueueAssumption, WorkerAssumption DEF WorkerInv, Owned, Is, NoJob, WorkerTypeOK, QueueTypeOK, Job, Expire, Stalled, workerOwn
<1>4. SlotsWork'
  BY QueueAssumption, WorkerAssumption DEF WorkerInv, SlotsWork, OfTeam, Is, WorkerTypeOK, QueueTypeOK, Work, Expire, Stalled, workerOwn
<1>5. Told'
  BY QueueAssumption, WorkerAssumption DEF WorkerInv, Told, NoticesMatch, Is, NoJob, WorkerTypeOK, QueueTypeOK, Job, Expire, Stalled, workerOwn
<1>6. DeliveredBounded'
  BY QueueAssumption, WorkerAssumption DEF WorkerInv, DeliveredBounded, Sending, Is, WorkerTypeOK, QueueTypeOK, Work, Expire, Stalled, workerOwn
<1>7. Counted'
  BY QueueAssumption, WorkerAssumption DEF WorkerInv, Counted, Is, NoJob, WorkerTypeOK, QueueTypeOK, Job, Expire, Stalled, workerOwn
<1> QED BY <1>1, <1>2, <1>3, <1>4, <1>5, <1>6, <1>7 DEF WorkerInv


LEMMA RetryJobStep ==
  ASSUME WorkerInv, NEW id \in JobIds, RetryJob(id), UNCHANGED workerOwn
  PROVE  WorkerInv'
<1> DEFINE new == [jobs[id] EXCEPT !.state = "waiting"]
<1>1. /\ jobs \in [JobIds -> Job] /\ jobs[id] \in Job /\ jobs[id].state = "failed" /\ UNCHANGED <<paused, mishaps>>
      /\ UNCHANGED <<slot, added, runs, delivered, counts>>
  BY DEF WorkerInv, WorkerTypeOK, QueueTypeOK, RetryJob, Is, workerOwn
<1>2. /\ new \in Job /\ new.state = "waiting" /\ new.made = jobs[id].made /\ new.owner = jobs[id].owner /\ new.stalls = jobs[id].stalls
      /\ new.outcome = jobs[id].outcome
  BY <1>1 DEF Job, States
<1>3. jobs' = [jobs EXCEPT ![id] = new]
  BY DEF RetryJob
<1> HIDE DEF new
<1>4. jobs' \in [JobIds -> Job] /\ jobs'[id] = new /\ \A j \in JobIds : j # id => jobs'[j] = jobs[j]
  BY <1>1, <1>2, <1>3
<1>5. WorkerTypeOK'
  BY <1>1, <1>4 DEF WorkerInv, WorkerTypeOK, QueueTypeOK
<1>6. AttemptsBounded'
  <2>1. ASSUME NEW j \in JobIds PROVE (Abandoned(j)' <=> Abandoned(j)) /\ (Open(j)' <=> Open(j))
    BY <1>1, <1>2, <1>4 DEF Abandoned, Open
  <2>2. ASSUME NEW j \in JobIds
        PROVE /\ runs'[j] <= 1 + mishaps' /\ jobs'[j].stalls <= mishaps'
              /\ Open(j)' => runs'[j] <= mishaps'
              /\ Abandoned(j)' => jobs'[j].stalls < mishaps'
    BY <1>1, <1>2, <1>4, <2>1, QueueAssumption DEF WorkerInv, AttemptsBounded
  <2> QED BY <2>2 DEF AttemptsBounded
<1>7. Owned'
  BY <1>1, <1>2, <1>4 DEF WorkerInv, Owned, Is
<1>8. SlotsWork'
  BY <1>1 DEF WorkerInv, SlotsWork
<1>9. Told'
  BY <1>1, <1>2, <1>4 DEF WorkerInv, Told, NoticesMatch
<1>10. DeliveredBounded'
  BY <1>1 DEF WorkerInv, DeliveredBounded, Sending
<1>11. Counted'
  BY <1>1, <1>2, <1>4 DEF WorkerInv, Counted, Is
<1> QED BY <1>5, <1>6, <1>7, <1>8, <1>9, <1>10, <1>11 DEF WorkerInv

LEMMA TakeStep ==
  ASSUME WorkerInv, NEW s \in Slots, NEW id \in JobIds, Take(s, id)
  PROVE  WorkerInv'
<1> DEFINE more == jobs[id].started + 1
           new == [jobs[id] EXCEPT !.state = "active", !.owner = s, !.started = more]
           w == [Idle EXCEPT !.at = FirstStep(id), !.job = id]
<1>1. /\ jobs \in [JobIds -> Job] /\ jobs[id] \in Job /\ jobs[id].state = "waiting" /\ UNCHANGED <<paused, mishaps>>
      /\ UNCHANGED <<added, delivered, counts>> /\ slot[s] = Idle /\ slot \in [Slots -> Work]
  BY DEF WorkerInv, WorkerTypeOK, QueueTypeOK, Take, Is
<1>2. /\ new \in Job /\ new.state = "active" /\ new.made = jobs[id].made /\ new.owner = s /\ new.stalls = jobs[id].stalls
      /\ new.outcome = jobs[id].outcome
  <2>1. more \in Nat
    BY <1>1 DEF Job
  <2> HIDE DEF more
  <2> QED BY <1>1, <2>1 DEF Job, States
<1>3. /\ FirstStep(id) \in {"begin", "tool", "item", "send"} /\ (FirstStep(id) = "begin" => id[1] = "team")
      /\ (FirstStep(id) = "tool" => id[1] = "tool") /\ (FirstStep(id) = "item" => id[1] = "batch")
      /\ (FirstStep(id) = "send" <=> id[1] \in Notices)
  BY QueueAssumption DEF FirstStep, Queues, Notices
<1>4. w \in Work /\ w.at = FirstStep(id) /\ w.job = id /\ w.done = 0 /\ w.failed = 0
  <2>1. Idle \in Work /\ Idle.done = 0 /\ Idle.failed = 0
    BY IdleWork DEF Idle
  <2>2. FirstStep(id) \in {"idle", "begin", "notify", "finish", "apologize", "send", "item", "tool"}
    BY <1>3
  <2> QED BY <2>1, <2>2 DEF Work
<1>5. jobs' = [jobs EXCEPT ![id] = new] /\ slot' = [slot EXCEPT ![s] = w] /\ runs' = [runs EXCEPT ![id] = runs[id] + 1]
  BY DEF Take, Taken
<1> HIDE DEF new, w
<1>6. jobs' \in [JobIds -> Job] /\ jobs'[id] = new /\ \A j \in JobIds : j # id => jobs'[j] = jobs[j]
  BY <1>1, <1>2, <1>5
<1>7. Others(s) /\ slot'[s] = w
  BY <1>1, <1>4, <1>5 DEF Others
<1>8. /\ runs \in [JobIds -> 0..MaxRuns] /\ mishaps \in 0..MaxMishaps /\ runs[id] <= mishaps
      /\ runs' \in [JobIds -> Nat] /\ runs'[id] = runs[id] + 1 /\ \A j \in JobIds : j # id => runs'[j] = runs[j]
  <2>1. runs \in [JobIds -> 0..MaxRuns] /\ mishaps \in 0..MaxMishaps
    BY DEF WorkerInv, WorkerTypeOK, QueueTypeOK
  <2>2. runs[id] <= mishaps
    BY <1>1 DEF WorkerInv, AttemptsBounded, Open
  <2> QED BY <1>5, <2>1, <2>2, QueueAssumption DEF MaxRuns
<1>9. runs' \in [JobIds -> 0..MaxRuns]
  <2>1. runs[id] + 1 \in 0..MaxRuns
    BY <1>8, QueueAssumption DEF MaxRuns
  <2> QED BY <1>5, <1>8, <2>1
<1>10. WorkerTypeOK'
  BY <1>1, <1>6, <1>7, <1>9 DEF WorkerInv, WorkerTypeOK, QueueTypeOK, Others
<1>11. AttemptsBounded'
  <2>1. ASSUME NEW j \in JobIds, Abandoned(j)' PROVE Abandoned(j) /\ j # id
    <3>1. PICK z \in Slots : jobs'[j].owner = z /\ slot'[z].job # j
      BY <2>1 DEF Abandoned
    <3>2. j # id
      BY <1>2, <1>4, <1>6, <1>7, <3>1
    <3>3. slot[z].job # j
      <4>1. CASE z = s
        BY <1>1, <4>1, NoJobIdOut DEF Idle
      <4>2. CASE z # s
        BY <1>7, <3>1, <4>2 DEF Others
      <4> QED BY <4>1, <4>2
    <3> QED BY <1>6, <3>1, <3>2, <3>3 DEF Abandoned
  <2>2. ASSUME NEW j \in JobIds
        PROVE /\ runs'[j] <= 1 + mishaps' /\ jobs'[j].stalls <= mishaps'
              /\ Open(j)' => runs'[j] <= mishaps'
              /\ Abandoned(j)' => jobs'[j].stalls < mishaps'
    <3>1. /\ runs[j] <= 1 + mishaps /\ jobs[j].stalls <= mishaps /\ (Open(j) => runs[j] <= mishaps)
          /\ (Abandoned(j) => jobs[j].stalls < mishaps)
      BY DEF WorkerInv, AttemptsBounded
    <3>2. CASE j # id
      <4>1. Open(j)' => Open(j)
        BY <1>6, <2>1, <3>2 DEF Open
      <4> QED BY <1>1, <1>6, <1>8, <2>1, <3>1, <3>2, <4>1
    <3>3. CASE j = id
      <4>1. ~Abandoned(j)'
        BY <2>1, <3>3
      <4>2. ~Open(j)'
        BY <1>2, <1>6, <3>3, <4>1 DEF Open
      <4>3. runs[j] \in Nat /\ mishaps \in Nat
        BY <1>8, QueueAssumption DEF MaxRuns
      <4> QED BY <1>1, <1>2, <1>6, <1>8, <3>1, <3>3, <4>1, <4>2, <4>3
    <3> QED BY <3>2, <3>3
  <2> QED BY <2>2 DEF AttemptsBounded
<1>12. Owned'
  <2>1. ASSUME NEW j \in JobIds PROVE jobs'[j].state = "active" <=> jobs'[j].owner # NoSlot
    BY <1>2, <1>6, QueueAssumption DEF WorkerInv, Owned, Is
  <2>2. ASSUME NEW j \in JobIds, NEW z \in Slots, jobs'[j].owner = z, mishaps' = 0 PROVE slot'[z].job = j
    <3>1. CASE j = id
      BY <1>2, <1>4, <1>6, <1>7, <2>2, <3>1
    <3>2. CASE j # id
      <4>1. slot[z].job = j
        BY <1>1, <1>6, <2>2, <3>2 DEF WorkerInv, Owned
      <4>2. z # s
        BY <1>1, <4>1, NoJobIdOut DEF Idle
      <4> QED BY <1>7, <4>1, <4>2 DEF Others
    <3> QED BY <3>1, <3>2
  <2> QED BY <2>1, <2>2 DEF Owned, Is
<1>13. SlotsWork'
  <2>1. FirstStep(id) = "send" => 1 <= Len(Channels(id))
    BY DEF Channels
  <2>2. FirstStep(id) = "item" => 0 < ChunkItems(id)
    BY <1>3, ChunkItemsIs, WorkerAssumption
  <2> QED BY <1>3, <1>4, <1>7, <2>1, <2>2 DEF SlotsWork, WorkerInv, Others, OfTeam, Idle
<1>14. Told'
  <2>1. NoticesMatch'
    BY <1>1, <1>2, <1>6 DEF WorkerInv, Told, NoticesMatch
  <2> QED BY <1>1, <1>3, <1>4, <1>7, <2>1 DEF WorkerInv, Told, Others
<1>15. DeliveredBounded'
  <2>1. \A j, n : s \notin Sending(j, n)
    BY <1>1 DEF Sending, Idle
  <2>2. ASSUME NEW j \in JobIds, NEW n \in {1, 2}, j[1] \in Notices
        PROVE  \/ Cardinality(Sending(j, n)') = Cardinality(Sending(j, n)) /\ runs'[j] = runs[j]
               \/ Cardinality(Sending(j, n)') = Cardinality(Sending(j, n)) + 1 /\ runs'[j] = runs[j] + 1
    <3>1. CASE j = id
      <4>1. s \in Sending(j, n)'
        BY <1>3, <1>4, <1>7, <2>2, <3>1 DEF Sending
      <4> QED BY <1>7, <1>8, <2>1, <3>1, <4>1, SendingMore
    <3>2. CASE j # id
      <4>1. s \notin Sending(j, n)'
        BY <1>4, <1>7, <3>2 DEF Sending
      <4> QED BY <1>7, <1>8, <2>1, <3>2, <4>1, SendingSame
    <3> QED BY <3>1, <3>2
  <2>3. ASSUME NEW j \in JobIds, j[1] \in Notices
        PROVE /\ delivered[<<j, "in_app">>] + Cardinality(Sending(j, 1)') <= runs'[j]
              /\ delivered[<<j, "email">>] + Cardinality(Sending(j, 2)') <= runs'[j]
    <3>1. /\ delivered[<<j, "in_app">>] + Cardinality(Sending(j, 1)) <= runs[j]
          /\ delivered[<<j, "email">>] + Cardinality(Sending(j, 2)) <= runs[j]
      BY <2>3 DEF WorkerInv, DeliveredBounded
    <3>2. delivered[<<j, "in_app">>] \in Nat /\ delivered[<<j, "email">>] \in Nat /\ runs[j] \in Nat
      BY <2>3, DeliveredTypes
    <3>3. Cardinality(Sending(j, 1)) \in Nat /\ Cardinality(Sending(j, 2)) \in Nat
      BY SendingFinite
    <3>4. /\ \/ Cardinality(Sending(j, 1)') = Cardinality(Sending(j, 1)) /\ runs'[j] = runs[j]
             \/ Cardinality(Sending(j, 1)') = Cardinality(Sending(j, 1)) + 1 /\ runs'[j] = runs[j] + 1
          /\ \/ Cardinality(Sending(j, 2)') = Cardinality(Sending(j, 2)) /\ runs'[j] = runs[j]
             \/ Cardinality(Sending(j, 2)') = Cardinality(Sending(j, 2)) + 1 /\ runs'[j] = runs[j] + 1
      BY <2>2, <2>3
    <3> QED BY <3>1, <3>2, <3>3, <3>4
  <2> QED BY <1>1, <2>3 DEF DeliveredBounded
<1>16. Counted'
  BY <1>1, <1>2, <1>6 DEF WorkerInv, Counted, Is
<1> QED BY <1>10, <1>11, <1>12, <1>13, <1>14, <1>15, <1>16 DEF WorkerInv

-----------------------------------------------------------------------------
(* The chunks of a batch have its items between them.                      *)

ItemsOf == [id \in JobIds |-> IF id[1] = "batch" THEN ChunkItems(id) ELSE 0]
Before(name, k) == {id \in Cut(name) : id[3] < k}

LEMMA ItemsOfType ==
  /\ ItemsOf \in [JobIds -> Nat] /\ chunkSize \in Nat /\ chunkSize >= 1
  /\ \A name : /\ Cut(name) \in SUBSET JobIds /\ IsFiniteSet(Cut(name))
               /\ Cut(name) # {} => Items[name] \in Nat
<1>1. \A id \in JobIds : id[1] = "batch" => ChunkItems(id) \in Nat  BY ChunkItemsIs, WorkerAssumption
<1>2. \A name : Cut(name) \in SUBSET JobIds  BY DEF Cut
<1>3. \A name : IsFiniteSet(Cut(name))  BY <1>2, QueueAssumption, FS_Subset
<1>4. \A name : Cut(name) # {} => Items[name] \in Nat
  <2> SUFFICES ASSUME NEW name, NEW id \in Cut(name) PROVE Items[name] \in Nat
    OBVIOUS
  <2>1. id \in JobIds /\ id[1] = "batch" /\ id[2] = name  BY DEF Cut
  <2>2. Items[id[2]] \in Nat  BY <2>1, WorkerAssumption
  <2> QED  BY <2>1, <2>2
<1> QED  BY <1>1, <1>2, <1>3, <1>4, WorkerAssumption DEF ItemsOf

LEMMA CutBefore ==
  ASSUME NEW name, Cut(name) # {}
  PROVE  \A k \in Nat : SumFunctionOnSet(ItemsOf, Before(name, k))
                          = IF k * chunkSize <= Items[name] THEN k * chunkSize ELSE Items[name]
<1> DEFINE Sum(k) == SumFunctionOnSet(ItemsOf, Before(name, k))
<1> DEFINE a == chunkSize
<1> DEFINE n == Items[name]
<1> DEFINE P == {k \in Nat : Sum(k) = IF k * a <= n THEN k * a ELSE n}
<1>1. \A id \in Cut(name) : id \in JobIds /\ id[1] = "batch" /\ id[3] \in Nat
                               /\ id = <<"batch", name, id[3]>> /\ id[3] * a < n
  <2> SUFFICES ASSUME NEW id \in Cut(name)
               PROVE  /\ id \in JobIds /\ id[1] = "batch" /\ id[3] \in Nat
                      /\ id = <<"batch", name, id[3]>> /\ id[3] * a < n
    OBVIOUS
  <2>1. id \in JobIds /\ id[1] = "batch" /\ id[2] = name  BY DEF Cut
  <2>2. id[3] \in Nat /\ id = <<"batch", id[2], id[3]>> /\ id[3] * chunkSize < Items[id[2]]
    BY <2>1, WorkerAssumption
  <2> QED  BY <2>1, <2>2
<1>2. \A k \in 0..n : k * a < n => <<"batch", name, k>> \in Cut(name)
  <2>1. PICK id \in Cut(name) : TRUE  OBVIOUS
  <2>2. id \in JobIds /\ id[1] = "batch" /\ id[2] = name  BY DEF Cut
  <2>3. \A k \in 0..Items[id[2]] : k * chunkSize < Items[id[2]] => <<"batch", id[2], k>> \in JobIds
    BY <2>2, WorkerAssumption
  <2> QED  BY <2>2, <2>3 DEF Cut
<1>3. n \in Nat /\ a \in Nat /\ a >= 1  BY ItemsOfType
<1>4. 0 \in P
  <2>1. Before(name, 0) = {}
    <3>1. \A id \in Cut(name) : ~(id[3] < 0)  BY <1>1
    <3> QED  BY <3>1 DEF Before
  <2>2. Sum(0) = 0  BY <2>1, SumEmpty
  <2>3. 0 * a = 0  BY <1>3
  <2> QED  BY <2>2, <2>3, <1>3
<1>5. ASSUME NEW k \in Nat, k \in P PROVE k + 1 \in P
  <2> DEFINE m == k * a
  <2> DEFINE id == <<"batch", name, k>>
  <2>1. m \in Nat /\ (k + 1) * a = m + a /\ k <= m  BY <1>3, SMT
  <2>2. Sum(k) = IF m <= n THEN m ELSE n  BY <1>5
  <2>3. CASE m < n
    <3>1. k \in 0..n  BY <2>1, <2>3, <1>3
    <3>2. id \in Cut(name)  BY <3>1, <2>3, <1>2
    <3>3. id \in JobIds /\ id[1] = "batch" /\ id[3] = k  BY <3>2, <1>1
    <3>4. Before(name, k + 1) = Before(name, k) \cup {id}
      <4>1. \A j \in Cut(name) : j[3] < k + 1 => j[3] < k \/ j = id
        <5>1. \A i \in Nat : i < k + 1 => i < k \/ i = k  OBVIOUS
        <5> QED  BY <5>1, <1>1
      <4>2. \A j \in Cut(name) : j[3] < k => j[3] < k + 1  BY <1>1
      <4>3. k < k + 1  OBVIOUS
      <4> QED  BY <4>1, <4>2, <4>3, <3>2, <3>3 DEF Before
    <3>5. id \notin Before(name, k)
      <4>1. ~(k < k)  OBVIOUS
      <4> QED  BY <4>1, <3>3 DEF Before
    <3>6. Before(name, k) \in SUBSET JobIds /\ IsFiniteSet(Before(name, k))
      BY ItemsOfType, FS_Subset DEF Before
    <3> HIDE DEF id
    <3>7. Sum(k + 1) = Sum(k) + ItemsOf[id]  BY <3>3, <3>4, <3>5, <3>6, ItemsOfType, SumAdd
    <3>8. ItemsOf[id] = IF a <= n - m THEN a ELSE n - m
      <4>1. id[2] = name  BY DEF id
      <4>2. ChunkItems(id) = IF chunkSize <= Items[id[2]] - id[3] * chunkSize THEN chunkSize
                             ELSE Items[id[2]] - id[3] * chunkSize
        BY <3>3, ChunkItemsIs
      <4>3. ItemsOf[id] = ChunkItems(id)  BY <3>3 DEF ItemsOf
      <4> QED  BY <3>3, <4>1, <4>2, <4>3
    <3> HIDE DEF m, a, n, Sum
    <3>9. Sum(k + 1) = IF m + a <= n THEN m + a ELSE n  BY <3>7, <3>8, <2>1, <2>2, <2>3, <1>3
    <3> QED  BY <3>9, <2>1 DEF Sum, a, n
  <2>4. CASE ~(m < n)
    <3>1. Before(name, k + 1) = Before(name, k)
      <4>1. \A j \in Cut(name) : j[3] < k + 1 => j[3] < k
        <5> SUFFICES ASSUME NEW j \in Cut(name), j[3] < k + 1, ~(j[3] < k) PROVE FALSE
          OBVIOUS
        <5>1. j[3] = k  BY <1>1
        <5> QED  BY <5>1, <1>1, <2>4
      <4>2. \A j \in Cut(name) : j[3] < k => j[3] < k + 1  BY <1>1
      <4> QED  BY <4>1, <4>2 DEF Before
    <3>2. Sum(k + 1) = Sum(k)  BY <3>1
    <3> HIDE DEF m, a, n, Sum
    <3>3. Sum(k + 1) = IF m + a <= n THEN m + a ELSE n  BY <3>2, <2>1, <2>2, <2>4, <1>3
    <3> QED  BY <3>3, <2>1 DEF Sum, a, n
  <2> QED  BY <2>3, <2>4
<1> HIDE DEF P
<1>6. Nat \subseteq P  BY <1>4, <1>5, Induct
<1> QED  BY <1>6 DEF P

LEMMA CutSum ==
  ASSUME NEW name, Cut(name) # {} PROVE SumFunctionOnSet(ItemsOf, Cut(name)) = Items[name]
<1> DEFINE n == Items[name]
<1>1. n \in Nat /\ chunkSize \in Nat /\ chunkSize >= 1  BY ItemsOfType
<1>2. Before(name, n) = Cut(name)
  <2>1. \A i \in Nat : i * chunkSize < n => i < n
    <3> SUFFICES ASSUME NEW i \in Nat, i * chunkSize < n PROVE i < n
      OBVIOUS
    <3>1. i <= i * chunkSize /\ i * chunkSize \in Nat  BY <1>1, SMT
    <3> QED  BY <3>1, <1>1
  <2>2. \A id \in Cut(name) : id[3] \in Nat /\ id[3] * chunkSize < n
    <3> SUFFICES ASSUME NEW id \in Cut(name) PROVE id[3] \in Nat /\ id[3] * chunkSize < n
      OBVIOUS
    <3>1. id \in JobIds /\ id[1] = "batch" /\ id[2] = name  BY DEF Cut
    <3>2. id[3] \in Nat /\ id[3] * chunkSize < Items[id[2]]  BY <3>1, WorkerAssumption
    <3> QED  BY <3>1, <3>2
  <2> QED  BY <2>1, <2>2 DEF Before
<1>3. n * chunkSize >= n /\ n * chunkSize \in Nat  BY <1>1, SMT
<1> QED  BY <1>1, <1>2, <1>3, CutBefore

(* A chunk that is completed counts all the items it has, and one that is *)
(* not is not asked; the chunks that are found may be those of other       *)
(* batches, but when they are the batch's own they have at most its items. *)
LEMMA ItemsFollow ==
  ASSUME WorkerInv PROVE ItemsProcessed
<1> SUFFICES ASSUME NEW name
             PROVE  /\ Progress(name, "done") + Progress(name, "failed") <= TotalItems(name)
                    /\ (\A id \in Found(name) : Is(id, "completed")) =>
                         Progress(name, "done") + Progress(name, "failed") = TotalItems(name)
                    /\ Chunks(name) = Cut(name) /\ Cut(name) # {} =>
                         /\ TotalItems(name) <= Items[name]
                         /\ Found(name) = Cut(name) => TotalItems(name) = Items[name]
  BY DEF ItemsProcessed
<1> DEFINE F == Found(name)
<1> DEFINE S == {id \in F : Is(id, "completed")}
<1> DEFINE done == [id \in JobIds |-> counts[id]["done"]]
<1> DEFINE failed == [id \in JobIds |-> counts[id]["failed"]]
<1> DEFINE both == [id \in JobIds |-> counts[id].done + counts[id].failed]
<1>1. counts \in [JobIds -> [done : Nat, failed : Nat]]
  BY DEF WorkerInv, WorkerTypeOK
<1>2. done \in [JobIds -> Nat] /\ failed \in [JobIds -> Nat] /\ both \in [JobIds -> Nat]
  <2>1. \A id \in JobIds : counts[id].done \in Nat /\ counts[id].failed \in Nat  BY <1>1
  <2> QED  BY <2>1
<1>3. \A id \in JobIds : both[id] = done[id] + failed[id]  OBVIOUS
<1>4. F \in SUBSET JobIds /\ F \in SUBSET Chunks(name) /\ S \in SUBSET F /\ S \in SUBSET JobIds
      /\ IsFiniteSet(F) /\ IsFiniteSet(S)
  <2>1. F \in SUBSET JobIds /\ F \in SUBSET Chunks(name)  BY DEF Found, Chunks
  <2>2. S \in SUBSET F  OBVIOUS
  <2> QED  BY <2>1, <2>2, QueueAssumption, FS_Subset
<1>5. /\ Progress(name, "done") = SumFunctionOnSet(done, S)
      /\ Progress(name, "failed") = SumFunctionOnSet(failed, S)
      /\ TotalItems(name) = SumFunctionOnSet(ItemsOf, F)
  BY DEF Progress, TotalItems, ItemsOf
<1>6. \A id \in S : both[id] = ItemsOf[id]
  <2> SUFFICES ASSUME NEW id \in S PROVE both[id] = ItemsOf[id]
    OBVIOUS
  <2>1. id \in JobIds /\ id[1] = "batch" /\ Is(id, "completed")  BY <1>4 DEF Found, Chunks
  <2>2. counts[id].done + counts[id].failed = ChunkItems(id)  BY <2>1 DEF WorkerInv, Counted
  <2> QED  BY <2>1, <2>2 DEF ItemsOf
<1>7. (\A id \in F : Is(id, "completed")) => S = F  OBVIOUS
<1>8. ItemsOf \in [JobIds -> Nat]  BY ItemsOfType
<1>9. Cut(name) \in SUBSET JobIds /\ IsFiniteSet(Cut(name))  BY ItemsOfType
<1> HIDE DEF done, failed, both, S, F
<1>10. SumFunctionOnSet(both, S) = SumFunctionOnSet(done, S) + SumFunctionOnSet(failed, S)
  BY <1>2, <1>3, <1>4, SumPlus
<1>11. SumFunctionOnSet(both, S) = SumFunctionOnSet(ItemsOf, S)
  <2>1. \A id \in S : both[id] <= ItemsOf[id] /\ ItemsOf[id] <= both[id]
    <3>1. \A id \in S : both[id] \in Nat  BY <1>2, <1>4
    <3> QED  BY <3>1, <1>6
  <2>2. SumFunctionOnSet(both, S) <= SumFunctionOnSet(ItemsOf, S)  BY <2>1, <1>2, <1>4, <1>8, SumLess
  <2>3. SumFunctionOnSet(ItemsOf, S) <= SumFunctionOnSet(both, S)  BY <2>1, <1>2, <1>4, <1>8, SumLess
  <2>4. SumFunctionOnSet(both, S) \in Nat /\ SumFunctionOnSet(ItemsOf, S) \in Nat
    BY <1>2, <1>4, <1>8, SumNat
  <2> QED  BY <2>2, <2>3, <2>4
<1>12. SumFunctionOnSet(ItemsOf, S) <= SumFunctionOnSet(ItemsOf, F)
  BY <1>4, <1>8, SumSubset
<1>13. ASSUME Chunks(name) = Cut(name), Cut(name) # {}
       PROVE  /\ SumFunctionOnSet(ItemsOf, F) <= Items[name]
              /\ F = Cut(name) => SumFunctionOnSet(ItemsOf, F) = Items[name]
  <2>1. SumFunctionOnSet(ItemsOf, Cut(name)) = Items[name]  BY <1>13, CutSum
  <2>2. SumFunctionOnSet(ItemsOf, F) <= SumFunctionOnSet(ItemsOf, Cut(name))
    BY <1>4, <1>8, <1>9, <1>13, SumSubset
  <2> QED  BY <2>1, <2>2
<1>14. Progress(name, "done") + Progress(name, "failed") = SumFunctionOnSet(ItemsOf, S)
  BY <1>5, <1>10, <1>11
<1> QED  BY <1>5, <1>7, <1>12, <1>13, <1>14 DEF F

-----------------------------------------------------------------------------
(* Every attempt that was begun was rejected, lost its lock, is under way  *)
(* or has completed.                                                       *)
Matches(job) ==
    job.started = job.made + job.stalls + (IF job.state \in {"active", "completed"} THEN 1 ELSE 0)
StartsCounted == \A id \in JobIds : Matches(jobs[id])

LEMMA NoJobBegun == Matches(NoJob)
  BY DEF Matches, NoJob

LEMMA JobTypes ==
  ASSUME WorkerInv, NEW id \in JobIds
  PROVE  /\ jobs[id] \in Job /\ jobs[id].started \in Nat /\ jobs[id].made \in Nat /\ jobs[id].stalls \in Nat
         /\ \A s \in Slots : jobs[id].owner = s => jobs[id].state = "active"
<1>1. jobs[id] \in Job  BY DEF WorkerInv, WorkerTypeOK, QueueTypeOK
<1>2. \A s \in Slots : jobs[id].owner = s => jobs[id].state = "active"
  BY QueueAssumption DEF WorkerInv, Owned, Is
<1> QED  BY <1>1, <1>2, QueueAssumption DEF Job

LEMMA AddedBegun ==
  ASSUME WorkerInv, StartsCounted, NEW id \in JobIds
  PROVE  \A j \in JobIds : Matches(Added(id)[j])
<1> SUFFICES ASSUME NEW j \in JobIds PROVE Matches(Added(id)[j])
  OBVIOUS
<1>1. CASE j # id \/ jobs[j].state # "absent"
  BY <1>1, AddedFacts DEF StartsCounted
<1>2. CASE j = id /\ jobs[id].state = "absent"
  BY <1>2, AddedFacts DEF Matches
<1> QED  BY <1>1, <1>2

LEMMA SettledBegun ==
  ASSUME WorkerInv, StartsCounted, NEW s \in Slots, NEW id \in JobIds, NEW result \in {"completed", "failed"}
  PROVE  \A j \in JobIds : Matches(Settled(id, s, result)[j])
<1> SUFFICES ASSUME NEW j \in JobIds PROVE Matches(Settled(id, s, result)[j])
  OBVIOUS
<1>1. CASE j # id \/ jobs[j].owner # s
  BY <1>1, SettledFacts DEF StartsCounted
<1>2. CASE j = id /\ jobs[id].owner = s
  <2>1. jobs[id].state = "active"  BY <1>2, JobTypes
  <2>2. jobs[id].started = jobs[id].made + jobs[id].stalls + 1  BY <2>1 DEF StartsCounted, Matches
  <2> DEFINE new == Settled(id, s, result)
  <2>3. /\ new[id].state = "completed" /\ new[id].stalls = jobs[id].stalls
        /\ new[id].started = jobs[id].started /\ new[id].made = jobs[id].made
    BY <1>2, SettledFacts
  <2> HIDE DEF new
  <2>4. Matches(new[id])  BY <2>2, <2>3 DEF Matches
  <2> QED  BY <1>2, <2>4 DEF new
<1> QED  BY <1>1, <1>2

LEMMA RejectedBegun ==
  ASSUME WorkerInv, StartsCounted, NEW s \in Slots, NEW id \in JobIds
  PROVE  \A j \in JobIds : Matches(Rejected(id, s)[j])
<1> SUFFICES ASSUME NEW j \in JobIds PROVE Matches(Rejected(id, s)[j])
  OBVIOUS
<1>1. CASE j # id \/ jobs[j].owner # s
  BY <1>1, RejectedFacts DEF StartsCounted
<1>2. CASE j = id /\ jobs[id].owner = s
  <2>1. jobs[id].state = "active"  BY <1>2, JobTypes
  <2>2. jobs[id].started = jobs[id].made + jobs[id].stalls + 1  BY <2>1 DEF StartsCounted, Matches
  <2> DEFINE new == Rejected(id, s)
  <2>3. /\ new[id].state \in {"delayed", "failed"} /\ new[id].stalls = jobs[id].stalls
        /\ new[id].started = jobs[id].started /\ new[id].made = jobs[id].made + 1
    BY <1>2, RejectedFacts
  <2>4. jobs[id].made \in Nat /\ jobs[id].stalls \in Nat  BY JobTypes
  <2> HIDE DEF new
  <2>5. Matches(new[id])  BY <2>2, <2>3, <2>4 DEF Matches
  <2> QED  BY <1>2, <2>5 DEF new
<1> QED  BY <1>1, <1>2

LEMMA StalledBegun ==
  ASSUME WorkerInv, StartsCounted, NEW id \in JobIds, Is(id, "active"), mishaps < MaxMishaps \/ Abandoned(id)
  PROVE  \A j \in JobIds : Matches(Stalled(id)[j])
<1> SUFFICES ASSUME NEW j \in JobIds PROVE Matches(Stalled(id)[j])
  OBVIOUS
<1>1. CASE j # id
  BY <1>1, StalledFacts DEF StartsCounted
<1>2. CASE j = id
  <2>2. jobs[id].started = jobs[id].made + jobs[id].stalls + 1  BY DEF StartsCounted, Matches, Is
  <2> DEFINE new == Stalled(id)
  <2>3. /\ new[id].state \in {"waiting", "failed"} /\ new[id].stalls = jobs[id].stalls + 1
        /\ new[id].started = jobs[id].started /\ new[id].made = jobs[id].made
    BY StalledFacts
  <2>4. jobs[id].made \in Nat /\ jobs[id].stalls \in Nat  BY JobTypes
  <2> HIDE DEF new
  <2>5. Matches(new[id])  BY <2>2, <2>3, <2>4 DEF Matches
  <2> QED  BY <1>2, <2>5 DEF new
<1> QED  BY <1>1, <1>2

LEMMA ProcessBegins ==
  ASSUME WorkerInv, StartsCounted, NEW s \in Slots, Process(s) PROVE StartsCounted'
<1>1. CASE jobs' = jobs  BY <1>1 DEF StartsCounted
<1>2. ASSUME NEW id \in JobIds, jobs' = Added(id) PROVE StartsCounted'
  BY <1>2, AddedBegun DEF StartsCounted
<1>3. ASSUME Id(s) \in JobIds, NEW result \in {"completed", "failed"}, jobs' = Settled(Id(s), s, result)
      PROVE StartsCounted'
  BY <1>3, SettledBegun DEF StartsCounted
<1>4. ASSUME slot[s].at # "idle" PROVE Id(s) \in JobIds
  BY <1>4 DEF WorkerInv, SlotsWork, Id
<1>5. CASE Begin(s)  BY <1>1, <1>5 DEF Begin
<1>6. CASE SendRunComplete(s)
  <2>1. At(s, "notify")  BY <1>6 DEF SendRunComplete
  <2>2. Id(s) \in JobIds /\ Id(s)[1] = "team"  BY <2>1 DEF At, WorkerInv, SlotsWork, OfTeam, Id
  <2>3. Notice(s, "complete") \in JobIds  BY <2>2, WorkerAssumption DEF Notice
  <2> QED  BY <1>1, <1>2, <1>6, <2>3 DEF SendRunComplete, Sends
<1>7. CASE Finish(s)
  <2>1. Id(s) \in JobIds  BY <1>4, <1>7 DEF Finish, At
  <2>2. jobs' = Settled(Id(s), s, "completed") \/ jobs' = jobs  BY <1>7 DEF Finish, Ends
  <2> QED  BY <1>1, <1>3, <2>1, <2>2
<1>8. CASE SendRunFailed(s)
  <2>1. At(s, "apologize")  BY <1>8 DEF SendRunFailed
  <2>2. Id(s) \in JobIds /\ Id(s)[1] = "team"  BY <2>1 DEF At, WorkerInv, SlotsWork, OfTeam, Id
  <2> DEFINE notice == Notice(s, "failed")
  <2>3. notice \in JobIds  BY <2>2, WorkerAssumption DEF Notice
  <2>4. \/ jobs' = [Settled(Id(s), s, "failed") EXCEPT ![notice] = Added(notice)[notice]]
        \/ jobs' = Rejected(Id(s), s)
    BY <1>8 DEF SendRunFailed
  <2> HIDE DEF notice
  <2>5. CASE jobs' = Rejected(Id(s), s)
    BY <2>2, <2>5, RejectedBegun DEF StartsCounted
  <2>6. CASE jobs' = [Settled(Id(s), s, "failed") EXCEPT ![notice] = Added(notice)[notice]]
    <3> DEFINE new == Settled(Id(s), s, "failed")
               put == Added(notice)
    <3>1. new \in [JobIds -> Job]  BY <2>2, SettledFacts
    <3>2. \A j \in JobIds : Matches(new[j])  BY <2>2, SettledBegun
    <3>3. Matches(put[notice])  BY <2>3, AddedBegun
    <3> HIDE DEF new, put
    <3>4. jobs' = [new EXCEPT ![notice] = put[notice]]  BY <2>6 DEF new, put
    <3>5. \A j \in JobIds : jobs'[j] = new[j] \/ jobs'[j] = put[notice]  BY <3>1, <3>4
    <3> QED  BY <3>2, <3>3, <3>5 DEF StartsCounted
  <2> QED  BY <2>4, <2>5, <2>6
<1>9. CASE SendNotification(s)
  <2>1. Id(s) \in JobIds  BY <1>4, <1>9 DEF SendNotification, At
  <2>2. jobs' = Settled(Id(s), s, "completed") \/ jobs' = jobs  BY <1>9 DEF SendNotification, Ends
  <2> QED  BY <1>1, <1>3, <2>1, <2>2
<1>10. CASE ProcessItem(s)
  <2>1. Id(s) \in JobIds  BY <1>4, <1>10 DEF ProcessItem, At
  <2>2. jobs' = Settled(Id(s), s, "completed") \/ jobs' = Settled(Id(s), s, "failed") \/ jobs' = jobs
    BY <1>10 DEF ProcessItem, Returns, Ends
  <2> QED  BY <1>1, <1>3, <2>1, <2>2
<1>11. CASE ExecuteTool(s)
  <2>1. Id(s) \in JobIds  BY <1>4, <1>11 DEF ExecuteTool, At
  <2>2. jobs' = Settled(Id(s), s, "completed") \/ jobs' = Settled(Id(s), s, "failed")
    BY <1>11 DEF ExecuteTool, Ends
  <2> QED  BY <1>3, <2>1, <2>2
<1> QED  BY <1>5, <1>6, <1>7, <1>8, <1>9, <1>10, <1>11 DEF Process

(* A job that only changes its place waits, and one that is taken is begun.*)
LEMMA MoveBegins ==
  ASSUME WorkerInv, StartsCounted, NEW id \in JobIds,
         NEW new \in Job, jobs' = [jobs EXCEPT ![id] = new], Matches(new)
  PROVE  StartsCounted'
<1>1. jobs \in [JobIds -> Job]  BY DEF WorkerInv, WorkerTypeOK, QueueTypeOK
<1>2. \A j \in JobIds : jobs'[j] = jobs[j] \/ jobs'[j] = new  BY <1>1
<1> QED  BY <1>2 DEF StartsCounted

LEMMA PlaceBegins ==
  ASSUME WorkerInv, StartsCounted, NEW id \in JobIds, jobs[id].state \in {"delayed", "failed"},
         jobs' = [jobs EXCEPT ![id].state = "waiting"]
  PROVE  StartsCounted'
<1> DEFINE new == [jobs[id] EXCEPT !.state = "waiting"]
<1>1. jobs[id] \in Job  BY JobTypes
<1>2. /\ new \in Job /\ new.state = "waiting" /\ new.made = jobs[id].made /\ new.stalls = jobs[id].stalls
      /\ new.started = jobs[id].started
  BY <1>1 DEF Job, States
<1>3. jobs[id].started = jobs[id].made + jobs[id].stalls + 0  BY DEF StartsCounted, Matches
<1>4. jobs' = [jobs EXCEPT ![id] = new]  OBVIOUS
<1> HIDE DEF new
<1>5. Matches(new)  BY <1>2, <1>3 DEF Matches
<1> QED  BY <1>2, <1>4, <1>5, MoveBegins

LEMMA TakeBegins ==
  ASSUME WorkerInv, StartsCounted, NEW s \in Slots, NEW id \in JobIds, Take(s, id)
  PROVE  StartsCounted'
<1> DEFINE more == jobs[id].started + 1
           new == [jobs[id] EXCEPT !.state = "active", !.owner = s, !.started = more]
<1>1. /\ jobs[id] \in Job /\ jobs[id].started \in Nat /\ jobs[id].made \in Nat /\ jobs[id].stalls \in Nat
      /\ jobs[id].state = "waiting"
  BY JobTypes DEF Take, Is
<1>6. more \in Nat
  BY <1>1
<1> HIDE DEF more
<1>2. /\ new \in Job /\ new.state = "active" /\ new.made = jobs[id].made /\ new.stalls = jobs[id].stalls
      /\ new.started = more
  BY <1>1, <1>6 DEF Job, States
<1>3. jobs[id].started = jobs[id].made + jobs[id].stalls + 0  BY <1>1 DEF StartsCounted, Matches
<1>4. jobs' = [jobs EXCEPT ![id] = new]  BY DEF Take, Taken, more
<1> HIDE DEF new
<1>5. Matches(new)  BY <1>1, <1>2, <1>3 DEF Matches, more
<1> QED  BY <1>2, <1>4, <1>5, MoveBegins

LEMMA RemovedBegins ==
  ASSUME StartsCounted, \A j \in JobIds : jobs'[j] = jobs[j] \/ jobs'[j] = NoJob
  PROVE  StartsCounted'
BY NoJobBegun DEF StartsCounted

LEMMA StartsStep ==
  ASSUME WorkerInv, StartsCounted, Submit \/ Trouble \/ Progressing PROVE StartsCounted'
<1>1. ASSUME NEW id \in JobIds, AddJob(id) PROVE StartsCounted'
  BY <1>1, AddedBegun DEF AddJob, StartsCounted
<1>2. ASSUME NEW name, AddBatch(name) PROVE StartsCounted'
  <2>1. \A j \in JobIds : jobs'[j] = jobs[j] \/ jobs'[j] = Added(j)[j]  BY <1>2 DEF AddBatch
  <2>2. \A j \in JobIds : Matches(Added(j)[j])  BY AddedBegun
  <2> QED  BY <2>1, <2>2 DEF StartsCounted
<1>3. ASSUME NEW s \in Slots, Crash(s) PROVE StartsCounted'  BY <1>3 DEF Crash, StartsCounted
<1>4. ASSUME NEW id \in JobIds, Stall(id) PROVE StartsCounted'
  BY <1>4, StalledBegun DEF Stall, Mishap, StartsCounted
<1>5. ASSUME NEW id \in JobIds, Expire(id) PROVE StartsCounted'
  BY <1>5, StalledBegun, AbandonedWhenExpired DEF Expire, StartsCounted
<1>6. ASSUME NEW id \in JobIds, CancelJob(id) PROVE StartsCounted'
  BY <1>6, RemovedBegins DEF CancelJob, Removed
<1>7. ASSUME NEW ids, CancelBatch(ids) PROVE StartsCounted'
  BY <1>7, RemovedBegins DEF CancelBatch, Removed
<1>8. ASSUME CleanJobs PROVE StartsCounted'  BY <1>8, RemovedBegins DEF CleanJobs
<1>9. ASSUME PauseResume PROVE StartsCounted'  BY <1>9 DEF PauseResume, StartsCounted
<1>10. ASSUME NEW id \in JobIds, RetryJob(id) PROVE StartsCounted'
  BY <1>10, PlaceBegins DEF RetryJob, Is
<1>11. ASSUME NEW id \in JobIds, Promote(id) PROVE StartsCounted'
  BY <1>11, PlaceBegins DEF Promote, Is
<1>12. CASE Submit  BY <1>1, <1>2, <1>12 DEF Submit
<1>13. CASE Trouble
  BY <1>3, <1>4, <1>6, <1>7, <1>8, <1>9, <1>10, <1>13 DEF Trouble
<1>14. CASE Progressing
  <2>1. ASSUME NEW id \in JobIds, Mend(id) PROVE StartsCounted'  BY <1>5, <1>11, <2>1 DEF Mend
  <2> QED  BY <1>14, <2>1, ProcessBegins, TakeBegins DEF Progressing
<1> QED  BY <1>12, <1>13, <1>14

(* The other properties of the workers are parts of their invariant.       *)
LEMMA WorkersFollow ==
  ASSUME WorkerInv, StartsCounted PROVE WorkerTypeOK /\ NoticesMatch /\ JobsRunOnce /\ ItemsProcessed
<1>1. JobsRunOnce
  <2> SUFFICES ASSUME NEW id \in JobIds
               PROVE  /\ Matches(jobs[id])
                      /\ runs[id] <= 1 + mishaps
                      /\ Is(id, "active") <=> jobs[id].owner # NoSlot
                      /\ \A s \in Slots : jobs[id].owner = s /\ mishaps = 0 => slot[s].job = id
                      /\ id[1] \in Notices => \A ch \in {"in_app", "email"} : delivered[<<id, ch>>] <= runs[id]
    BY DEF JobsRunOnce, Matches
  <2>1. id[1] \in Notices => \A ch \in {"in_app", "email"} : delivered[<<id, ch>>] <= runs[id]
    <3> SUFFICES ASSUME id[1] \in Notices
                 PROVE  delivered[<<id, "in_app">>] <= runs[id] /\ delivered[<<id, "email">>] <= runs[id]
      OBVIOUS
    <3>1. delivered[<<id, "in_app">>] + Cardinality(Sending(id, 1)) <= runs[id]
          /\ delivered[<<id, "email">>] + Cardinality(Sending(id, 2)) <= runs[id]
      BY DEF WorkerInv, DeliveredBounded
    <3>2. Cardinality(Sending(id, 1)) \in Nat /\ Cardinality(Sending(id, 2)) \in Nat  BY SendingFinite
    <3>3. delivered[<<id, "in_app">>] \in Nat /\ delivered[<<id, "email">>] \in Nat /\ runs[id] \in Nat
      BY DeliveredTypes
    <3> QED  BY <3>1, <3>2, <3>3
  <2> QED  BY <2>1 DEF WorkerInv, AttemptsBounded, Owned, StartsCounted
<1> QED  BY <1>1, ItemsFollow DEF WorkerInv, Told

LEMMA WorkersStart ==
  ASSUME WorkerInit PROVE WorkerInv
<1> USE DEF WorkerInit, QueueInit
<1>1. WorkerTypeOK
  <2>1. jobs \in [JobIds -> Job] /\ mishaps \in 0..MaxMishaps
    BY QueueAssumption DEF NoJob, Job, States, Outcomes
  <2>2. runs \in [JobIds -> 0..MaxRuns] /\ delivered \in [Deliveries -> 0..MaxRuns]
    <3>1. 0 \in 0..MaxRuns  BY QueueAssumption DEF MaxRuns
    <3> QED  BY <3>1
  <2>3. counts \in [JobIds -> [done : Nat, failed : Nat]]
    BY WorkerAssumption
  <2>4. slot \in [Slots -> Work]  BY IdleWork
  <2> QED  BY <2>1, <2>2, <2>3, <2>4 DEF WorkerTypeOK, QueueTypeOK
<1>2. \A id \in JobIds : jobs[id] = NoJob /\ runs[id] = 0  OBVIOUS
<1>3. \A s \in Slots : slot[s] = Idle  OBVIOUS
<1>4. \A id \in JobIds : ~Abandoned(id)  BY <1>2, QueueAssumption DEF Abandoned, NoJob
<1>5. AttemptsBounded  BY <1>2, <1>4, QueueAssumption DEF AttemptsBounded, NoJob
<1>6. Owned  BY <1>2, QueueAssumption DEF Owned, NoJob, Is
<1>7. SlotsWork  BY <1>3 DEF SlotsWork, Idle, OfTeam
<1>8. Told  BY <1>2, <1>3 DEF Told, NoticesMatch, NoJob, Idle
<1>9. DeliveredBounded
  <2> SUFFICES ASSUME NEW id \in JobIds, id[1] \in Notices
               PROVE  /\ delivered[<<id, "in_app">>] + Cardinality(Sending(id, 1)) <= runs[id]
                      /\ delivered[<<id, "email">>] + Cardinality(Sending(id, 2)) <= runs[id]
    BY DEF DeliveredBounded
  <2>1. Sending(id, 1) = {} /\ Sending(id, 2) = {}  BY <1>3 DEF Sending, Idle
  <2>2. delivered[<<id, "in_app">>] = 0 /\ delivered[<<id, "email">>] = 0 /\ runs[id] = 0
    BY DEF Deliveries
  <2>3. Cardinality({}) = 0  BY FS_EmptySet
  <2> QED  BY <2>1, <2>2, <2>3
<1>10. Counted  BY <1>2 DEF Counted, NoJob, Is
<1> QED  BY <1>1, <1>5, <1>6, <1>7, <1>8, <1>9, <1>10 DEF WorkerInv

LEMMA WorkersStay ==
  ASSUME WorkerInv, UNCHANGED <<queueVars, workerOwn>> PROVE WorkerInv'
<1>1. UNCHANGED <<jobs, paused, mishaps, slot, added, runs, delivered, counts>>
  BY DEF queueVars, workerOwn
<1>2. WorkerTypeOK'  BY <1>1 DEF WorkerInv, WorkerTypeOK, QueueTypeOK
<1>3. AttemptsBounded'  BY <1>1 DEF WorkerInv, AttemptsBounded, Open, Abandoned
<1>4. Owned' /\ SlotsWork'  BY <1>1 DEF WorkerInv, Owned, SlotsWork, Is
<1>5. Told'  BY <1>1 DEF WorkerInv, Told, NoticesMatch
<1>6. DeliveredBounded'
  <2>1. \A id, n : Sending(id, n)' = Sending(id, n)  BY <1>1 DEF Sending
  <2> QED  BY <1>1, <2>1 DEF WorkerInv, DeliveredBounded
<1>7. Counted'  BY <1>1 DEF WorkerInv, Counted, Is
<1> QED  BY <1>2, <1>3, <1>4, <1>5, <1>6, <1>7 DEF WorkerInv
-----------------------------------------------------------------------------
(* The manager.                                                            *)

(* The manager has as many generations as were begun, the last of them its *)
(* own; while starts are not over, the last is among them and the others   *)
(* were overtaken, and no process ends with a start half done.             *)
ManagerInv ==
    /\ ManagerTypeOK
    /\ mgr.monitor <= mgr.gen /\ (mgr.running => mgr.gen > 0)
    /\ live \subseteq 1..mgr.gen /\ watching \subseteq 1..mgr.gen /\ starting \subseteq 1..mgr.gen
    /\ overtaken \subseteq 1..mgr.gen /\ mgr.gen \notin overtaken
    /\ exited => starting = {}
    /\ Stopping => mgr.running
    /\ ~startFailed => starting \subseteq overtaken \cup {mgr.gen}
    /\ ~startFailed /\ starting # {} => mgr.gen \in starting
    /\ WorkersOwned

Mgr == [gen : 0..MaxStarts, monitor : 0..MaxStarts, running : BOOLEAN, handlers : Nat]

LEMMA ManagerStarts ==
  ASSUME ManagerInit PROVE ManagerInv
<1>1. mgr \in Mgr
  BY ManagerAssumption DEF ManagerInit, ManagerAssumption, Mgr
<1>2. ManagerTypeOK  BY <1>1 DEF ManagerInit, ManagerTypeOK, Mgr
<1>3. WorkersOwned  BY DEF ManagerInit, WorkersOwned
<1>4. ~Stopping  BY DEF ManagerInit, Stopping
<1> QED  BY <1>2, <1>3, <1>4 DEF ManagerInit, ManagerInv

LEMMA StartBeginsStep ==
  ASSUME ManagerInv, ~exited, ~mgr.running, StartBegins, UNCHANGED exited,
         call' \in [Callers -> {"idle", "stop", "restart", "pause", "exit"}], ~Stopping'
  PROVE  ManagerInv'
<1> DEFINE g == mgr.gen + 1
<1>1. /\ mgr \in Mgr /\ mgr.monitor <= mgr.gen
      /\ live \subseteq 1..mgr.gen /\ watching \subseteq 1..mgr.gen /\ starting \subseteq 1..mgr.gen
      /\ overtaken \subseteq 1..mgr.gen /\ mgr.gen \notin overtaken
  BY DEF ManagerInv, ManagerTypeOK, Mgr
<1>2. mgr.gen < MaxStarts /\ live' = live \cup {g} /\ mgr' = [mgr EXCEPT !.gen = g] /\ watching' = watching
  BY DEF StartBegins
<1>3. mgr.gen \in Nat /\ MaxStarts \in Nat /\ mgr.monitor \in Nat
  BY <1>1, ManagerAssumption DEF ManagerAssumption, Mgr
<1>4. g \in 1..MaxStarts /\ g \in 0..MaxStarts /\ 1..mgr.gen \subseteq 1..g /\ g \in 1..g
      /\ 1..g \subseteq 1..MaxStarts /\ g \notin 1..mgr.gen /\ mgr.monitor <= g /\ g > 0
  <2>1. mgr.gen \in Nat /\ mgr.gen + 1 \in 1..MaxStarts /\ mgr.gen + 1 \in 0..MaxStarts
        /\ mgr.monitor <= mgr.gen + 1 /\ mgr.gen + 1 > 0 /\ mgr.gen + 1 \in 1..(mgr.gen + 1)
        /\ mgr.gen + 1 \notin 1..mgr.gen
    BY <1>1, <1>2, <1>3
  <2>2. 1..mgr.gen \subseteq 1..(mgr.gen + 1) /\ 1..(mgr.gen + 1) \subseteq 1..MaxStarts
    BY <1>2, <1>3
  <2> QED BY <2>1, <2>2
<1> HIDE DEF g
<1>5. /\ mgr' \in Mgr /\ mgr'.gen = g /\ mgr'.monitor = mgr.monitor /\ mgr'.running = mgr.running
  BY <1>1, <1>2, <1>4 DEF Mgr
<1>6. CASE starting' = starting \cup {g} /\ overtaken' = overtaken \cup starting /\ UNCHANGED startFailed
  <2>1. /\ live' \subseteq 1..g /\ watching' \subseteq 1..g /\ starting' \subseteq 1..g
        /\ overtaken' \subseteq 1..g /\ g \notin overtaken' /\ g \in starting'
    BY <1>1, <1>2, <1>4, <1>6
  <2>2. ManagerTypeOK'
    BY <1>4, <1>5, <1>6, <2>1 DEF ManagerTypeOK, ManagerInv, Gens, Mgr
  <2>3. ASSUME ~startFailed PROVE live' = overtaken' \cup {g} /\ watching' = live' \ starting'
    <3>1. /\ live = overtaken \cup (IF starting # {} THEN {mgr.gen} ELSE {})
          /\ watching = live \ starting /\ starting \subseteq overtaken \cup {mgr.gen}
          /\ starting # {} => mgr.gen \in starting
      BY <2>3 DEF ManagerInv, WorkersOwned
    <3>2. live \cup {g} = overtaken \cup starting \cup {g}
      BY <3>1
    <3>3. g \notin live
      BY <1>1, <1>4
    <3> QED BY <1>2, <1>6, <3>1, <3>2, <3>3
  <2>4. WorkersOwned'
    BY <1>5, <1>6, <2>1, <2>3 DEF WorkersOwned
  <2> QED BY <1>4, <1>5, <1>6, <2>1, <2>2, <2>4 DEF ManagerInv
<1>7. CASE startFailed' = TRUE /\ UNCHANGED <<starting, overtaken>>
  <2>1. /\ live' \subseteq 1..g /\ watching' \subseteq 1..g /\ starting' \subseteq 1..g
        /\ overtaken' \subseteq 1..g /\ g \notin overtaken'
    BY <1>1, <1>2, <1>4, <1>7
  <2>2. ManagerTypeOK'
    BY <1>4, <1>5, <1>7, <2>1 DEF ManagerTypeOK, ManagerInv, Gens, Mgr
  <2>3. WorkersOwned'
    BY <1>7 DEF WorkersOwned
  <2>4. startFailed' /\ exited' = exited /\ ~exited /\ ~Stopping'
    BY <1>7
  <2>5. /\ live' \subseteq 1..mgr'.gen /\ watching' \subseteq 1..mgr'.gen /\ starting' \subseteq 1..mgr'.gen
        /\ overtaken' \subseteq 1..mgr'.gen /\ mgr'.gen \notin overtaken'
        /\ mgr'.monitor <= mgr'.gen /\ mgr'.gen > 0
    BY <1>4, <1>5, <2>1
  <2>6. (exited' => starting' = {}) /\ (Stopping' => mgr'.running)
    BY <2>4
  <2>7. /\ ~startFailed' => starting' \subseteq overtaken' \cup {mgr'.gen}
        /\ ~startFailed' /\ starting' # {} => mgr'.gen \in starting'
    BY <2>4
  <2>8. mgr'.running => mgr'.gen > 0
    BY <2>5
  <2>9. mgr'.monitor <= mgr'.gen
    BY <2>5
  <2> QED BY <2>2, <2>3, <2>5, <2>6, <2>7, <2>8, <2>9 DEF ManagerInv
<1> QED BY <1>6, <1>7 DEF StartBegins, g

LEMMA StartStep ==
  ASSUME ManagerInv, Start PROVE ManagerInv'
<1>1. ~exited /\ ~mgr.running /\ StartBegins /\ UNCHANGED <<call, exited>>  BY DEF Start
<1>2. ~Stopping'  BY <1>1 DEF ManagerInv, Stopping
<1> QED  BY <1>1, <1>2, StartBeginsStep DEF ManagerInv, ManagerTypeOK

(* The start that waits longest is the manager's own only when it is the   *)
(* last of them.                                                           *)
LEMMA StartedStep ==
  ASSUME ManagerInv, NEW g \in Gens, Started(g) PROVE ManagerInv'
<1>1. /\ ~exited /\ g \in starting /\ \A h \in starting : g <= h
      /\ starting' = starting \ {g} /\ watching' = watching \cup {g}
      /\ mgr' = [mgr EXCEPT !.monitor = g, !.running = TRUE, !.handlers = @ + 1]
      /\ UNCHANGED <<live, overtaken, call, exited, startFailed>>
  BY DEF Started
<1>2. /\ mgr \in Mgr /\ live \subseteq 1..mgr.gen /\ watching \subseteq 1..mgr.gen
      /\ starting \subseteq 1..mgr.gen /\ overtaken \subseteq 1..mgr.gen /\ mgr.gen \notin overtaken
      /\ mgr.gen \in 0..MaxStarts /\ MaxStarts \in Nat
  BY ManagerAssumption DEF ManagerInv, ManagerTypeOK, Mgr, ManagerAssumption
<1>3. g \in 1..mgr.gen /\ g \in 0..MaxStarts /\ mgr.gen > 0
  BY <1>1, <1>2
<1>4. mgr' \in Mgr /\ mgr'.gen = mgr.gen /\ mgr'.monitor = g /\ mgr'.running = TRUE
  <2>1. mgr = [gen |-> mgr.gen, monitor |-> mgr.monitor, running |-> mgr.running, handlers |-> mgr.handlers]
        /\ mgr.handlers + 1 \in Nat /\ g \in 0..MaxStarts
    BY <1>2, <1>3 DEF Mgr
  <2>2. mgr' = [gen |-> mgr.gen, monitor |-> g, running |-> TRUE, handlers |-> mgr.handlers + 1]
    BY <1>1, <2>1
  <2> QED BY <1>2, <2>1, <2>2 DEF Mgr
<1>5. ManagerTypeOK'
  BY <1>1, <1>3, <1>4 DEF ManagerTypeOK, ManagerInv, Mgr
<1>6. ASSUME ~startFailed, starting' # {} PROVE mgr.gen \in starting'
  <2>1. PICK h \in starting : h # g
    BY <1>1, <1>6
  <2>2. mgr.gen \in starting /\ h \in 1..mgr.gen /\ g <= h
    BY <1>1, <1>2, <1>6, <2>1 DEF ManagerInv
  <2>3. g # mgr.gen
    BY <1>2, <1>3, <2>1, <2>2
  <2> QED BY <1>1, <2>2, <2>3
<1>7. ASSUME ~startFailed, starting' = {} PROVE g = mgr.gen
  <2>1. mgr.gen \in starting
    BY <1>1, <1>7 DEF ManagerInv
  <2> QED BY <1>1, <1>7, <2>1
<1>8. ASSUME ~startFailed PROVE live' = overtaken' \cup {mgr.gen} /\ watching' = live' \ starting'
  <2>1. /\ live = overtaken \cup {mgr.gen} /\ watching = live \ starting
        /\ starting \subseteq overtaken \cup {mgr.gen}
    BY <1>1, <1>8 DEF ManagerInv, WorkersOwned
  <2> QED BY <1>1, <2>1
<1>9. WorkersOwned'
  BY <1>1, <1>4, <1>7, <1>8 DEF WorkersOwned
<1>10. ~startFailed => starting' \subseteq overtaken' \cup {mgr.gen}
  BY <1>1 DEF ManagerInv
<1>11. /\ live' \subseteq 1..mgr.gen /\ watching' \subseteq 1..mgr.gen /\ starting' \subseteq 1..mgr.gen
       /\ overtaken' \subseteq 1..mgr.gen /\ mgr.gen \notin overtaken' /\ g <= mgr.gen
  BY <1>1, <1>2, <1>3
<1> QED BY <1>1, <1>3, <1>4, <1>5, <1>6, <1>9, <1>10, <1>11 DEF ManagerInv

LEMMA RestartStartStep ==
  ASSUME ManagerInv, NEW c \in Callers, RestartStart(c) PROVE ManagerInv'
<1>1. /\ ~exited /\ call' = [call EXCEPT ![c] = "idle"] /\ UNCHANGED exited
      /\ IF mgr.running THEN UNCHANGED <<mgr, live, starting, watching, overtaken, startFailed>>
         ELSE StartBegins
  BY DEF RestartStart, NextTurn
<1>2. call' \in [Callers -> {"idle", "stop", "restart", "pause", "exit"}]
  BY <1>1 DEF ManagerInv, ManagerTypeOK
<1>3. \A d \in Callers : call'[d] = call[d] \/ call'[d] = "idle"
  BY <1>1 DEF ManagerInv, ManagerTypeOK
<1>4. Stopping' => Stopping
  BY <1>3 DEF Stopping
<1>5. CASE mgr.running
  <2>1. UNCHANGED <<mgr, live, starting, watching, overtaken, startFailed, exited>>
    BY <1>1, <1>5
  <2> QED BY <1>2, <1>4, <2>1 DEF ManagerInv, ManagerTypeOK, WorkersOwned
<1>6. CASE ~mgr.running
  BY <1>1, <1>2, <1>4, <1>6, StartBeginsStep DEF ManagerInv
<1> QED  BY <1>5, <1>6

LEMMA CallsStep ==
  ASSUME ManagerInv, NEW c \in Callers, StopCall(c) \/ RestartCall(c) \/ Signal(c)
  PROVE  ManagerInv'
<1> USE DEF ManagerInv, ManagerTypeOK, WorkersOwned, Stopping
<1>1. CASE StopCall(c)  BY <1>1 DEF StopCall
<1>2. CASE RestartCall(c)  BY <1>2 DEF RestartCall
<1>3. CASE Signal(c)  BY <1>3 DEF Signal, Exits, NextTurn
<1> QED  BY <1>1, <1>2, <1>3

(* The workers that close are those of the generation that is running; the *)
(* overtaken ones go on.                                                   *)
LEMMA WorkersClosedStep ==
  ASSUME ManagerInv, WorkersClosed PROVE ManagerInv'
<1>1. call' = [c \in Callers |-> Resume(c)]  BY DEF WorkersClosed
<1>2. ASSUME NEW c \in Callers PROVE Resume(c) \in {"idle", "stop", "restart", "pause", "exit"}
  BY DEF Resume, ManagerInv, ManagerTypeOK
<1>3. call' \in [Callers -> {"idle", "stop", "restart", "pause", "exit"}]  BY <1>1, <1>2
<1>4. /\ mgr' = [mgr EXCEPT !.running = FALSE] /\ UNCHANGED <<starting, overtaken, startFailed>>
      /\ ~exited /\ starting = {} /\ mgr.running
  BY DEF WorkersClosed, NextTurn, ManagerInv
<1>5. mgr \in Mgr
  BY DEF ManagerInv, ManagerTypeOK, Mgr
<1>6. mgr' \in Mgr /\ mgr'.gen = mgr.gen /\ mgr'.monitor = mgr.monitor /\ mgr'.running = FALSE
  BY <1>4, <1>5 DEF Mgr
<1>9. ~Stopping'
  BY <1>1 DEF Stopping, Resume, ManagerInv, ManagerTypeOK
<1>7. CASE Exits
  <2>1. ManagerTypeOK'
    BY <1>3, <1>4, <1>6, <1>7 DEF ManagerInv, ManagerTypeOK, Exits, Mgr
  <2> QED BY <1>4, <1>6, <1>7, <1>9, <2>1 DEF ManagerInv, WorkersOwned, Exits
<1>8. CASE live' = live \ {mgr.gen} /\ watching' = watching \ {mgr.monitor} /\ UNCHANGED exited
  <2>1. ManagerTypeOK'
    BY <1>3, <1>4, <1>6, <1>8 DEF ManagerInv, ManagerTypeOK, Mgr
  <2>2. ASSUME ~startFailed PROVE live' = overtaken /\ watching' = live'
    <3>1. live = overtaken \cup {mgr.gen} /\ watching = live /\ mgr.monitor = mgr.gen
          /\ mgr.gen \notin overtaken
      BY <1>4, <2>2 DEF ManagerInv, WorkersOwned
    <3> QED BY <1>8, <3>1
  <2>3. WorkersOwned'
    BY <1>4, <1>6, <1>8, <2>2 DEF WorkersOwned
  <2> QED BY <1>4, <1>6, <1>8, <1>9, <2>1, <2>3 DEF ManagerInv
<1> QED  BY <1>7, <1>8 DEF WorkersClosed

LEMMA CloseFailsStep ==
  ASSUME ManagerInv, CloseFails PROVE ManagerInv'
<1>1. call' \in [Callers -> {"idle", "stop", "restart", "pause", "exit"}]  BY DEF CloseFails
<1>2. startFailed' = TRUE /\ UNCHANGED <<mgr, starting, overtaken>> /\ starting = {}
  BY DEF CloseFails, NextTurn
<1>3. Exits \/ UNCHANGED <<live, watching, exited>>  BY DEF CloseFails
<1>4. ~Stopping'  BY DEF CloseFails, Stopping
<1> QED  BY <1>1, <1>2, <1>3, <1>4 DEF ManagerInv, ManagerTypeOK, WorkersOwned, Exits

LEMMA ManagerStays ==
  ASSUME ManagerInv, UNCHANGED managerVars PROVE ManagerInv'
BY DEF ManagerInv, ManagerTypeOK, WorkersOwned, Stopping, managerVars

LEMMA ManagerStep ==
  ASSUME ManagerInv, ManagerNext PROVE ManagerInv'
BY StartStep, StartedStep, WorkersClosedStep, CloseFailsStep, CallsStep, RestartStartStep DEF ManagerNext
-----------------------------------------------------------------------------
(* Filtering a list of children.                                           *)

IsKept(g, s, x, n) ==
    g = [m \in 0..n |-> IF m = 0 THEN <<>>
                        ELSE IF s[m] = x THEN g[m - 1] ELSE Append(g[m - 1], s[m])]

LEMMA WithoutIs == ASSUME NEW s, NEW x
  PROVE Without(s, x) = (CHOOSE g : IsKept(g, s, x, Len(s)))[Len(s)]
BY DEF Without, IsKept

LEMMA KeptExists ==
  ASSUME NEW s, NEW x PROVE \A n \in Nat : \E g : IsKept(g, s, x, n)
<1> DEFINE P == {n \in Nat : \E g : IsKept(g, s, x, n)}
<1>1. 0 \in P
  <2>1. IsKept([m \in 0..0 |-> <<>>], s, x, 0)  BY DEF IsKept
  <2> QED  BY <2>1
<1>2. ASSUME NEW n \in Nat, n \in P PROVE n + 1 \in P
  <2>1. PICK g : IsKept(g, s, x, n)  BY <1>2
  <2> DEFINE next == IF s[n + 1] = x THEN g[n] ELSE Append(g[n], s[n + 1])
  <2> DEFINE h == [m \in 0..(n + 1) |-> IF m = n + 1 THEN next ELSE g[m]]
  <2>2. ASSUME NEW m \in 0..(n + 1)
        PROVE h[m] = IF m = 0 THEN <<>> ELSE IF s[m] = x THEN h[m - 1] ELSE Append(h[m - 1], s[m])
    <3>1. CASE m = n + 1
      <4>1. h[m] = next /\ h[m - 1] = g[n] /\ m # 0  BY <3>1
      <4> QED  BY <4>1, <3>1
    <3>2. CASE m = 0
      <4>1. h[m] = g[0] /\ g[0] = <<>>  BY <3>2, <2>1 DEF IsKept
      <4> QED  BY <4>1, <3>2
    <3>3. CASE m # n + 1 /\ m # 0
      <4>1. m \in 0..n /\ m - 1 \in 0..(n + 1) /\ m - 1 # n + 1  BY <3>3
      <4>2. h[m] = g[m] /\ h[m - 1] = g[m - 1]  BY <4>1, <3>3
      <4>3. g[m] = IF m = 0 THEN <<>> ELSE IF s[m] = x THEN g[m - 1] ELSE Append(g[m - 1], s[m])
        BY <4>1, <2>1 DEF IsKept
      <4> QED  BY <4>2, <4>3
    <3> QED  BY <3>1, <3>2, <3>3
  <2>3. h = [m \in 0..(n + 1) |-> h[m]]  OBVIOUS
  <2> HIDE DEF h
  <2>4. IsKept(h, s, x, n + 1)  BY <2>2, <2>3 DEF IsKept
  <2> QED  BY <2>4
<1> HIDE DEF P
<1>3. Nat \subseteq P  BY <1>1, <1>2, Induct
<1> QED  BY <1>3 DEF P

(* What is kept of the first n members of s: all of them but x.            *)
KeptOf(w, s, x, n, T) ==
    /\ w \in Seq(T) /\ Len(w) <= n
    /\ \A j \in 1..Len(w) : w[j] # x /\ \E i \in 1..n : s[i] = w[j]
    /\ \A i \in 1..n : s[i] # x => \E j \in 1..Len(w) : w[j] = s[i]
    /\ (\A i \in 1..n : \A j \in 1..n : s[i] = s[j] => i = j) =>
         \A i \in 1..Len(w) : \A j \in 1..Len(w) : w[i] = w[j] => i = j

LEMMA KeptStep ==
  ASSUME NEW T, NEW s \in Seq(T), NEW x, NEW n \in Nat, n + 1 <= Len(s), NEW w, KeptOf(w, s, x, n, T)
  PROVE  KeptOf(IF s[n + 1] = x THEN w ELSE Append(w, s[n + 1]), s, x, n + 1, T)
<1> DEFINE e == s[n + 1]
<1>1. e \in T /\ Len(s) \in Nat  OBVIOUS
<1>2. w \in Seq(T) /\ Len(w) \in Nat /\ Len(w) <= n  BY DEF KeptOf
<1>3. /\ \A j \in 1..Len(w) : w[j] # x /\ \E i \in 1..n : s[i] = w[j]
      /\ \A i \in 1..n : s[i] # x => \E j \in 1..Len(w) : w[j] = s[i]
  BY DEF KeptOf
<1>4. (\A i \in 1..n : \A j \in 1..n : s[i] = s[j] => i = j) =>
         \A i \in 1..Len(w) : \A j \in 1..Len(w) : w[i] = w[j] => i = j
  BY DEF KeptOf
<1>5. \A i \in 1..(n + 1) : i \in 1..n \/ i = n + 1  OBVIOUS
<1>6. \A i \in 1..n : i \in 1..(n + 1)  OBVIOUS
<1>7. n + 1 \in 1..(n + 1)  OBVIOUS
<1>8. CASE e = x
  <2>1. KeptOf(w, s, x, n + 1, T)
    <3>1. Len(w) <= n + 1  BY <1>2
    <3>2. \A j \in 1..Len(w) : w[j] # x /\ \E i \in 1..(n + 1) : s[i] = w[j]  BY <1>3, <1>6
    <3>3. \A i \in 1..(n + 1) : s[i] # x => \E j \in 1..Len(w) : w[j] = s[i]  BY <1>3, <1>5, <1>8
    <3>4. (\A i \in 1..(n + 1) : \A j \in 1..(n + 1) : s[i] = s[j] => i = j) =>
         \A i \in 1..Len(w) : \A j \in 1..Len(w) : w[i] = w[j] => i = j
      BY <1>4, <1>6
    <3> QED  BY <1>2, <3>1, <3>2, <3>3, <3>4 DEF KeptOf
  <2> QED  BY <2>1, <1>8
<1>9. CASE e # x
  <2> DEFINE v == Append(w, e)
  <2>1. v \in Seq(T) /\ Len(v) = Len(w) + 1  BY <1>1, <1>2
  <2>2. \A j \in 1..Len(w) : v[j] = w[j]  BY <1>1, <1>2
  <2>3. v[Len(w) + 1] = e  BY <1>1, <1>2
  <2>4. \A j \in 1..Len(v) : j \in 1..Len(w) \/ j = Len(w) + 1  BY <2>1, <1>2
  <2>5. \A j \in 1..Len(w) : j \in 1..Len(v) /\ j # Len(w) + 1  BY <2>1, <1>2
  <2>6. Len(w) + 1 \in 1..Len(v) /\ Len(v) <= n + 1  BY <2>1, <1>2
  <2>7. \A i \in 1..n : i # n + 1  OBVIOUS
  <2> HIDE DEF v, e
  <2>8. \A j \in 1..Len(v) : v[j] # x /\ \E i \in 1..(n + 1) : s[i] = v[j]
    <3> SUFFICES ASSUME NEW j \in 1..Len(v) PROVE v[j] # x /\ \E i \in 1..(n + 1) : s[i] = v[j]
      OBVIOUS
    <3>1. CASE j \in 1..Len(w)  BY <3>1, <2>2, <1>3, <1>6
    <3>2. CASE j = Len(w) + 1  BY <3>2, <2>3, <1>9, <1>7 DEF e
    <3> QED  BY <3>1, <3>2, <2>4
  <2>9. \A i \in 1..(n + 1) : s[i] # x => \E j \in 1..Len(v) : v[j] = s[i]
    <3> SUFFICES ASSUME NEW i \in 1..(n + 1), s[i] # x PROVE \E j \in 1..Len(v) : v[j] = s[i]
      OBVIOUS
    <3>1. CASE i \in 1..n  BY <3>1, <1>3, <2>2, <2>5
    <3>2. CASE i = n + 1  BY <3>2, <2>3, <2>6 DEF e
    <3> QED  BY <3>1, <3>2, <1>5
  <2>10. ASSUME \A i \in 1..(n + 1) : \A j \in 1..(n + 1) : s[i] = s[j] => i = j,
                NEW i \in 1..Len(v), NEW j \in 1..Len(v), v[i] = v[j]
         PROVE  i = j
    <3>1. \A a \in 1..Len(w) : \A b \in 1..Len(w) : w[a] = w[b] => a = b  BY <2>10, <1>4, <1>6
    <3>2. \A a \in 1..Len(w) : w[a] # e  BY <2>10, <1>3, <1>6, <1>7, <2>7 DEF e
    <3>3. CASE i \in 1..Len(w) /\ j \in 1..Len(w)  BY <3>1, <3>3, <2>10, <2>2
    <3>4. CASE i \in 1..Len(w) /\ j = Len(w) + 1  BY <3>2, <3>4, <2>10, <2>2, <2>3
    <3>5. CASE i = Len(w) + 1 /\ j \in 1..Len(w)  BY <3>2, <3>5, <2>10, <2>2, <2>3
    <3> QED  BY <3>3, <3>4, <3>5, <2>4
  <2>11. KeptOf(v, s, x, n + 1, T)  BY <2>1, <2>6, <2>8, <2>9, <2>10 DEF KeptOf
  <2> QED  BY <2>11, <1>9 DEF v, e
<1> QED  BY <1>8, <1>9

(* Without leaves out the member x and nothing else.                       *)
LEMMA WithoutKeeps ==
  ASSUME NEW T, NEW s \in Seq(T), NEW x
  PROVE  KeptOf(Without(s, x), s, x, Len(s), T)
<1> DEFINE N == Len(s)
<1> DEFINE g == CHOOSE h : IsKept(h, s, x, N)
<1>1. N \in Nat  OBVIOUS
<1>2. IsKept(g, s, x, N)  BY <1>1, KeptExists
<1>3. Without(s, x) = g[N]  BY WithoutIs
<1> HIDE DEF g
<1> DEFINE P == {n \in Nat : n <= N => KeptOf(g[n], s, x, n, T)}
<1>4. 0 \in P
  <2>1. g[0] = <<>>  BY <1>1, <1>2 DEF IsKept
  <2>2. KeptOf(<<>>, s, x, 0, T)  BY DEF KeptOf
  <2> QED  BY <2>1, <2>2
<1>5. ASSUME NEW n \in Nat, n \in P PROVE n + 1 \in P
  <2> SUFFICES ASSUME n + 1 <= N PROVE KeptOf(g[n + 1], s, x, n + 1, T)
    OBVIOUS
  <2>1. n <= N /\ n + 1 \in 0..N /\ n + 1 # 0 /\ n + 1 - 1 = n  BY <1>1
  <2>2. KeptOf(g[n], s, x, n, T)  BY <1>5, <2>1
  <2> HIDE DEF N
  <2>3. \A m \in 0..N : g[m] = IF m = 0 THEN <<>>
                              ELSE IF s[m] = x THEN g[m - 1] ELSE Append(g[m - 1], s[m])
    BY <1>2 DEF IsKept
  <2>4. g[n + 1] = IF s[n + 1] = x THEN g[n] ELSE Append(g[n], s[n + 1])
    BY <2>1, <2>3
  <2> QED  BY <2>1, <2>2, <2>4, KeptStep DEF N
<1> HIDE DEF P
<1>6. Nat \subseteq P  BY <1>4, <1>5, Induct
<1>7. N \in P  BY <1>1, <1>6
<1> QED  BY <1>3, <1>7, <1>1 DEF P

LEMMA WithoutFacts ==
  ASSUME NEW T, NEW s \in Seq(T), NEW x
  PROVE  /\ Without(s, x) \in Seq(T) /\ Len(Without(s, x)) <= Len(s)
         /\ ToSet(Without(s, x)) = ToSet(s) \ {x}
         /\ IsInjective(s) => IsInjective(Without(s, x))
<1> DEFINE w == Without(s, x)
<1>1. KeptOf(w, s, x, Len(s), T)  BY WithoutKeeps
<1> HIDE DEF w
<1>2. w \in Seq(T) /\ Len(w) <= Len(s) /\ DOMAIN w = 1..Len(w) /\ DOMAIN s = 1..Len(s)
  BY <1>1 DEF KeptOf
<1>3. ToSet(w) = ToSet(s) \ {x}
  <2>1. ASSUME NEW e \in ToSet(w) PROVE e \in ToSet(s) \ {x}
    <3>1. PICK j \in 1..Len(w) : e = w[j]  BY <1>2 DEF ToSet
    <3>2. w[j] # x /\ \E i \in 1..Len(s) : s[i] = w[j]  BY <1>1 DEF KeptOf
    <3> QED  BY <3>1, <3>2, <1>2 DEF ToSet
  <2>2. ASSUME NEW e \in ToSet(s) \ {x} PROVE e \in ToSet(w)
    <3>1. PICK i \in 1..Len(s) : e = s[i]  BY <1>2 DEF ToSet
    <3>2. \E j \in 1..Len(w) : w[j] = s[i]  BY <1>1, <3>1 DEF KeptOf
    <3> QED  BY <3>1, <3>2, <1>2 DEF ToSet
  <2> QED  BY <2>1, <2>2
<1>4. IsInjective(s) => IsInjective(w)  BY <1>1, <1>2 DEF KeptOf, IsInjective
<1> QED  BY <1>2, <1>3, <1>4 DEF w

LEMMA AppendFacts ==
  ASSUME NEW T, NEW s \in Seq(T), NEW e \in T
  PROVE  /\ Append(s, e) \in Seq(T) /\ Len(Append(s, e)) = Len(s) + 1
         /\ ToSet(Append(s, e)) = ToSet(s) \cup {e}
         /\ IsInjective(s) /\ e \notin ToSet(s) => IsInjective(Append(s, e))
<1> DEFINE v == Append(s, e)
<1>1. v \in Seq(T) /\ Len(v) = Len(s) + 1 /\ Len(s) \in Nat
      /\ DOMAIN v = 1..Len(v) /\ DOMAIN s = 1..Len(s)
  OBVIOUS
<1>2. v[Len(s) + 1] = e /\ \A i \in 1..Len(s) : v[i] = s[i]  OBVIOUS
<1>3. /\ \A i \in DOMAIN v : i \in DOMAIN s \/ i = Len(s) + 1
      /\ \A i \in DOMAIN s : i \in DOMAIN v /\ i # Len(s) + 1
      /\ Len(s) + 1 \in DOMAIN v
  BY <1>1
<1>4. \A i \in DOMAIN s : v[i] = s[i]  BY <1>1, <1>2
<1> HIDE DEF v
<1>5. ToSet(v) = ToSet(s) \cup {e}  BY <1>2, <1>3, <1>4 DEF ToSet
<1>6. IsInjective(s) /\ e \notin ToSet(s) => IsInjective(v)
  BY <1>2, <1>3, <1>4 DEF IsInjective, ToSet
<1> QED  BY <1>1, <1>5, <1>6 DEF v

LEMMA CountFacts ==
  ASSUME NEW T, NEW s \in Seq(T), NEW x
  PROVE  /\ IsFiniteSet({i \in DOMAIN s : s[i] = x}) /\ Count(s, x) \in Nat
         /\ Count(s, x) = 0 <=> \A i \in DOMAIN s : s[i] # x
<1> DEFINE at == {i \in DOMAIN s : s[i] = x}
<1>1. IsFiniteSet(1..Len(s)) /\ DOMAIN s = 1..Len(s)
  <2>1. Len(s) \in Nat /\ DOMAIN s = 1..Len(s)  OBVIOUS
  <2> QED  BY <2>1, FS_Interval
<1>2. IsFiniteSet(at)  BY <1>1, FS_Subset
<1>3. Cardinality(at) \in Nat /\ (Cardinality(at) = 0 <=> at = {})
  BY <1>2, FS_CardinalityType, FS_EmptySet
<1> QED  BY <1>2, <1>3 DEF Count

-----------------------------------------------------------------------------
(* The hierarchy.                                                          *)

RecordsInv == \A t \in Teams :
    /\ teamHierarchy[t].level <= maxLevels + changes
    /\ ~teamHierarchy[t].known => teamHierarchy[t] = Unregistered

(* The sub-tasks of a sequence are run in order until the first failure;   *)
(* those of the other strategies have all begun.                           *)
Sequential(status) == \E k \in DOMAIN status :
    /\ \A i \in DOMAIN status : /\ i < k => status[i] = "completed"
                                /\ i > k => status[i] = "pending"
    /\ status[k] # "pending" /\ (status[k] = "completed" => k = Len(status))
ExecInv ==
    /\ exec.strategy = "none" => exec.status = <<>>
    /\ exec.strategy # "none" =>
         /\ Len(exec.status) = Len(exec.to) /\ Len(exec.to) > 0
         /\ exec.strategy # "sequential" => \A i \in DOMAIN exec.status : exec.status[i] # "pending"
         /\ exec.strategy = "sequential" => Sequential(exec.status)
         /\ Count(exec.status, "in_progress") = 0 =>
              exec.result = AggregateResults(exec.strategy, exec.status)

TeamInv == TeamTypeOK /\ RecordsInv /\ LinksAgree /\ ExecInv

LEMMA UnregisteredRecord == Unregistered \in Record /\ NoExec \in Exec
<1>1. 0 \in 0..(maxLevels + MaxChanges)  BY TeamAssumption DEF TeamAssumption
<1>2. Unregistered \in Record  BY <1>1 DEF Unregistered, Record
<1>3. NoResult \in Result  BY DEF NoResult, Result
<1>4. NoExec \in Exec  BY <1>3 DEF NoExec, Exec
<1> QED  BY <1>2, <1>4

LEMMA TeamsStart == ASSUME TeamInit PROVE TeamInv
<1> USE DEF TeamInit
<1>1. TeamTypeOK
  <2>1. 0 \in 0..MaxChanges  BY TeamAssumption DEF TeamAssumption
  <2> QED  BY <2>1, UnregisteredRecord DEF TeamTypeOK
<1>2. RecordsInv  BY TeamAssumption DEF RecordsInv, Unregistered, TeamAssumption
<1>3. LinksAgree
  <2>1. \A t \in Teams : Children(t) = <<>> /\ Parent(t) = NoTeam
    BY DEF Children, Parent, Unregistered
  <2>2. ToSet(<<>>) = {} /\ IsInjective(<<>>) /\ Len(<<>>) = 0  BY DEF ToSet, IsInjective
  <2> QED  BY <2>1, <2>2, TeamAssumption DEF LinksAgree, TeamAssumption
<1>4. ExecInv  BY DEF ExecInv, NoExec
<1> QED  BY <1>1, <1>2, <1>3, <1>4 DEF TeamInv

(* A step that leaves the sub-tasks alone keeps the rest of the invariant. *)
LEMMA TypesOfTeams ==
  ASSUME TeamInv, Change, UNCHANGED <<exec, tally>>, again' \in BOOLEAN, looped' \in BOOLEAN,
         teamHierarchy' \in [Teams -> Record], RecordsInv', LinksAgree'
  PROVE  TeamInv'
<1>1. changes' \in 0..MaxChanges
  BY TeamAssumption DEF TeamInv, TeamTypeOK, Change, TeamAssumption
<1>2. TeamTypeOK'  BY <1>1 DEF TeamInv, TeamTypeOK
<1>3. ExecInv'  BY DEF TeamInv, ExecInv
<1> QED  BY <1>2, <1>3 DEF TeamInv

(* Children and parents agree before the step, if they need to after it.   *)
LEMMA RecordFacts ==
  ASSUME TeamInv, NEW t \in Teams
  PROVE  /\ teamHierarchy[t] \in Record /\ teamHierarchy[t].level \in Nat
         /\ teamHierarchy[t].level <= maxLevels + changes /\ changes \in Nat /\ changes <= MaxChanges
         /\ Children(t) \in Seq(Teams) /\ Parent(t) \in Teams \cup {NoTeam}
         /\ Len(Children(t)) \in Nat /\ Len(Children(t)) <= maxChildrenPerTeam
         /\ maxLevels \in Nat /\ MaxChanges \in Nat /\ NoTeam \notin Teams
<1>1. teamHierarchy[t] \in Record /\ changes \in 0..MaxChanges  BY DEF TeamInv, TeamTypeOK
<1>2. teamHierarchy[t].level \in Nat /\ Children(t) \in Seq(Teams)
      /\ Parent(t) \in Teams \cup {NoTeam} /\ changes \in Nat /\ changes <= MaxChanges
  BY <1>1, TeamAssumption DEF Record, Children, Parent, TeamAssumption
<1> QED  BY <1>1, <1>2, TeamAssumption DEF TeamInv, RecordsInv, LinksAgree, TeamAssumption

LEMMA RegisterTeamStep ==
  ASSUME TeamInv, NEW t \in Teams, NEW parent \in Teams \cup {NoTeam}, NEW level \in Nat,
         RegisterTeam(t, parent, level)
  PROVE  TeamInv'
<1> DEFINE rec == [Unregistered EXCEPT !.known = TRUE, !.parent = parent, !.level = level]
<1> DEFINE put == parent # NoTeam /\ parent # t
<1> DEFINE above == [teamHierarchy[parent] EXCEPT !.children = Append(@, t)]
<1>1. Change /\ level <= maxLevels /\ (parent # NoTeam => In(parent) /\ ~Full(parent))
      /\ UNCHANGED <<exec, tally>> /\ again' = (again \/ In(t)) /\ looped' = (looped \/ parent = t)
  BY DEF RegisterTeam
<1>2. changes' = changes + 1 /\ changes \in Nat /\ changes < MaxChanges  BY <1>1, RecordFacts DEF Change
<1>3. rec \in Record /\ rec.level <= maxLevels + changes'
  <2>1. level \in 0..(maxLevels + MaxChanges) /\ level <= maxLevels + changes'
    BY <1>1, <1>2, RecordFacts
  <2>2. rec.level = level  BY DEF Unregistered
  <2> QED  BY <2>1, <2>2, UnregisteredRecord DEF Record
<1>4. CASE ~put
  <2>1. teamHierarchy' = [teamHierarchy EXCEPT ![t] = rec]
    BY <1>4 DEF RegisterTeam
  <2>2. teamHierarchy' \in [Teams -> Record]  BY <1>3, <2>1 DEF TeamInv, TeamTypeOK
  <2>3. teamHierarchy'[t] = rec /\ \A u \in Teams \ {t} : teamHierarchy'[u] = teamHierarchy[u]
    BY <2>1 DEF TeamInv, TeamTypeOK
  <2> HIDE DEF rec
  <2>4. rec.known /\ rec.children = <<>> /\ rec.parent = parent  BY DEF rec, Unregistered
  <2>5. RecordsInv'
    <3> SUFFICES ASSUME NEW u \in Teams
                 PROVE  /\ teamHierarchy'[u].level <= maxLevels + changes'
                        /\ ~teamHierarchy'[u].known => teamHierarchy'[u] = Unregistered
      BY DEF RecordsInv
    <3>1. CASE u = t  BY <3>1, <2>3, <2>4, <1>3
    <3>2. CASE u # t
      <4>1. teamHierarchy[u].level <= maxLevels + changes'  BY <1>2, RecordFacts
      <4> QED  BY <3>2, <2>3, <4>1 DEF TeamInv, RecordsInv
    <3> QED  BY <3>1, <3>2
  <2>6. \A u \in Teams : Len(Children(u)') <= maxChildrenPerTeam
    <3>1. Len(<<>>) = 0 /\ maxChildrenPerTeam \in Nat  BY TeamAssumption DEF TeamAssumption
    <3> QED  BY <2>3, <2>4, <3>1 DEF TeamInv, LinksAgree, Children
  <2>7. ASSUME ~again', ~looped', NEW u \in Teams
        PROVE  IsInjective(Children(u)') /\ ToSet(Children(u)') = {v \in Teams : Parent(v)' = u}
    <3>1. ~again /\ ~looped /\ ~In(t) /\ parent = NoTeam  BY <2>7, <1>1, <1>4
    <3>2. Children(t) = <<>> /\ Parent(t) = NoTeam
      BY <3>1 DEF TeamInv, RecordsInv, In, Children, Parent, Unregistered
    <3>3. Children(u)' = Children(u)  BY <2>3, <2>4, <3>2 DEF Children
    <3>4. \A v \in Teams : Parent(v)' = Parent(v)  BY <2>3, <2>4, <3>1, <3>2 DEF Parent
    <3>5. IsInjective(Children(u)) /\ ToSet(Children(u)) = {v \in Teams : Parent(v) = u}
      BY <3>1 DEF TeamInv, LinksAgree
    <3> QED  BY <3>3, <3>4, <3>5
  <2>8. LinksAgree'  BY <2>6, <2>7 DEF LinksAgree
  <2>9. again' \in BOOLEAN /\ looped' \in BOOLEAN  BY <1>1 DEF TeamInv, TeamTypeOK
  <2> QED  BY <1>1, <2>2, <2>5, <2>8, <2>9, TypesOfTeams
<1>5. CASE put
  <2>1. parent \in Teams /\ parent # t  BY <1>5
  <2>2. teamHierarchy' = [[teamHierarchy EXCEPT ![t] = rec] EXCEPT ![parent].children = Append(@, t)]
    BY <1>5 DEF RegisterTeam
  <2>3. Append(Children(parent), t) \in Seq(Teams)
        /\ Len(Append(Children(parent), t)) <= maxChildrenPerTeam
    <3>1. Len(Children(parent)) < maxChildrenPerTeam
      BY <1>1, <2>1, RecordFacts, TeamAssumption DEF Full, TeamAssumption
    <3> QED  BY <3>1, <2>1, RecordFacts, AppendFacts, TeamAssumption DEF TeamAssumption
  <2>4. above \in Record
    BY <2>1, <2>3, RecordFacts DEF Record, Children
  <2>5. /\ teamHierarchy'[t] = rec /\ teamHierarchy'[parent] = above
        /\ \A u \in Teams \ {t, parent} : teamHierarchy'[u] = teamHierarchy[u]
        /\ DOMAIN teamHierarchy' = Teams
    BY <2>1, <2>2 DEF TeamInv, TeamTypeOK
  <2>6. teamHierarchy' \in [Teams -> Record]
    <3>1. teamHierarchy' = [u \in Teams |-> teamHierarchy'[u]]  BY <2>2 DEF TeamInv, TeamTypeOK
    <3>2. \A u \in Teams : teamHierarchy'[u] \in Record  BY <2>5, <2>4, <1>3, RecordFacts
    <3> QED  BY <3>1, <3>2
  <2>7. above.known = teamHierarchy[parent].known /\ above.children = Append(Children(parent), t)
        /\ above.parent = Parent(parent) /\ above.level = teamHierarchy[parent].level
    BY <2>1, RecordFacts DEF Record, In, Children, Parent
  <2> HIDE DEF rec, above
  <2>8. rec.known /\ rec.children = <<>> /\ rec.parent = parent  BY DEF rec, Unregistered
  <2>9. RecordsInv'
    <3> SUFFICES ASSUME NEW u \in Teams
                 PROVE  /\ teamHierarchy'[u].level <= maxLevels + changes'
                        /\ ~teamHierarchy'[u].known => teamHierarchy'[u] = Unregistered
      BY DEF RecordsInv
    <3>0. teamHierarchy[u].level <= maxLevels + changes'  BY <1>2, RecordFacts
    <3>1. CASE u = t
      <4>1. teamHierarchy'[u] = rec  BY <3>1, <2>5
      <4> QED  BY <4>1, <2>8, <1>3
    <3>2. CASE u = parent
      <4>1. teamHierarchy[parent].known  BY <1>1, <1>5 DEF In
      <4> QED  BY <3>2, <3>0, <2>1, <2>5, <2>7, <4>1
    <3>3. CASE u # t /\ u # parent  BY <3>3, <3>0, <2>5 DEF TeamInv, RecordsInv
    <3> QED  BY <3>1, <3>2, <3>3
  <2>10. \A u \in Teams : Len(Children(u)') <= maxChildrenPerTeam
    <3>1. Len(<<>>) = 0 /\ maxChildrenPerTeam \in Nat  BY TeamAssumption DEF TeamAssumption
    <3> QED  BY <2>3, <2>5, <2>7, <2>8, <3>1 DEF TeamInv, LinksAgree, Children
  <2>11. ASSUME ~again', ~looped', NEW u \in Teams
        PROVE  IsInjective(Children(u)') /\ ToSet(Children(u)') = {v \in Teams : Parent(v)' = u}
    <3>1. ~again /\ ~looped /\ ~In(t)  BY <2>11, <1>1
    <3>2. Children(t) = <<>> /\ Parent(t) = NoTeam
      BY <3>1 DEF TeamInv, RecordsInv, In, Children, Parent, Unregistered
    <3>3. \A v \in Teams : Parent(v)' = IF v = t THEN parent ELSE Parent(v)
      BY <2>5, <2>7, <2>8 DEF Parent
    <3>4. \A w \in Teams : IsInjective(Children(w)) /\ ToSet(Children(w)) = {v \in Teams : Parent(v) = w}
      BY <3>1 DEF TeamInv, LinksAgree
    <3>5. CASE u = parent
      <4>1. Children(u)' = Append(Children(u), t)  BY <3>5, <2>5, <2>7 DEF Children
      <4>2. t \notin ToSet(Children(u))  BY <3>2, <3>4, TeamAssumption DEF TeamAssumption
      <4>3. IsInjective(Children(u)') /\ ToSet(Children(u)') = ToSet(Children(u)) \cup {t}
        BY <4>1, <4>2, <3>4, AppendFacts, RecordFacts
      <4> QED  BY <4>3, <3>3, <3>4, <3>5
    <3>6. CASE u # parent
      <4>1. Children(u)' = Children(u)  BY <3>6, <3>2, <2>5, <2>8 DEF Children
      <4>2. Parent(t) # u  BY <3>2, TeamAssumption DEF TeamAssumption
      <4> QED  BY <4>1, <4>2, <3>3, <3>4, <3>6
    <3> QED  BY <3>5, <3>6
  <2>12. LinksAgree'  BY <2>10, <2>11 DEF LinksAgree
  <2>13. again' \in BOOLEAN /\ looped' \in BOOLEAN  BY <1>1 DEF TeamInv, TeamTypeOK
  <2> QED  BY <1>1, <2>6, <2>9, <2>12, <2>13, TypesOfTeams
<1> QED  BY <1>4, <1>5

LEMMA SetParentChildStep ==
  ASSUME TeamInv, NEW p \in Teams, NEW c \in Teams, SetParentChild(p, c)
  PROVE  TeamInv'
<1> DEFINE old == Parent(c)
<1> DEFINE left == IF old = NoTeam THEN teamHierarchy
                   ELSE [teamHierarchy EXCEPT ![old].children = Without(@, c)]
<1>1. /\ Change /\ In(p) /\ In(c) /\ ~Full(p) /\ UNCHANGED <<again, exec, tally>>
      /\ teamHierarchy' = [left EXCEPT ![c].parent = p, ![c].level = left[p].level + 1,
                                       ![p].children = Append(@, c)]
  BY DEF SetParentChild
<1>2. changes' = changes + 1 /\ changes \in Nat /\ changes < MaxChanges  BY <1>1, RecordFacts DEF Change
<1>3. looped' = (looped \/ c \in ToSet(Path(p)))  BY DEF SetParentChild
<1> DEFINE list(u) == IF u = old THEN Without(Children(u), c) ELSE Children(u)
(* The child leaves the list of its old parent.                            *)
<1>4. ASSUME NEW u \in Teams
      PROVE  /\ left[u] \in Record /\ left[u].children = list(u) /\ left[u].parent = Parent(u)
             /\ left[u].level = teamHierarchy[u].level /\ left[u].known = teamHierarchy[u].known
             /\ left[u].rules = teamHierarchy[u].rules
  <2>1. teamHierarchy[u] \in Record /\ Children(u) \in Seq(Teams)  BY RecordFacts
  <2>2. CASE old # NoTeam /\ u = old
    <3>1. Without(Children(u), c) \in Seq(Teams)  BY <2>1, WithoutFacts
    <3>2. left[u] = [teamHierarchy[u] EXCEPT !.children = Without(Children(u), c)]
      BY <2>2 DEF Children, TeamInv, TeamTypeOK
    <3> HIDE DEF left
    <3> QED  BY <2>1, <2>2, <3>1, <3>2 DEF Record, Children, Parent
  <2>3. CASE old = NoTeam \/ u # old
    <3>1. left[u] = teamHierarchy[u]  BY <2>3 DEF TeamInv, TeamTypeOK
    <3>2. u # old  BY <2>3, TeamAssumption DEF TeamAssumption
    <3> QED  BY <2>1, <3>1, <3>2 DEF Children, Parent
  <2> QED  BY <2>2, <2>3
<1>5. DOMAIN left = Teams  BY DEF TeamInv, TeamTypeOK
<1> HIDE DEF left
<1>6. ASSUME NEW u \in Teams
      PROVE  /\ list(u) \in Seq(Teams) /\ Len(list(u)) <= Len(Children(u)) /\ Len(list(u)) \in Nat
             /\ ToSet(list(u)) = IF u = old THEN ToSet(Children(u)) \ {c} ELSE ToSet(Children(u))
             /\ IsInjective(Children(u)) => IsInjective(list(u))
  <2>1. Children(u) \in Seq(Teams) /\ Len(Children(u)) \in Nat  BY RecordFacts
  <2>2. CASE u = old  BY <2>1, <2>2, WithoutFacts
  <2>3. CASE u # old  BY <2>1, <2>3
  <2> QED  BY <2>2, <2>3
<1> DEFINE level(u) == IF u = c THEN left[p].level + 1 ELSE teamHierarchy[u].level
<1> HIDE DEF list
<1>7. ASSUME NEW u \in Teams
      PROVE  /\ teamHierarchy'[u].children = IF u = p THEN Append(list(u), c) ELSE list(u)
             /\ teamHierarchy'[u].parent = IF u = c THEN p ELSE Parent(u)
             /\ teamHierarchy'[u].level = level(u)
             /\ teamHierarchy'[u].known = teamHierarchy[u].known
             /\ teamHierarchy'[u].rules = teamHierarchy[u].rules
             /\ teamHierarchy'[u] \in [known : BOOLEAN, parent : Teams \cup {NoTeam}, level : Nat,
                                       children : Seq(Teams), rules : Seq(Rules)]
  <2>1. left[u] \in Record /\ left[p] \in Record /\ left[p].level + 1 \in Nat
    BY <1>4, TeamAssumption DEF Record, TeamAssumption
  <2>2. Append(left[p].children, c) \in Seq(Teams)  BY <1>4, <1>6, AppendFacts
  <2>3. teamHierarchy'[u] =
          [known |-> left[u].known, parent |-> IF u = c THEN p ELSE left[u].parent,
           level |-> IF u = c THEN left[p].level + 1 ELSE left[u].level,
           children |-> IF u = p THEN Append(left[p].children, c) ELSE left[u].children,
           rules |-> left[u].rules]
    BY <1>1, <1>5, <2>1 DEF Record
  <2> QED  BY <2>1, <2>2, <2>3, <1>4 DEF Record
<1>8. ASSUME NEW u \in Teams PROVE teamHierarchy'[u].level <= maxLevels + changes' /\ teamHierarchy'[u].level \in Nat
  <2>1. left[p].level = teamHierarchy[p].level  BY <1>4
  <2>2. teamHierarchy[p].level \in Nat /\ teamHierarchy[p].level <= maxLevels + changes
        /\ teamHierarchy[u].level \in Nat /\ teamHierarchy[u].level <= maxLevels + changes
        /\ maxLevels \in Nat
    BY RecordFacts
  <2>3. level(u) <= maxLevels + changes' /\ level(u) \in Nat  BY <2>1, <2>2, <1>2
  <2> QED  BY <2>3, <1>7
<1> HIDE DEF level
<1>9. teamHierarchy' \in [Teams -> Record]
  <2>1. teamHierarchy' = [u \in Teams |-> teamHierarchy'[u]]  BY <1>1, <1>5
  <2>2. ASSUME NEW u \in Teams PROVE teamHierarchy'[u] \in Record
    <3>1. teamHierarchy'[u].level \in 0..(maxLevels + MaxChanges)
      <4>1. changes' <= MaxChanges /\ MaxChanges \in Nat /\ maxLevels \in Nat /\ changes' \in Nat
        BY <1>2, RecordFacts
      <4> QED  BY <1>8, <4>1
    <3> QED  BY <1>7, <3>1 DEF Record
  <2> QED  BY <2>1, <2>2
<1>10. RecordsInv'
  <2> SUFFICES ASSUME NEW u \in Teams, ~teamHierarchy'[u].known
               PROVE  teamHierarchy'[u] = Unregistered
    BY <1>8 DEF RecordsInv
  <2>1. teamHierarchy[u] = Unregistered /\ u # p /\ u # c
    <3>1. ~teamHierarchy[u].known
      BY <1>7
    <3>2. teamHierarchy[u] = Unregistered
      BY <3>1 DEF TeamInv, RecordsInv
    <3>3. u # p /\ u # c
      BY <1>1, <3>1 DEF In
    <3> QED BY <3>2, <3>3
  <2>2. list(u) = <<>>
    <3>1. Children(u) = <<>> /\ Len(<<>>) = 0  BY <2>1 DEF Children, Unregistered
    <3>2. list(u) \in Seq(Teams) /\ Len(list(u)) = 0  BY <3>1, <1>6
    <3> QED  BY <3>2
  <2>3. teamHierarchy'[u].level = teamHierarchy[u].level  BY <1>7, <2>1 DEF level
  <2>4. teamHierarchy'[u].parent = teamHierarchy[u].parent /\ teamHierarchy'[u].children = <<>>
        /\ teamHierarchy'[u].known = teamHierarchy[u].known /\ teamHierarchy'[u].rules = teamHierarchy[u].rules
    BY <1>7, <2>1, <2>2 DEF Parent
  <2>5. teamHierarchy'[u] = [known |-> teamHierarchy'[u].known, parent |-> teamHierarchy'[u].parent,
                             level |-> teamHierarchy'[u].level, children |-> teamHierarchy'[u].children,
                             rules |-> teamHierarchy'[u].rules]
    BY <1>7
  <2>6. Unregistered = [known |-> Unregistered.known, parent |-> Unregistered.parent,
                        level |-> Unregistered.level, children |-> Unregistered.children,
                        rules |-> Unregistered.rules] /\ Unregistered.children = <<>>
    BY DEF Unregistered
  <2> QED  BY <2>1, <2>3, <2>4, <2>5, <2>6
<1>11. \A u \in Teams : Len(Children(u)') <= maxChildrenPerTeam
  <2> SUFFICES ASSUME NEW u \in Teams PROVE Len(Children(u)') <= maxChildrenPerTeam
    OBVIOUS
  <2>1. Len(Children(u)) <= maxChildrenPerTeam /\ Len(Children(u)) \in Nat /\ maxChildrenPerTeam \in Nat
    BY RecordFacts, TeamAssumption DEF TeamAssumption
  <2>2. CASE u = p
    <3>1. Len(Children(u)) < maxChildrenPerTeam  BY <1>1, <2>1, <2>2 DEF Full
    <3>2. Len(Append(list(u), c)) = Len(list(u)) + 1  BY <1>6, AppendFacts
    <3>3. Children(u)' = Append(list(u), c)  BY <1>7, <2>2 DEF Children
    <3> QED  BY <3>1, <3>2, <3>3, <2>1, <1>6
  <2>3. CASE u # p
    <3>1. Children(u)' = list(u)  BY <1>7, <2>3 DEF Children
    <3> QED  BY <3>1, <2>1, <1>6
  <2> QED  BY <2>2, <2>3
<1>12. ASSUME ~again', ~looped', NEW u \in Teams
       PROVE  IsInjective(Children(u)') /\ ToSet(Children(u)') = {v \in Teams : Parent(v)' = u}
  <2>1. ~again /\ ~looped  BY <1>1, <1>3, <1>12
  <2>2. \A w \in Teams : IsInjective(Children(w)) /\ ToSet(Children(w)) = {v \in Teams : Parent(v) = w}
    BY <2>1 DEF TeamInv, LinksAgree
  <2>3. \A v \in Teams : Parent(v)' = IF v = c THEN p ELSE Parent(v)  BY <1>7 DEF Parent
  <2>4. IsInjective(list(u)) /\ ToSet(list(u)) = {v \in Teams : Parent(v) = u} \ {c}
    <3>1. CASE u = old  BY <3>1, <1>6, <2>2
    <3>2. CASE u # old  BY <3>2, <1>6, <2>2
    <3> QED  BY <3>1, <3>2
  <2>5. CASE u = p
    <3>1. Children(u)' = Append(list(u), c)  BY <1>7, <2>5 DEF Children
    <3>2. IsInjective(Children(u)') /\ ToSet(Children(u)') = ToSet(list(u)) \cup {c}
      BY <3>1, <2>4, <1>6, AppendFacts
    <3> QED  BY <3>2, <2>3, <2>4, <2>5
  <2>6. CASE u # p
    <3>1. Children(u)' = list(u)  BY <1>7, <2>6 DEF Children
    <3> QED  BY <3>1, <2>3, <2>4, <2>6
  <2> QED  BY <2>5, <2>6
<1>13. LinksAgree'  BY <1>11, <1>12 DEF LinksAgree
<1>14. again' \in BOOLEAN /\ looped' \in BOOLEAN  BY <1>1, <1>3 DEF TeamInv, TeamTypeOK
<1> QED  BY <1>1, <1>9, <1>10, <1>13, <1>14, TypesOfTeams

LEMMA RulesStep ==
  ASSUME TeamInv, NEW t \in Teams, NEW rules \in Seq(Rules), In(t), Change,
         teamHierarchy' = [teamHierarchy EXCEPT ![t].rules = rules],
         UNCHANGED <<again, looped, exec, tally>>
  PROVE  TeamInv'
<1> DEFINE new == [teamHierarchy[t] EXCEPT !.rules = rules]
<1>1. changes' = changes + 1 /\ changes \in Nat  BY RecordFacts DEF Change
<1>2. teamHierarchy' = [teamHierarchy EXCEPT ![t] = new]  BY DEF TeamInv, TeamTypeOK
<1>3. new \in Record /\ new.known = teamHierarchy[t].known /\ new.level = teamHierarchy[t].level
      /\ new.children = Children(t) /\ new.parent = Parent(t)
  BY RecordFacts DEF Record, Children, Parent
<1> HIDE DEF new
<1>4. teamHierarchy' \in [Teams -> Record]  BY <1>2, <1>3 DEF TeamInv, TeamTypeOK
<1>5. teamHierarchy'[t] = new /\ \A u \in Teams \ {t} : teamHierarchy'[u] = teamHierarchy[u]
  BY <1>2 DEF TeamInv, TeamTypeOK
<1>6. RecordsInv'
  <2> SUFFICES ASSUME NEW u \in Teams
               PROVE  /\ teamHierarchy'[u].level <= maxLevels + changes'
                      /\ ~teamHierarchy'[u].known => teamHierarchy'[u] = Unregistered
    BY DEF RecordsInv
  <2>1. teamHierarchy[u].level <= maxLevels + changes'  BY <1>1, RecordFacts
  <2>2. CASE u = t
    <3>1. teamHierarchy[t].known  BY DEF In
    <3> QED  BY <2>1, <2>2, <3>1, <1>3, <1>5
  <2>3. CASE u # t  BY <2>1, <2>3, <1>5 DEF TeamInv, RecordsInv
  <2> QED  BY <2>2, <2>3
<1>7. \A u \in Teams : Children(u)' = Children(u) /\ Parent(u)' = Parent(u)
  BY <1>3, <1>5 DEF Children, Parent
<1>8. LinksAgree'  BY <1>7 DEF TeamInv, LinksAgree
<1>9. again' \in BOOLEAN /\ looped' \in BOOLEAN  BY DEF TeamInv, TeamTypeOK
<1> QED  BY <1>4, <1>6, <1>8, <1>9, TypesOfTeams

LEMMA AddRuleStep ==
  ASSUME TeamInv, NEW t \in Teams, NEW r \in Rules, AddRule(t, r) PROVE TeamInv'
<1>1. teamHierarchy[t].rules \in Seq(Rules)  BY DEF TeamInv, TeamTypeOK, Record
<1>2. Append(teamHierarchy[t].rules, r) \in Seq(Rules)  BY <1>1
<1>3. teamHierarchy' = [teamHierarchy EXCEPT ![t].rules = Append(teamHierarchy[t].rules, r)]
  BY DEF AddRule, TeamInv, TeamTypeOK
<1> QED  BY <1>2, <1>3, RulesStep DEF AddRule

LEMMA RemoveRuleStep ==
  ASSUME TeamInv, NEW t \in Teams, NEW i, RemoveRule(t, i) PROVE TeamInv'
<1> DEFINE s == teamHierarchy[t].rules
<1>1. s \in Seq(Rules) /\ i \in DOMAIN s  BY DEF RemoveRule, TeamInv, TeamTypeOK, Record
<1>2. RemoveAt(s, i) \in Seq(Rules)
  <2> HIDE DEF s
  <2>1. i \in 1..Len(s) /\ Len(s) \in Nat  BY <1>1
  <2>2. SubSeq(s, 1, i - 1) \in Seq(Rules) /\ SubSeq(s, i + 1, Len(s)) \in Seq(Rules)  BY <1>1, <2>1
  <2> QED  BY <2>2 DEF RemoveAt
<1>3. teamHierarchy' = [teamHierarchy EXCEPT ![t].rules = RemoveAt(s, i)]
  BY DEF RemoveRule, TeamInv, TeamTypeOK
<1>4. In(t)
  <2>1. CASE ~In(t)
    <3>1. s = <<>>  BY <2>1 DEF TeamInv, RecordsInv, In, Unregistered
    <3>2. i \in DOMAIN <<>>  BY <1>1, <3>1
    <3> QED  BY <3>2
  <2> QED  BY <2>1
<1> QED  BY <1>2, <1>3, <1>4, RulesStep DEF RemoveRule

-----------------------------------------------------------------------------
(* The sub-tasks.                                                          *)

(* A step of the sub-tasks leaves the hierarchy alone.                     *)
LEMMA HierarchyStays ==
  ASSUME TeamInv, UNCHANGED <<teamHierarchy, changes, again, looped>>, exec' \in Exec,
         tally' \in [Teams -> [completed : Nat, failed : Nat]], ExecInv'
  PROVE  TeamInv'
<1>1. TeamTypeOK'  BY DEF TeamInv, TeamTypeOK
<1>2. RecordsInv'  BY DEF TeamInv, RecordsInv
<1>3. \A t \in Teams : Children(t)' = Children(t) /\ Parent(t)' = Parent(t)  BY DEF Children, Parent
<1>4. LinksAgree'  BY <1>3 DEF TeamInv, LinksAgree
<1> QED  BY <1>1, <1>2, <1>4 DEF TeamInv

LEMMA ExecuteSubTasksStep ==
  ASSUME TeamInv, NEW t \in Teams, NEW complexity \in Complexities, NEW strategy \in Strategies,
         ExecuteSubTasks(t, complexity, strategy)
  PROVE  TeamInv'
<1> DEFINE to == SplitTask(t, complexity)
<1> DEFINE status == Begun(strategy, Len(to))
<1>1. In(t) /\ Children(t) # <<>>  BY DEF ExecuteSubTasks, EvaluateDelegation
<1>2. exec' = [NoExec EXCEPT !.strategy = strategy, !.team = t, !.to = to, !.status = status]
      /\ UNCHANGED <<teamHierarchy, changes, again, looped, tally>>
  BY DEF ExecuteSubTasks
<1>3. to \in Seq(Teams) /\ Len(to) > 0 /\ Len(to) \in Nat
  <2>1. Children(t) \in Seq(Teams) /\ Len(Children(t)) > 0  BY <1>1, RecordFacts
  <2> QED  BY <2>1, <1>1 DEF SplitTask
<1> HIDE DEF to
<1>4. status \in Seq(Statuses) /\ DOMAIN status = 1..Len(to) /\ Len(status) = Len(to)
  <2>1. status \in [1..Len(to) -> Statuses]  BY <1>3 DEF Begun, Statuses
  <2> HIDE DEF status
  <2> QED  BY <2>1, <1>3
<1>5. \A i \in 1..Len(to) : status[i] = IF strategy = "sequential" /\ i > 1 THEN "pending"
                                        ELSE "in_progress"
  BY <1>3 DEF Begun
<1> HIDE DEF status
<1>6. exec' \in Exec /\ exec'.strategy = strategy /\ exec'.to = to /\ exec'.status = status
  BY <1>2, <1>3, <1>4, UnregisteredRecord DEF Exec, NoExec
<1>7. 1 \in DOMAIN status /\ status[1] = "in_progress"  BY <1>3, <1>4, <1>5
<1>8. Count(status, "in_progress") # 0  BY <1>4, <1>7, CountFacts
<1>9. strategy = "sequential" => Sequential(status)
  <2> SUFFICES ASSUME strategy = "sequential" PROVE Sequential(status)
    OBVIOUS
  <2>1. \A i \in DOMAIN status : ~(i < 1) /\ (i > 1 => status[i] = "pending")
    BY <1>3, <1>4, <1>5
  <2> QED  BY <1>7, <2>1 DEF Sequential
<1>10. strategy # "sequential" => \A i \in DOMAIN status : status[i] # "pending"
  BY <1>4, <1>5
<1>11. strategy # "none"  BY DEF Strategies
<1>12. ExecInv'  BY <1>3, <1>4, <1>6, <1>8, <1>9, <1>10, <1>11 DEF ExecInv
<1>13. tally' \in [Teams -> [completed : Nat, failed : Nat]]  BY <1>2 DEF TeamInv, TeamTypeOK
<1> QED  BY <1>2, <1>6, <1>12, <1>13, HierarchyStays

LEMMA AggregateType ==
  ASSUME NEW T, NEW strategy, NEW status \in Seq(T) PROVE AggregateResults(strategy, status) \in Result
<1> DEFINE c == Count(status, "completed")
<1> DEFINE f == Count(status, "failed")
<1>1. c \in Nat /\ f \in Nat  BY CountFacts
<1>2. AggregateResults(strategy, status) =
        [completed |-> c, failed |-> f, total |-> c + f,
         positive |-> IF strategy = "voting" THEN 2 * c > c + f ELSE f = 0]
  BY DEF AggregateResults
<1> HIDE DEF c, f
<1>3. (IF strategy = "voting" THEN 2 * c > c + f ELSE f = 0) \in BOOLEAN
  <2>1. (2 * c > c + f) \in BOOLEAN /\ (f = 0) \in BOOLEAN  OBVIOUS
  <2> QED  BY <2>1, Zenon
<1>4. c + f \in Nat  BY <1>1
<1> QED  BY <1>1, <1>2, <1>3, <1>4 DEF Result

LEMMA ExecuteSubTaskStep ==
  ASSUME TeamInv, NEW i, NEW outcome \in {"completed", "failed"}, ExecuteSubTask(i, outcome)
  PROVE  TeamInv'
<1> DEFINE old == exec.status
<1> DEFINE done == [old EXCEPT ![i] = outcome]
<1> DEFINE status == After(exec.strategy, done, i)
<1> DEFINE result == IF Count(status, "in_progress") = 0 THEN AggregateResults(exec.strategy, status)
                     ELSE exec.result
<1>1. /\ i \in DOMAIN old /\ old[i] = "in_progress"
      /\ exec' = [exec EXCEPT !.status = status, !.result = result]
      /\ tally' = [tally EXCEPT ![exec.to[i]][outcome] = @ + 1]
      /\ UNCHANGED <<teamHierarchy, changes, again, looped>>
  BY DEF ExecuteSubTask
<1>2. exec \in Exec /\ old \in Seq(Statuses) /\ exec.to \in Seq(Teams) /\ exec.result \in Result
  BY DEF TeamInv, TeamTypeOK, Exec
<1>3. exec.strategy # "none"
  <2>1. CASE exec.strategy = "none"
    <3>1. i \in DOMAIN <<>>  BY <2>1, <1>1 DEF TeamInv, ExecInv
    <3> QED  BY <3>1
  <2> QED  BY <2>1
<1>4. Len(old) = Len(exec.to) /\ Len(exec.to) > 0  BY <1>3 DEF TeamInv, ExecInv
<1>5. i \in 1..Len(old) /\ Len(old) \in Nat /\ DOMAIN old = 1..Len(old)  BY <1>1, <1>2
<1>6. /\ done \in Seq(Statuses) /\ Len(done) = Len(old) /\ DOMAIN done = 1..Len(old)
      /\ done[i] = outcome /\ \A j \in 1..Len(old) : j # i => done[j] = old[j]
  <2>1. outcome \in Statuses  BY DEF Statuses
  <2>2. done \in [1..Len(old) -> Statuses]  BY <1>2, <1>5, <2>1
  <2> QED  BY <2>2, <1>2, <1>5
<1> HIDE DEF done
<1> DEFINE goes == exec.strategy = "sequential" /\ i < Len(old) /\ outcome = "completed"
<1>7. /\ status \in Seq(Statuses) /\ Len(status) = Len(old) /\ DOMAIN status = 1..Len(old)
      /\ \A j \in 1..Len(old) : status[j] = IF goes /\ j = i + 1 THEN "in_progress" ELSE done[j]
  <2>1. CASE goes
    <3>1. status = [done EXCEPT ![i + 1] = "in_progress"] /\ i + 1 \in 1..Len(old)
      BY <2>1, <1>5, <1>6 DEF After
    <3>2. status \in [1..Len(old) -> Statuses]  BY <3>1, <1>6 DEF Statuses
    <3> QED  BY <2>1, <3>1, <3>2, <1>5, <1>6
  <2>2. CASE ~goes
    <3>1. status = done  BY <2>2, <1>6 DEF After
    <3> QED  BY <2>2, <3>1, <1>6
  <2> QED  BY <2>1, <2>2
<1> HIDE DEF status
<1>8. result \in Result  BY <1>2, <1>7, AggregateType
<1>9. Count(status, "in_progress") = 0 => result = AggregateResults(exec.strategy, status)
  OBVIOUS
<1> HIDE DEF result
<1>10. exec' \in Exec /\ exec'.strategy = exec.strategy /\ exec'.to = exec.to
       /\ exec'.status = status /\ exec'.result = result
  BY <1>1, <1>2, <1>7, <1>8 DEF Exec
<1>11. exec.strategy # "sequential" => \A j \in DOMAIN status : status[j] # "pending"
  <2> SUFFICES ASSUME exec.strategy # "sequential", NEW j \in DOMAIN status PROVE status[j] # "pending"
    OBVIOUS
  <2>1. old[j] # "pending"  BY <1>3, <1>5, <1>7 DEF TeamInv, ExecInv
  <2> QED  BY <2>1, <1>6, <1>7
<1>12. exec.strategy = "sequential" => Sequential(status)
  <2> SUFFICES ASSUME exec.strategy = "sequential" PROVE Sequential(status)
    OBVIOUS
  <2>1. PICK k \in DOMAIN old :
          /\ \A j \in DOMAIN old : (j < k => old[j] = "completed") /\ (j > k => old[j] = "pending")
          /\ old[k] # "pending" /\ (old[k] = "completed" => k = Len(old))
    BY <1>3 DEF TeamInv, ExecInv, Sequential
  <2>2. i = k
    <3>1. ~(i < k) /\ ~(i > k)  BY <2>1, <1>1
    <3> QED  BY <3>1, <1>5, <2>1
  <2>3. \A j \in 1..Len(old) : (j < i => old[j] = "completed") /\ (j > i => old[j] = "pending")
    BY <2>1, <2>2, <1>5
  <2>4. CASE goes
    <3>1. i + 1 \in 1..Len(old) /\ i # i + 1  BY <2>4, <1>5
    <3>2. status[i + 1] = "in_progress" /\ status[i] = "completed"  BY <2>4, <3>1, <1>5, <1>6, <1>7
    <3>3. ASSUME NEW j \in 1..Len(old)
          PROVE  (j < i + 1 => status[j] = "completed") /\ (j > i + 1 => status[j] = "pending")
      <4>1. CASE j < i + 1
        <5>1. j < i \/ j = i  BY <4>1, <1>5
        <5>2. j # i + 1 /\ ~(j > i + 1)  BY <4>1, <1>5
        <5> QED  BY <5>1, <5>2, <3>2, <2>3, <1>6, <1>7
      <4>2. CASE j > i + 1
        <5>1. j > i /\ j # i + 1 /\ j # i /\ ~(j < i + 1)  BY <4>2, <1>5
        <5> QED  BY <5>1, <4>2, <2>3, <1>6, <1>7
      <4>3. CASE ~(j < i + 1) /\ ~(j > i + 1)  BY <4>3
      <4> QED  BY <4>1, <4>2, <4>3
    <3> QED  BY <3>1, <3>2, <3>3, <1>7 DEF Sequential
  <2>5. CASE ~goes
    <3>1. status[i] = outcome /\ \A j \in 1..Len(old) : j # i => status[j] = old[j]
      BY <2>5, <1>5, <1>6, <1>7
    <3>2. outcome = "completed" => i = Len(old)  BY <2>5, <1>5
    <3>3. \A j \in 1..Len(old) : (j < i => status[j] = "completed") /\ (j > i => status[j] = "pending")
      <4>1. \A j \in 1..Len(old) : (j < i => j # i) /\ (j > i => j # i)  BY <1>5
      <4> QED  BY <4>1, <3>1, <2>3
    <3> QED  BY <3>1, <3>2, <3>3, <1>5, <1>7 DEF Sequential
  <2> QED  BY <2>4, <2>5
<1>13. ExecInv'  BY <1>3, <1>4, <1>7, <1>9, <1>10, <1>11, <1>12 DEF ExecInv
<1>14. tally' \in [Teams -> [completed : Nat, failed : Nat]]
  <2>1. exec.to[i] \in Teams  BY <1>2, <1>4, <1>5
  <2>2. tally[exec.to[i]] \in [completed : Nat, failed : Nat] /\ tally \in [Teams -> [completed : Nat, failed : Nat]]
    BY <2>1 DEF TeamInv, TeamTypeOK
  <2>3. CASE outcome = "completed"
    <3>1. tally' = [tally EXCEPT ![exec.to[i]] = [tally[exec.to[i]] EXCEPT !.completed = tally[exec.to[i]].completed + 1]]
      BY <1>1, <2>1, <2>2, <2>3
    <3> QED  BY <3>1, <2>1, <2>2
  <2>4. CASE outcome = "failed"
    <3>1. tally' = [tally EXCEPT ![exec.to[i]] = [tally[exec.to[i]] EXCEPT !.failed = tally[exec.to[i]].failed + 1]]
      BY <1>1, <2>1, <2>2, <2>4
    <3> QED  BY <3>1, <2>1, <2>2
  <2> QED  BY <2>3, <2>4
<1> QED  BY <1>1, <1>10, <1>13, <1>14, HierarchyStays

LEMMA TeamsStay ==
  ASSUME TeamInv, UNCHANGED teamVars PROVE TeamInv'
<1>1. UNCHANGED <<teamHierarchy, changes, again, looped, exec, tally>>  BY DEF teamVars
<1>2. ExecInv'  BY <1>1 DEF TeamInv, ExecInv
<1> QED  BY <1>1, <1>2, HierarchyStays DEF TeamInv, TeamTypeOK

LEMMA TeamStep ==
  ASSUME TeamInv, TeamNext PROVE TeamInv'
<1>1. CASE \E t \in Teams : RegisterTeam(t, NoTeam, 0)  BY <1>1, RegisterTeamStep
<1>2. CASE \E t \in Teams, p \in Teams : RegisterTeam(t, p, teamHierarchy[p].level + 1)
  <2>1. \A p \in Teams : teamHierarchy[p].level + 1 \in Nat  BY RecordFacts
  <2> QED  BY <1>2, <2>1, RegisterTeamStep
<1>3. CASE \E t \in Teams, p \in Teams : SetParentChild(p, t)  BY <1>3, SetParentChildStep
<1>4. CASE \E t \in Teams, r \in Rules : AddRule(t, r)  BY <1>4, AddRuleStep
<1>5. CASE \E t \in Teams, i \in 1..MaxChanges : RemoveRule(t, i)  BY <1>5, RemoveRuleStep
<1>6. CASE \E t \in Teams, x \in Complexities, s \in Strategies : ExecuteSubTasks(t, x, s)
  BY <1>6, ExecuteSubTasksStep
<1>7. CASE \E i : \E outcome \in {"completed", "failed"} : ExecuteSubTask(i, outcome)
  BY <1>7, ExecuteSubTaskStep
<1> QED  BY <1>1, <1>2, <1>3, <1>4, <1>5, <1>6, <1>7 DEF TeamNext

(* The first failure ends a sequence, so that it is the only one.          *)
LEMMA SummariesFollow ==
  ASSUME TeamInv PROVE SummariesAddUp
<1> DEFINE status == exec.status
<1> DEFINE r == exec.result
<1> DEFINE failures == {i \in DOMAIN status : status[i] = "failed"}
<1> DEFINE completed == {i \in DOMAIN status : status[i] = "completed"}
<1> DEFINE n == Len(exec.to)
<1> SUFFICES ASSUME exec.strategy # "none", Count(status, "in_progress") = 0
             PROVE  /\ r.total = IF exec.strategy = "sequential" /\ failures # {}
                                 THEN CHOOSE i \in failures : \A j \in failures : i <= j ELSE n
                    /\ r.positive => 2 * r.completed > r.total
  BY DEF SummariesAddUp
<1>1. /\ Len(status) = n /\ n > 0
      /\ exec.strategy # "sequential" => \A i \in DOMAIN status : status[i] # "pending"
      /\ exec.strategy = "sequential" => Sequential(status)
      /\ r = AggregateResults(exec.strategy, status)
  BY DEF TeamInv, ExecInv
<1>2. status \in Seq(Statuses) /\ n \in Nat /\ DOMAIN status = 1..n
  BY <1>1 DEF TeamInv, TeamTypeOK, Exec
<1> DEFINE f == Count(status, "failed")
<1> DEFINE c == Count(status, "completed")
<1>3. r.total = c + f /\ r.completed = c
      /\ r.positive = IF exec.strategy = "voting" THEN 2 * c > c + f ELSE f = 0
  BY <1>1 DEF AggregateResults
<1>4. /\ \A i \in 1..n : status[i] \in {"pending", "completed", "failed"}
      /\ f \in Nat /\ c \in Nat /\ (f = 0 <=> failures = {})
      /\ IsFiniteSet(failures) /\ IsFiniteSet(completed)
  <2>1. \A i \in 1..n : status[i] # "in_progress"  BY <1>2, CountFacts
  <2>2. \A i \in 1..n : status[i] \in Statuses  BY <1>2
  <2>3. (f = 0 <=> \A i \in DOMAIN status : status[i] # "failed") /\ f \in Nat /\ c \in Nat
        /\ IsFiniteSet(failures) /\ IsFiniteSet(completed)
    BY <1>2, CountFacts
  <2> QED  BY <2>1, <2>2, <2>3 DEF Statuses
<1>5. f = Cardinality(failures) /\ c = Cardinality(completed)  BY DEF Count
<1> HIDE DEF f, c, r, status, n
<1>9. n \in Nat /\ n > 0 /\ c \in Nat /\ f \in Nat  BY <1>1, <1>2, <1>4
<1>10. (exec.strategy # "voting" /\ r.positive => f = 0)
       /\ (exec.strategy = "voting" /\ r.positive => 2 * c > c + f)
  BY <1>3, Zenon
(* As many sub-tasks as there are ended, if none is still pending.         *)
<1>6. ASSUME failures \cup completed = 1..n PROVE c + f = n
  <2>1. failures \cap completed = {}
    <3>1. ASSUME NEW i \in failures \cap completed PROVE FALSE
      <4>1. status[i] = "failed" /\ status[i] = "completed"  OBVIOUS
      <4> QED  BY <4>1
    <3> QED  BY <3>1
  <2>2. Cardinality(failures \cup completed)
          = Cardinality(failures) + Cardinality(completed) - Cardinality(failures \cap completed)
    BY <1>4, FS_Union
  <2>3. Cardinality(1..n) = n  BY <1>2, FS_Interval
  <2>4. Cardinality({}) = 0  BY FS_EmptySet
  <2>5. Cardinality(failures \cup completed) = n  BY <1>6, <2>3
  <2>6. Cardinality(failures \cap completed) = 0  BY <2>1, <2>4
  <2> HIDE DEF failures, completed
  <2> QED  BY <1>2, <1>4, <1>5, <2>2, <2>5, <2>6
<1>7. CASE exec.strategy # "sequential"
  <2>1. failures \cup completed = 1..n  BY <1>1, <1>2, <1>4, <1>7
  <2>2. c + f = n  BY <1>6, <2>1
  <2>3. r.positive => 2 * c > c + f
    <3> SUFFICES ASSUME r.positive, f = 0 PROVE 2 * c > c + f
      BY <1>10
    <3> QED  BY <2>2, <1>9
  <2> QED  BY <1>3, <1>7, <2>2, <2>3
<1>8. CASE exec.strategy = "sequential"
  <2>1. PICK k \in DOMAIN status :
          /\ \A i \in DOMAIN status : (i < k => status[i] = "completed") /\ (i > k => status[i] = "pending")
          /\ status[k] # "pending" /\ (status[k] = "completed" => k = Len(status))
    BY <1>1, <1>8 DEF Sequential
  <2>2. k \in 1..n /\ k \in Nat  BY <1>2, <2>1
  <2>3. \A i \in 1..n : (i < k => status[i] = "completed") /\ (i > k => status[i] = "pending")
    BY <2>1, <1>2
  <2>4. CASE status[k] = "completed"
    <3>1. k = n  BY <1>1, <2>1, <2>4
    <3>2. \A i \in 1..n : status[i] = "completed"
      <4>1. \A i \in 1..n : i < k \/ i = k  BY <3>1, <1>2
      <4> QED  BY <4>1, <2>3, <2>4
    <3>3. failures = {} /\ completed = 1..n  BY <3>2, <1>2
    <3>4. c + f = n /\ f = 0  BY <1>4, <1>6, <3>3
    <3>5. 2 * c > c + f  BY <3>4, <1>9
    <3> QED  BY <1>3, <3>3, <3>4, <3>5
  <2>5. CASE status[k] = "failed"
    <3>1. failures = {k}
      <4>1. \A i \in 1..n : i < k \/ i = k \/ i > k  BY <2>2
      <4>2. \A i \in 1..n : status[i] = "failed" => i = k  BY <4>1, <2>3
      <4> QED  BY <4>2, <2>2, <2>5, <1>2
    <3>2. completed = 1..(k - 1)
      <4>1. \A i \in 1..n : i < k <=> i \in 1..(k - 1)  BY <2>2, <1>2
      <4>2. \A i \in 1..(k - 1) : i \in 1..n  BY <2>2, <1>2
      <4>3. \A i \in 1..n : i < k \/ i = k \/ i > k  BY <2>2
      <4>4. \A i \in 1..n : status[i] = "completed" <=> i < k
        <5>1. \A i \in 1..n : i = k => ~(i < k)  BY <2>2
        <5>2. \A i \in 1..n : i > k => ~(i < k)  BY <2>2
        <5> QED  BY <4>3, <2>3, <2>5, <5>1, <5>2
      <4> QED  BY <4>1, <4>2, <4>4, <1>2
    <3>3. f = 1  BY <1>5, <3>1, FS_Singleton
    <3>4. c = k - 1
      <4>1. Cardinality(1..(k - 1)) = k - 1
        <5>1. k - 1 \in Nat  BY <2>2
        <5> QED  BY <5>1, FS_Interval
      <4> QED  BY <1>5, <3>2, <4>1
    <3>5. (CHOOSE i \in failures : \A j \in failures : i <= j) = k
      <4>1. \E i \in {k} : \A j \in {k} : i <= j  BY <2>2
      <4>2. (CHOOSE i \in {k} : \A j \in {k} : i <= j) \in {k}  BY <4>1
      <4>3. (CHOOSE i \in {k} : \A j \in {k} : i <= j) = k  BY <4>2
      <4> HIDE DEF failures
      <4> QED  BY <3>1, <4>3
    <3>6. failures # {} /\ ~r.positive
      <4>1. exec.strategy # "voting" /\ f # 0  BY <1>8, <3>3
      <4> QED  BY <4>1, <1>10, <3>1
    <3>7. r.total = k  BY <1>3, <2>2, <3>3, <3>4
    <3> QED  BY <1>8, <3>5, <3>6, <3>7
  <2> QED  BY <2>1, <2>2, <2>4, <2>5, <1>4
<1> QED  BY <1>7, <1>8

-----------------------------------------------------------------------------
(* The whole.                                                              *)

LEMMA ProcessStep ==
  ASSUME WorkerInv, NEW s \in Slots, Process(s) PROVE WorkerInv'
BY BeginStep, SendRunCompleteStep, FinishStep, SendRunFailedStep, SendNotificationStep,
   ProcessItemStep, ExecuteToolStep DEF Process

LEMMA JobsStep ==
  ASSUME WorkerInv, Submit \/ Trouble \/ Progressing PROVE WorkerInv'
<1>1. CASE Submit  BY <1>1, AddJobStep, AddBatchStep DEF Submit
<1>2. CASE Trouble
  BY <1>2, CrashStep, StallStep, CancelJobStep, RetryJobStep, CancelBatchStep, CleanJobsStep,
     PauseResumeStep DEF Trouble
<1>3. CASE Progressing
  <2>1. ASSUME NEW id \in JobIds, Mend(id) PROVE WorkerInv'
    BY <2>1, PromoteStep, ExpireStep DEF Mend
  <2> QED  BY <1>3, <2>1, ProcessStep, TakeStep DEF Progressing
<1> QED  BY <1>1, <1>2, <1>3

QueuesInv == WorkerInv /\ StartsCounted /\ ManagerInv /\ TeamInv

LEMMA QueuesStart == ASSUME Init PROVE QueuesInv
<1>1. StartsCounted  BY NoJobBegun DEF Init, WorkerInit, QueueInit, StartsCounted
<1> QED  BY <1>1, WorkersStart, ManagerStarts, TeamsStart DEF Init, QueuesInv

LEMMA QueuesStep ==
  ASSUME QueuesInv, [Next]_allVars PROVE QueuesInv'
<1> USE DEF QueuesInv
<1>0. UNCHANGED jobs => StartsCounted'  BY DEF StartsCounted
<1>1. CASE (Submit \/ Trouble \/ Progressing) /\ OfWorkers
  BY <1>1, JobsStep, StartsStep, ManagerStays, TeamsStay DEF OfWorkers
<1>2. CASE ManagerNext /\ UNCHANGED <<part, queueVars, workerOwn, teamVars>>
  BY <1>0, <1>2, ManagerStep, WorkersStay, TeamsStay DEF queueVars
<1>3. CASE TeamNext /\ UNCHANGED <<part, queueVars, workerOwn, managerVars>>
  BY <1>0, <1>3, TeamStep, WorkersStay, ManagerStays DEF queueVars
<1>4. CASE UNCHANGED allVars
  BY <1>0, <1>4, WorkersStay, ManagerStays, TeamsStay DEF allVars, queueVars
<1>5. CASE Jobs(Submit) \/ Jobs(Trouble) \/ Jobs(Progressing)  BY <1>1, <1>5 DEF Jobs
<1>6. CASE OfManager(ManagerNext)  BY <1>2, <1>6 DEF OfManager
<1>7. CASE OfTeams(TeamNext)  BY <1>3, <1>7 DEF OfTeams
<1> QED  BY <1>4, <1>5, <1>6, <1>7 DEF Next

THEOREM QueuesInvariant == Spec => []QueuesInv
<1>1. Init => QueuesInv  BY QueuesStart
<1>2. QueuesInv /\ [Next]_allVars => QueuesInv'  BY QueuesStep
<1> QED  BY <1>1, <1>2, PTL DEF Spec

(* Whatever is submitted, cancelled, cleaned, retried or paused, and       *)
(* however often a worker fails, stalls or crashes, the queues, the        *)
(* manager and the hierarchy stay in their types: no job is ever owned by  *)
(* what is not a slot, nor run or stalled beyond the mishaps there were    *)
(* (db/src/queue, infra/workers).                                          *)
THEOREM QueuesTypeCorrect == Spec => []TypeOK
<1>1. QueuesInv => TypeOK  BY DEF QueuesInv, TypeOK, WorkerInv, ManagerInv, TeamInv
<1> QED  BY <1>1, QueuesInvariant, PTL

(* The notice of a run agrees with what became of it; every attempt of a   *)
(* job is under way, completed, or paid for by a rejection or a lost lock; *)
(* the progress of a batch never exceeds the items of the jobs it finds,   *)
(* reaches them when these are completed, and is about its own items unless*)
(* its id begins that of another; only a generation that another start     *)
(* overtook takes jobs besides the manager's own; children and parents     *)
(* agree and a delegation's summary counts the sub-tasks that ran: for any *)
(* number of jobs, batches, chunks, slots, callers, teams and mishaps.     *)
THEOREM WorkIsAccounted == Spec => []WorkAccounted
<1>1. QueuesInv => WorkAccounted
  BY WorkersFollow, SummariesFollow DEF QueuesInv, WorkAccounted, ManagerInv, TeamInv
<1> QED  BY <1>1, QueuesInvariant, PTL
=============================================================================
