----------------------- MODULE WeightedBalancerProofs -----------------------
(***************************************************************************)
(* Proofs about the weighted balancer, for any number of upstreams, any    *)
(* weights, any slow start and any number of requests.                     *)
(*                                                                         *)
(* The bound of one credit is not inductive: what an upstream may hold     *)
(* before a turn depends on what the others hold.  The invariant is about  *)
(* every set of upstreams at once: the k upstreams of a set A together     *)
(* have no more than Heaviest * k * (Count - k).  A turn that A does not   *)
(* win raises the candidates T in A; since the winner b beats each of      *)
(* them, what A has is bounded by what A \union {b} and A \ T had before.  *)
(* With A a single upstream, and with A all the others, this is one round  *)
(* of credit and one of debt; and as every candidate gets at least 1 in a  *)
(* turn, the rounds bound the turns that an upstream waits.                *)
(***************************************************************************)
EXTENDS WeightedBalancer, FoldLemmas

Count == Cardinality(Ids)
Heaviest == Max({configuredWeight(u) : u \in Ids})

----------------------------------------------------------------------------
(* Weights.                                                                *)

LEMMA IdsFinite == IsFiniteSet(Ids) /\ Count \in Nat /\ (Ids # {} => Count >= 1)
<1> DEFINE f == [i \in 1 .. Len(Upstreams) |-> Upstreams[i]]
<1>1. Len(Upstreams) \in Nat
  BY WeightedAssumption
<1>2. IsFiniteSet(1 .. Len(Upstreams))
  BY <1>1, FS_Interval
<1>3. f \in Surjection(1 .. Len(Upstreams), Ids)
  BY DEF Surjection, Ids
<1>4. IsFiniteSet(Ids)
  BY <1>2, <1>3, FS_Surjection
<1> QED BY <1>4, FS_CardinalityType, FS_EmptySet DEF Count

LEMMA MaxOfPair == ASSUME NEW x \in Int PROVE Max({1, x}) = IF x > 1 THEN x ELSE 1
BY DEF Max

\* A finite set of numbers has a greatest one.
LEMMA MaxOf ==
  ASSUME NEW S \in SUBSET Int, IsFiniteSet(S), S # {}
  PROVE  Max(S) \in S /\ \A x \in S : x <= Max(S)
<1> DEFINE P == {T \in SUBSET S : T # {} => \E m \in T : \A x \in T : x <= m}
<1>1. {} \in P
  OBVIOUS
<1>2. ASSUME NEW T \in P, NEW y \in S \ T PROVE T \union {y} \in P
  <2>1. CASE T = {}
    BY <2>1
  <2>2. CASE T # {}
    <3>1. PICK m \in T : \A x \in T : x <= m
      BY <2>2
    <3>2. \E k \in T \union {y} : \A x \in T \union {y} : x <= k
      <4>1. CASE y <= m
        BY <3>1, <4>1
      <4>2. CASE m < y
        <5>1. \A x \in T : x <= y
          BY <3>1, <4>2
        <5> QED BY <5>1
      <4> QED BY <4>1, <4>2
    <3> QED BY <3>2
  <2> QED BY <2>1, <2>2
<1>3. S \in P
  <2> HIDE DEF P
  <2>1. P \in SUBSET SUBSET S BY DEF P
  <2> QED BY <1>1, <1>2, <2>1, SubsetInduction
<1> QED BY <1>3 DEF Max

\* Every configured weight counts as at least 1.
LEMMA HeaviestBounds ==
  ASSUME NEW u \in Ids
  PROVE  /\ Heaviest \in Nat /\ Heaviest >= 1
         /\ configuredWeight(u) \in 1 .. Heaviest
<1> DEFINE W == {configuredWeight(v) : v \in Ids}
           f == [v \in Ids |-> configuredWeight(v)]
<1>1. \A v \in Ids : configuredWeight(v) \in Nat /\ configuredWeight(v) >= 1
  BY WeightedAssumption DEF configuredWeight
<1>2. IsFiniteSet(W)
  <2>1. f \in Surjection(Ids, W)
    BY DEF Surjection
  <2> QED BY <2>1, IdsFinite, FS_Surjection
<1>3. W \in SUBSET Int /\ W # {}
  BY <1>1
<1>4. Max(W) \in W /\ \A x \in W : x <= Max(W)
  BY <1>2, <1>3, MaxOf
<1> QED BY <1>1, <1>4 DEF Heaviest

\* A share a / d < 1 of a weight is at most the weight.
LEMMA DivBound ==
  ASSUME NEW w \in Nat, NEW a \in Nat, NEW d \in Nat, a < d
  PROVE  (w * a) \div d \in Nat /\ (w * a) \div d <= w
<1>1. w * a \in Nat /\ w * a <= w * d
  OBVIOUS
<1>2. (w * a) \div d \in Nat /\ ((w * a) \div d) * d <= w * a
  BY <1>1
<1>3. ASSUME NEW q \in Nat, q * d <= w * d PROVE q <= w
  BY <1>3
<1> QED BY <1>1, <1>2, <1>3

\* The slow start never raises a weight, and never takes all of it.
LEMMA EffectiveBounds ==
  ASSUME TypeOK, NEW u \in Ids
  PROVE  effectiveWeight(u) \in 1 .. Heaviest
<1> DEFINE w == configuredWeight(u)
           a == states[u].age
           x == IF 10 * a < SlowStart THEN w \div 10 ELSE (w * a) \div SlowStart
<1>1. w \in 1 .. Heaviest /\ Heaviest \in Nat
  BY HeaviestBounds
<1>2. a \in Nat /\ SlowStart \in Nat
  BY WeightedAssumption DEF TypeOK
<1>3. CASE a >= SlowStart
  BY <1>1, <1>3 DEF effectiveWeight
<1>4. CASE a < SlowStart
  <2>1. x \in Nat /\ x <= w
    <3>1. w \div 10 \in Nat /\ w \div 10 <= w
      BY <1>1
    <3>2. (w * a) \div SlowStart \in Nat /\ (w * a) \div SlowStart <= w
      <4>1. w \in Nat
        BY <1>1
      <4> HIDE DEF w, a
      <4> QED BY <4>1, <1>2, <1>4, DivBound
    <3> QED BY <3>1, <3>2
  <2>2. effectiveWeight(u) = Max({1, x})
    BY <1>2, <1>4 DEF effectiveWeight
  <2> HIDE DEF x, w
  <2> QED BY <1>1, <2>1, <2>2, MaxOfPair
<1> QED BY <1>2, <1>3, <1>4

----------------------------------------------------------------------------
\* The current weights, and how far those of A together can be from 0.
Current == [u \in Ids |-> states[u].current]
Effective == [u \in Ids |-> effectiveWeight(u)]
Bound(A) == IF A = {} THEN 0 ELSE Heaviest * (Cardinality(A) * (Count - Cardinality(A)))

LEMMA BoundIs ==
  ASSUME NEW A \in SUBSET Ids, Ids # {}
  PROVE  Bound(A) = Heaviest * (Cardinality(A) * (Count - Cardinality(A)))
<1>1. Heaviest \in Nat /\ Count \in Nat
  BY HeaviestBounds, IdsFinite
<1>2. CASE A = {}
  <2>1. Cardinality(A) = 0
    BY <1>2, FS_EmptySet
  <2> QED BY <1>1, <1>2, <2>1 DEF Bound
<1>3. CASE A # {}
  BY <1>3 DEF Bound
<1> QED BY <1>2, <1>3

\* The bounds of the sets A \ T and A \union {b} pay for the bound of A,
\* where A has a elements, T has k of them and b is not in A.
LEMMA BoundStep ==
  ASSUME NEW W \in Nat, NEW m \in Nat, NEW a \in Nat, NEW k \in Nat
  PROVE  W * ((a - k) * (m - (a - k))) + k * (W * ((a + 1) * (m - (a + 1)))) + k * ((k + 1) * W)
           = (k + 1) * (W * (a * (m - a)))
OBVIOUS

LEMMA CancelFactor ==
  ASSUME NEW k \in Nat, NEW x \in Int, NEW y \in Int, (k + 1) * x <= (k + 1) * y
  PROVE  x <= y
OBVIOUS

\* One of the candidates has the highest current weight.
LEMMA BestExists ==
  ASSUME NEW S \in SUBSET Indices, S # {}, NEW raised, \A i \in S : raised[i] \in Int
  PROVE  /\ Best(S, raised) \in S
         /\ \A j \in S : raised[j] <= raised[Best(S, raised)]
<1> DEFINE Beats(i, j) == raised[i] > raised[j] \/ (raised[i] = raised[j] /\ i <= j)
           P == {T \in SUBSET S : T # {} => \E i \in T : \A j \in T : Beats(i, j)}
<1>0. IsFiniteSet(S) /\ S \subseteq Int
  <2>1. Len(Upstreams) \in Nat /\ Indices = 1 .. Len(Upstreams)
    BY WeightedAssumption DEF Indices
  <2>2. IsFiniteSet(Indices)
    BY <2>1, FS_Interval
  <2>3. S \subseteq Int
    BY <2>1
  <2>4. IsFiniteSet(S)
    BY <2>2, FS_Subset
  <2> QED BY <2>3, <2>4
<1>1. {} \in P
  OBVIOUS
<1>2. ASSUME NEW T \in P, NEW y \in S \ T PROVE T \union {y} \in P
  <2>1. CASE T = {}
    BY <1>0, <2>1
  <2>2. CASE T # {}
    <3>1. PICK i \in T : \A j \in T : Beats(i, j)
      BY <2>2
    <3>2. CASE Beats(i, y)
      BY <3>1, <3>2
    <3>3. CASE ~Beats(i, y)
      <4>1. \A j \in T : Beats(y, j)
        BY <1>0, <3>1, <3>3
      <4>2. Beats(y, y)
        BY <1>0
      <4>3. \A j \in T \union {y} : Beats(y, j)
        BY <4>1, <4>2
      <4> QED BY <4>3
    <3> QED BY <3>2, <3>3
  <2> QED BY <2>1, <2>2
<1>3. S \in P
  <2> HIDE DEF P
  <2>1. P \in SUBSET SUBSET S BY DEF P
  <2> QED BY <1>0, <1>1, <1>2, <2>1, SubsetInduction
<1>4. \E i \in S : \A j \in S : Beats(i, j)
  BY <1>3
<1>5. /\ Best(S, raised) \in S
      /\ \A j \in S : Beats(Best(S, raised), j)
  BY <1>4 DEF Best
<1> QED BY <1>5

\* What a turn does, in terms of sums: b wins among the candidates C.
TurnOf(C, b) ==
  /\ b \in C /\ C \subseteq Ids
  /\ \A u \in C : Current[u] + Effective[u] <= Current[b] + Effective[b]
  /\ \A u \in Ids :
       Current'[u] = Current[u] + (IF u \in C THEN Effective[u] ELSE 0)
                                - (IF u = b THEN SumFunctionOnSet(Effective, C) ELSE 0)
  /\ \A u \in Ids : turns'[u] = IF u = b THEN 0 ELSE IF u \in C THEN turns[u] + 1 ELSE turns[u]

LEMMA TurnIsTurnOf ==
  ASSUME TypeOK, NEW r \in Requests, Turn(r)
  PROVE  \E C \in SUBSET Ids, b \in Ids : TurnOf(C, b)
<1> DEFINE S == candidates[r]
           C == {Upstreams[i] : i \in S}
           raised == [i \in S |-> states[Upstreams[i]].current + effectiveWeight(Upstreams[i])]
           b == Upstreams[Best(S, raised)]
<1>1. S \in SUBSET Indices /\ S # {}
  BY DEF TypeOK, Turn
<1>2. \A i \in S : Upstreams[i] \in Ids
  BY <1>1 DEF Ids, Indices
<1>3. \A i \in S : raised[i] \in Int
  BY <1>2, EffectiveBounds, HeaviestBounds DEF TypeOK
<1>4. /\ Best(S, raised) \in S
      /\ \A j \in S : raised[j] <= raised[Best(S, raised)]
  <2> HIDE DEF raised, S
  <2> QED BY <1>1, <1>3, BestExists
<1>5. b \in C /\ C \subseteq Ids
  BY <1>2, <1>4
<1>6. \A u \in C : Current[u] + Effective[u] <= Current[b] + Effective[b]
  <2>1. \A i \in S : raised[i] = Current[Upstreams[i]] + Effective[Upstreams[i]]
    BY <1>2 DEF Current, Effective
  <2> HIDE DEF raised, S
  <2> QED BY <1>4, <2>1
<1>7. ASSUME NEW u \in Ids
      PROVE  Current'[u] = Current[u] + (IF u \in C THEN Effective[u] ELSE 0)
                                      - (IF u = b THEN SumFunctionOnSet(Effective, C) ELSE 0)
  <2>1. states'[u] = IF u \notin C THEN states[u]
                     ELSE [states[u] EXCEPT !.seen = TRUE,
                             !.current = @ + effectiveWeight(u) - (IF u = b THEN Paid(C, b) ELSE 0)]
    BY Zenon DEF Turn
  <2>2. Paid(C, b) = SumFunctionOnSet(Effective, C)
    BY DEF Paid, Totals, Effective
  <2>3. states[u] \in [current : Int, age : 0 .. SlowStart, seen : BOOLEAN]
    BY DEF TypeOK
  <2> HIDE DEF C, b
  <2>4. Current'[u] = states'[u].current /\ Current[u] = states[u].current
        /\ Effective[u] = effectiveWeight(u)
    BY DEF Current, Effective
  <2>5. Current[u] \in Int /\ Effective[u] \in Int
    BY <2>3, <2>4, EffectiveBounds, HeaviestBounds
  <2>6. CASE u \notin C
    BY <1>5, <2>1, <2>4, <2>5, <2>6
  <2>7. CASE u \in C
    <3>1. states'[u].current = states[u].current + effectiveWeight(u) - (IF u = b THEN Paid(C, b) ELSE 0)
      BY <2>1, <2>3, <2>7
    <3> QED BY <3>1, <2>2, <2>4, <2>7
  <2> QED BY <2>6, <2>7
<1>8. \A u \in Ids : turns'[u] = IF u = b THEN 0 ELSE IF u \in C THEN turns[u] + 1 ELSE turns[u]
  BY DEF Turn
<1> QED
  <2> HIDE DEF C, b
  <2> QED BY <1>5, <1>6, <1>7, <1>8 DEF TurnOf

\* Every set of upstreams together is within its bound.
SharesBounded == \A A \in SUBSET Ids : SumFunctionOnSet(Current, A) <= Bound(A)

\* An upstream has got at least 1 in every turn since it was chosen.
TurnsPaid == \A u \in Ids : turns[u] <= states[u].current + Round

WeightInv == TypeOK /\ WeightsBalance /\ SharesBounded /\ TurnsPaid

\* What the sums are sums of.
LEMMA CurrentType ==
  ASSUME TypeOK
  PROVE  /\ \A u \in Ids : Current[u] \in Int /\ Effective[u] \in Nat
                           /\ Effective[u] >= 1 /\ Effective[u] <= Heaviest
         /\ \A A \in SUBSET Ids :
              /\ IsFiniteSet(A) /\ Cardinality(A) \in 0 .. Count
              /\ SumFunctionOnSet(Current, A) \in Int
              /\ SumFunctionOnSet(Effective, A) \in Nat
<1>1. \A u \in Ids : /\ Current[u] \in Int /\ Effective[u] \in Nat
                     /\ Effective[u] >= 1 /\ Effective[u] <= Heaviest
  BY EffectiveBounds, HeaviestBounds DEF TypeOK, Current, Effective
<1>2. \A A \in SUBSET Ids : IsFiniteSet(A) /\ Cardinality(A) \in 0 .. Count
  BY IdsFinite, FS_Subset, FS_CardinalityType DEF Count
<1>3. ASSUME NEW A \in SUBSET Ids
      PROVE  /\ SumFunctionOnSet(Current, A) \in Int
             /\ SumFunctionOnSet(Effective, A) \in Nat
  <2>1. /\ \A u \in A : Current[u] \in Int
        /\ \A u \in A : Effective[u] \in Nat
    BY <1>1
  <2> QED BY <1>2, <2>1, SumInt, SumNat
<1> QED BY <1>1, <1>2, <1>3

\* The sum of A after a turn.
LEMMA SumAfterTurn ==
  ASSUME TypeOK, NEW C \in SUBSET Ids, NEW b \in Ids, TurnOf(C, b), NEW A \in SUBSET Ids
  PROVE  SumFunctionOnSet(Current', A) =
           SumFunctionOnSet(Current, A) + SumFunctionOnSet(Effective, A \intersect C)
             - (IF b \in A THEN SumFunctionOnSet(Effective, C) ELSE 0)
<1> DEFINE total == SumFunctionOnSet(Effective, C)
           gain == [u \in Ids |-> IF u \in C THEN Effective[u] ELSE 0]
           cost == [u \in Ids |-> IF u = b THEN -total ELSE 0]
           net == [u \in Ids |-> gain[u] + cost[u]]
<1>0. /\ \A u \in Ids : Current[u] \in Int /\ Effective[u] \in Int
      /\ total \in Int
      /\ \A B \in SUBSET Ids : IsFiniteSet(B)
  BY CurrentType
<1>1. \A u \in Ids : gain[u] \in Int /\ cost[u] \in Int /\ net[u] \in Int
  <2> HIDE DEF total
  <2> QED BY <1>0
<1>2. SumFunctionOnSet(Current', A) = SumFunctionOnSet(Current, A) + SumFunctionOnSet(net, A)
  <2>1. \A u \in A : Current[u] \in Int /\ net[u] \in Int /\ Current'[u] = Current[u] + net[u]
    <3> HIDE DEF total
    <3>1. \A u \in Ids : Current'[u] = Current[u] + (IF u \in C THEN Effective[u] ELSE 0)
                                - (IF u = b THEN total ELSE 0)
      BY Zenon DEF TurnOf, total
    <3> QED BY <1>0, <1>1, <3>1
  <2> HIDE DEF net
  <2> QED BY <1>0, <2>1, SumPlus
<1>3. SumFunctionOnSet(net, A) = SumFunctionOnSet(gain, A) + SumFunctionOnSet(cost, A)
  <2>1. \A u \in A : gain[u] \in Int /\ cost[u] \in Int /\ net[u] = gain[u] + cost[u]
    BY <1>1
  <2> HIDE DEF net, gain, cost
  <2> QED BY <1>0, <2>1, SumPlus
<1>4. SumFunctionOnSet(gain, A) = SumFunctionOnSet(Effective, A \intersect C)
  <2> DEFINE T == A \intersect C
             R == A \ C
  <2>1. T \union R = A /\ T \intersect R = {} /\ T \in SUBSET Ids /\ R \in SUBSET Ids
    OBVIOUS
  <2>2. \A u \in T : gain[u] = Effective[u]
    OBVIOUS
  <2>3. \A u \in R : gain[u] = 0
    OBVIOUS
  <2> HIDE DEF gain, T, R
  <2>4. SumFunctionOnSet(gain, T \union R) = SumFunctionOnSet(gain, T) + SumFunctionOnSet(gain, R)
    BY <1>0, <1>1, <2>1, SumUnion
  <2>5. SumFunctionOnSet(gain, R) = 0
    BY <1>0, <2>1, <2>3, SumZero
  <2>6. SumFunctionOnSet(gain, T) = SumFunctionOnSet(Effective, T)
    BY <1>0, <2>1, <2>2, SumSame
  <2>7. SumFunctionOnSet(Effective, T) \in Int
    BY <2>1, CurrentType
  <2>8. SumFunctionOnSet(gain, A) = SumFunctionOnSet(Effective, T)
    <3>1. SumFunctionOnSet(gain, T \union R) = SumFunctionOnSet(Effective, T) + 0
      BY <2>4, <2>5, <2>6
    <3>2. SumFunctionOnSet(gain, T \union R) = SumFunctionOnSet(Effective, T)
      BY <3>1, <2>7
    <3> QED BY <2>1, <3>2, Zenon
  <2> QED BY <2>8 DEF T
<1>5. SumFunctionOnSet(cost, A) = IF b \in A THEN -total ELSE 0
  <2>1. CASE b \notin A
    <3>1. \A u \in A : cost[u] = 0
      BY <2>1
    <3> HIDE DEF cost
    <3> QED BY <1>0, <2>1, <3>1, SumZero
  <2>2. CASE b \in A
    <3>1. \A u \in A \ {b} : cost[u] = 0
      OBVIOUS
    <3>2. cost[b] = -total
      OBVIOUS
    <3> HIDE DEF cost, total
    <3>3. SumFunctionOnSet(cost, A) = cost[b] + SumFunctionOnSet(cost, A \ {b})
      BY <1>0, <1>1, <2>2, SumRemove
    <3>4. SumFunctionOnSet(cost, A \ {b}) = 0
      <4>1. A \ {b} \in SUBSET Ids
        OBVIOUS
      <4> QED BY <1>0, <3>1, <4>1, SumZero
    <3> QED BY <1>0, <2>2, <3>2, <3>3, <3>4
  <2> QED BY <2>1, <2>2
<1>6. /\ SumFunctionOnSet(Current, A) \in Int
      /\ SumFunctionOnSet(Effective, A \intersect C) \in Int
  <2>1. A \intersect C \in SUBSET Ids
    OBVIOUS
  <2> QED BY <2>1, CurrentType
<1> HIDE DEF net, gain, cost
<1> QED BY <1>0, <1>2, <1>3, <1>4, <1>5, <1>6

\* A turn keeps every set of upstreams within its bound.  If the winner is in
\* A then A has paid for all; otherwise the winner was ahead of the candidates
\* of A, and the bounds of A with the winner and of A without its candidates
\* leave room for what they have got.
LEMMA TurnKeepsShares ==
  ASSUME TypeOK, SharesBounded, NEW C \in SUBSET Ids, NEW b \in Ids, TurnOf(C, b),
         NEW A \in SUBSET Ids
  PROVE  SumFunctionOnSet(Current', A) <= Bound(A)
<1> DEFINE T == A \intersect C
           R == A \ C
           a == Cardinality(A)
           k == Cardinality(T)
           sumA == SumFunctionOnSet(Current, A)
           effT == SumFunctionOnSet(Effective, T)
<1>0. T \in SUBSET Ids /\ R \in SUBSET Ids /\ C \in SUBSET Ids /\ A = R \union T /\ R \intersect T = {}
  OBVIOUS
<1>1. /\ sumA \in Int /\ effT \in Int /\ sumA <= Bound(A)
      /\ a \in Nat /\ k \in Nat /\ Count \in Nat /\ Heaviest \in Nat
  BY <1>0, CurrentType, IdsFinite, HeaviestBounds DEF SharesBounded
<1>2. CASE b \in A
  <2> DEFINE X == C \ A
  <2>1. X \in SUBSET Ids /\ C = T \union X /\ T \intersect X = {}
    OBVIOUS
  <2>2. /\ IsFiniteSet(T) /\ IsFiniteSet(X)
        /\ \A u \in T \union X : Effective[u] \in Int
        /\ SumFunctionOnSet(Effective, X) \in Nat
    BY <1>0, <2>1, CurrentType
  <2>3. SumFunctionOnSet(Effective, C) = effT + SumFunctionOnSet(Effective, X)
    <3>1. SumFunctionOnSet(Effective, T \union X) = effT + SumFunctionOnSet(Effective, X)
      <4> HIDE DEF T, X
      <4> QED BY <2>1, <2>2, SumUnion
    <3> QED BY <2>1, <3>1
  <2>4. SumFunctionOnSet(Current', A) = sumA + effT - SumFunctionOnSet(Effective, C)
    BY <1>2, SumAfterTurn
  <2> HIDE DEF T, X, sumA, effT
  <2>5. Bound(A) \in Int
    BY <1>1, BoundIs DEF a
  <2> QED BY <1>1, <2>2, <2>3, <2>4, <2>5
<1>3. CASE b \notin A
  <2> DEFINE D == A \union {b}
             sumT == SumFunctionOnSet(Current, T)
             sumR == SumFunctionOnSet(Current, R)
             sumD == SumFunctionOnSet(Current, D)
             top == Current[b] + Effective[b]
             raised == [u \in Ids |-> Current[u] + Effective[u]]
  <2>0. b \in C /\ (\A u \in C : Current[u] + Effective[u] <= top)
    BY DEF TurnOf
  <2>1. /\ IsFiniteSet(A) /\ IsFiniteSet(T) /\ IsFiniteSet(R) /\ D \in SUBSET Ids
        /\ sumT \in Int /\ sumR \in Int /\ sumD \in Int
        /\ \A u \in Ids : Current[u] \in Int /\ Effective[u] \in Int /\ Effective[u] <= Heaviest
    BY <1>0, CurrentType
  <2>2. SumFunctionOnSet(Current', A) = sumA + effT
    <3>1. SumFunctionOnSet(Current', A) = sumA + effT - 0
      BY <1>3, SumAfterTurn
    <3> HIDE DEF sumA, effT
    <3> QED BY <3>1, <1>1
  <2>3. sumA = sumR + sumT
    <3>1. SumFunctionOnSet(Current, R \union T) = sumR + sumT
      <4> HIDE DEF R, T
      <4> QED BY <1>0, <2>1, SumUnion
    <3> QED BY <1>0, <3>1, Zenon
  <2>4. sumD = Current[b] + sumA
    <3> HIDE DEF T, R
    <3> QED BY <1>3, <2>1, SumInsert
  <2>5. sumT + effT <= k * top
    <3>1. SumFunctionOnSet(raised, T) = sumT + effT
      <4>1. \A u \in T : Current[u] \in Int /\ Effective[u] \in Int /\ raised[u] = Current[u] + Effective[u]
        BY <1>0, <2>1
      <4> HIDE DEF T, raised
      <4> QED BY <2>1, <4>1, SumPlus
    <3>2. \A u \in T : raised[u] \in Int /\ raised[u] <= top
      BY <1>0, <2>0, <2>1
    <3>3. top \in Int
      BY <2>1
    <3> HIDE DEF T, raised, top
    <3>4. SumFunctionOnSet(raised, T) <= k * top
      BY <2>1, <3>2, <3>3, SumBound
    <3> QED BY <3>1, <3>4
  <2>6. effT <= k * Heaviest
    <3>1. \A u \in T : Effective[u] \in Int /\ Effective[u] <= Heaviest
      BY <1>0, <2>1
    <3> HIDE DEF T
    <3> QED BY <1>1, <2>1, <3>1, SumBound
  <2>7. Cardinality(D) = a + 1 /\ Cardinality(R) = a - k
    <3>1. Cardinality(D) = a + 1
      BY <1>3, <2>1, FS_AddElement
    <3>2. Cardinality(R) = a - k
      <4>1. R = A \ C
        OBVIOUS
      <4> QED BY <2>1, FS_Difference
    <3> QED BY <3>1, <3>2
  <2>8. /\ sumR <= Heaviest * ((a - k) * (Count - (a - k)))
        /\ sumD <= Heaviest * ((a + 1) * (Count - (a + 1)))
    <3>1. sumR <= Bound(R) /\ sumD <= Bound(D)
      BY <1>0, <2>1 DEF SharesBounded
    <3> QED BY <1>0, <2>1, <3>1, <2>7, BoundIs
  <2>9. Bound(A) = Heaviest * (a * (Count - a))
    BY BoundIs
  <2>10. Effective[b] \in Int /\ Effective[b] <= Heaviest /\ Current[b] \in Int
    BY <2>1
  <2> HIDE DEF T, R, D, sumA, sumT, sumR, sumD, effT, a, k
  <2> DEFINE sum == sumA + effT
  <2>11. (k + 1) * sum <= sumR + k * sumD + k * ((k + 1) * Heaviest)
    <3> DEFINE e == Effective[b]
               c == Current[b]
    <3>1. c \in Int /\ e \in Int /\ e <= Heaviest
      BY <2>10
    <3> HIDE DEF e, c
    <3>2. sumT + effT <= k * (c + e)
      BY <2>5 DEF e, c
    <3>3. sumD = c + sumA
      BY <2>4 DEF c
    <3>4. (k + 1) * sum = sumR + k * (sumR + sumT + effT) + (sumT + effT)
      BY <1>1, <2>1, <2>3
    <3>5. (k + 1) * sum <= sumR + k * (sumR + sumT + effT) + k * (c + e)
      <4> DEFINE p == k * (sumR + sumT + effT)
                 q == k * (c + e)
                 l == (k + 1) * sum
      <4>1. p \in Int /\ q \in Int /\ l \in Int
        BY <1>1, <2>1, <3>1
      <4>2. l = sumR + p + (sumT + effT) /\ sumT + effT <= q
        BY <3>4, <3>2
      <4> HIDE DEF p, q, l
      <4>3. l <= sumR + p + q
        BY <1>1, <2>1, <4>1, <4>2
      <4> QED BY <4>3 DEF p, q, l
    <3>6. sumR + k * (sumR + sumT + effT) + k * (c + e) = sumR + k * sumD + k * effT + k * e
      BY <1>1, <2>1, <2>3, <3>1, <3>3
    <3>7. k * effT <= k * (k * Heaviest) /\ k * e <= k * Heaviest
      BY <1>1, <2>6, <3>1
    <3>8. k * (k * Heaviest) + k * Heaviest = k * ((k + 1) * Heaviest)
      BY <1>1
    <3> DEFINE p == (k + 1) * sum
               q == sumR + k * sumD
               x == k * effT
               y == k * e
               v == k * (k * Heaviest)
               w == k * Heaviest
               z == k * ((k + 1) * Heaviest)
    <3>9. p \in Int /\ q \in Int /\ x \in Int /\ y \in Int /\ v \in Int /\ w \in Int /\ z \in Int
      BY <1>1, <2>1, <3>1
    <3>10. p <= q + x + y /\ x <= v /\ y <= w /\ v + w = z
      BY <3>5, <3>6, <3>7, <3>8
    <3> HIDE DEF p, q, x, y, v, w, z
    <3>11. p <= q + z
      BY <3>9, <3>10
    <3> QED BY <3>11 DEF p, q, z
  <2>12. (k + 1) * sum <= (k + 1) * Bound(A)
    <3> DEFINE f == Heaviest * ((a - k) * (Count - (a - k)))
               g == Heaviest * ((a + 1) * (Count - (a + 1)))
               z == k * ((k + 1) * Heaviest)
               l == (k + 1) * sum
    <3>1. f + k * g + z = (k + 1) * Bound(A)
      BY <1>1, <2>9, BoundStep
    <3>2. f \in Int /\ g \in Int /\ z \in Int /\ l \in Int
      BY <1>1
    <3>3. sumR <= f /\ sumD <= g /\ l <= sumR + k * sumD + z
      BY <2>8, <2>11
    <3> HIDE DEF f, g, z, l, sum
    <3>4. k * sumD <= k * g /\ k * sumD \in Int /\ k * g \in Int
      BY <1>1, <2>1, <3>2, <3>3
    <3>5. l <= f + k * g + z
      BY <2>1, <3>2, <3>3, <3>4
    <3> QED BY <3>1, <3>5 DEF l
  <2>13. Bound(A) \in Int /\ sum \in Int
    BY <1>1, <2>9
  <2> HIDE DEF sum
  <2>14. sum <= Bound(A)
    BY <1>1, <2>12, <2>13, CancelFactor
  <2> QED BY <2>2, <2>14 DEF sum
<1> QED BY <1>2, <1>3

----------------------------------------------------------------------------
(* The invariant.                                                          *)

LEMMA RoundIs == Round = Heaviest * (Count - 1)
BY DEF Round, Heaviest, Count

\* The credit or debt of one upstream is bounded by the shares of it and of
\* all the others.
LEMMA CreditFromShares == TypeOK /\ WeightsBalance /\ SharesBounded => CreditBounded
<1> SUFFICES ASSUME TypeOK, WeightsBalance, SharesBounded, NEW u \in Ids
             PROVE  states[u].current \in -Round .. Round
  BY DEF CreditBounded
<1> DEFINE O == Ids \ {u}
<1>1. /\ IsFiniteSet(Ids) /\ Count \in Nat /\ Heaviest \in Nat /\ Current[u] \in Int
      /\ SumFunctionOnSet(Current, O) \in Int
      /\ \A v \in Ids : Current[v] \in Int
  BY CurrentType, IdsFinite, HeaviestBounds
<1>2. SumFunctionOnSet(Current, {u}) = Current[u]
  <2>1. SumFunctionOnSet(Current, {} \union {u}) = Current[u] + SumFunctionOnSet(Current, {})
    BY <1>1, FS_EmptySet, SumInsert
  <2>2. {} \union {u} = {u}
    OBVIOUS
  <2> QED BY <1>1, <2>1, <2>2, SumEmpty
<1>3. 0 = Current[u] + SumFunctionOnSet(Current, O)
  <2>1. SumFunctionOnSet(Current, Ids) = 0
    BY DEF WeightsBalance, Current
  <2> QED BY <1>1, <2>1, SumRemove
<1>4. Cardinality({u}) = 1 /\ Cardinality(O) = Count - 1
  BY <1>1, FS_Singleton, FS_RemoveElement DEF Count
<1>5. SumFunctionOnSet(Current, {u}) <= Round /\ SumFunctionOnSet(Current, O) <= Round
  <2>1. SumFunctionOnSet(Current, {u}) <= Bound({u}) /\ SumFunctionOnSet(Current, O) <= Bound(O)
    BY DEF SharesBounded
  <2>2. Bound({u}) = Round /\ Bound(O) = Round
    <3>1. /\ Bound({u}) = Heaviest * (1 * (Count - 1))
          /\ Bound(O) = Heaviest * ((Count - 1) * (Count - (Count - 1)))
      <4>1. {u} \in SUBSET Ids /\ O \in SUBSET Ids /\ Ids # {}
        OBVIOUS
      <4> HIDE DEF O
      <4>2. /\ Bound({u}) = Heaviest * (Cardinality({u}) * (Count - Cardinality({u})))
            /\ Bound(O) = Heaviest * (Cardinality(O) * (Count - Cardinality(O)))
        BY <4>1, BoundIs
      <4> QED BY <1>4, <4>2, Zenon
    <3>2. 1 * (Count - 1) = Count - 1 /\ (Count - 1) * (Count - (Count - 1)) = Count - 1
      BY <1>1
    <3>3. Bound({u}) = Heaviest * (Count - 1) /\ Bound(O) = Heaviest * (Count - 1)
      BY <3>1, <3>2, Zenon
    <3> QED BY <3>3, RoundIs, Zenon
  <2> QED BY <2>1, <2>2
<1>6. Round \in Int
  BY <1>1, RoundIs
<1>7. Current[u] = states[u].current
  BY DEF Current
<1> QED BY <1>1, <1>2, <1>3, <1>5, <1>6, <1>7

LEMMA BoundsNat ==
  /\ \A A \in SUBSET Ids : Bound(A) \in Nat
  /\ Ids # {} => Round \in Nat
<1>1. ASSUME NEW A \in SUBSET Ids PROVE Bound(A) \in Nat
  <2>1. IsFiniteSet(A) /\ Cardinality(A) \in Nat /\ Cardinality(A) <= Count /\ Count \in Nat
    BY IdsFinite, FS_Subset, FS_CardinalityType DEF Count
  <2>2. CASE A = {}
    BY <2>2 DEF Bound
  <2>3. CASE A # {}
    <3>1. Heaviest \in Nat
      BY <2>3, HeaviestBounds
    <3> QED BY <2>1, <3>1 DEF Bound
  <2> QED BY <2>2, <2>3
<1>2. ASSUME Ids # {} PROVE Round \in Nat
  BY <1>2, HeaviestBounds, IdsFinite, RoundIs
<1> QED BY <1>1, <1>2

\* All weights at 0, as at the start and after a reload.
AllZero == \A u \in Ids : states[u].current = 0 /\ turns[u] = 0

\* Weights at 0 are balanced.
LEMMA WeightsAtZero == AllZero => WeightsBalance /\ SharesBounded /\ TurnsPaid
<1> SUFFICES ASSUME AllZero PROVE WeightsBalance /\ SharesBounded /\ TurnsPaid
  OBVIOUS
<1> USE DEF AllZero
<1>1. \A A \in SUBSET Ids : SumFunctionOnSet(Current, A) = 0
  <2> TAKE A \in SUBSET Ids
  <2>1. IsFiniteSet(A) /\ \A u \in A : Current[u] = 0
    BY IdsFinite, FS_Subset DEF Current
  <2> QED BY <2>1, SumZero
<1>2. WeightsBalance
  BY <1>1 DEF WeightsBalance, Current
<1>3. SharesBounded
  BY <1>1, BoundsNat DEF SharesBounded
<1>4. TurnsPaid
  BY BoundsNat DEF TurnsPaid
<1> QED BY <1>2, <1>3, <1>4

LEMMA WeightInit == Init => WeightInv
<1> SUFFICES ASSUME Init PROVE WeightInv
  OBVIOUS
<1>1. TypeOK
  BY WeightedAssumption DEF Init, TypeOK, Unseen
<1>2. AllZero
  BY DEF Init, Unseen, AllZero
<1> QED BY <1>1, <1>2, WeightsAtZero DEF WeightInv

\* Steps that move no weight.
LEMMA WeightFrame ==
  ASSUME WeightsBalance, SharesBounded, TurnsPaid,
         \A u \in Ids : states'[u].current = states[u].current, turns' = turns
  PROVE  (WeightsBalance /\ SharesBounded /\ TurnsPaid)'
<1>1. Current' = Current
  BY DEF Current
<1>2. WeightsBalance'
  <2>1. SumFunctionOnSet(Current, Ids) = 0
    BY DEF WeightsBalance, Current
  <2>2. SumFunctionOnSet(Current', Ids) = 0
    BY <1>1, <2>1
  <2> QED BY <2>2 DEF WeightsBalance, Current
<1>3. SharesBounded'
  BY <1>1 DEF SharesBounded, Bound, Heaviest, configuredWeight
<1>4. TurnsPaid'
  BY DEF TurnsPaid, Round, configuredWeight
<1> QED BY <1>2, <1>3, <1>4

LEMMA TurnStep ==
  ASSUME WeightInv, NEW r \in Requests, Turn(r), TypeOK'
  PROVE  WeightInv'
<1>0. TypeOK /\ SharesBounded /\ WeightsBalance /\ TurnsPaid
  BY DEF WeightInv
<1>1. PICK C \in SUBSET Ids, b \in Ids : TurnOf(C, b)
  BY <1>0, TurnIsTurnOf
<1>2. SharesBounded'
  <2>1. \A A \in SUBSET Ids : SumFunctionOnSet(Current', A) <= Bound(A)
    BY <1>0, <1>1, TurnKeepsShares
  <2> QED BY <2>1 DEF SharesBounded, Bound, Heaviest, configuredWeight
<1>3. WeightsBalance'
  <2>1. SumFunctionOnSet(Current', Ids) =
          SumFunctionOnSet(Current, Ids) + SumFunctionOnSet(Effective, Ids \intersect C)
            - SumFunctionOnSet(Effective, C)
    BY <1>0, <1>1, SumAfterTurn
  <2>2. Ids \intersect C = C /\ SumFunctionOnSet(Effective, C) \in Int
    BY <1>0, CurrentType
  <2>3. SumFunctionOnSet(Current, Ids) = 0
    BY <1>0 DEF WeightsBalance, Current
  <2>4. SumFunctionOnSet(Current', Ids) = 0
    BY <2>1, <2>2, <2>3
  <2> QED BY <2>4 DEF WeightsBalance, Current
<1>4. TurnsPaid'
  <2>1. SUFFICES ASSUME NEW u \in Ids PROVE turns'[u] <= states'[u].current + Round
    BY DEF TurnsPaid, Round, configuredWeight
  <2>2. /\ Current'[u] = states'[u].current /\ Current[u] = states[u].current
        /\ Current[u] \in Int /\ Effective[u] \in Int /\ Effective[u] >= 1
        /\ Round \in Int /\ turns[u] \in Nat /\ turns[u] <= states[u].current + Round
    BY <1>0, CurrentType, BoundsNat DEF Current, TypeOK, TurnsPaid
  <2>3. CASE u = b
    <3>1. states'[u].current \in -Round .. Round
      <4>1. (TypeOK /\ WeightsBalance /\ SharesBounded => CreditBounded)'
        BY CreditFromShares, PTL
      <4>2. CreditBounded'
        BY <1>2, <1>3, <4>1
      <4> QED BY <4>2 DEF CreditBounded, Round, configuredWeight
    <3>2. turns'[u] = 0
      BY <1>1, <2>3 DEF TurnOf
    <3> QED BY <2>2, <3>1, <3>2
  <2>4. CASE u # b
    <3>1. /\ Current'[u] = Current[u] + (IF u \in C THEN Effective[u] ELSE 0) - 0
          /\ turns'[u] = IF u \in C THEN turns[u] + 1 ELSE turns[u]
      BY <1>1, <2>4 DEF TurnOf
    <3> QED BY <2>2, <3>1
  <2> QED BY <2>3, <2>4
<1> QED BY <1>2, <1>3, <1>4 DEF WeightInv

LEMMA TypeStep == TypeOK /\ [Next]_vars => TypeOK'
<1> SUFFICES ASSUME TypeOK, [Next]_vars PROVE TypeOK'
  OBVIOUS
<1>1. ASSUME NEW r \in Requests, Filter(r) PROVE TypeOK'
  BY <1>1 DEF Filter, TypeOK
<1>2. ASSUME NEW r \in Requests, Turn(r) PROVE TypeOK'
  <2>1. PICK C \in SUBSET Ids, b \in Ids : TurnOf(C, b)
    BY <1>2, TurnIsTurnOf
  <2>2. \A u \in Ids : turns'[u] \in Nat
    BY <2>1 DEF TurnOf, TypeOK
  <2>3. \A u \in Ids : Current'[u] \in Int
    <3> TAKE u \in Ids
    <3>1. Current[u] \in Int /\ Effective[u] \in Int /\ SumFunctionOnSet(Effective, C) \in Int
      BY CurrentType
    <3> QED BY <2>1, <3>1 DEF TurnOf
  <2>4. ASSUME NEW u \in Ids
        PROVE  states'[u] \in [current : Int, age : 0 .. SlowStart, seen : BOOLEAN]
    <3>1. states[u] \in [current : Int, age : 0 .. SlowStart, seen : BOOLEAN]
      BY DEF TypeOK
    <3>2. states'[u] = states[u] \/ \E x : states'[u] = [states[u] EXCEPT !.seen = TRUE, !.current = x]
      BY <1>2, Zenon DEF Turn
    <3>3. states'[u].current \in Int
      BY <2>3 DEF Current
    <3> QED BY <3>1, <3>2, <3>3
  <2>5. /\ available' = available /\ candidates' = [candidates EXCEPT ![r] = {}]
        /\ DOMAIN states' = Ids /\ DOMAIN turns' = Ids
        /\ states' = [u \in Ids |-> states'[u]] /\ turns' = [u \in Ids |-> turns'[u]]
    BY <1>2, Zenon DEF Turn
  <2>6. candidates' \in [Requests -> SUBSET Indices]
    BY <2>5 DEF TypeOK
  <2>7. states' \in [Ids -> [current : Int, age : 0 .. SlowStart, seen : BOOLEAN]]
    BY <2>4, <2>5
  <2>8. turns' \in [Ids -> Nat]
    BY <2>2, <2>5
  <2> QED BY <2>5, <2>6, <2>7, <2>8 DEF TypeOK
<1>3. CASE ResetLoadBalancers
  BY <1>3, WeightedAssumption DEF ResetLoadBalancers, TypeOK, Unseen
<1>4. CASE Tick
  <2>1. ASSUME NEW u \in Ids
        PROVE  (IF states[u].seen /\ states[u].age < SlowStart
                THEN [states[u] EXCEPT !.age = @ + 1] ELSE states[u])
                 \in [current : Int, age : 0 .. SlowStart, seen : BOOLEAN]
    <3>1. states[u] \in [current : Int, age : 0 .. SlowStart, seen : BOOLEAN]
      BY DEF TypeOK
    <3> QED BY <3>1, WeightedAssumption
  <2>2. states' \in [Ids -> [current : Int, age : 0 .. SlowStart, seen : BOOLEAN]]
    BY <1>4, <2>1 DEF Tick
  <2> QED BY <1>4, <2>2 DEF Tick, TypeOK
<1>5. ASSUME NEW u \in Ids, Flip(u) PROVE TypeOK'
  BY <1>5 DEF Flip, TypeOK
<1>6. CASE UNCHANGED vars
  BY <1>6 DEF vars, TypeOK
<1> QED BY <1>1, <1>2, <1>3, <1>4, <1>5, <1>6 DEF Next

LEMMA WeightStep == WeightInv /\ [Next]_vars => WeightInv'
<1> SUFFICES ASSUME WeightInv, [Next]_vars PROVE WeightInv'
  OBVIOUS
<1>0. TypeOK /\ TypeOK' /\ WeightsBalance /\ SharesBounded /\ TurnsPaid
  BY TypeStep DEF WeightInv
<1>1. ASSUME NEW r \in Requests, Filter(r) PROVE WeightInv'
  BY <1>0, <1>1, WeightFrame DEF Filter, WeightInv
<1>2. ASSUME NEW r \in Requests, Turn(r) PROVE WeightInv'
  BY <1>0, <1>2, TurnStep
<1>3. CASE ResetLoadBalancers
  <2>1. AllZero'
    BY <1>3 DEF ResetLoadBalancers, Unseen, AllZero
  <2>2. (AllZero => WeightsBalance /\ SharesBounded /\ TurnsPaid)'
    BY WeightsAtZero, PTL
  <2> QED BY <1>0, <2>1, <2>2 DEF WeightInv
<1>4. CASE Tick
  <2>1. \A u \in Ids : states'[u].current = states[u].current
    BY <1>0, <1>4 DEF Tick, TypeOK
  <2> QED BY <1>0, <1>4, <2>1, WeightFrame DEF Tick, WeightInv
<1>5. ASSUME NEW u \in Ids, Flip(u) PROVE WeightInv'
  BY <1>0, <1>5, WeightFrame DEF Flip, WeightInv
<1>6. CASE UNCHANGED vars
  BY <1>0, <1>6, WeightFrame DEF vars, WeightInv
<1> QED BY <1>1, <1>2, <1>3, <1>4, <1>5, <1>6 DEF Next

(***************************************************************************)
(* The state of handleWeighted keeps its type: the age of an upstream      *)
(* never passes the slow start, and the candidates of a waiting request    *)
(* are indices of the service.                                             *)
(***************************************************************************)
THEOREM WeightedTypeCorrect == Spec => []TypeOK
<1>1. Init => TypeOK
  BY WeightInit DEF WeightInv
<1> QED BY <1>1, TypeStep, PTL DEF Spec

\* The invariant holds.
LEMMA WeightInvariant == Spec => []WeightInv
BY WeightInit, WeightStep, PTL DEF Spec

(***************************************************************************)
(* The current weights of a service always add up to nothing, whatever the *)
(* slow start makes of the weights between the turns (handleWeighted).     *)
(***************************************************************************)
THEOREM WeightsAddUp == Spec => []WeightsBalance
<1>1. WeightInv => WeightsBalance
  BY DEF WeightInv
<1> QED BY <1>1, WeightInvariant, PTL

(***************************************************************************)
(* Credit and debt of an upstream stay within one round, for every         *)
(* sequence of failures, recoveries, reloads and turns (handleWeighted).   *)
(***************************************************************************)
THEOREM CreditStaysBounded == Spec => []CreditBounded
<1>1. WeightInv => CreditBounded
  BY CreditFromShares DEF WeightInv
<1> QED BY <1>1, WeightInvariant, PTL

(***************************************************************************)
(* An upstream that is a candidate waits for at most two rounds of turns   *)
(* (handleWeighted).                                                       *)
(***************************************************************************)
THEOREM NobodyStarves == Spec => []NoStarvation
<1>1. ASSUME WeightInv, NEW u \in Ids PROVE turns[u] <= 2 * Round
  <2>1. /\ states[u].current \in -Round .. Round /\ Round \in Nat
        /\ turns[u] \in Nat /\ turns[u] <= states[u].current + Round
    BY <1>1, CreditFromShares, BoundsNat DEF WeightInv, TurnsPaid, TypeOK, CreditBounded
  <2> QED BY <2>1
<1>2. WeightInv => NoStarvation
  BY <1>1 DEF NoStarvation
<1> QED BY <1>2, WeightInvariant, PTL
=============================================================================
