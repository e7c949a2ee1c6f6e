-------------------------- MODULE BalancersProofs ---------------------------
(***************************************************************************)
(* Proofs about the balancers, for any requests, strategies, upstreams,    *)
(* sequence of configurations and prime size of the table.                 *)
(*                                                                         *)
(* The Maglev table comes first: as M is prime, the permutation of an      *)
(* upstream meets every slot, so that each claim finds a free one; by      *)
(* induction over the claims, the table after n of them has n owned slots, *)
(* spread evenly.  The invariant of the requests then says what a request  *)
(* holds at each place: a service, an index of its list, and what its      *)
(* index avoids.  The refusals of the hash balancer follow from both.      *)
(***************************************************************************)
EXTENDS Balancers, FoldLemmas

----------------------------------------------------------------------------
(* The Maglev table.                                                       *)

\* Division with a remainder.
LEMMA Quotient ==
  ASSUME NEW x \in Int, NEW m \in Nat, m >= 1
  PROVE  x \div m \in Int /\ (x \div m) * m <= x /\ x < ((x \div m) + 1) * m
OBVIOUS

\* Quotient and remainder are determined by x = q * m + r.
LEMMA DivModIs ==
  ASSUME NEW x \in Int, NEW m \in Nat, m >= 1,
         NEW q \in Int, NEW r \in 0 .. m - 1, x = q * m + r
  PROVE  x \div m = q /\ x % m = r
OBVIOUS

LEMMA DivMod ==
  ASSUME NEW x \in Int, NEW m \in Nat, m >= 1
  PROVE  \E q \in Int, r \in 0 .. m - 1 : q = x \div m /\ r = x % m /\ x = q * m + r
<1>1. PICK q \in Int : q = x \div m /\ q * m <= x /\ x < (q + 1) * m
  BY Quotient
<1>2. x - q * m \in 0 .. m - 1 /\ x = q * m + (x - q * m)
  BY <1>1
<1>3. x % m = x - q * m
  BY <1>2, DivModIs
<1> WITNESS q \in Int, x - q * m \in 0 .. m - 1
<1> QED BY <1>1, <1>2, <1>3

\* The difference of numbers with the same remainder is a multiple.
LEMMA SameRemainder ==
  ASSUME NEW x \in Int, NEW y \in Int, NEW m \in Nat, m >= 1, x % m = y % m
  PROVE  (y - x) % m = 0
<1>1. PICK p \in Int, r \in 0 .. m - 1 : r = x % m /\ x = p * m + r
  BY DivMod
<1>2. PICK q \in Int, t \in 0 .. m - 1 : t = y % m /\ y = q * m + t
  BY DivMod
<1>3. r = t
  BY <1>1, <1>2
<1>4. y - x = (q - p) * m + 0 /\ q - p \in Int /\ 0 \in 0 .. m - 1 /\ y - x \in Int
  BY <1>1, <1>2, <1>3
<1> HIDE <1>1, <1>2
<1> QED BY <1>4, DivModIs

\* M divides no product of smaller numbers: the least k with M | a * k
\* divides M.
LEMMA PrimeProduct ==
  ASSUME NEW a \in 1 .. M - 1, NEW b \in 1 .. M - 1
  PROVE  (a * b) % M # 0
<1> SUFFICES ASSUME (a * b) % M = 0 PROVE FALSE
  OBVIOUS
<1>0. M \in Nat /\ M > 1 /\ a \in Nat /\ b \in Nat
  BY BalancerAssumption
<1> DEFINE T == {k \in Nat : k >= 1 /\ \E q \in Int : a * k = M * q}
<1>1. b \in T
  <2>1. a * b = M * ((a * b) \div M) /\ (a * b) \div M \in Int
    BY <1>0
  <2> QED BY <1>0, <2>1
<1>2. PICK k \in T : \A l \in T : k <= l
  <2> HIDE DEF T
  <2>1. T \in SUBSET Nat BY DEF T
  <2> QED BY <1>1, <2>1, LeastElement
<1>3. PICK q \in Int : a * k = M * q
  OBVIOUS
<1>4. k \in Nat /\ k >= 1 /\ k <= b
  BY <1>1, <1>2
<1> DEFINE d == M \div k
           r == M % k
<1>5. d \in Int /\ r \in Nat /\ r < k /\ M = k * d + r
  BY <1>0, <1>4
<1> HIDE DEF d, r
<1>6. r = 0
  <2> SUFFICES ASSUME r >= 1 PROVE FALSE
    BY <1>5
  <2>1. a * r = a * M - (a * k) * d
    <3>1. r = M - k * d
      BY <1>0, <1>4, <1>5
    <3> QED BY <1>0, <1>4, <1>5, <3>1
  <2>2. a * r = M * (a - q * d)
    BY <1>0, <1>3, <1>4, <1>5, <2>1
  <2>3. a - q * d \in Int
    BY <1>0, <1>3, <1>5
  <2>4. r \in T
    <3> HIDE DEF r, d
    <3> QED BY <1>5, <2>2, <2>3
  <2>5. k <= r
    <3> HIDE DEF T
    <3> QED BY <1>2, <2>4
  <2> QED BY <1>4, <1>5, <2>5
<1>7. M % k = 0
  BY <1>6 DEF r
<1>8. k = 1
  <2>1. k \in 2 .. M - 1 => M % k # 0
    BY BalancerAssumption
  <2>2. k \in 1 .. M - 1
    BY <1>0, <1>4
  <2> HIDE DEF T
  <2> QED BY <1>0, <1>7, <2>1, <2>2
<1>9. a = M * q
  BY <1>0, <1>3, <1>8
<1>10. q >= 1 /\ M * q >= M
  BY <1>0, <1>9
<1> QED BY <1>0, <1>9, <1>10

\* The permutation of an upstream consists of slots ...
LEMMA PermutationInSlots ==
  ASSUME NEW u \in Ids, NEW j \in Slots
  PROVE  Permutation(u, j) \in Slots
<1>1. M \in Nat /\ M > 1 /\ Offset[u] \in Int /\ Skip[u] \in Int /\ j \in Int
  BY BalancerAssumption DEF Slots
<1>2. Offset[u] + j * Skip[u] \in Int
  BY <1>1
<1> QED BY <1>1, <1>2 DEF Permutation, Slots

\* ... without repetition.
LEMMA PermutationInjective ==
  ASSUME NEW u \in Ids, NEW i \in Slots, NEW j \in Slots, i < j
  PROVE  Permutation(u, i) # Permutation(u, j)
<1> DEFINE o == Offset[u]
           k == Skip[u]
           x == o + i * k
           y == o + j * k
<1>1. M \in Nat /\ M > 1 /\ o \in Int /\ k \in 1 .. M - 1 /\ j \in Int /\ i \in Int
      /\ j - i \in 1 .. M - 1
  BY BalancerAssumption DEF Slots
<1>2. x \in Int /\ y \in Int
  BY <1>1
<1>3. y - x = (j - i) * k
  <2> HIDE DEF o, k
  <2> QED BY <1>1
<1> HIDE DEF x, y
<1>4. SUFFICES ASSUME x % M = y % M PROVE FALSE
  BY DEF Permutation, x, y
<1>7. (y - x) % M = 0
  <2>1. M >= 1
    BY <1>1
  <2> QED BY <1>1, <1>2, <1>4, <2>1, SameRemainder
<1>8. ((j - i) * k) % M # 0
  BY <1>1, PrimeProduct
<1> QED BY <1>3, <1>7, <1>8
\* An upstream meets every slot in its permutation.
LEMMA PermutationOnto ==
  ASSUME NEW u \in Ids, NEW s \in Slots
  PROVE  \E j \in Slots : Permutation(u, j) = s
<1> DEFINE f == [j \in Slots |-> Permutation(u, j)]
<1>1. f \in Injection(Slots, Slots)
  <2>1. f \in [Slots -> Slots]
    BY PermutationInSlots
  <2>2. ASSUME NEW i \in Slots, NEW j \in Slots, f[i] = f[j] PROVE i = j
    <3>1. i \in Int /\ j \in Int
      BY DEF Slots
    <3>2. ~(i < j) /\ ~(j < i)
      BY <2>2, PermutationInjective
    <3> QED BY <3>1, <3>2
  <2> HIDE DEF f
  <2> QED BY <2>1, <2>2 DEF Injection, IsInjective
<1>2. IsFiniteSet(Slots)
  BY BalancerAssumption, FS_Interval DEF Slots
<1>3. f \in Surjection(Slots, Slots)
  <2> HIDE DEF f
  <2> QED BY <1>1, <1>2, FS_Injection
<1> QED BY <1>3 DEF Surjection

\* As long as a slot is free, a claim is for a free one.
LEMMA ClaimIsFree ==
  ASSUME NEW table, NEW u \in Ids, NEW n, NEW s \in Slots, table[s] = 0
  PROVE  Claim(table, u, n) \in Slots /\ table[Claim(table, u, n)] = 0
<1> DEFINE Free(j) == table[Permutation(u, j)] = 0
           T == {j \in Slots : Free(j)}
<1>0. M \in Nat /\ Slots = 0 .. M - 1
  BY BalancerAssumption DEF Slots
<1>1. T # {}
  BY PermutationOnto
<1>2. PICK m \in T : \A j \in T : m <= j
  <2>1. T \in SUBSET Nat
    BY <1>0
  <2> HIDE DEF T
  <2> QED BY <1>1, <2>1, LeastElement
<1>3. \A i \in 0 .. m - 1 : ~Free(i)
  <2> TAKE i \in 0 .. m - 1
  <2>1. i \in Slots /\ ~(m <= i)
    BY <1>0
  <2> QED BY <1>2, <2>1
<1>4. PICK j \in Slots : /\ Free(j)
                         /\ \A i \in 0 .. j - 1 : table[Permutation(u, i)] # 0
                         /\ Claim(table, u, n) = Permutation(u, j)
  <2>1. \E j \in Slots : Free(j) /\ \A i \in 0 .. j - 1 : table[Permutation(u, i)] # 0
    BY <1>2, <1>3
  <2> QED BY <2>1, Zenon DEF Claim
<1>5. Claim(table, u, n) \in Slots
  BY <1>4, PermutationInSlots
<1>6. table[Claim(table, u, n)] = 0
  BY <1>4, Zenon
<1> QED BY <1>5, <1>6
----------------------------------------------------------------------------
(* The table after n claims.                                               *)

TurnOf(ups, n) == ((n - 1) % Len(ups)) + 1
Empty == [s \in Slots |-> 0]
Filled(table, ups, n) ==
  [table EXCEPT ![Claim(table, ups[TurnOf(ups, n)], n - 1)] = TurnOf(ups, n)]
IsFill(f, ups, k) ==
  f = [n \in 0 .. k |-> IF n = 0 THEN Empty ELSE Filled(f[n - 1], ups, n)]

\* The recursion of GenerateRing is well defined.
LEMMA FillExists ==
  ASSUME NEW ups
  PROVE  \A k \in Nat : \E f : IsFill(f, ups, k)
<1> DEFINE Q == {k \in Nat : \E f : IsFill(f, ups, k)}
<1>1. 0 \in Q
  <2> DEFINE f == [n \in 0 .. 0 |-> Empty]
  <2>1. IsFill(f, ups, 0)
    BY DEF IsFill
  <2> QED BY <2>1
<1>2. ASSUME NEW k \in Q PROVE k + 1 \in Q
  <2>1. PICK f : IsFill(f, ups, k)
    OBVIOUS
  <2> DEFINE g == [n \in 0 .. k + 1 |-> IF n = 0 THEN Empty ELSE Filled(f[n - 1], ups, n)]
  <2>2. \A n \in 0 .. k : g[n] = f[n]
    BY <2>1 DEF IsFill
  <2>3. \A n \in 0 .. k + 1 : n # 0 => n - 1 \in 0 .. k
    OBVIOUS
  <2>4. IsFill(g, ups, k + 1)
    BY <2>2, <2>3 DEF IsFill
  <2>5. \E h : IsFill(h, ups, k + 1)
    BY <2>4
  <2> QED BY <2>5
<1>3. Q = Nat
  <2> HIDE DEF Q
  <2>1. Q \in SUBSET Nat BY DEF Q
  <2> QED BY <1>1, <1>2, <2>1, SetInduction
<1> QED BY <1>3

\* The ring is the table after M claims.
LEMMA RingIsFill ==
  ASSUME NEW ups
  PROVE  \E f : IsFill(f, ups, M) /\ GenerateRing(ups) = f[M]
<1> DEFINE f == CHOOSE f : IsFill(f, ups, M)
<1>1. IsFill(f, ups, M)
  BY FillExists, BalancerAssumption
<1>2. GenerateRing(ups) = f[M]
  BY DEF GenerateRing, IsFill, Filled, TurnOf, Empty
<1> QED BY <1>1, <1>2

\* After n claims every upstream has had n \div Len(ups) turns, and the first
\* ones one more.
Owned(table, i) == {s \in Slots : table[s] = i}
Even(table, ups, n) ==
  /\ table \in [Slots -> 0 .. Len(ups)]
  /\ Cardinality(Owned(table, 0)) = M - n
  /\ \E q \in Nat, r \in 0 .. Len(ups) - 1 :
       /\ n = q * Len(ups) + r
       /\ \A i \in 1 .. Len(ups) :
            Cardinality(Owned(table, i)) = IF i <= r THEN q + 1 ELSE q

\* An empty table is even ...
LEMMA EmptyIsEven ==
  ASSUME NEW ups \in Seq(Ids), Len(ups) >= 1
  PROVE  Even(Empty, ups, 0)
<1>1. M \in Nat /\ Len(ups) \in Nat
  BY BalancerAssumption
<1>2. Owned(Empty, 0) = Slots /\ \A i \in 1 .. Len(ups) : Owned(Empty, i) = {}
  BY <1>1 DEF Owned, Empty
<1>3. Cardinality(Slots) = M
  BY <1>1, FS_Interval DEF Slots
<1>4. \A i \in 1 .. Len(ups) : Cardinality(Owned(Empty, i)) = 0
  BY <1>2, FS_EmptySet
<1>5. Empty \in [Slots -> 0 .. Len(ups)]
  BY <1>1 DEF Empty
<1>6. /\ 0 \in Nat /\ 0 \in 0 .. Len(ups) - 1 /\ 0 = 0 * Len(ups) + 0
      /\ \A i \in 1 .. Len(ups) : Cardinality(Owned(Empty, i)) = IF i <= 0 THEN 0 + 1 ELSE 0
  BY <1>1, <1>4
<1>7. Cardinality(Owned(Empty, 0)) = M - 0
  BY <1>1, <1>2, <1>3
<1> QED BY <1>5, <1>6, <1>7 DEF Even

\* ... and a claim keeps it so.
LEMMA FilledIsEven ==
  ASSUME NEW ups \in Seq(Ids), Len(ups) >= 1, NEW n \in 1 .. M, NEW table,
         Even(table, ups, n - 1)
  PROVE  Even(Filled(table, ups, n), ups, n)
<1> DEFINE L == Len(ups)
           t == TurnOf(ups, n)
           c == Claim(table, ups[t], n - 1)
           new == Filled(table, ups, n)
<1>0. M \in Nat /\ L \in Nat /\ L >= 1 /\ IsFiniteSet(Slots)
  BY BalancerAssumption, FS_Interval DEF Slots
<1>1. PICK q \in Nat, r \in 0 .. L - 1 :
        /\ n - 1 = q * L + r
        /\ \A i \in 1 .. L : Cardinality(Owned(table, i)) = IF i <= r THEN q + 1 ELSE q
  BY DEF Even
<1>2. t = r + 1 /\ t \in 1 .. L
  <2>1. (n - 1) % L = r
    <3> HIDE DEF L
    <3>1. n - 1 \in Int /\ q \in Int /\ n - 1 = q * L + r
      BY <1>0, <1>1
    <3> QED BY <1>0, <3>1, DivModIs
  <2> QED BY <1>0, <2>1 DEF TurnOf
<1>3. \A i : IsFiniteSet(Owned(table, i))
  BY <1>0, FS_Subset DEF Owned
<1>4. c \in Slots /\ table[c] = 0
  <2>1. Owned(table, 0) # {}
    <3>1. Cardinality(Owned(table, 0)) = M - (n - 1)
      BY DEF Even
    <3>2. M - (n - 1) # 0
      BY <1>0
    <3> QED BY <1>3, <3>1, <3>2, FS_EmptySet
  <2>2. PICK s \in Slots : table[s] = 0
    BY <2>1 DEF Owned
  <2>3. ups[t] \in Ids
    BY <1>2
  <2> QED BY <2>2, <2>3, ClaimIsFree
<1> HIDE DEF t, c
<1>5. new \in [Slots -> 0 .. L] /\ \A s \in Slots : new[s] = IF s = c THEN t ELSE table[s]
  <2>1. table \in [Slots -> 0 .. L]
    BY DEF Even
  <2>2. new = [table EXCEPT ![c] = t]
    BY DEF Filled, t, c
  <2>3. t \in 0 .. L
    BY <1>0, <1>2
  <2> QED BY <2>1, <2>2, <2>3
<1> HIDE DEF new, L
<1>6. Cardinality(Owned(new, 0)) = M - n
  <2>1. Owned(new, 0) = Owned(table, 0) \ {c}
    BY <1>0, <1>2, <1>5 DEF Owned
  <2>2. c \in Owned(table, 0)
    BY <1>4 DEF Owned
  <2>3. Cardinality(Owned(table, 0)) = M - (n - 1)
    BY DEF Even
  <2>4. Cardinality(Owned(table, 0) \ {c}) = Cardinality(Owned(table, 0)) - 1
    BY <1>3, <2>2, FS_RemoveElement
  <2>5. (M - (n - 1)) - 1 = M - n
    BY <1>0
  <2> QED BY <2>1, <2>3, <2>4, <2>5, Zenon
<1>7. Cardinality(Owned(new, t)) = q + 1
  <2>1. Owned(new, t) = Owned(table, t) \union {c} /\ c \notin Owned(table, t)
    BY <1>0, <1>2, <1>4, <1>5 DEF Owned
  <2>2. Cardinality(Owned(table, t)) = q
    BY <1>0, <1>1, <1>2
  <2>3. Cardinality(Owned(table, t) \union {c}) = Cardinality(Owned(table, t)) + 1
    BY <1>3, <2>1, FS_AddElement
  <2> QED BY <2>1, <2>2, <2>3, Zenon
<1>8. \A i \in 1 .. L : i # t => Cardinality(Owned(new, i)) = IF i <= r THEN q + 1 ELSE q
  <2> TAKE i \in 1 .. L
  <2>1. i # t => Owned(new, i) = Owned(table, i)
    BY <1>0, <1>4, <1>5 DEF Owned
  <2> QED BY <1>1, <2>1
<1>9. \E p \in Nat, m \in 0 .. L - 1 :
        /\ n = p * L + m
        /\ \A i \in 1 .. L : Cardinality(Owned(new, i)) = IF i <= m THEN p + 1 ELSE p
  <2>1. n = q * L + r + 1
    BY <1>0, <1>1
  <2>2. CASE r + 1 < L
    <3>1. r + 1 \in 0 .. L - 1 /\ n = q * L + (r + 1)
      BY <1>0, <2>1, <2>2
    <3>2. \A i \in 1 .. L : Cardinality(Owned(new, i)) = IF i <= r + 1 THEN q + 1 ELSE q
      BY <1>0, <1>2, <1>7, <1>8
    <3> QED BY <3>1, <3>2
  <2>3. CASE r + 1 = L
    <3>1. 0 \in 0 .. L - 1 /\ n = (q + 1) * L + 0 /\ q + 1 \in Nat
      BY <1>0, <2>1, <2>3
    <3>2. \A i \in 1 .. L : Cardinality(Owned(new, i)) = IF i <= 0 THEN q + 1 + 1 ELSE q + 1
      BY <1>0, <1>2, <1>7, <1>8, <2>3
    <3> QED BY <3>1, <3>2
  <2> QED BY <1>0, <2>2, <2>3
<1> QED BY <1>5, <1>6, <1>9 DEF Even, new, L

\* Every ring is full and even.
LEMMA RingIsEven ==
  ASSUME NEW g \in Gens
  PROVE  Even(lookupTable[g], Configs[g], M)
<1> DEFINE ups == Configs[g]
<1>0. ups \in Seq(Ids) /\ Len(ups) >= 1 /\ M \in Nat
  BY BalancerAssumption DEF Gens
<1>1. lookupTable[g] = GenerateRing(ups)
  BY DEF lookupTable
<1>2. PICK f : IsFill(f, ups, M) /\ GenerateRing(ups) = f[M]
  BY RingIsFill
<1> HIDE DEF ups
<1> DEFINE P == {n \in Nat : n <= M => Even(f[n], ups, n)}
<1>3. 0 \in P
  <2>1. f[0] = Empty
    BY <1>0, <1>2 DEF IsFill
  <2> QED BY <1>0, <2>1, EmptyIsEven
<1>4. ASSUME NEW n \in P PROVE n + 1 \in P
  <2>1. SUFFICES ASSUME n + 1 <= M PROVE Even(f[n + 1], ups, n + 1)
    OBVIOUS
  <2>2. n + 1 \in 1 .. M /\ (n + 1) - 1 = n
    BY <1>0, <2>1
  <2>3. f[n + 1] = Filled(f[n], ups, n + 1)
    BY <1>0, <1>2, <2>2 DEF IsFill
  <2>4. Even(f[n], ups, (n + 1) - 1)
    BY <1>0, <2>2
  <2> HIDE DEF P
  <2> QED BY <1>0, <2>2, <2>3, <2>4, FilledIsEven
<1>5. P = Nat
  <2> HIDE DEF P
  <2>1. P \in SUBSET Nat BY DEF P
  <2> QED BY <1>3, <1>4, <2>1, SetInduction
<1> QED BY <1>0, <1>1, <1>2, <1>5 DEF ups

\* What the balancers rely on: every slot has an owner, and every upstream has
\* a slot.
LEMMA RingOwners ==
  ASSUME NEW g \in Gens
  PROVE  /\ \A s \in Slots : lookupTable[g][s] \in 1 .. Len(Configs[g])
         /\ \A i \in 1 .. Len(Configs[g]) : \E s \in Slots : lookupTable[g][s] = i
         /\ \A i, j \in 1 .. Len(Configs[g]) :
              Cardinality(Owned(lookupTable[g], i)) - Cardinality(Owned(lookupTable[g], j)) <= 1
<1> DEFINE table == lookupTable[g]
           L == Len(Configs[g])
<1>0. M \in Nat /\ L \in 1 .. M /\ L \in Nat /\ IsFiniteSet(Slots)
  BY BalancerAssumption, FS_Interval DEF Slots, Gens
<1>1. Even(table, Configs[g], M)
  BY RingIsEven
<1>2. \A i : IsFiniteSet(Owned(table, i))
  BY <1>0, FS_Subset DEF Owned
<1> HIDE DEF table
<1>3. Owned(table, 0) = {}
  <2>1. Cardinality(Owned(table, 0)) = M - M
    BY <1>1 DEF Even
  <2> QED BY <1>0, <1>2, <2>1, FS_EmptySet
<1>4. table \in [Slots -> 0 .. L]
  BY <1>1 DEF Even
<1>5. PICK q \in Nat, r \in 0 .. L - 1 :
        /\ M = q * L + r
        /\ \A i \in 1 .. L : Cardinality(Owned(table, i)) = IF i <= r THEN q + 1 ELSE q
  BY <1>1 DEF Even
<1> HIDE DEF L
<1>6. q >= 1
  <2>1. SUFFICES ASSUME q = 0 PROVE FALSE
    OBVIOUS
  <2>2. M = r
    BY <1>0, <1>5, <2>1
  <2> QED BY <1>0, <2>2
<1>7. \A s \in Slots : table[s] \in 1 .. L
  BY <1>0, <1>3, <1>4 DEF Owned
<1>8. ASSUME NEW i \in 1 .. L PROVE \E s \in Slots : table[s] = i
  <2>1. Cardinality(Owned(table, i)) # 0
    BY <1>5, <1>6
  <2>2. Owned(table, i) # {}
    BY <2>1, FS_EmptySet
  <2> QED BY <2>2 DEF Owned
<1>9. \A i, j \in 1 .. L : Cardinality(Owned(table, i)) - Cardinality(Owned(table, j)) <= 1
  BY <1>5
<1> QED BY <1>7, <1>8, <1>9 DEF table, L

----------------------------------------------------------------------------
(* The invariant.                                                          *)

SharedOK ==
  /\ strategy \in Strategies
  /\ installed \in Gens /\ router \in Gens
  /\ ring \in Gens \union {0} /\ heap \in Gens \union {0}
  /\ conns \in [Ids -> Nat]
  /\ cond \in [Ids -> Conditions]
  /\ changes \in 0 .. MaxChanges

LocalOK ==
  /\ pc \in [Requests -> {"route", "select", "probe", "acquire", "busy", "done"}]
  /\ svc \in [Requests -> Gens \union {0}]
  /\ attempt \in [Requests -> 0 .. MaxRetries]
  /\ failed \in [Requests -> SUBSET Ids]
  /\ index \in [Requests -> Nat]
  /\ uses \in [Requests -> Gens \union {0}]
  /\ load \in [Requests -> [total : Nat, healthy : Nat]]
  /\ answer \in [Requests -> {"none", "ok", "502", "503", "aborted"}]

\* A request under way has a service, one that has selected has an index of
\* its list, and one that probes the ring has no upstream left to avoid.  There
\* is no answer before the end.
Placed(r) ==
  /\ pc[r] # "done" => answer[r] = "none"
  /\ pc[r] \notin {"route", "done"} => svc[r] \in Gens
  /\ pc[r] \in {"acquire", "busy"} => index[r] \in Indices(r)
  /\ pc[r] = "probe" => uses[r] \in Gens /\ Plain(r)
  /\ pc[r] = "acquire" /\ ~Plain(r) /\ uses[r] \in {0, svc[r]} => Target(r) \notin failed[r]

BalancerInv == SharedOK /\ LocalOK /\ \A r \in Requests : Placed(r)

LEMMA InvGives ==
  /\ BalancerInv => TypeOK
  /\ BalancerInv => RetriesAvoidFailed
BY DEF BalancerInv, SharedOK, LocalOK, TypeOK, Placed, RetriesAvoidFailed

\* What the configurations are.
LEMMA GensFacts ==
  /\ 1 \in Gens /\ Gens \subseteq Nat /\ 0 \notin Gens
  /\ \A g \in Gens : Configs[g] \in Seq(Ids) /\ Len(Configs[g]) \in Nat /\ Len(Configs[g]) >= 1
  /\ \A g \in Gens : UpstreamsOf(g) \subseteq Ids /\ IsFiniteSet(UpstreamsOf(g))
<1>1. /\ 1 \in Gens /\ Gens \subseteq Nat /\ 0 \notin Gens
      /\ \A g \in Gens : Configs[g] \in Seq(Ids) /\ Len(Configs[g]) \in Nat /\ Len(Configs[g]) >= 1
  BY BalancerAssumption DEF Gens
<1>2. ASSUME NEW g \in Gens PROVE UpstreamsOf(g) \subseteq Ids /\ IsFiniteSet(UpstreamsOf(g))
  <2> DEFINE f == [i \in 1 .. Len(Configs[g]) |-> Configs[g][i]]
  <2>1. UpstreamsOf(g) \subseteq Ids
    BY <1>1 DEF UpstreamsOf
  <2>2. f \in Surjection(1 .. Len(Configs[g]), UpstreamsOf(g))
    BY DEF Surjection, UpstreamsOf
  <2>3. IsFiniteSet(1 .. Len(Configs[g]))
    BY <1>1, FS_Interval
  <2> HIDE DEF f
  <2> QED BY <2>1, <2>2, <2>3, FS_Surjection
<1> QED BY <1>1, <1>2

LEMMA BalancerInit == Init => BalancerInv
<1> SUFFICES ASSUME Init PROVE BalancerInv
  OBVIOUS
<1>1. SharedOK
  BY GensFacts, BalancerAssumption DEF Init, SharedOK, Conditions
<1>2. LocalOK
  BY BalancerAssumption DEF Init, LocalOK, NoLoad
<1>3. \A r \in Requests : Placed(r)
  BY DEF Init, Placed
<1> QED BY <1>1, <1>2, <1>3 DEF BalancerInv

\* Requests that do not move keep their place.
LEMMA OthersPlaced ==
  ASSUME NEW q \in Requests, Placed(q), pc'[q] = pc[q], svc'[q] = svc[q], index'[q] = index[q],
         uses'[q] = uses[q], failed'[q] = failed[q], answer'[q] = answer[q]
  PROVE  Placed(q)'
BY DEF Placed, Indices, Upstreams, Plain, Target

\* A request ends.
LEMMA FinishKeeps ==
  ASSUME BalancerInv, SharedOK', NEW r \in Requests,
         NEW what \in {"ok", "502", "503", "aborted"}, Finish(r, what)
  PROVE  BalancerInv'
<1>1. LocalOK'
  BY BalancerAssumption DEF BalancerInv, LocalOK, Finish, Goto, NoLoad
<1>2. Placed(r)'
  BY DEF BalancerInv, LocalOK, Finish, Goto, Placed
<1>3. ASSUME NEW q \in Requests, q # r PROVE Placed(q)'
  BY <1>3, OthersPlaced DEF BalancerInv, LocalOK, Finish, Goto
<1> QED BY <1>1, <1>2, <1>3 DEF BalancerInv

\* A request gets an index, which is none of a failed upstream if it has to
\* avoid those.
LEMMA SelectedKeeps ==
  ASSUME BalancerInv, SharedOK', NEW r \in Requests, NEW i, NEW g \in Gens \union {0},
         Selected(r, i, g), pc[r] \in {"select", "probe"},
         ~Plain(r) /\ g \in {0, svc[r]} /\ i \in Indices(r) => Upstreams(r)[i] \notin failed[r]
  PROVE  BalancerInv'
<1>1. CASE i \notin Indices(r) /\ Finish(r, "aborted")
  BY <1>1, FinishKeeps
<1>2. CASE /\ i \in Indices(r)
           /\ Goto(r, "acquire")
           /\ index' = [index EXCEPT ![r] = i]
           /\ uses' = [uses EXCEPT ![r] = g]
           /\ load' = [load EXCEPT ![r] = NoLoad]
           /\ UNCHANGED <<svc, attempt, failed, answer>>
  <2>0. i \in Nat /\ svc[r] \in Gens
    BY <1>2, GensFacts DEF BalancerInv, Placed, Indices, Upstreams
  <2>1. LocalOK'
    BY <1>2, <2>0 DEF BalancerInv, LocalOK, Goto, NoLoad
  <2>2. Placed(r)'
    <3>1. pc'[r] = "acquire" /\ index'[r] = i /\ uses'[r] = g /\ svc' = svc /\ failed' = failed
          /\ answer'[r] = "none"
      BY <1>2 DEF BalancerInv, LocalOK, Goto, Placed
    <3> QED BY <1>2, <2>0, <3>1 DEF Placed, Indices, Upstreams, Plain, Target
  <2>3. ASSUME NEW q \in Requests, q # r PROVE Placed(q)'
    BY <1>2, <2>3, OthersPlaced DEF BalancerInv, LocalOK, Goto
  <2> QED BY <2>1, <2>2, <2>3 DEF BalancerInv
<1> QED BY <1>1, <1>2 DEF Selected

LEMMA SelectedAmongKeeps ==
  ASSUME BalancerInv, SharedOK', NEW r \in Requests, NEW S, NEW g \in Gens \union {0},
         SelectedAmong(r, S, g), pc[r] \in {"select", "probe"},
         ~Plain(r) /\ g \in {0, svc[r]} => \A i \in S \intersect Indices(r) : Upstreams(r)[i] \notin failed[r]
  PROVE  BalancerInv'
<1>1. CASE S = {} /\ Finish(r, "503")
  BY <1>1, FinishKeeps
<1>2. ASSUME NEW i \in S, Selected(r, i, g) PROVE BalancerInv'
  BY <1>2, SelectedKeeps
<1> QED BY <1>1, <1>2 DEF SelectedAmong

\* What handleIPHash sums up.
LEMMA LoadType ==
  ASSUME SharedOK, NEW g \in Gens
  PROVE  /\ SumFunctionOnSet(conns, UpstreamsOf(g)) \in Nat
         /\ Cardinality({u \in UpstreamsOf(g) : isUpstreamAvailable(u)}) \in Nat
<1> DEFINE ups == UpstreamsOf(g)
           S == {u \in ups : isUpstreamAvailable(u)}
<1>1. IsFiniteSet(ups) /\ \A u \in ups : conns[u] \in Nat
  BY GensFacts DEF SharedOK
<1>2. IsFiniteSet(S)
  BY <1>1, FS_Subset
<1> HIDE DEF ups, S
<1>3. SumFunctionOnSet(conns, ups) \in Nat /\ Cardinality(S) \in Nat
  BY <1>1, <1>2, SumNat, FS_CardinalityType
<1> QED BY <1>3 DEF ups, S

\* A count goes up and down between whole numbers.
LEMMA CountsTyped ==
  ASSUME SharedOK, NEW x
  PROVE  /\ [conns EXCEPT ![x] = @ + 1] \in [Ids -> Nat]
         /\ [conns EXCEPT ![x] = IF @ > 0 THEN @ - 1 ELSE @] \in [Ids -> Nat]
<1>1. conns \in [Ids -> Nat]
  BY DEF SharedOK
<1>2. CASE x \in Ids
  <2>1. conns[x] + 1 \in Nat /\ (IF conns[x] > 0 THEN conns[x] - 1 ELSE conns[x]) \in Nat
    BY <1>1, <1>2
  <2> QED BY <1>1, <2>1
<1>3. CASE x \notin Ids
  BY <1>1, <1>3
<1> QED BY <1>2, <1>3

\* Every way to select keeps the invariant.
LEMMA SelectStep ==
  ASSUME BalancerInv, NEW r \in Requests,
         HashProbe(r) \/ SelectP2C(r) \/ SelectHeap(r) \/ SelectLatency(r) \/ SelectExcluding(r)
  PROVE  BalancerInv'
<1>0. SharedOK /\ Placed(r) /\ uses[r] \in Gens \union {0}
  BY DEF BalancerInv, LocalOK
<1>1. CASE HashProbe(r)
  <2>1. SharedOK'
    BY <1>0, <1>1 DEF HashProbe, SharedOK, sharedVars
  <2>2. Plain(r) /\ pc[r] = "probe"
    BY <1>0, <1>1 DEF HashProbe, Placed
  <2> QED BY <1>0, <1>1, <2>1, <2>2, SelectedAmongKeeps DEF HashProbe
<1>2. CASE SelectP2C(r)
  <2>1. SharedOK'
    BY <1>0, <1>2 DEF SelectP2C, SharedOK, sharedVars
  <2>2. Plain(r) /\ pc[r] = "select"
    BY <1>2 DEF SelectP2C, Selects
  <2>3. (\E i : Selected(r, i, 0)) \/ (\E S : SelectedAmong(r, S, 0))
    BY <1>2, Zenon DEF SelectP2C
  <2> QED BY <2>1, <2>2, <2>3, SelectedKeeps, SelectedAmongKeeps
<1>3. CASE SelectHeap(r)
  <2> DEFINE g == IF heap = 0 THEN svc[r] ELSE heap
             S == PeekExcluding(g, Excluded(r))
  <2>1. pc[r] = "select" /\ svc[r] \in Gens
    BY <1>0, <1>3 DEF SelectHeap, Retries, Placed
  <2>2. g \in Gens
    BY <1>0, <2>1 DEF SharedOK
  <2>3. SharedOK'
    BY <1>0, <1>3, <2>2 DEF SelectHeap, SharedOK
  <2>4. SelectedAmong(r, S, g)
    BY <1>3 DEF SelectHeap
  <2>5. \A i \in S : Configs[g][i] \notin failed[r]
    BY DEF PeekExcluding, Excluded
  <2>6. g \in {0, svc[r]} => g = svc[r]
    BY <2>2, GensFacts
  <2>7. g \in {0, svc[r]} => \A i \in S : Upstreams(r)[i] \notin failed[r]
    BY <2>5, <2>6 DEF Upstreams
  <2> HIDE DEF S, g
  <2> QED BY <2>1, <2>2, <2>3, <2>4, <2>7, SelectedAmongKeeps
<1>4. CASE SelectLatency(r)
  <2>1. SharedOK'
    BY <1>0, <1>4 DEF SelectLatency, SharedOK, sharedVars
  <2>2. Plain(r) /\ pc[r] = "select"
    BY <1>4 DEF SelectLatency, Selects
  <2>3. \E S : SelectedAmong(r, S, 0)
    BY <1>4, Zenon DEF SelectLatency
  <2> QED BY <2>1, <2>2, <2>3, SelectedAmongKeeps
<1>5. CASE SelectExcluding(r)
  <2>1. SharedOK'
    BY <1>0, <1>5 DEF SelectExcluding, SharedOK, sharedVars
  <2>2. pc[r] = "select" /\ SelectedAmong(r, RetryCandidates(r), 0)
    BY <1>5 DEF SelectExcluding, Retries
  <2>3. \A i \in RetryCandidates(r) : Upstreams(r)[i] \notin failed[r]
    BY DEF RetryCandidates
  <2> QED BY <2>1, <2>2, <2>3, SelectedAmongKeeps
<1> QED BY <1>1, <1>2, <1>3, <1>4, <1>5

LEMMA BalancerStep == BalancerInv /\ [Next]_vars => BalancerInv'
<1> SUFFICES ASSUME BalancerInv, [Next]_vars PROVE BalancerInv'
  OBVIOUS
<1>0. SharedOK /\ LocalOK /\ \A q \in Requests : Placed(q)
  BY DEF BalancerInv
<1>1. ASSUME NEW r \in Requests, RouteRequest(r) PROVE BalancerInv'
  <2>1. SharedOK'
    BY <1>0, <1>1 DEF RouteRequest, SharedOK, sharedVars
  <2>2. LocalOK'
    BY <1>0, <1>1 DEF RouteRequest, SharedOK, LocalOK, Goto
  <2>3. Placed(r)'
    BY <1>0, <1>1 DEF RouteRequest, SharedOK, LocalOK, Goto, Placed
  <2>4. ASSUME NEW q \in Requests, q # r PROVE Placed(q)'
    BY <1>0, <1>1, <2>4, OthersPlaced DEF RouteRequest, LocalOK, Goto
  <2> QED BY <2>1, <2>2, <2>3, <2>4 DEF BalancerInv
<1>2. ASSUME NEW r \in Requests, HashPrepare(r) PROVE BalancerInv'
  <2>0. svc[r] \in Gens /\ Plain(r) /\ pc[r] = "select"
    BY <1>0, <1>2 DEF HashPrepare, Selects, Placed
  <2>1. SharedOK' /\ ring' \in Gens /\ uses' = [uses EXCEPT ![r] = ring']
    BY <1>0, <1>2, <2>0 DEF HashPrepare, SharedOK
  <2>2. LocalOK'
    <3>1. load' \in [Requests -> [total : Nat, healthy : Nat]]
      BY <1>0, <1>2, <2>0, LoadType DEF HashPrepare, LocalOK
    <3> QED BY <1>0, <1>2, <2>1, <3>1 DEF HashPrepare, LocalOK, Goto
  <2>3. Placed(r)'
    <3>1. pc'[r] = "probe" /\ uses'[r] \in Gens /\ svc' = svc /\ failed' = failed
          /\ answer'[r] = "none"
      BY <1>0, <1>2, <2>0, <2>1 DEF HashPrepare, LocalOK, Goto, Placed
    <3> QED BY <2>0, <3>1 DEF Placed, Plain
  <2>4. ASSUME NEW q \in Requests, q # r PROVE Placed(q)'
    BY <1>0, <1>2, <2>4, OthersPlaced DEF HashPrepare, LocalOK, Goto
  <2> QED BY <2>1, <2>2, <2>3, <2>4 DEF BalancerInv
<1>3. ASSUME NEW r \in Requests,
             HashProbe(r) \/ SelectP2C(r) \/ SelectHeap(r) \/ SelectLatency(r) \/ SelectExcluding(r)
      PROVE  BalancerInv'
  BY <1>3, SelectStep
<1>4. ASSUME NEW r \in Requests, Acquire(r) PROVE BalancerInv'
  <2>1. SharedOK'
    BY <1>0, <1>4, CountsTyped DEF Acquire, SharedOK
  <2>2. LocalOK'
    BY <1>0, <1>4 DEF Acquire, LocalOK, Goto
  <2>3. Placed(r)'
    BY <1>0, <1>4 DEF Acquire, LocalOK, Goto, Placed, Indices, Upstreams
  <2>4. ASSUME NEW q \in Requests, q # r PROVE Placed(q)'
    BY <1>0, <1>4, <2>4, OthersPlaced DEF Acquire, LocalOK, Goto
  <2> QED BY <2>1, <2>2, <2>3, <2>4 DEF BalancerInv
<1>5. ASSUME NEW r \in Requests, Succeed(r) PROVE BalancerInv'
  <2>1. SharedOK'
    BY <1>0, <1>5, CountsTyped DEF Succeed, Release, SharedOK
  <2> QED BY <1>5, <2>1, FinishKeeps DEF Succeed
<1>6. ASSUME NEW r \in Requests, Fail(r) PROVE BalancerInv'
  <2>1. SharedOK'
    BY <1>0, <1>6, CountsTyped DEF Fail, Release, SharedOK
  <2>2. CASE attempt[r] = MaxRetries /\ Finish(r, "502")
    BY <2>1, <2>2, FinishKeeps
  <2>3. CASE /\ attempt[r] < MaxRetries
             /\ Goto(r, "select")
             /\ failed' = [failed EXCEPT ![r] = @ \union {Target(r)}]
             /\ attempt' = [attempt EXCEPT ![r] = @ + 1]
             /\ index' = [index EXCEPT ![r] = 0]
             /\ uses' = [uses EXCEPT ![r] = 0]
             /\ UNCHANGED <<svc, load, answer>>
    <3>1. svc[r] \in Gens /\ Target(r) \in Ids
      <4>1. svc[r] \in Gens /\ index[r] \in Indices(r)
        BY <1>0, <1>6 DEF Fail, Placed
      <4>2. Configs[svc[r]] \in Seq(Ids) /\ index[r] \in 1 .. Len(Configs[svc[r]])
        BY <4>1, GensFacts DEF Upstreams, Indices
      <4> QED BY <4>1, <4>2 DEF Target, Upstreams
    <3>2. attempt' \in [Requests -> 0 .. MaxRetries]
      BY <1>0, <2>3, BalancerAssumption DEF LocalOK
    <3>3. LocalOK'
      BY <1>0, <2>3, <3>1, <3>2 DEF LocalOK, Goto
    <3>4. Placed(r)'
      <4>1. pc[r] = "busy" /\ answer[r] = "none"
        BY <1>0, <1>6 DEF Fail, Placed
      <4>2. pc'[r] = "select" /\ svc'[r] \in Gens /\ answer'[r] = "none"
        BY <1>0, <2>3, <3>1, <4>1 DEF LocalOK, Goto
      <4> QED BY <4>2 DEF Placed
    <3>5. ASSUME NEW q \in Requests, q # r PROVE Placed(q)'
      BY <1>0, <2>3, <3>5, OthersPlaced DEF LocalOK, Goto
    <3> QED BY <2>1, <3>3, <3>4, <3>5 DEF BalancerInv
  <2> QED BY <1>6, <2>2, <2>3 DEF Fail
<1>7. ASSUME SharedOK', UNCHANGED localVars PROVE BalancerInv'
  <2>1. LocalOK'
    BY <1>0, <1>7 DEF LocalOK, localVars
  <2>2. \A q \in Requests : Placed(q)'
    BY <1>0, <1>7, OthersPlaced DEF localVars
  <2> QED BY <1>7, <2>1, <2>2 DEF BalancerInv
<1>8. CASE Install
  <2>1. installed + 1 \in Gens
    BY <1>0, <1>8, BalancerAssumption DEF Install, SharedOK, Gens
  <2>2. SharedOK'
    BY <1>0, <1>8, <2>1 DEF Install, ResetLoadBalancers, SharedOK
  <2> QED BY <1>7, <1>8, <2>2 DEF Install
<1>9. CASE UpdateRouter
  BY <1>0, <1>7, <1>9 DEF UpdateRouter, SharedOK
<1>10. ASSUME NEW u \in Ids, Change(u) PROVE BalancerInv'
  <2>1. changes' \in 0 .. MaxChanges
    BY <1>0, <1>10, BalancerAssumption DEF Change, SharedOK
  <2>2. SharedOK'
    BY <1>0, <1>10, <2>1 DEF Change, SharedOK
  <2> QED BY <1>7, <1>10, <2>2 DEF Change
<1>11. CASE UNCHANGED vars
  BY <1>0, <1>7, <1>11 DEF vars, sharedVars, SharedOK
<1> QED BY <1>1, <1>2, <1>3, <1>4, <1>5, <1>6, <1>8, <1>9, <1>10, <1>11 DEF Next

LEMMA BalancerInvariant == Spec => []BalancerInv
BY BalancerInit, BalancerStep, PTL DEF Spec

(***************************************************************************)
(* The balancers keep their types: no count of connections falls below 0   *)
(* although reloads reset the counts under requests that hold one          *)
(* (DecrementActiveConnections), and every index is one of the list of the *)
(* request.                                                                *)
(***************************************************************************)
THEOREM BalancerTypeCorrect == Spec => []TypeOK
BY BalancerInvariant, InvGives, PTL

(***************************************************************************)
(* A retry never goes to an upstream that has failed the request while     *)
(* another is left, by any strategy, unless the heap is one of another     *)
(* configuration (GetNextUpstreamWithRetry).                               *)
(***************************************************************************)
THEOREM RetriesAvoidTheFailed == Spec => []RetriesAvoidFailed
BY BalancerInvariant, InvGives, PTL

(***************************************************************************)
(* The Maglev table of every ring is full, and the shares of two upstreams *)
(* differ by at most one slot, for every prime M and all hashes of the ids *)
(* (GenerateRing).                                                         *)
(***************************************************************************)
THEOREM RingsAreBalanced == Spec => []RingBalanced
<1>1. ASSUME ring \in Gens PROVE RingBalanced
  <2>1. /\ \A s \in Slots : lookupTable[ring][s] # 0
        /\ \A i, j \in 1 .. Len(Configs[ring]) :
              Cardinality({s \in Slots : lookupTable[ring][s] = i})
                - Cardinality({s \in Slots : lookupTable[ring][s] = j}) <= 1
    BY <1>1, RingOwners, GensFacts DEF Owned
  <2> QED BY <2>1 DEF RingBalanced
<1>2. BalancerInv => RingBalanced
  <2>1. CASE ring = 0
    BY <2>1 DEF RingBalanced
  <2> QED BY <1>1, <2>1 DEF BalancerInv, SharedOK
<1> QED BY <1>2, BalancerInvariant, PTL

----------------------------------------------------------------------------
(* Refusals of the hash balancer.                                          *)

\* From any slot on, the probe comes to every slot.
LEMMA SlotReached ==
  ASSUME NEW slot \in Slots, NEW s \in Slots
  PROVE  \E k \in Slots : (slot + k) % M = s
<1>0. M \in Nat /\ M >= 1 /\ Slots = 0 .. M - 1
  BY BalancerAssumption DEF Slots
<1>1. CASE slot <= s
  <2>1. s - slot \in Slots /\ slot + (s - slot) = 0 * M + s /\ slot + (s - slot) \in Int
    BY <1>0, <1>1
  <2>2. (slot + (s - slot)) % M = s
    BY <1>0, <2>1, DivModIs
  <2> QED BY <2>1, <2>2
<1>2. CASE s < slot
  <2>1. /\ s - slot + M \in Slots /\ slot + (s - slot + M) = 1 * M + s
        /\ slot + (s - slot + M) \in Int
    BY <1>0, <1>2
  <2>2. (slot + (s - slot + M)) % M = s
    BY <1>0, <2>1, DivModIs
  <2> QED BY <2>1, <2>2
<1> QED BY <1>0, <1>1, <1>2

\* The ring returns an accepted upstream if it has one, and the owner of the
\* slot otherwise.
LEMMA RingReturns ==
  ASSUME NEW g \in Gens, NEW slot \in Slots, NEW accepted
  PROVE  LET u == GetUpstreamWithFilter(g, slot, accepted) IN
         \/ u \in accepted /\ u \in UpstreamsOf(g)
         \/ u = Configs[g][lookupTable[g][slot]] /\ UpstreamsOf(g) \intersect accepted = {}
<1> DEFINE at(i) == Configs[g][lookupTable[g][(slot + i) % M]]
           hits == {i \in Slots : at(i) \in accepted}
           u == GetUpstreamWithFilter(g, slot, accepted)
<1>0. M \in Nat /\ M >= 1 /\ Slots = 0 .. M - 1
  BY BalancerAssumption DEF Slots
<1>1. u = at(IF hits = {} THEN 0 ELSE Min(hits))
  BY DEF GetUpstreamWithFilter
<1>2. \A i \in Slots : at(i) \in UpstreamsOf(g)
  <2> TAKE i \in Slots
  <2>1. (slot + i) % M \in Slots
    BY <1>0
  <2>2. lookupTable[g][(slot + i) % M] \in 1 .. Len(Configs[g])
    BY <2>1, RingOwners
  <2> QED BY <2>2 DEF UpstreamsOf
<1>3. CASE hits # {}
  <2>1. hits \in SUBSET Nat
    BY <1>0
  <2> HIDE DEF hits
  <2>2. Min(hits) \in hits
    BY <1>3, <2>1, LeastElement DEF Min
  <2>3. at(Min(hits)) \in accepted /\ Min(hits) \in Slots
    BY <2>2 DEF hits
  <2> HIDE DEF at
  <2> QED BY <1>1, <1>2, <1>3, <2>3
<1>4. CASE hits = {}
  <2>1. at(0) = Configs[g][lookupTable[g][slot]]
    <3>1. slot + 0 = 0 * M + slot /\ slot + 0 \in Int
      BY <1>0
    <3>2. (slot + 0) % M = slot
      BY <1>0, <3>1, DivModIs
    <3> QED BY <3>2
  <2>2. ASSUME NEW v \in UpstreamsOf(g) PROVE v \notin accepted
    <3>1. PICK i \in 1 .. Len(Configs[g]) : v = Configs[g][i]
      BY DEF UpstreamsOf
    <3>2. PICK s \in Slots : lookupTable[g][s] = i
      BY RingOwners
    <3>3. PICK k \in Slots : (slot + k) % M = s
      BY SlotReached
    <3>4. at(k) = v
      BY <3>1, <3>2, <3>3
    <3> QED BY <1>4, <3>4
  <2> HIDE DEF at, hits
  <2> QED BY <1>1, <1>4, <2>1, <2>2
<1> HIDE DEF u
<1> QED BY <1>3, <1>4 DEF u

\* A refusal is one of the probe, which found no index.
LEMMA RefusedByProbe ==
  ASSUME BalancerInv, [Next]_vars, NEW r \in Requests, Refused(r)
  PROVE  /\ svc[r] \in Gens /\ uses[r] \in Gens
         /\ LET u == GetUpstreamWithFilter(uses[r], Slot(r), Accepted(r)) IN
            u \in UpstreamsOf(svc[r]) => ~Verified(r, u)
<1> DEFINE u == GetUpstreamWithFilter(uses[r], Slot(r), Accepted(r))
           S == {i \in Indices(r) : Upstreams(r)[i] = u /\ Verified(r, u)}
<1>0. /\ pc[r] = "probe" /\ answer[r] = "none" /\ answer'[r] = "503"
      /\ svc[r] \in Gens /\ uses[r] \in Gens /\ DOMAIN answer = Requests
  BY DEF BalancerInv, LocalOK, Placed, Refused
<1>1. ASSUME NEW q \in Requests, q # r, NEW what, Finish(q, what) PROVE FALSE
  BY <1>0, <1>1 DEF Finish
<1>2. ASSUME NEW q \in Requests, q # r, NEW i, NEW g, Selected(q, i, g) PROVE FALSE
  BY <1>0, <1>1, <1>2 DEF Selected
<1>3. ASSUME NEW q \in Requests, q # r, NEW T, NEW g, SelectedAmong(q, T, g) PROVE FALSE
  BY <1>1, <1>2, <1>3 DEF SelectedAmong
<1>4. UNCHANGED answer => FALSE
  BY <1>0
<1>5. ASSUME NEW q \in Requests, q # r,
             \/ RouteRequest(q) \/ HashPrepare(q) \/ HashProbe(q) \/ SelectP2C(q) \/ SelectHeap(q)
             \/ SelectLatency(q) \/ SelectExcluding(q) \/ Acquire(q) \/ Succeed(q) \/ Fail(q)
      PROVE  FALSE
  <2>1. CASE RouteRequest(q) \/ HashPrepare(q) \/ Acquire(q)
    BY <1>4, <2>1 DEF RouteRequest, HashPrepare, Acquire
  <2>2. CASE Succeed(q)
    BY <1>1, <1>5, <2>2 DEF Succeed
  <2>3. CASE Fail(q)
    BY <1>1, <1>4, <1>5, <2>3 DEF Fail
  <2>4. CASE HashProbe(q)
    BY <1>3, <1>5, <2>4 DEF HashProbe
  <2>5. CASE SelectP2C(q)
    <3>1. (\E i : Selected(q, i, 0)) \/ (\E T : SelectedAmong(q, T, 0))
      BY <2>5, Zenon DEF SelectP2C
    <3> QED BY <1>2, <1>3, <1>5, <3>1
  <2>6. CASE SelectHeap(q) \/ SelectLatency(q) \/ SelectExcluding(q)
    <3>1. \E T, g : SelectedAmong(q, T, g)
      BY <2>6, Zenon DEF SelectHeap, SelectLatency, SelectExcluding
    <3> QED BY <1>3, <1>5, <3>1
  <2> QED BY <1>5, <2>1, <2>2, <2>3, <2>4, <2>5, <2>6
<1>6. HashProbe(r)
  <2>1. ~(Install \/ UpdateRouter \/ (\E v \in Ids : Change(v)) \/ UNCHANGED vars)
    BY <1>4 DEF Install, UpdateRouter, Change, localVars, vars
  <2>2. \/ RouteRequest(r) \/ HashPrepare(r) \/ HashProbe(r) \/ SelectP2C(r) \/ SelectHeap(r)
        \/ SelectLatency(r) \/ SelectExcluding(r) \/ Acquire(r) \/ Succeed(r) \/ Fail(r)
    BY <1>5, <2>1 DEF Next
  <2> QED BY <1>0, <2>2 DEF RouteRequest, HashPrepare, SelectP2C, SelectHeap, SelectLatency,
       SelectExcluding, Acquire, Succeed, Fail, Selects, Retries
<1>7. SelectedAmong(r, S, uses[r])
  BY <1>6 DEF HashProbe
<1>8. S = {}
  <2>1. ASSUME NEW i \in S, Selected(r, i, uses[r]) PROVE FALSE
    BY <1>0, <2>1 DEF Selected, Finish
  <2> QED BY <1>7, <2>1 DEF SelectedAmong
<1>9. u \in UpstreamsOf(svc[r]) => ~Verified(r, u)
  <2> HIDE DEF u
  <2> QED BY <1>8 DEF UpstreamsOf, Indices, Upstreams
<1> QED BY <1>0, <1>9

\* Every hash value has a slot.
LEMMA SlotType == ASSUME NEW r \in Requests PROVE Slot(r) \in Slots
<1>1. /\ {ExtractHashValue(r), Attributes[r]["peer"]} \subseteq DOMAIN SlotOf
      /\ SlotOf \in [DOMAIN SlotOf -> Slots]
  BY HashAssumption
<1> QED BY <1>1, Zenon DEF Slot

(***************************************************************************)
(* The hash balancer never refuses a request whose own upstream is         *)
(* available, as long as the ring holds upstreams of its service only      *)
(* (handleIPHash, GetUpstreamWithFilter).                                  *)
(***************************************************************************)
THEOREM PrimaryAlwaysServes == Spec => PrimaryServes
<1>1. ASSUME BalancerInv, [Next]_vars, NEW r \in Requests, Refused(r),
             Primary(r) \in UpstreamsOf(svc[r]),
             UpstreamsOf(uses[r]) \subseteq UpstreamsOf(svc[r]), tagsMatch(r, Primary(r)),
             isUpstreamAvailable(Primary(r))
      PROVE  FALSE
  <2> DEFINE u == GetUpstreamWithFilter(uses[r], Slot(r), Accepted(r))
  <2>1. svc[r] \in Gens /\ uses[r] \in Gens /\ (u \in UpstreamsOf(svc[r]) => ~Verified(r, u))
    BY <1>1, RefusedByProbe
  <2>2. \/ u \in Accepted(r) /\ u \in UpstreamsOf(uses[r])
        \/ u = Primary(r)
    BY <2>1, SlotType, RingReturns DEF Primary
  <2> HIDE DEF u
  <2>3. CASE u \in Accepted(r) /\ u \in UpstreamsOf(uses[r])
    BY <1>1, <2>1, <2>3 DEF Accepted, Verified
  <2>4. CASE u = Primary(r)
    BY <1>1, <2>1, <2>4 DEF Verified
  <2> QED BY <2>2, <2>3, <2>4
<1>2. BalancerInv /\ [Next]_vars =>
        [\A r \in Requests :
           LET u == Primary(r) IN
           /\ Refused(r)
           /\ u \in UpstreamsOf(svc[r]) /\ UpstreamsOf(uses[r]) \subseteq UpstreamsOf(svc[r])
           /\ tagsMatch(r, u)
           => ~isUpstreamAvailable(u)]_vars
  BY <1>1
<1> QED BY <1>2, BalancerInvariant, PTL DEF Spec, PrimaryServes

\* Not every one of some upstreams has more than 1.25 times their average.
LEMMA NotAllOverloaded ==
  ASSUME NEW ups, IsFiniteSet(ups), NEW A \in SUBSET ups, A # {},
         NEW f, \A u \in ups : f[u] \in Nat
  PROVE  \E u \in A : ~(4 * f[u] * Cardinality(A) > 5 * SumFunctionOnSet(f, ups))
<1> DEFINE h == Cardinality(A)
           total == SumFunctionOnSet(f, ups)
           part == SumFunctionOnSet(f, A)
           g == [u \in A |-> (-4 * h) * f[u]]
<1>1. IsFiniteSet(A) /\ h \in Nat /\ h >= 1
  BY FS_Subset, FS_CardinalityType, FS_EmptySet
<1>2. total \in Nat /\ part \in Nat /\ part <= total
  BY <1>1, SumNat, SumPart
<1> HIDE DEF h, total
<1>3. SUFFICES ASSUME \A u \in A : 4 * f[u] * h > 5 * total PROVE FALSE
  BY DEF h, total
<1>4. \A u \in A : g[u] \in Int /\ g[u] <= -(5 * total + 1) /\ f[u] \in Int
  <2> TAKE u \in A
  <2>1. f[u] \in Nat /\ 4 * f[u] * h > 5 * total
    BY <1>3
  <2>2. g[u] = -(4 * f[u] * h)
    BY <1>1, <2>1
  <2>3. 4 * f[u] * h \in Int
    BY <1>1, <2>1
  <2> QED BY <1>2, <2>1, <2>2, <2>3
<1>5. SumFunctionOnSet(g, A) = (-4 * h) * part
  <2>1. \A u \in A : f[u] \in Int /\ g[u] = (-4 * h) * f[u]
    BY <1>4
  <2>2. -4 * h \in Int
    BY <1>1
  <2> HIDE DEF g
  <2> QED BY <1>1, <2>1, <2>2, SumScale
<1>6. SumFunctionOnSet(g, A) <= h * (-(5 * total + 1))
  <2>1. -(5 * total + 1) \in Int
    BY <1>2
  <2> HIDE DEF g
  <2> QED BY <1>1, <1>4, <2>1, SumBound DEF h
<1> HIDE DEF part, g
<1>7. h * (5 * total + 1 - 4 * part) <= 0
  BY <1>1, <1>2, <1>5, <1>6
<1>8. 5 * total + 1 - 4 * part >= 1
  BY <1>2
<1>9. ASSUME NEW x \in Int, x >= 1, h * x <= 0 PROVE FALSE
  BY <1>1, <1>9
<1> QED BY <1>2, <1>7, <1>8, <1>9

(***************************************************************************)
(* The bound of the load alone refuses nobody: some available upstream is  *)
(* always below 1.25 times the average, and the ring finds it              *)
(* (handleIPHash).                                                         *)
(***************************************************************************)
THEOREM LoadRefusesNobody == Spec => LoadNeverRefuses
<1>1. ASSUME BalancerInv, [Next]_vars, NEW r \in Requests, Refused(r),
             uses[r] = svc[r], r \notin Selective,
             load[r].total = SumFunctionOnSet(conns, UpstreamsOf(svc[r])),
             load[r].healthy = Cardinality({u \in UpstreamsOf(svc[r]) : isUpstreamAvailable(u)}),
             \A u \in UpstreamsOf(svc[r]) : cond[u] # "probe",
             NEW v \in UpstreamsOf(svc[r]), isUpstreamAvailable(v)
      PROVE  FALSE
  <2> DEFINE u == GetUpstreamWithFilter(uses[r], Slot(r), Accepted(r))
             ups == UpstreamsOf(svc[r])
             A == {w \in ups : isUpstreamAvailable(w)}
  <2>1. svc[r] \in Gens /\ (u \in ups => ~Verified(r, u))
    BY <1>1, RefusedByProbe
  <2>2. \/ u \in Accepted(r) /\ u \in ups
        \/ ups \intersect Accepted(r) = {}
    BY <1>1, <2>1, SlotType, RingReturns
  <2>3. CASE u \in Accepted(r) /\ u \in ups
    <3> HIDE DEF u
    <3> QED BY <2>1, <2>3 DEF Accepted, Verified
  <2>4. CASE ups \intersect Accepted(r) = {}
    <3> HIDE DEF u
    <3>1. IsFiniteSet(ups) /\ ups \subseteq Ids /\ (\A w \in ups : conns[w] \in Nat) /\ v \in A
      BY <1>1, <2>1, GensFacts DEF BalancerInv, SharedOK
    <3>2. PICK w \in A : ~(4 * conns[w] * Cardinality(A) > 5 * SumFunctionOnSet(conns, ups))
      <4> HIDE DEF ups
      <4>1. A \in SUBSET ups /\ A # {}
        BY <3>1
      <4> HIDE DEF A
      <4> QED BY <3>1, <4>1, NotAllOverloaded
    <3>3. Cardinality(A) # 0
      BY <3>1, FS_EmptySet, FS_Subset
    <3>4. ~Overloaded(r, w)
      BY <1>1, <3>2, <3>3 DEF Overloaded
    <3>5. w \in Accepted(r)
      BY <1>1, <3>1, <3>4 DEF Accepted, tagsMatch, isUpstreamAvailable, Healthy
    <3> QED BY <2>4, <3>5
  <2> QED BY <2>2, <2>3, <2>4
<1>2. BalancerInv /\ [Next]_vars =>
        [\A r \in Requests :
           LET ups == UpstreamsOf(svc[r]) IN
           /\ Refused(r)
           /\ uses[r] = svc[r] /\ r \notin Selective
           /\ load[r].total = SumFunctionOnSet(conns, ups)
           /\ load[r].healthy = Cardinality({u \in ups : isUpstreamAvailable(u)})
           /\ \A u \in ups : cond[u] # "probe"
           => \A u \in ups : ~isUpstreamAvailable(u)]_vars
  BY <1>1
<1> QED BY <1>2, BalancerInvariant, PTL DEF Spec, LoadNeverRefuses
=============================================================================
