---------------------------- MODULE FoldLemmas -----------------------------
(***************************************************************************)
(* Induction over numbers and finite sets, and sums over finite sets.      *)
(*                                                                         *)
(* Induction is stated for a set of numbers, or of subsets, and not for a  *)
(* predicate: it follows from the library's theorem that < is well founded *)
(* on Nat.  SumFunctionOnSet (community modules) is a recursive function   *)
(* on the subsets of S that takes the elements in the order of CHOOSE;     *)
(* that the function exists, and that the order does not matter, are       *)
(* lemmas here; so is the existence of the function on sets of numbers     *)
(* that FoldLeft is made of.                                               *)
(***************************************************************************)
EXTENDS Integers, Sequences, FiniteSets, FiniteSetsExt, FiniteSetTheorems, TLAPS

\* A set of numbers has a least one.
LEMMA LeastElement ==
  ASSUME NEW T \in SUBSET Nat, T # {}
  PROVE  \E m \in T : \A n \in T : m <= n
<1> DEFINE R == OpToRel(<, Nat)
<1>1. PICK m \in T : \A n \in T : <<n, m>> \notin R
  <2> HIDE DEF R
  <2>1. IsWellFoundedOn(R, Nat)
    BY NatLessThanWellFounded DEF R
  <2> QED BY <2>1, WFMin
<1>2. \A n \in T : ~(n < m)
  BY <1>1 DEF OpToRel
<1> QED BY <1>2

\* A set with 0 and the successors of its members is all of Nat.
LEMMA SetInduction ==
  ASSUME NEW P \in SUBSET Nat, 0 \in P, \A n \in P : n + 1 \in P
  PROVE  P = Nat
<1> SUFFICES ASSUME Nat \ P # {} PROVE FALSE
  OBVIOUS
<1>1. PICK m \in Nat \ P : \A n \in Nat \ P : m <= n
  BY LeastElement
<1>2. m # 0 /\ m - 1 \in Nat
  BY <1>1
<1>3. m - 1 \in P
  BY <1>1, <1>2
<1> QED BY <1>1, <1>2, <1>3

\* A finite set is reached from {} by adding one element at a time.
LEMMA SubsetInduction ==
  ASSUME NEW S, IsFiniteSet(S), NEW P \in SUBSET SUBSET S, {} \in P,
         \A T \in P : \A x \in S \ T : T \union {x} \in P
  PROVE  S \in P
<1> DEFINE Q == {n \in Nat : \A T \in SUBSET S : Cardinality(T) = n => T \in P}
<1>1. 0 \in Q
  BY FS_EmptySet, FS_Subset
<1>2. ASSUME NEW n \in Q PROVE n + 1 \in Q
  <2>1. SUFFICES ASSUME NEW T \in SUBSET S, Cardinality(T) = n + 1 PROVE T \in P
    OBVIOUS
  <2>2. IsFiniteSet(T)
    BY FS_Subset
  <2>3. PICK x : x \in T
    BY <2>1, <2>2, FS_EmptySet
  <2>4. Cardinality(T \ {x}) = Cardinality(T) - 1
    BY <2>2, <2>3, FS_RemoveElement
  <2>5. T \ {x} \in P
    BY <2>1, <2>4
  <2>6. T = (T \ {x}) \union {x}
    BY <2>3
  <2> QED BY <2>3, <2>5, <2>6
<1>3. Q = Nat
  <2> HIDE DEF Q
  <2>1. Q \in SUBSET Nat BY DEF Q
  <2> QED BY <1>1, <1>2, <2>1, SetInduction
<1> QED BY <1>3, FS_CardinalityType

\* The function that a sum is an application of.
IsSum(g, f, S) ==
  g = [s \in SUBSET S |->
         IF s = {} THEN 0
         ELSE f[CHOOSE x \in s : TRUE] + g[s \ {CHOOSE x \in s : TRUE}]]

\* The recursion is well defined: by induction on the size of the subsets.
LEMMA SumExists ==
  ASSUME NEW S, IsFiniteSet(S), NEW f
  PROVE  \E g : IsSum(g, f, S)
<1> DEFINE c(s) == CHOOSE x \in s : TRUE
           Small(n) == {s \in SUBSET S : Cardinality(s) <= n}
           Step(g, n) == [s \in Small(n) |-> IF s = {} THEN 0 ELSE f[c(s)] + g[s \ {c(s)}]]
           Q == {n \in Nat : \E g : g = Step(g, n)}
<1>0. \A s \in SUBSET S : IsFiniteSet(s) /\ Cardinality(s) \in Nat /\ (s # {} => c(s) \in s)
  BY FS_Subset, FS_CardinalityType
<1>01. \A s \in SUBSET S : s # {} => /\ s \ {c(s)} \in SUBSET S
                                     /\ Cardinality(s \ {c(s)}) = Cardinality(s) - 1
  BY <1>0, FS_RemoveElement
<1> HIDE DEF c
<1>1. 0 \in Q
  <2> DEFINE g == [s \in Small(0) |-> 0]
  <2>1. \A s \in Small(0) : s = {}
    BY <1>0, FS_EmptySet
  <2>2. g = Step(g, 0)
    BY <2>1
  <2> QED BY <2>2
<1>2. ASSUME NEW n \in Q PROVE n + 1 \in Q
  <2>1. PICK g : g = Step(g, n)
    OBVIOUS
  <2> DEFINE h == Step(g, n + 1)
  <2>2. ASSUME NEW s \in Small(n) PROVE h[s] = g[s]
    <3>1. s \in Small(n + 1)
      BY <1>0
    <3>2. g[s] = IF s = {} THEN 0 ELSE f[c(s)] + g[s \ {c(s)}]
      <4> HIDE DEF Small
      <4> QED BY <2>1
    <3> HIDE DEF Small
    <3> QED BY <3>1, <3>2
  <2>3. ASSUME NEW s \in Small(n + 1), s # {} PROVE s \ {c(s)} \in Small(n)
    BY <1>0, <1>01, <2>3
  <2>4. h = Step(h, n + 1)
    <3> HIDE DEF Small
    <3> QED BY <2>2, <2>3
  <2>5. \E k : k = Step(k, n + 1)
    <3> HIDE DEF Step, h
    <3> QED BY <2>4
  <2> HIDE DEF Step
  <2> QED BY <2>5
<1>3. Q = Nat
  <2> HIDE DEF Q
  <2>1. Q \in SUBSET Nat BY DEF Q
  <2> QED BY <1>1, <1>2, <2>1, SetInduction
<1>4. PICK g : g = Step(g, Cardinality(S))
  BY <1>3, FS_CardinalityType
<1>5. Small(Cardinality(S)) = SUBSET S
  BY FS_Subset
<1>6. g = [s \in SUBSET S |-> IF s = {} THEN 0 ELSE f[c(s)] + g[s \ {c(s)}]]
  <2> HIDE DEF Small
  <2> QED BY <1>4, <1>5
<1> QED BY <1>6 DEF IsSum, c

\* A sum is an application of such a function.
LEMMA SumIsSum ==
  ASSUME NEW S, IsFiniteSet(S), NEW f
  PROVE  \E g : IsSum(g, f, S) /\ SumFunctionOnSet(f, S) = g[S]
<1> DEFINE g == CHOOSE g : IsSum(g, f, S)
<1>1. IsSum(g, f, S)
  BY SumExists
<1>2. SumFunctionOnSet(f, S) = g[S]
  BY DEF SumFunctionOnSet, FoldFunctionOnSet, MapThenFoldSet, IsSum
<1> QED BY <1>1, <1>2

\* The functions for a set and for a part of it agree on the part.
LEMMA SumAgrees ==
  ASSUME NEW S, IsFiniteSet(S), NEW f, NEW T \in SUBSET S, NEW g, NEW h,
         IsSum(g, f, S), IsSum(h, f, T)
  PROVE  g[T] = h[T]
<1> DEFINE c(s) == CHOOSE x \in s : TRUE
           Q == {n \in Nat : \A s \in SUBSET T : Cardinality(s) = n => g[s] = h[s]}
<1>1. /\ \A s \in SUBSET S : g[s] = IF s = {} THEN 0 ELSE f[c(s)] + g[s \ {c(s)}]
      /\ \A s \in SUBSET T : h[s] = IF s = {} THEN 0 ELSE f[c(s)] + h[s \ {c(s)}]
  <2>1. \A s \in SUBSET S : g[s] = IF s = {} THEN 0 ELSE f[c(s)] + g[s \ {c(s)}]
    BY Zenon DEF IsSum
  <2>2. \A s \in SUBSET T : h[s] = IF s = {} THEN 0 ELSE f[c(s)] + h[s \ {c(s)}]
    BY Zenon DEF IsSum
  <2> QED BY <2>1, <2>2
<1>2. \A s \in SUBSET T : /\ IsFiniteSet(s) /\ Cardinality(s) \in Nat
                          /\ (s # {} => c(s) \in s)
  BY FS_Subset, FS_CardinalityType
<1>3. \A s \in SUBSET T : s # {} => Cardinality(s \ {c(s)}) = Cardinality(s) - 1
  BY <1>2, FS_RemoveElement
<1> HIDE DEF c
<1>4. 0 \in Q
  BY <1>1, <1>2, FS_EmptySet
<1>5. ASSUME NEW n \in Q PROVE n + 1 \in Q
  <2>1. SUFFICES ASSUME NEW s \in SUBSET T, Cardinality(s) = n + 1 PROVE g[s] = h[s]
    OBVIOUS
  <2>2. s # {}
    BY <2>1, FS_EmptySet
  <2>3. Cardinality(s \ {c(s)}) = n
    BY <2>1, <2>2, <1>3
  <2>4. g[s \ {c(s)}] = h[s \ {c(s)}]
    BY <2>3
  <2> QED BY <1>1, <2>2, <2>4
<1>6. Q = Nat
  <2> HIDE DEF Q
  <2>1. Q \in SUBSET Nat BY DEF Q
  <2> QED BY <1>4, <1>5, <2>1, SetInduction
<1> QED BY <1>2, <1>6

\* The recursion of a sum.
LEMMA SumUnfold ==
  ASSUME NEW S, IsFiniteSet(S), NEW f
  PROVE  SumFunctionOnSet(f, S) = IF S = {} THEN 0
                     ELSE f[CHOOSE x \in S : TRUE] + SumFunctionOnSet(f, S \ {CHOOSE x \in S : TRUE})
<1> DEFINE T == S \ {CHOOSE x \in S : TRUE}
<1>1. PICK g : IsSum(g, f, S) /\ SumFunctionOnSet(f, S) = g[S]
  BY SumIsSum
<1>2. IsFiniteSet(T) /\ T \in SUBSET S
  BY FS_Subset
<1>3. PICK h : IsSum(h, f, T) /\ SumFunctionOnSet(f, T) = h[T]
  BY <1>2, SumIsSum
<1>4. g[T] = h[T]
  BY <1>1, <1>2, <1>3, SumAgrees
<1>5. g[S] = IF S = {} THEN 0 ELSE f[CHOOSE x \in S : TRUE] + g[T]
  BY <1>1, Zenon DEF IsSum
<1> QED BY <1>1, <1>3, <1>4, <1>5

LEMMA SumEmpty == ASSUME NEW f PROVE SumFunctionOnSet(f, {}) = 0
BY SumUnfold, FS_EmptySet

\* A sum of integers is an integer.
LEMMA SumInt ==
  ASSUME NEW S, IsFiniteSet(S), NEW f, \A u \in S : f[u] \in Int
  PROVE  SumFunctionOnSet(f, S) \in Int
<1> DEFINE Q == {n \in Nat : \A T \in SUBSET S : Cardinality(T) = n => SumFunctionOnSet(f, T) \in Int}
<1>1. 0 \in Q
  BY SumEmpty, FS_EmptySet, FS_Subset
<1>2. ASSUME NEW n \in Q PROVE n + 1 \in Q
  <2>1. SUFFICES ASSUME NEW T \in SUBSET S, Cardinality(T) = n + 1 PROVE SumFunctionOnSet(f, T) \in Int
    OBVIOUS
  <2> DEFINE c == CHOOSE x \in T : TRUE
  <2>2. IsFiniteSet(T)
    BY FS_Subset
  <2>3. T # {}
    BY <2>1, FS_EmptySet
  <2>4. c \in T
    BY <2>3
  <2>5. Cardinality(T \ {c}) = Cardinality(T) - 1
    BY <2>2, <2>4, FS_RemoveElement
  <2>6. SumFunctionOnSet(f, T \ {c}) \in Int
    BY <2>1, <2>5
  <2> QED BY <2>2, <2>3, <2>4, <2>6, SumUnfold
<1>3. Q = Nat
  <2> HIDE DEF Q
  <2>1. Q \in SUBSET Nat BY DEF Q
  <2> QED BY <1>1, <1>2, <2>1, SetInduction
<1> QED BY <1>3, FS_CardinalityType

\* Whichever element is taken first.
LEMMA SumRemove ==
  ASSUME NEW S, IsFiniteSet(S), NEW f, \A u \in S : f[u] \in Int, NEW v \in S
  PROVE  SumFunctionOnSet(f, S) = f[v] + SumFunctionOnSet(f, S \ {v})
<1> DEFINE Good(T) == \A u \in T : SumFunctionOnSet(f, T) = f[u] + SumFunctionOnSet(f, T \ {u})
           Q == {n \in Nat : \A T \in SUBSET S : Cardinality(T) = n => Good(T)}
<1>0. \A T \in SUBSET S : IsFiniteSet(T) /\ SumFunctionOnSet(f, T) \in Int
  BY FS_Subset, SumInt
<1>1. 0 \in Q
  BY <1>0, FS_EmptySet
<1>2. ASSUME NEW n \in Q PROVE n + 1 \in Q
  <2>1. SUFFICES ASSUME NEW T \in SUBSET S, Cardinality(T) = n + 1 PROVE Good(T)
    OBVIOUS
  <2> DEFINE c == CHOOSE x \in T : TRUE
  <2>2. IsFiniteSet(T)
    BY <1>0
  <2>3. T # {}
    <3>1. n + 1 # 0
      OBVIOUS
    <3> HIDE DEF Q
    <3> QED BY <2>1, <3>1, FS_EmptySet
  <2>30. c \in T
    BY <2>3
  <2>4. \A u \in T : Cardinality(T \ {u}) = Cardinality(T) - 1
    BY <2>2, FS_RemoveElement
  <2>5. \A u \in T : Good(T \ {u})
    <3> HIDE DEF Good
    <3> QED BY <2>1, <2>4
  <2>6. SumFunctionOnSet(f, T) = f[c] + SumFunctionOnSet(f, T \ {c})
    BY <2>2, <2>3, SumUnfold
  <2> HIDE DEF c
  <2>8. ASSUME NEW u \in T, u # c PROVE SumFunctionOnSet(f, T) = f[u] + SumFunctionOnSet(f, T \ {u})
    <3>1. SumFunctionOnSet(f, T \ {c}) = f[u] + SumFunctionOnSet(f, (T \ {c}) \ {u})
      BY <2>30, <2>5, <2>8
    <3>2. SumFunctionOnSet(f, T \ {u}) = f[c] + SumFunctionOnSet(f, (T \ {u}) \ {c})
      BY <2>30, <2>5, <2>8
    <3>3. (T \ {u}) \ {c} = (T \ {c}) \ {u}
      OBVIOUS
    <3>4. /\ SumFunctionOnSet(f, (T \ {c}) \ {u}) \in Int /\ f[u] \in Int /\ f[c] \in Int
      BY <1>0, <2>30
    <3>5. SumFunctionOnSet(f, T \ {u}) = f[c] + SumFunctionOnSet(f, (T \ {c}) \ {u})
      BY <3>2, <3>3
    <3> QED BY <2>6, <3>1, <3>4, <3>5
  <2> QED BY <2>6, <2>8
<1>3. Q = Nat
  <2> HIDE DEF Q
  <2>1. Q \in SUBSET Nat BY DEF Q
  <2> QED BY <1>1, <1>2, <2>1, SetInduction
<1> QED BY <1>3, FS_CardinalityType

\* Adding an element.
LEMMA SumInsert ==
  ASSUME NEW S, IsFiniteSet(S), NEW v, v \notin S, NEW f,
         \A u \in S \union {v} : f[u] \in Int
  PROVE  SumFunctionOnSet(f, S \union {v}) = f[v] + SumFunctionOnSet(f, S)
<1>1. IsFiniteSet(S \union {v})
  BY FS_AddElement
<1>2. (S \union {v}) \ {v} = S
  OBVIOUS
<1> QED BY <1>1, <1>2, SumRemove

\* The sum of a union of disjoint sets.
LEMMA SumUnion ==
  ASSUME NEW S, NEW T, IsFiniteSet(S), IsFiniteSet(T), S \intersect T = {}, NEW f,
         \A u \in S \union T : f[u] \in Int
  PROVE  SumFunctionOnSet(f, S \union T) = SumFunctionOnSet(f, S) + SumFunctionOnSet(f, T)
<1> DEFINE P == {U \in SUBSET T : SumFunctionOnSet(f, S \union U) = SumFunctionOnSet(f, S) + SumFunctionOnSet(f, U)}
<1>0. \A U \in SUBSET T : /\ IsFiniteSet(U) /\ IsFiniteSet(S \union U)
                          /\ SumFunctionOnSet(f, U) \in Int /\ SumFunctionOnSet(f, S) \in Int
  BY FS_Subset, FS_Union, SumInt
<1>1. {} \in P
  <2>1. S \union {} = S
    OBVIOUS
  <2>2. SumFunctionOnSet(f, S) \in Int /\ SumFunctionOnSet(f, {}) = 0
    BY SumInt, SumEmpty
  <2>3. SumFunctionOnSet(f, S \union {}) = SumFunctionOnSet(f, S) + SumFunctionOnSet(f, {})
    BY <2>1, <2>2
  <2> QED BY <2>3
<1>2. ASSUME NEW U \in P, NEW x \in T \ U PROVE U \union {x} \in P
  <2>1. SumFunctionOnSet(f, U \union {x}) = f[x] + SumFunctionOnSet(f, U)
    BY <1>0, SumInsert
  <2>2. x \notin S \union U /\ S \union (U \union {x}) = (S \union U) \union {x}
    <3>1. U \in SUBSET T /\ x \in T /\ x \notin U
      OBVIOUS
    <3> HIDE DEF P
    <3> QED BY <3>1
  <2>3. SumFunctionOnSet(f, S \union (U \union {x})) = f[x] + SumFunctionOnSet(f, S \union U)
    <3> DEFINE V == S \union U
    <3>1. IsFiniteSet(V) /\ x \notin V /\ \A u \in V \union {x} : f[u] \in Int
      BY <1>0, <2>2
    <3> HIDE DEF V, P
    <3>2. SumFunctionOnSet(f, V \union {x}) = f[x] + SumFunctionOnSet(f, V)
      BY <3>1, SumInsert
    <3> QED BY <2>2, <3>2 DEF V
  <2>4. f[x] \in Int /\ SumFunctionOnSet(f, U) \in Int /\ SumFunctionOnSet(f, S) \in Int /\ U \union {x} \in SUBSET T
    BY <1>0
  <2>5. SumFunctionOnSet(f, S \union U) = SumFunctionOnSet(f, S) + SumFunctionOnSet(f, U)
    OBVIOUS
  <2>6. SumFunctionOnSet(f, S \union (U \union {x})) = SumFunctionOnSet(f, S) + SumFunctionOnSet(f, U \union {x})
    BY <2>1, <2>3, <2>4, <2>5
  <2> QED BY <2>4, <2>6
<1>3. T \in P
  <2> HIDE DEF P
  <2>1. P \in SUBSET SUBSET T BY DEF P
  <2> QED BY <1>1, <1>2, <2>1, SubsetInduction
<1> QED BY <1>3

\* Sums of functions that are each other's sum on the set.
LEMMA SumPlus ==
  ASSUME NEW S, IsFiniteSet(S), NEW f, NEW g, NEW h,
         \A u \in S : f[u] \in Int /\ g[u] \in Int /\ h[u] = f[u] + g[u]
  PROVE  SumFunctionOnSet(h, S) = SumFunctionOnSet(f, S) + SumFunctionOnSet(g, S)
<1> DEFINE P == {U \in SUBSET S : SumFunctionOnSet(h, U) = SumFunctionOnSet(f, U) + SumFunctionOnSet(g, U)}
<1>0. \A U \in SUBSET S : IsFiniteSet(U) /\ SumFunctionOnSet(f, U) \in Int /\ SumFunctionOnSet(g, U) \in Int
  BY FS_Subset, SumInt
<1>1. {} \in P
  BY SumEmpty
<1>2. ASSUME NEW U \in P, NEW x \in S \ U PROVE U \union {x} \in P
  <2>1. SumFunctionOnSet(f, U \union {x}) = f[x] + SumFunctionOnSet(f, U)
    BY <1>0, SumInsert
  <2>2. SumFunctionOnSet(g, U \union {x}) = g[x] + SumFunctionOnSet(g, U)
    BY <1>0, SumInsert
  <2>3. SumFunctionOnSet(h, U \union {x}) = h[x] + SumFunctionOnSet(h, U)
    <3>1. \A u \in U \union {x} : h[u] \in Int
      OBVIOUS
    <3> QED BY <1>0, <3>1, SumInsert
  <2>4. SumFunctionOnSet(h, U \union {x}) = SumFunctionOnSet(f, U \union {x}) + SumFunctionOnSet(g, U \union {x})
    BY <1>0, <2>1, <2>2, <2>3
  <2> QED BY <2>4
<1>3. S \in P
  <2> HIDE DEF P
  <2>1. P \in SUBSET SUBSET S BY DEF P
  <2> QED BY <1>1, <1>2, <2>1, SubsetInduction
<1> QED BY <1>3

\* A sum depends on the values on the set only.
LEMMA SumSame ==
  ASSUME NEW S, IsFiniteSet(S), NEW f, NEW g, \A u \in S : f[u] \in Int /\ g[u] = f[u]
  PROVE  SumFunctionOnSet(g, S) = SumFunctionOnSet(f, S)
<1> DEFINE P == {U \in SUBSET S : SumFunctionOnSet(g, U) = SumFunctionOnSet(f, U)}
<1>0. \A U \in SUBSET S : IsFiniteSet(U)
  BY FS_Subset
<1>1. {} \in P
  BY SumEmpty
<1>2. ASSUME NEW U \in P, NEW x \in S \ U PROVE U \union {x} \in P
  <2>1. SumFunctionOnSet(f, U \union {x}) = f[x] + SumFunctionOnSet(f, U)
    BY <1>0, SumInsert
  <2>2. SumFunctionOnSet(g, U \union {x}) = g[x] + SumFunctionOnSet(g, U)
    BY <1>0, SumInsert
  <2> QED BY <2>1, <2>2
<1>3. S \in P
  <2> HIDE DEF P
  <2>1. P \in SUBSET SUBSET S BY DEF P
  <2> QED BY <1>1, <1>2, <2>1, SubsetInduction
<1> QED BY <1>3

\* A sum is at most its number of terms times a bound on them.
LEMMA SumBound ==
  ASSUME NEW S, IsFiniteSet(S), NEW f, NEW m \in Int,
         \A u \in S : f[u] \in Int /\ f[u] <= m
  PROVE  SumFunctionOnSet(f, S) <= Cardinality(S) * m
<1> DEFINE P == {U \in SUBSET S : SumFunctionOnSet(f, U) <= Cardinality(U) * m}
<1>0. \A U \in SUBSET S : IsFiniteSet(U) /\ SumFunctionOnSet(f, U) \in Int /\ Cardinality(U) \in Nat
  BY FS_Subset, SumInt, FS_CardinalityType
<1>1. {} \in P
  BY SumEmpty, FS_EmptySet
<1>2. ASSUME NEW U \in P, NEW x \in S \ U PROVE U \union {x} \in P
  <2>1. SumFunctionOnSet(f, U \union {x}) = f[x] + SumFunctionOnSet(f, U)
    BY <1>0, SumInsert
  <2>2. Cardinality(U \union {x}) = Cardinality(U) + 1
    BY <1>0, FS_AddElement
  <2>3. \A n \in Nat : (n + 1) * m = n * m + m
    OBVIOUS
  <2>4. f[x] \in Int /\ f[x] <= m /\ SumFunctionOnSet(f, U) \in Int /\ Cardinality(U) \in Nat
        /\ Cardinality(U) * m \in Int
    BY <1>0
  <2> QED BY <2>1, <2>2, <2>3, <2>4
<1>3. S \in P
  <2> HIDE DEF P
  <2>1. P \in SUBSET SUBSET S BY DEF P
  <2> QED BY <1>1, <1>2, <2>1, SubsetInduction
<1> QED BY <1>3

\* A sum of nothing but 0.
LEMMA SumZero ==
  ASSUME NEW S, IsFiniteSet(S), NEW f, \A u \in S : f[u] = 0
  PROVE  SumFunctionOnSet(f, S) = 0
<1>1. SumFunctionOnSet(f, S) \in Int
  BY SumInt
<1>2. SumFunctionOnSet(f, S) = SumFunctionOnSet(f, S) + SumFunctionOnSet(f, S)
  BY SumPlus
<1> DEFINE t == SumFunctionOnSet(f, S)
<1> HIDE DEF t
<1>3. t \in Int /\ t = t + t
  BY <1>1, <1>2, Zenon DEF t
<1>4. t = 0
  BY <1>3
<1> QED BY <1>4 DEF t

\* A sum of natural numbers is one.
LEMMA SumNat ==
  ASSUME NEW S, IsFiniteSet(S), NEW f, \A u \in S : f[u] \in Nat
  PROVE  SumFunctionOnSet(f, S) \in Nat
<1> DEFINE P == {U \in SUBSET S : SumFunctionOnSet(f, U) \in Nat}
<1>0. \A U \in SUBSET S : IsFiniteSet(U)
  BY FS_Subset
<1>1. {} \in P
  BY SumEmpty
<1>2. ASSUME NEW U \in P, NEW x \in S \ U PROVE U \union {x} \in P
  <2>1. \A u \in U \union {x} : f[u] \in Int
    OBVIOUS
  <2>2. SumFunctionOnSet(f, U \union {x}) = f[x] + SumFunctionOnSet(f, U)
    BY <1>0, <2>1, SumInsert
  <2> QED BY <2>2
<1>3. S \in P
  <2> HIDE DEF P
  <2>1. P \in SUBSET SUBSET S BY DEF P
  <2> QED BY <1>1, <1>2, <2>1, SubsetInduction
<1> QED BY <1>3

\* A sum over a part is at most the sum over the whole.
LEMMA SumPart ==
  ASSUME NEW S, IsFiniteSet(S), NEW T \in SUBSET S, NEW f, \A u \in S : f[u] \in Nat
  PROVE  SumFunctionOnSet(f, T) <= SumFunctionOnSet(f, S)
<1> DEFINE R == S \ T
<1>1. IsFiniteSet(T) /\ IsFiniteSet(R) /\ T \intersect R = {} /\ T \union R = S
  BY FS_Subset
<1>2. \A u \in T \union R : f[u] \in Int
  BY <1>1
<1>3. \A u \in R : f[u] \in Nat
  OBVIOUS
<1> HIDE DEF R
<1>4. SumFunctionOnSet(f, T \union R) = SumFunctionOnSet(f, T) + SumFunctionOnSet(f, R)
  BY <1>1, <1>2, SumUnion
<1>5. SumFunctionOnSet(f, T) \in Int /\ SumFunctionOnSet(f, R) \in Nat
  BY <1>1, <1>2, <1>3, SumInt, SumNat
<1>6. SumFunctionOnSet(f, S) = SumFunctionOnSet(f, T) + SumFunctionOnSet(f, R)
  BY <1>1, <1>4, Zenon
<1> QED BY <1>5, <1>6

\* A common factor.
LEMMA SumScale ==
  ASSUME NEW S, IsFiniteSet(S), NEW c \in Int, NEW f, NEW g,
         \A u \in S : f[u] \in Int /\ g[u] = c * f[u]
  PROVE  SumFunctionOnSet(g, S) = c * SumFunctionOnSet(f, S)
<1> DEFINE P == {U \in SUBSET S : SumFunctionOnSet(g, U) = c * SumFunctionOnSet(f, U)}
<1>0. \A U \in SUBSET S : IsFiniteSet(U) /\ SumFunctionOnSet(f, U) \in Int
  BY FS_Subset, SumInt
<1>1. {} \in P
  BY SumEmpty
<1>2. ASSUME NEW U \in P, NEW x \in S \ U PROVE U \union {x} \in P
  <2>1. SumFunctionOnSet(f, U \union {x}) = f[x] + SumFunctionOnSet(f, U)
    BY <1>0, SumInsert
  <2>2. SumFunctionOnSet(g, U \union {x}) = g[x] + SumFunctionOnSet(g, U)
    <3>1. \A u \in U \union {x} : g[u] \in Int
      OBVIOUS
    <3> QED BY <1>0, <3>1, SumInsert
  <2>3. c * (f[x] + SumFunctionOnSet(f, U)) = c * f[x] + c * SumFunctionOnSet(f, U)
    BY <1>0
  <2>4. SumFunctionOnSet(g, U \union {x}) = c * SumFunctionOnSet(f, U \union {x})
    BY <2>1, <2>2, <2>3
  <2> QED BY <2>4
<1>3. S \in P
  <2> HIDE DEF P
  <2>1. P \in SUBSET SUBSET S BY DEF P
  <2> QED BY <1>1, <1>2, <2>1, SubsetInduction
<1> QED BY <1>3

----------------------------------------------------------------------------
(* The least and the greatest number of a set, and folds.                  *)

\* The least number of a non-empty set.
LEMMA MinIs ==
  ASSUME NEW T \in SUBSET Nat, T # {}
  PROVE  Min(T) \in T /\ \A x \in T : Min(T) <= x
BY LeastElement DEF Min

\* The greatest number of a bounded set, and of an interval.
LEMMA MaxIn ==
  ASSUME NEW n \in Nat, NEW s \in SUBSET (1 .. n), s # {}
  PROVE  Max(s) \in s /\ \A y \in s : Max(s) >= y
<1> DEFINE T == {n - x : x \in s}
<1>0. \A x \in s : x \in Nat /\ 1 <= x /\ x <= n
  OBVIOUS
<1>1. T \in SUBSET Nat /\ T # {}
  <2>1. \A x \in s : n - x \in Nat
    BY <1>0
  <2> QED BY <2>1
<1>2. PICK m \in T : \A y \in T : m <= y
  <2> HIDE DEF T
  <2> QED BY <1>1, LeastElement
<1>3. PICK x \in s : m = n - x
  OBVIOUS
<1>4. \A y \in s : x >= y
  <2> TAKE y \in s
  <2>1. n - y \in T
    OBVIOUS
  <2>2. m <= n - y
    BY <1>2, <2>1
  <2> QED BY <1>0, <1>3, <2>2
<1> QED BY <1>4 DEF Max

LEMMA MaxOfInterval ==
  ASSUME NEW n \in Nat, n # 0
  PROVE  Max(1 .. n) = n
<1>1. Max(1 .. n) \in 1 .. n /\ \A y \in 1 .. n : Max(1 .. n) >= y
  <2>1. 1 .. n # {} /\ 1 .. n \in SUBSET (1 .. n)
    OBVIOUS
  <2> QED BY <2>1, MaxIn
<1> QED BY <1>1


\* g gives every set of numbers up to n what is made of base by the functions
\* F[i], from the least i of the set on: the recursion of FoldLeft.
IsFold(g, n, D, base, F) ==
  /\ g \in [SUBSET (1 .. n) -> D]
  /\ \A s \in SUBSET (1 .. n) :
       g[s] = IF s = {} THEN base ELSE F[Max(s)][g[s \ {Max(s)}]]

\* The recursion is well defined: by induction on n.
LEMMA FoldExists ==
  ASSUME NEW n \in Nat, NEW D, NEW base \in D, NEW F,
         \A i \in 1 .. n : \A x \in D : F[i][x] \in D
  PROVE  \E g : IsFold(g, n, D, base, F)
<1> DEFINE S(k) == SUBSET (1 .. k)
           Ok(g, k) == /\ g \in [S(k) -> D]
                       /\ \A s \in S(k) : g[s] = IF s = {} THEN base ELSE F[Max(s)][g[s \ {Max(s)}]]
           Q == {k \in Nat : k <= n => \E g : Ok(g, k)}
<1>0. \A k \in Nat : \A s \in S(k) : s # {} => /\ Max(s) \in s
                                               /\ \A y \in s : Max(s) >= y
  BY MaxIn
<1>1. 0 \in Q
  <2> DEFINE g == [s \in S(0) |-> base]
  <2>1. \A s \in S(0) : s = {}
    OBVIOUS
  <2>2. Ok(g, 0)
    BY <2>1
  <2> QED BY <2>2
<1>2. ASSUME NEW k \in Q PROVE k + 1 \in Q
  <2>0. k \in Nat
    OBVIOUS
  <2> SUFFICES ASSUME k + 1 <= n PROVE \E g : Ok(g, k + 1)
    <3> HIDE DEF Ok
    <3> QED BY <2>0
  <2>1. PICK g : Ok(g, k)
    <3> HIDE DEF Ok
    <3> QED BY <2>0
  <2> DEFINE h == [s \in S(k + 1) |-> IF s \in S(k) THEN g[s] ELSE F[Max(s)][g[s \ {Max(s)}]]]
  <2>2. ASSUME NEW s \in S(k + 1), s \notin S(k)
        PROVE  s # {} /\ Max(s) = k + 1 /\ s \ {Max(s)} \in S(k)
    <3>1. s # {} /\ k + 1 \in s
      BY <2>0, <2>2
    <3>2. \A y \in s : y \in Nat /\ 1 <= y /\ y <= k + 1
      BY <2>0
    <3>3. k + 1 \in Nat
      BY <2>0
    <3>4. Max(s) \in s /\ \A y \in s : Max(s) >= y
      BY <1>0, <3>1, <3>3, Zenon
    <3>5. Max(s) = k + 1
      BY <2>0, <3>1, <3>2, <3>4
    <3>6. \A y \in s \ {k + 1} : y \in 1 .. k
      BY <2>0, <3>2
    <3> QED BY <3>1, <3>5, <3>6
  <2>3. ASSUME NEW s \in S(k), s # {} PROVE s \ {Max(s)} \in S(k) /\ Max(s) \in 1 .. n
    <3>1. Max(s) \in s
      BY <1>0, <2>0, <2>3, Zenon
    <3>2. \A y \in s : y \in 1 .. n
      BY <2>0
    <3>3. s \ {Max(s)} \in S(k)
      OBVIOUS
    <3> QED BY <3>1, <3>2, <3>3, Zenon
  <2>4. S(k) \subseteq S(k + 1)
    OBVIOUS
  <2> HIDE DEF S
  <2>5. \A s \in S(k) : h[s] = g[s] /\ g[s] \in D
    BY <2>1, <2>4
  <2>6. k + 1 \in 1 .. n
    OBVIOUS
  <2>7. h \in [S(k + 1) -> D]
    BY <2>2, <2>5, <2>6
  <2>8. \A s \in S(k + 1) : h[s] = IF s = {} THEN base ELSE F[Max(s)][h[s \ {Max(s)}]]
    <3> SUFFICES ASSUME NEW s \in S(k + 1)
                 PROVE  h[s] = IF s = {} THEN base ELSE F[Max(s)][h[s \ {Max(s)}]]
      OBVIOUS
    <3>1. CASE s \in S(k)
      <4>1. g[s] = IF s = {} THEN base ELSE F[Max(s)][g[s \ {Max(s)}]]
        BY <2>1, <3>1
      <4> HIDE DEF h
      <4>2. s # {} => h[s \ {Max(s)}] = g[s \ {Max(s)}]
        BY <2>3, <2>5, <3>1
      <4> QED BY <4>1, <4>2, <2>5, <3>1, Zenon
    <3>2. CASE s \notin S(k)
      <4>1. h[s] = F[Max(s)][g[s \ {Max(s)}]]
        BY <3>2
      <4> HIDE DEF h
      <4>2. h[s \ {Max(s)}] = g[s \ {Max(s)}]
        BY <2>2, <2>5, <3>2
      <4> QED BY <4>1, <4>2, <2>2, <3>2, Zenon
    <3> QED BY <3>1, <3>2
  <2> HIDE DEF h
  <2>9. Ok(h, k + 1)
    BY <2>7, <2>8
  <2> HIDE DEF Ok
  <2> QED BY <2>9
<1>3. Q = Nat
  <2> HIDE DEF Q
  <2>1. Q \in SUBSET Nat BY DEF Q
  <2> QED BY <1>1, <1>2, <2>1, SetInduction
<1>4. PICK g : Ok(g, n)
  <2>1. n \in Q
    <3> HIDE DEF Q
    <3> QED BY <1>3
  <2> HIDE DEF Ok
  <2> QED BY <2>1
<1> QED BY <1>4 DEF IsFold
=============================================================================
