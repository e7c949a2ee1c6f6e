-------------------------- MODULE WeightedBalancer --------------------------
(***************************************************************************)
(* The weighted balancer of one service (handleWeighted, load_balancer.go):*)
(* smooth weighted round-robin with a slow start.  A request first filters *)
(* the upstreams and then, if several are left, takes its turn under the   *)
(* lock of the service, so that other turns, failures and reloads come     *)
(* between the two.                                                        *)
(*                                                                         *)
(* Requests come again and again, and the weights decide how far their     *)
(* counters can run: nothing but the slow start is cut off at a bound.     *)
(***************************************************************************)
EXTENDS Integers, Sequences, FiniteSets, FiniteSetsExt

CONSTANTS
  Requests,       \* requests that select at the same time
  Upstreams,      \* service.Upstreams, a sequence of ids
  Weight,         \* the configured weight of each upstream
  Matching,       \* Matching[r]: the upstreams with the tags of r's route
  SlowStart       \* SlowStartDuration, in ticks of the clock

Ids == {Upstreams[i] : i \in 1 .. Len(Upstreams)}
Indices == 1 .. Len(Upstreams)

ASSUME WeightedAssumption ==
  /\ Upstreams \in Seq(Ids)
  /\ Len(Upstreams) = Cardinality(Ids)
  /\ Weight \in [Ids -> Int]
  /\ Matching \in [Requests -> SUBSET Ids]
  /\ SlowStart \in Nat

VARIABLES
  available,   \* upstreams that isUpstreamAvailable accepts
  states,      \* weightedCache: the WeightedState of each upstream seen so far
  candidates,  \* candidateIndices of each request that waits for the lock
  turns        \* history: turns of an upstream as a candidate since it was chosen

vars == <<available, states, candidates, turns>>

\* Mutation: FirstSeenAt is not set, so that the uptime is that of the epoch.
UnseenSinceEpoch == [current |-> 0, age |-> SlowStart + 1, seen |-> FALSE]

\* A WeightedState before its first turn.
Unseen == [current |-> 0, age |-> 0, seen |-> FALSE]

TypeOK ==
  /\ available \subseteq Ids
  /\ states \in [Ids -> [current : Int, age : 0 .. SlowStart, seen : BOOLEAN]]
  /\ candidates \in [Requests -> SUBSET Indices]
  /\ turns \in [Ids -> Nat]

Init ==
  /\ available = Ids
  /\ states = [u \in Ids |-> Unseen]
  /\ candidates = [r \in Requests |-> {}]
  /\ turns = [u \in Ids |-> 0]

----------------------------------------------------------------------------

configuredWeight(u) == IF Weight[u] <= 0 THEN 1 ELSE Weight[u]

\* Mutation: a weight that is scaled down to nothing stays nothing.
effectiveWeightOrZero(u) ==
  LET w == configuredWeight(u)
      age == states[u].age
  IN IF age >= SlowStart THEN w
     ELSE IF 10 * age < SlowStart THEN w \div 10 ELSE (w * age) \div SlowStart

\* Slow start: the weight grows with the uptime, from a tenth of it on, and
\* is at least 1.
effectiveWeight(u) ==
  LET w == configuredWeight(u)
      age == states[u].age
  IN IF age >= SlowStart THEN w
     ELSE Max({1, IF 10 * age < SlowStart THEN w \div 10 ELSE (w * age) \div SlowStart})

Totals(S) == SumFunctionOnSet([u \in Ids |-> effectiveWeight(u)], S)

\* Mutation: the winner pays its own weight only.
PaidOwn(S, best) == effectiveWeight(best)

\* What the winner of a turn of the candidates S pays.
Paid(S, best) == Totals(S)

\* Mutation: the candidate with the lowest weight wins.
BestLowest(S, raised) ==
  CHOOSE i \in S : \A j \in S : raised[i] < raised[j] \/ (raised[i] = raised[j] /\ i <= j)

\* The first of the candidates with the highest current weight.
Best(S, raised) ==
  CHOOSE i \in S : \A j \in S : raised[i] > raised[j] \/ (raised[i] = raised[j] /\ i <= j)

\* Filter the healthy upstreams; with less than two the turn is not needed.
Filter(r) ==
  LET S == {i \in Indices : Upstreams[i] \in Matching[r] \intersect available} IN
  /\ candidates[r] = {}
  /\ Len(Upstreams) > 1 /\ Cardinality(S) > 1
  /\ candidates' = [candidates EXCEPT ![r] = S]
  /\ UNCHANGED <<available, states, turns>>

\* Under the lock: raise the weight of every candidate, choose the highest
\* one, and let it pay for the turn.
Turn(r) ==
  LET S == candidates[r]
      ids == {Upstreams[i] : i \in S}
      raised == [i \in S |-> states[Upstreams[i]].current + effectiveWeight(Upstreams[i])]
      best == Upstreams[Best(S, raised)]
  IN
  /\ S # {}
  /\ states' = [u \in Ids |->
       IF u \notin ids THEN states[u]
       ELSE [states[u] EXCEPT
               !.seen = TRUE,
               !.current = @ + effectiveWeight(u) - (IF u = best THEN Paid(ids, best) ELSE 0)]]
  /\ turns' = [u \in Ids |-> IF u = best THEN 0
                             ELSE IF u \in ids THEN turns[u] + 1 ELSE turns[u]]
  /\ candidates' = [candidates EXCEPT ![r] = {}]
  /\ UNCHANGED available

\* ResetLoadBalancers on a reload: all weights start again.
ResetLoadBalancers ==
  /\ states' = [u \in Ids |-> Unseen]
  /\ turns' = [u \in Ids |-> 0]
  /\ UNCHANGED <<available, candidates>>

\* Time passes; the uptime counts from the first turn of an upstream.
Tick ==
  /\ \E u \in Ids : states[u].seen /\ states[u].age < SlowStart
  /\ states' = [u \in Ids |->
       IF states[u].seen /\ states[u].age < SlowStart
       THEN [states[u] EXCEPT !.age = @ + 1] ELSE states[u]]
  /\ UNCHANGED <<available, candidates, turns>>

\* A breaker or a health check changes its mind.
Flip(u) ==
  /\ available' = (available \ {u}) \union ({u} \ available)
  /\ UNCHANGED <<states, candidates, turns>>

Next ==
  \/ \E r \in Requests : Filter(r) \/ Turn(r)
  \/ ResetLoadBalancers
  \/ Tick
  \/ \E u \in Ids : Flip(u)

Spec == Init /\ [][Next]_vars

----------------------------------------------------------------------------
(* Properties.                                                             *)

(***************************************************************************)
(* What the winner of a turn pays is what all candidates have got in it,   *)
(* whatever the slow start does to their weights and whichever upstreams   *)
(* come and go: the current weights of the service add up to nothing.      *)
(***************************************************************************)
WeightsBalance == SumFunctionOnSet([u \in Ids |-> states[u].current], Ids) = 0

\* The heaviest weight, once for every other upstream.
Round ==
  Max({configuredWeight(u) : u \in Ids}) * (Cardinality(Ids) - 1)

(***************************************************************************)
(* No upstream starves: an upstream that is a candidate is chosen after at *)
(* most two rounds of turns, even if the candidates change from turn to    *)
(* turn and the weights are in the slow start (handleWeighted).            *)
(***************************************************************************)
NoStarvation == \A u \in Ids : turns[u] <= 2 * Round

(***************************************************************************)
(* No credit and no debt grows beyond one round, whichever upstreams come  *)
(* and go and in which order, so that an upstream that comes back neither  *)
(* takes nor loses more than that (handleWeighted).                        *)
(***************************************************************************)
CreditBounded == \A u \in Ids : states[u].current \in -Round .. Round
=============================================================================
