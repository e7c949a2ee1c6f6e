--------------------------- MODULE ProxyPassProofs --------------------------
(***************************************************************************)
(* Proofs about ProxyPass, for every number of requests, upstreams, probes *)
(* and retries and every threshold.  Three parts build on each other: the  *)
(* types, with the lemmas on the operators of the breaker and the health   *)
(* record; the target circuit breakers; and the requests, with the         *)
(* connections they hold and the upstreams their retries go to.            *)
(***************************************************************************)
EXTENDS ProxyPass, FiniteSetTheorems, TLAPS

----------------------------------------------------------------------------
(* The operations of a breaker return breakers.                            *)
LEMMA NewGenerationType ==
  ASSUME NEW Calls, NEW st \in BreakerStates
  PROVE  toNewGeneration(st) \in Breakers(Calls)
  BY DEF toNewGeneration, Breakers

\* The operations of a breaker return a breaker.
LEMMA BreakerType ==
  ASSUME NEW Calls, NEW b \in Breakers(Calls), NEW c \in Calls
  PROVE  /\ beforeRequest(b, c) \in Breakers(Calls)
         /\ afterSuccess(b, c) \in Breakers(Calls)
         /\ afterFailure(b, c) \in Breakers(Calls)
         /\ afterExpiry(b) \in Breakers(Calls)
<1>0. /\ b.reqs + 1 \in Nat /\ b.fails + 1 \in Nat
      /\ b.cfails + 1 \in Nat /\ b.csucc + 1 \in Nat
      /\ b.current \union {c} \in SUBSET Calls /\ b.current \ {c} \in SUBSET Calls
  BY DEF Breakers
<1>1. onSuccess(b, c) \in Breakers(Calls) /\ onFailure(b, c) \in Breakers(Calls)
  BY <1>0, Zenon DEF onSuccess, onFailure, Breakers
<1>2. beforeRequest(b, c) \in Breakers(Calls)
  BY <1>0, Zenon DEF beforeRequest, Breakers
<1>3. /\ toNewGeneration("closed") \in Breakers(Calls)
      /\ toNewGeneration("open") \in Breakers(Calls)
      /\ toNewGeneration("halfopen") \in Breakers(Calls)
  BY NewGenerationType DEF BreakerStates
<1> QED
  BY <1>1, <1>2, <1>3 DEF afterSuccess, afterFailure, afterExpiry, NewBreaker

(* The operations on a health record return health records.                *)
LEMMA HealthResultType ==
  ASSUME NEW h \in HealthStates, NEW success \in BOOLEAN, NEW hi, NEW lo
  PROVE  processHealthResult(h, success, hi, lo) \in HealthStates
<1>1. ASSUME NEW n \in 0 .. CounterCap PROVE Bump(n) \in 0 .. CounterCap
  BY <1>1, HealthAssumption DEF Bump
<1>2. /\ h.status \in Statuses /\ Bump(h.succ) \in 0 .. CounterCap
      /\ Bump(h.fail) \in 0 .. CounterCap /\ 0 \in 0 .. CounterCap
  BY <1>1, HealthAssumption DEF HealthStates
<1> QED
  BY <1>2 DEF processHealthResult, HealthStates, Statuses

\* The operations on a health record return a health record.
LEMMA HealthType ==
  ASSUME NEW h \in HealthStates, NEW success \in BOOLEAN, NEW st \in Statuses, NEW read
  PROVE  /\ UpdateHealthStatus(h, st) \in HealthStates
         /\ RecordPassiveResult(h, success) \in HealthStates
         /\ ApplyActiveCheck(h, success, read) \in HealthStates
<1>1. 0 \in 0 .. CounterCap
  BY HealthAssumption
<1>2. UpdateHealthStatus(h, st) \in HealthStates
  BY <1>1 DEF UpdateHealthStatus, HealthStates
<1> QED
  BY <1>2, HealthResultType DEF RecordPassiveResult, ApplyActiveCheck

\* Picking the next index of a nonempty slice keeps the counter in range.
LEMMA NextIndex ==
  ASSUME NEW S \in SUBSET Upstreams, S # {}, NEW i \in Upstreams
  PROVE  (i + 1) % Cardinality(S) \in Upstreams
<1>1. IsFiniteSet(Upstreams) /\ Cardinality(Upstreams) = N
  BY FS_Interval, ProxyAssumption DEF Upstreams
<1>2. IsFiniteSet(S) /\ Cardinality(S) <= N
  BY <1>1, FS_Subset
<1>3. Cardinality(S) \in Nat /\ Cardinality(S) # 0
  BY <1>2, FS_EmptySet, FS_CardinalityType
<1>4. \A m \in Nat, k \in Nat \ {0} : m % k \in 0 .. k - 1
  OBVIOUS
<1>5. i + 1 \in Nat
  BY ProxyAssumption DEF Upstreams
<1>6. (i + 1) % Cardinality(S) \in 0 .. Cardinality(S) - 1
  BY <1>3, <1>4, <1>5
<1> QED
  BY <1>2, <1>3, <1>6, ProxyAssumption DEF Upstreams

----------------------------------------------------------------------------
(* The part of the state that is wanted with the types: a request that is  *)
(* being served has an upstream, and one that picks has candidates.        *)
Serving == {"acquire", "send", "flight", "copy", "release", "record"}

Located ==
  \A r \in Requests :
    /\ pc[r] \in Serving => up[r] \in Upstreams
    /\ pc[r] = "pick" => avail[r] # {}

TypeInv == TypeOK /\ Located

\* The initial state is well typed.
LEMMA InitTypeInv == Init => TypeInv
<1> SUFFICES ASSUME Init PROVE TypeInv
  OBVIOUS
<1>1. NewBreaker \in Breakers(Requests)
  BY NewGenerationType DEF NewBreaker, BreakerStates
<1>2. InitialHealth \in HealthStates
  BY HealthAssumption DEF InitialHealth, HealthStates, Statuses
<1>3. \A u \in Upstreams : ApplyActiveCheck(InitialHealth, alive[u], "NotAvailable") \in HealthStates
  BY <1>2, HealthType DEF Init, Statuses
<1>4. 0 \in Upstreams /\ 0 \in 0 .. N /\ 0 \in 0 .. MaxReloads
  BY ProxyAssumption DEF Upstreams
<1>5. TypeOK
  BY <1>1, <1>2, <1>3, <1>4 DEF Init, TypeOK, ProbeStates, Locations, Answers
<1>6. Located
  BY DEF Init, Located, Serving
<1> QED
  BY <1>5, <1>6 DEF TypeInv

----------------------------------------------------------------------------
(* One lemma per phase of a request.                                       *)

\* A handler that returns leaves its variables well typed.
LEMMA FinishType ==
  ASSUME TypeInv, NEW r \in Requests, NEW a \in Answers, Finish(r, a),
         up' \in [Requests -> Upstreams \union {NoUpstream}],
         \A q \in Requests \ {r} : up'[q] = up[q],
         UNCHANGED <<alive, gone, probe, reloads>>,
         brk' \in [Upstreams -> Breakers(Requests)],
         health' \in [Upstreams -> HealthStates],
         rr' \in Upstreams, rrRetry' \in Upstreams,
         active' \in [Upstreams -> Nat]
  PROVE  TypeInv'
<1>1. 0 \in Upstreams /\ 0 \in 0 .. N
  BY ProxyAssumption DEF Upstreams
<1>2. TypeOK'
  BY <1>1 DEF TypeInv, TypeOK, Finish, Goto, Locations
<1>3. Located'
  BY DEF TypeInv, TypeOK, Located, Finish, Goto, Serving
<1> QED BY <1>2, <1>3 DEF TypeInv

\* A completed selection leaves the variables of a request well typed.
LEMMA SelectedType ==
  ASSUME TypeInv, NEW r \in Requests, NEW u \in Upstreams, Selected(r, u),
         UNCHANGED <<alive, gone, brk, health, probe, active, reloads>>,
         rr' \in Upstreams, rrRetry' \in Upstreams
  PROVE  TypeInv'
<1>1. 0 \in Upstreams /\ 0 \in 0 .. N
  BY ProxyAssumption DEF Upstreams
<1>2. TypeOK'
  BY <1>1 DEF TypeInv, TypeOK, Selected, Goto, Locations
<1>3. Located'
  BY DEF TypeInv, TypeOK, Located, Selected, Goto, Serving
<1> QED BY <1>2, <1>3 DEF TypeInv

\* Choosing an upstream keeps the types.
LEMMA SelectionType ==
  ASSUME TypeInv, NEW r \in Requests,
         \/ SkipLoop(r) \/ SelectDirect(r) \/ SelectValid(r) \/ SelectHealthy(r)
         \/ Scan(r) \/ SelectRetry(r) \/ Exclude(r) \/ Pick(r)
  PROVE  TypeInv'
<1> USE DEF envVars, sharedVars
<1>0. 0 \in Upstreams /\ Upstreams \subseteq Nat /\ N \in Nat \ {0}
  BY ProxyAssumption DEF Upstreams
<1>1. CASE SkipLoop(r)
  BY <1>1, FinishType DEF SkipLoop, TypeInv, TypeOK, Answers
<1>2. CASE SelectDirect(r)
  BY <1>2, FinishType DEF SelectDirect, TypeInv, TypeOK, Answers
<1>3. CASE SelectValid(r)
  <2>1. CASE Finish(r, "503") /\ UNCHANGED up
    BY <1>3, <2>1, FinishType DEF SelectValid, TypeInv, TypeOK, Answers
  <2>2. CASE Selected(r, 0)
    BY <1>0, <1>3, <2>2, SelectedType DEF SelectValid, TypeInv, TypeOK
  <2>3. CASE /\ Matching[r] # {} /\ Goto(r, "pick")
             /\ avail' = [avail EXCEPT ![r] = Matching[r]]
             /\ cur' = [cur EXCEPT ![r] = rr]
             /\ UNCHANGED <<attempt, failed, up, idx, ok, answer>>
    <3>1. TypeOK'
      BY <1>3, <2>3, ProxyAssumption DEF SelectValid, TypeInv, TypeOK, Goto, Locations
    <3>2. Located'
      BY <2>3 DEF TypeInv, TypeOK, Located, Goto, Serving
    <3> QED BY <3>1, <3>2 DEF TypeInv
  <2> QED BY <1>3, <2>1, <2>2, <2>3 DEF SelectValid
<1>4. CASE SelectHealthy(r)
  <2>1. CASE Finish(r, "503") /\ UNCHANGED up
    BY <1>4, <2>1, FinishType DEF SelectHealthy, TypeInv, TypeOK, Answers
  <2>2. CASE Selected(r, 0)
    BY <1>0, <1>4, <2>2, SelectedType DEF SelectHealthy, TypeInv, TypeOK
  <2>3. CASE /\ Goto(r, "scan")
             /\ cur' = [cur EXCEPT ![r] = rr]
             /\ UNCHANGED <<attempt, failed, up, idx, avail, ok, answer>>
    <3>1. TypeOK'
      BY <1>4, <2>3 DEF SelectHealthy, TypeInv, TypeOK, Goto, Locations
    <3>2. Located'
      BY <2>3 DEF TypeInv, TypeOK, Located, Goto, Serving
    <3> QED BY <3>1, <3>2 DEF TypeInv
  <2> QED BY <1>4, <2>1, <2>2, <2>3 DEF SelectHealthy
<1>5. CASE Scan(r)
  <2> DEFINE candidate == (cur[r] + idx[r]) % N
  <2>1. candidate \in Upstreams /\ (candidate + 1) % N \in Upstreams
    <3>1. \A m \in Nat, k \in Nat \ {0} : m % k \in 0 .. k - 1
      OBVIOUS
    <3>2. cur[r] + idx[r] \in Nat
      <4>1. cur[r] \in Upstreams /\ idx[r] \in 0 .. N
        BY DEF TypeInv, TypeOK
      <4>2. cur[r] \in Nat /\ idx[r] \in Nat
        BY <4>1, ProxyAssumption DEF Upstreams
      <4> QED BY <4>2
    <3>3. candidate \in Upstreams
      BY <1>0, <3>1, <3>2 DEF Upstreams
    <3> HIDE DEF candidate
    <3>4. candidate + 1 \in Nat
      BY <1>0, <3>3
    <3> QED BY <1>0, <3>1, <3>3, <3>4 DEF Upstreams
  <2>2. CASE rr' = (candidate + 1) % N /\ Selected(r, candidate)
    BY <1>5, <2>1, <2>2, SelectedType DEF Scan, TypeInv, TypeOK
  <2>3. CASE Finish(r, "503") /\ UNCHANGED <<rr, up>>
    BY <1>5, <2>3, FinishType DEF Scan, TypeInv, TypeOK, Answers
  <2>4. CASE /\ idx[r] + 1 < N
             /\ idx' = [idx EXCEPT ![r] = @ + 1]
             /\ UNCHANGED <<pc, attempt, failed, cur, avail, ok, answer, rr, up>>
    <3>1. idx' \in [Requests -> 0 .. N]
      BY <1>0, <2>4 DEF TypeInv, TypeOK
    <3>2. TypeOK' /\ Located'
      BY <1>5, <2>4, <3>1 DEF Scan, TypeInv, TypeOK, Located
    <3> QED BY <3>2 DEF TypeInv
  <2> QED BY <1>5, <2>2, <2>3, <2>4 DEF Scan
<1>6. CASE SelectRetry(r)
  <2>1. TypeOK'
    BY <1>6 DEF SelectRetry, TypeInv, TypeOK, Goto, Locations
  <2>2. Located'
    BY <1>6 DEF SelectRetry, TypeInv, TypeOK, Located, Goto, Serving
  <2> QED BY <2>1, <2>2 DEF TypeInv
<1>7. CASE Exclude(r)
  <2>1. PICK collected \in SUBSET Upstreams :
          \/ /\ idx[r] + 1 < N
             /\ idx' = [idx EXCEPT ![r] = @ + 1]
             /\ avail' = [avail EXCEPT ![r] = collected]
             /\ UNCHANGED <<pc, attempt, failed, cur, ok, answer>>
          \/ Finish(r, "503")
          \/ /\ collected # {} /\ Goto(r, "pick")
             /\ avail' = [avail EXCEPT ![r] = collected]
             /\ cur' = [cur EXCEPT ![r] = rrRetry]
             /\ UNCHANGED <<attempt, failed, idx, ok, answer>>
    <3> DEFINE grown == IF /\ idx[r] \notin failed[r] /\ idx[r] \in Matching[r]
                           /\ isUpstreamAvailable(idx[r])
                        THEN avail[r] \union {idx[r]}
                        ELSE avail[r]
    <3>1. grown \in SUBSET Upstreams
      BY ProxyAssumption DEF TypeInv, TypeOK
    <3> WITNESS grown \in SUBSET Upstreams
    <3> QED BY <1>7 DEF Exclude
  <2>2. CASE Finish(r, "503")
    BY <1>7, <2>2, FinishType DEF Exclude, TypeInv, TypeOK, Answers
  <2>3. CASE /\ idx[r] + 1 < N
             /\ idx' = [idx EXCEPT ![r] = @ + 1]
             /\ avail' = [avail EXCEPT ![r] = collected]
             /\ UNCHANGED <<pc, attempt, failed, cur, ok, answer>>
    <3>1. idx' \in [Requests -> 0 .. N] /\ avail' \in [Requests -> SUBSET Upstreams]
      BY <1>0, <2>3 DEF TypeInv, TypeOK
    <3>2. TypeOK' /\ Located'
      BY <1>7, <2>3, <3>1 DEF Exclude, TypeInv, TypeOK, Located
    <3> QED BY <3>2 DEF TypeInv
  <2>4. CASE /\ collected # {} /\ Goto(r, "pick")
             /\ avail' = [avail EXCEPT ![r] = collected]
             /\ cur' = [cur EXCEPT ![r] = rrRetry]
             /\ UNCHANGED <<attempt, failed, idx, ok, answer>>
    <3>1. TypeOK'
      BY <1>7, <2>4 DEF Exclude, TypeInv, TypeOK, Goto, Locations
    <3>2. Located'
      BY <1>7, <2>4 DEF Exclude, TypeInv, TypeOK, Located, Goto, Serving
    <3> QED BY <3>1, <3>2 DEF TypeInv
  <2> QED BY <2>1, <2>2, <2>3, <2>4
<1>8. CASE Pick(r)
  <2>1. PICK u \in Upstreams : Selected(r, u)
    BY <1>8 DEF Pick
  <2>2. (cur[r] + 1) % Cardinality(avail[r]) \in Upstreams
    BY <1>8, NextIndex DEF Pick, TypeInv, TypeOK, Located
  <2> QED
    BY <1>8, <2>1, <2>2, SelectedType DEF Pick, TypeInv, TypeOK
<1> QED
  BY <1>1, <1>2, <1>3, <1>4, <1>5, <1>6, <1>7, <1>8

\* One attempt keeps the types.
LEMMA AttemptType ==
  ASSUME TypeInv, NEW r \in Requests,
         \/ ParseFails(r) \/ Acquire(r) \/ TransportFails(r) \/ Send(r)
         \/ Respond(r) \/ CopyDone(r) \/ CopyAborts(r) \/ Release(r) \/ Record(r)
  PROVE  TypeInv'
<1> USE DEF envVars, sharedVars
<1>0. ASSUME NEW u \in Upstreams
      PROVE  /\ IncrementActiveConnections(u) => active' \in [Upstreams -> Nat]
             /\ DecrementActiveConnections(u) => active' \in [Upstreams -> Nat]
  BY DEF IncrementActiveConnections, DecrementActiveConnections, TypeInv, TypeOK
<1>1. CASE ParseFails(r)
  BY <1>1, FinishType DEF ParseFails, TypeInv, TypeOK, Answers
<1>2. CASE Acquire(r)
  <2>1. active' \in [Upstreams -> Nat]
    BY <1>0, <1>2 DEF Acquire, TypeInv, Located, Serving
  <2>2. TypeOK'
    BY <1>2, <2>1 DEF Acquire, TypeInv, TypeOK, Goto, Locations
  <2>3. Located'
    BY <1>2 DEF Acquire, TypeInv, TypeOK, Located, Goto, Serving
  <2> QED BY <2>2, <2>3 DEF TypeInv
<1>3. CASE TransportFails(r)
  <2>1. active' \in [Upstreams -> Nat]
    BY <1>0, <1>3 DEF TransportFails, TypeInv, Located, Serving
  <2> QED
    BY <1>3, <2>1, FinishType DEF TransportFails, TypeInv, TypeOK, Answers
<1>4. CASE Send(r)
  <2>1. brk' \in [Upstreams -> Breakers(Requests)]
    <3>1. up[r] \in Upstreams
      BY <1>4 DEF Send, TypeInv, Located, Serving
    <3>2. beforeRequest(brk[up[r]], r) \in Breakers(Requests)
      BY <3>1, BreakerType DEF TypeInv, TypeOK
    <3> QED BY <1>4, <3>1, <3>2 DEF Send, TypeInv, TypeOK
  <2>2. TypeOK'
    BY <1>4, <2>1 DEF Send, TypeInv, TypeOK, Goto, Locations
  <2>3. Located'
    BY <1>4 DEF Send, TypeInv, TypeOK, Located, Goto, Serving
  <2> QED BY <2>2, <2>3 DEF TypeInv
<1>5. CASE Respond(r)
  <2>1. up[r] \in Upstreams /\ brk[up[r]] \in Breakers(Requests)
    BY <1>5 DEF Respond, TypeInv, TypeOK, Located, Serving
  <2>2. PICK new \in Breakers(Requests) :
          /\ brk' = [brk EXCEPT ![up[r]] = new]
          /\ OnStateChange(up[r], brk[up[r]], new)
    BY <1>5, <2>1, BreakerType DEF Respond
  <2>3. health' \in [Upstreams -> HealthStates]
    BY <2>1, <2>2, HealthType DEF OnStateChange, TypeInv, TypeOK, Statuses
  <2>4. brk' \in [Upstreams -> Breakers(Requests)]
    BY <2>1, <2>2 DEF TypeInv, TypeOK
  <2>5. pc' \in [Requests -> Locations]
    BY <1>5 DEF Respond, TypeInv, TypeOK, Goto, Locations
  <2>6. TypeOK'
    BY <1>5, <2>3, <2>4, <2>5 DEF Respond, TypeInv, TypeOK
  <2>7. Located'
    BY <1>5 DEF Respond, TypeInv, TypeOK, Located, Goto, Serving
  <2> QED BY <2>6, <2>7 DEF TypeInv
<1>6. CASE CopyDone(r)
  <2>1. TypeOK'
    BY <1>6 DEF CopyDone, TypeInv, TypeOK, Goto, Locations
  <2>2. Located'
    BY <1>6 DEF CopyDone, TypeInv, TypeOK, Located, Goto, Serving
  <2> QED BY <2>1, <2>2 DEF TypeInv
<1>7. CASE CopyAborts(r)
  BY <1>7, FinishType DEF CopyAborts, TypeInv, TypeOK, Answers
<1>8. CASE Release(r)
  <2>1. active' \in [Upstreams -> Nat]
    BY <1>0, <1>8 DEF Release, TypeInv, Located, Serving
  <2>2. TypeOK'
    BY <1>8, <2>1 DEF Release, TypeInv, TypeOK, Goto, Locations
  <2>3. Located'
    BY <1>8 DEF Release, TypeInv, TypeOK, Located, Goto, Serving
  <2> QED BY <2>2, <2>3 DEF TypeInv
<1>9. CASE Record(r)
  <2>1. health' \in [Upstreams -> HealthStates] /\ up[r] \in Upstreams
    BY <1>9, HealthType DEF Record, TypeInv, TypeOK, Located, Serving, Statuses
  <2>2. CASE \E a \in Answers : Finish(r, a)
    BY <1>9, <2>1, <2>2, FinishType DEF Record, TypeInv, TypeOK
  <2>3. CASE /\ Goto(r, "select")
             /\ failed' = [failed EXCEPT ![r] = @ \union {up[r]}]
             /\ attempt' = [attempt EXCEPT ![r] = @ + 1]
             /\ UNCHANGED <<cur, idx, avail, ok, answer>>
    <3>1. TypeOK'
      BY <1>9, <2>1, <2>3 DEF Record, TypeInv, TypeOK, Goto, Locations
    <3>2. Located'
      BY <1>9, <2>3 DEF Record, TypeInv, TypeOK, Located, Goto, Serving
    <3> QED BY <3>1, <3>2 DEF TypeInv
  <2> QED BY <1>9, <2>2, <2>3 DEF Record, Answers
<1> QED
  BY <1>1, <1>2, <1>3, <1>4, <1>5, <1>6, <1>7, <1>8, <1>9

\* So do checks, clocks, reloads and the environment.
LEMMA BackgroundType ==
  ASSUME TypeInv,
         \/ \E u \in Upstreams : ReadThresholds(u) \/ SkipCheck(u) \/ FinishCheck(u)
                                 \/ Expire(u) \/ Flip(u)
         \/ StartRound \/ ResetLoadBalancers \/ \E r \in Requests : Disconnect(r)
  PROVE  TypeInv'
<1> USE DEF envVars, sharedVars, requestVars, TypeInv, TypeOK, Located
<1>1. ASSUME NEW u \in Upstreams, ReadThresholds(u) PROVE TypeInv'
  BY <1>1 DEF ReadThresholds, ProbeStates, HealthStates
<1>2. ASSUME NEW u \in Upstreams, SkipCheck(u) PROVE TypeInv'
  BY <1>2 DEF SkipCheck, ProbeStates
<1>3. ASSUME NEW u \in Upstreams, FinishCheck(u) PROVE TypeInv'
  <2>1. health' \in [Upstreams -> HealthStates]
    BY <1>3, HealthType DEF FinishCheck, Statuses
  <2> QED BY <1>3, <2>1 DEF FinishCheck, ProbeStates
<1>4. ASSUME NEW u \in Upstreams, Expire(u) PROVE TypeInv'
  <2>1. afterExpiry(brk[u]) \in Breakers(Requests)
    BY NewGenerationType DEF afterExpiry, NewBreaker, BreakerStates
  <2> QED BY <1>4, <2>1 DEF Expire
<1>5. ASSUME NEW u \in Upstreams, Flip(u) PROVE TypeInv'
  BY <1>5 DEF Flip
<1>6. CASE StartRound
  BY <1>6 DEF StartRound, ProbeStates
<1>7. CASE ResetLoadBalancers
  <2>1. 0 \in Upstreams /\ reloads + 1 \in 0 .. MaxReloads
    BY <1>7, ProxyAssumption DEF ResetLoadBalancers, Upstreams
  <2> QED BY <1>7, <2>1 DEF ResetLoadBalancers
<1>8. ASSUME NEW r \in Requests, Disconnect(r) PROVE TypeInv'
  BY <1>8 DEF Disconnect
<1> QED
  BY <1>1, <1>2, <1>3, <1>4, <1>5, <1>6, <1>7, <1>8

----------------------------------------------------------------------------
\* Every step keeps the types.
LEMMA NextTypeInv == TypeInv /\ [Next]_vars => TypeInv'
<1> SUFFICES ASSUME TypeInv, [Next]_vars PROVE TypeInv'
  OBVIOUS
<1>1. CASE UNCHANGED vars
  BY <1>1 DEF vars, envVars, sharedVars, requestVars, TypeInv, TypeOK, Located
<1>2. CASE Next
  BY <1>2, SelectionType, AttemptType, BackgroundType DEF Next, Step
<1> QED BY <1>1, <1>2

\* The inductive strengthening of TypeOK holds in every reachable state
\* (HandleProxyPass: a request that is being proxied has an upstream).
THEOREM ProxyTypeInvariant == Spec => []TypeInv
  BY InitTypeInv, NextTypeInv, PTL DEF Spec

(* Type correctness for any number of requests, upstreams and retries: in  *)
(* particular both round-robin counters stay valid indices although their  *)
(* loads and stores are not atomic, and no connection count goes below 0   *)
(* (handleRoundRobin, DecrementActiveConnections).                         *)
THEOREM ProxyTypeCorrect == Spec => []TypeOK
<1>1. TypeInv => TypeOK
  BY DEF TypeInv
<1> QED BY <1>1, ProxyTypeInvariant, PTL

----------------------------------------------------------------------------
(***************************************************************************)
(* The target circuit breakers.  The strengthening BreakerInv ties the     *)
(* counts of a half-open breaker to the calls of its generation that are   *)
(* under way, and these to the requests in flight.                         *)
(***************************************************************************)

Background ==
  \/ \E u \in Upstreams : ReadThresholds(u) \/ SkipCheck(u) \/ FinishCheck(u) \/ Flip(u)
  \/ StartRound \/ \E r \in Requests : Disconnect(r)

----------------------------------------------------------------------------
(* The invariant.                                                          *)

\* What a half-open breaker's counts say: every slot it has handed out is a
\* success or a call of its generation that is still under way.
HalfOpenSound(b) ==
  b.state = "halfopen" =>
    /\ b.reqs = b.csucc + Cardinality(b.current)
    /\ b.reqs <= MaxRequests
    /\ b.csucc < MaxRequests
    /\ b.fails = 0

Flights(u) == {r \in Requests : pc[r] = "flight" /\ up[r] = u}

BreakerInv ==
  \A u \in Upstreams : brk[u].current \subseteq Flights(u) /\ HalfOpenSound(brk[u])

\* A breaker that has just changed state satisfies what is claimed of breakers.
LEMMA NewGenerationSound ==
  ASSUME NEW st \in BreakerStates
  PROVE  HalfOpenSound(toNewGeneration(st)) /\ toNewGeneration(st).current = {}
  BY FS_EmptySet, BreakerAssumption DEF HalfOpenSound, toNewGeneration

\* Admitting a call keeps the counts sound.
LEMMA BeforeRequestSound ==
  ASSUME NEW b \in Breakers(Requests), NEW c \in Requests \ b.current,
         Admits(b), HalfOpenSound(b)
  PROVE  /\ HalfOpenSound(beforeRequest(b, c))
         /\ beforeRequest(b, c).current = b.current \union {c}
<1>1. IsFiniteSet(b.current)
  BY FS_Subset, ProxyAssumption DEF Breakers
<1>2. /\ Cardinality(b.current \union {c}) = Cardinality(b.current) + 1
      /\ Cardinality(b.current) \in Nat
  BY <1>1, FS_AddElement, FS_CardinalityType
<1>3. /\ beforeRequest(b, c).state = b.state
      /\ beforeRequest(b, c).reqs = b.reqs + 1
      /\ beforeRequest(b, c).csucc = b.csucc
      /\ beforeRequest(b, c).fails = b.fails
      /\ beforeRequest(b, c).current = b.current \union {c}
  BY Zenon DEF beforeRequest, Breakers
<1>4. b.reqs \in Nat /\ b.csucc \in Nat
  BY DEF Breakers
<1> QED
  BY <1>2, <1>3, <1>4, BreakerAssumption DEF HalfOpenSound, Admits

\* So does ending one.
LEMMA AfterRequestSound ==
  ASSUME NEW b \in Breakers(Requests), NEW c \in Requests, HalfOpenSound(b)
  PROVE  /\ HalfOpenSound(afterSuccess(b, c)) /\ HalfOpenSound(afterFailure(b, c))
         /\ afterSuccess(b, c).current \subseteq b.current \ {c}
         /\ afterFailure(b, c).current \subseteq b.current \ {c}
<1>0. /\ b.reqs \in Nat /\ b.csucc \in Nat /\ b.fails \in Nat
      /\ b.current \subseteq Requests
  BY DEF Breakers
<1>1. CASE c \notin b.current
  BY <1>1 DEF afterSuccess, afterFailure
<1>2. CASE c \in b.current
  <2>1. IsFiniteSet(b.current)
    BY <1>0, FS_Subset, ProxyAssumption
  <2>2. /\ Cardinality(b.current \ {c}) = Cardinality(b.current) - 1
        /\ Cardinality(b.current) \in Nat
    BY <1>2, <2>1, FS_RemoveElement, FS_CardinalityType
  <2>3. /\ onSuccess(b, c).state = b.state
        /\ onSuccess(b, c).reqs = b.reqs
        /\ onSuccess(b, c).csucc = b.csucc + 1
        /\ onSuccess(b, c).fails = b.fails
        /\ onSuccess(b, c).current = b.current \ {c}
    BY Zenon DEF onSuccess, Breakers
  <2>4. onFailure(b, c).state = b.state /\ onFailure(b, c).current = b.current \ {c}
    BY Zenon DEF onFailure, Breakers
  <2>5. /\ HalfOpenSound(toNewGeneration("open")) /\ toNewGeneration("open").current = {}
        /\ HalfOpenSound(toNewGeneration("closed")) /\ toNewGeneration("closed").current = {}
    BY NewGenerationSound DEF BreakerStates
  <2>6. CASE b.state = "halfopen" /\ b.csucc + 1 >= MaxRequests
    BY <1>2, <2>5, <2>6 DEF afterSuccess, afterFailure
  <2>7. CASE b.state = "halfopen" /\ b.csucc + 1 < MaxRequests
    <3>1. HalfOpenSound(onSuccess(b, c))
      BY <1>0, <2>2, <2>3, <2>7, BreakerAssumption DEF HalfOpenSound
    <3> QED
      BY <1>0, <1>2, <2>3, <2>5, <2>7, <3>1, BreakerAssumption DEF afterSuccess, afterFailure
  <2>8. CASE b.state # "halfopen"
    <3>1. HalfOpenSound(onSuccess(b, c)) /\ HalfOpenSound(onFailure(b, c))
      BY <2>3, <2>4, <2>8 DEF HalfOpenSound
    <3> QED
      BY <1>2, <2>3, <2>4, <2>5, <2>8, <3>1 DEF afterSuccess, afterFailure
  <2> QED BY <1>0, <2>6, <2>7, <2>8, BreakerAssumption
<1> QED BY <1>1, <1>2

\* Steps that leave the breakers and the calls under way as they are.
LEMMA BreakerFrame ==
  ASSUME BreakerInv, UNCHANGED brk,
         \A r \in Requests : pc[r] = "flight" => pc'[r] = "flight" /\ up'[r] = up[r]
  PROVE  BreakerInv'
  BY DEF BreakerInv, Flights

\* Every step of the gateway keeps the breaker invariant.
LEMMA NextBreakerInv == TypeInv /\ BreakerInv /\ [Next]_vars => BreakerInv'
<1> SUFFICES ASSUME TypeInv, BreakerInv, [Next]_vars PROVE BreakerInv'
  OBVIOUS
<1> USE DEF envVars, sharedVars, requestVars
<1>1. ASSUME NEW r \in Requests, Send(r) PROVE BreakerInv'
  <2>1. up[r] \in Upstreams /\ brk[up[r]] \in Breakers(Requests) /\ pc[r] = "send"
    BY <1>1 DEF Send, TypeInv, TypeOK, Located, Serving
  <2>2. r \notin brk[up[r]].current
    BY <2>1 DEF BreakerInv, Flights
  <2>3. CASE Admits(brk[up[r]])
    <3>1. /\ brk' = [brk EXCEPT ![up[r]] = beforeRequest(@, r)]
          /\ pc' = [pc EXCEPT ![r] = "flight"] /\ up' = up
      BY <1>1, <2>3 DEF Send, Goto
    <3>2. /\ HalfOpenSound(beforeRequest(brk[up[r]], r))
          /\ beforeRequest(brk[up[r]], r).current = brk[up[r]].current \union {r}
      BY <2>1, <2>2, <2>3, BeforeRequestSound DEF BreakerInv
    <3>3. ASSUME NEW u \in Upstreams
          PROVE  brk'[u].current \subseteq Flights(u)' /\ HalfOpenSound(brk'[u])
      <4>1. \A q \in Flights(u) : q \in Flights(u)'
        BY <2>1, <3>1 DEF Flights, TypeInv, TypeOK
      <4>2. u = up[r] => r \in Flights(u)'
        BY <3>1 DEF Flights, TypeInv, TypeOK
      <4>3. brk'[u] = IF u = up[r] THEN beforeRequest(brk[u], r) ELSE brk[u]
        BY <2>1, <3>1 DEF TypeInv, TypeOK
      <4> QED BY <3>2, <4>1, <4>2, <4>3 DEF BreakerInv
    <3> QED BY <3>3 DEF BreakerInv, HalfOpenSound
  <2>4. CASE ~Admits(brk[up[r]])
    BY <1>1, <2>1, <2>4, BreakerFrame DEF Send, Goto, TypeInv, TypeOK
  <2> QED BY <2>3, <2>4
<1>2. ASSUME NEW r \in Requests, Respond(r) PROVE BreakerInv'
  <2>1. up[r] \in Upstreams /\ brk[up[r]] \in Breakers(Requests)
    BY <1>2 DEF Respond, TypeInv, TypeOK, Located, Serving
  <2> DEFINE new == IF alive[up[r]] /\ r \notin gone /\ ~BodyGone(r)
                    THEN afterSuccess(brk[up[r]], r) ELSE afterFailure(brk[up[r]], r)
  <2>2. /\ brk' = [brk EXCEPT ![up[r]] = new]
        /\ HalfOpenSound(new) /\ new.current \subseteq brk[up[r]].current \ {r}
    <3>1. HalfOpenSound(brk[up[r]])
      BY <2>1 DEF BreakerInv
    <3>2. HalfOpenSound(new) /\ new.current \subseteq brk[up[r]].current \ {r}
      BY <2>1, <3>1, AfterRequestSound
    <3> QED BY <1>2, <3>2 DEF Respond
  <2> HIDE DEF new
  <2>3. up' = up /\ \A q \in Requests \ {r} : pc'[q] = pc[q]
    BY <1>2 DEF Respond, Goto, TypeInv, TypeOK
  <2>4. ASSUME NEW u \in Upstreams
        PROVE  brk'[u].current \subseteq Flights(u)' /\ HalfOpenSound(brk'[u])
    <3>1. brk'[u] = IF u = up[r] THEN new ELSE brk[u]
      BY <2>1, <2>2 DEF TypeInv, TypeOK
    <3>2. \A q \in Flights(u) \ {r} : q \in Flights(u)'
      BY <2>3 DEF Flights
    <3>3. u # up[r] => r \notin Flights(u)
      BY DEF Flights
    <3> QED BY <2>2, <3>1, <3>2, <3>3 DEF BreakerInv
  <2> QED BY <2>4 DEF BreakerInv, HalfOpenSound
<1>3. ASSUME NEW u \in Upstreams, Expire(u) PROVE BreakerInv'
  <2>1. HalfOpenSound(afterExpiry(brk[u])) /\ afterExpiry(brk[u]).current = {}
    BY NewGenerationSound DEF afterExpiry, NewBreaker, BreakerStates
  <2>2. \A v \in Upstreams : brk'[v] = IF v = u THEN afterExpiry(brk[u]) ELSE brk[v]
    BY <1>3 DEF Expire, TypeInv, TypeOK
  <2>3. \A v \in Upstreams : Flights(v)' = Flights(v)
    BY <1>3 DEF Expire, Flights
  <2> QED BY <2>1, <2>2, <2>3 DEF BreakerInv, HalfOpenSound
<1>4. ASSUME NEW r \in Requests,
             \/ SkipLoop(r) \/ SelectDirect(r) \/ SelectValid(r) \/ SelectHealthy(r)
             \/ Scan(r) \/ SelectRetry(r) \/ Exclude(r) \/ Pick(r)
      PROVE  BreakerInv'
  <2>1. pc[r] # "flight" /\ UNCHANGED brk
    BY <1>4 DEF SkipLoop, SelectDirect, SelectValid, SelectHealthy, Scan, SelectRetry,
                Exclude, Pick, Balanced
  <2>2. /\ pc' = pc \/ \E l : pc' = [pc EXCEPT ![r] = l]
        /\ up' = up \/ \E v : up' = [up EXCEPT ![r] = v]
    BY <1>4, Zenon DEF SkipLoop, SelectDirect, SelectValid, SelectHealthy, Scan, SelectRetry,
                Exclude, Pick, Finish, Selected, Goto
  <2>3. \A q \in Requests \ {r} : pc'[q] = pc[q] /\ up'[q] = up[q]
    BY <2>2 DEF TypeInv, TypeOK
  <2> QED BY <2>1, <2>3, BreakerFrame
<1>5. ASSUME NEW r \in Requests,
             \/ ParseFails(r) \/ Acquire(r) \/ TransportFails(r) \/ CopyDone(r)
             \/ CopyAborts(r) \/ Release(r) \/ Record(r)
      PROVE  BreakerInv'
  <2>1. pc[r] # "flight" /\ UNCHANGED brk
    BY <1>5 DEF ParseFails, Acquire, TransportFails, CopyDone, CopyAborts, Release, Record
  <2>2. \A q \in Requests \ {r} : pc'[q] = pc[q] /\ up'[q] = up[q]
    BY <1>5 DEF ParseFails, Acquire, TransportFails, CopyDone, CopyAborts, Release, Record,
                Finish, Goto, TypeInv, TypeOK
  <2> QED BY <2>1, <2>2, BreakerFrame
<1>6. CASE Background \/ ResetLoadBalancers \/ UNCHANGED vars
  <2>1. UNCHANGED <<brk, pc, up>>
    BY <1>6 DEF Background, ReadThresholds, SkipCheck, FinishCheck, Flip, StartRound,
                Disconnect, ResetLoadBalancers, vars
  <2> QED BY <2>1, BreakerFrame
<1> QED
  BY <1>1, <1>2, <1>3, <1>4, <1>5, <1>6 DEF Next, Step, Background

\* The breaker invariant holds in every reachable state: the counts of a
\* half-open breaker add up to the probes it has admitted (cb.Execute).
THEOREM BreakerInvariant == Spec => []BreakerInv
<1>1. Init => BreakerInv
  <2> SUFFICES ASSUME Init PROVE BreakerInv
    OBVIOUS
  <2>1. HalfOpenSound(NewBreaker) /\ NewBreaker.current = {}
    BY NewGenerationSound DEF NewBreaker, BreakerStates
  <2> QED BY <2>1 DEF Init, BreakerInv, HalfOpenSound
<1> QED BY <1>1, NextBreakerInv, ProxyTypeInvariant, PTL DEF Spec

(* A half-open breaker is never wedged, for any number of upstreams,       *)
(* requests and probes (cb.Execute in RoundTrip).                          *)
THEOREM NeverWedged == Spec => []HalfOpenNeverWedged
<1>1. TypeInv /\ BreakerInv => HalfOpenNeverWedged
  <2> SUFFICES ASSUME TypeInv, BreakerInv, NEW u \in Upstreams, brk[u].state = "halfopen",
                      \A r \in Requests : ~(pc[r] = "flight" /\ up[r] = u)
               PROVE  Admits(brk[u])
    BY DEF HalfOpenNeverWedged
  <2>1. brk[u].current = {}
    BY DEF BreakerInv, Flights
  <2>2. brk[u].reqs = brk[u].csucc + 0 /\ brk[u].csucc < MaxRequests
    BY <2>1, FS_EmptySet DEF BreakerInv, HalfOpenSound
  <2>3. brk[u].csucc \in Nat
    BY DEF TypeInv, TypeOK, Breakers
  <2> QED BY <2>2, <2>3, BreakerAssumption DEF Admits
<1> QED BY <1>1, BreakerInvariant, ProxyTypeInvariant, PTL

(* A half-open breaker closes only when every one of its probes has been   *)
(* used and has succeeded (MaxRequests in GetBreaker).                     *)
THEOREM ClosesAfterProbes == Spec => ClosesAfterAllProbes
<1>1. ASSUME TypeInv, BreakerInv, [Next]_vars,
             NEW u \in Upstreams, brk[u].state = "halfopen", brk'[u].state = "closed"
      PROVE  brk[u].reqs = MaxRequests /\ brk[u].csucc = MaxRequests - 1 /\ brk[u].fails = 0
  <2> DEFINE b == brk[u]
  <2>0. /\ b \in Breakers(Requests) /\ HalfOpenSound(b)
        /\ b.current \subseteq Requests /\ b.csucc \in Nat /\ b.reqs \in Nat
    <3>1. b \in Breakers(Requests)
      BY <1>1 DEF TypeInv, TypeOK
    <3>2. HalfOpenSound(b)
      BY <1>1 DEF BreakerInv
    <3> QED BY <3>1, <3>2 DEF Breakers
  <2>1. PICK r \in b.current : b.csucc + 1 >= MaxRequests
    <3>1. CASE \E v \in Upstreams : Expire(v)
      <4>1. PICK v \in Upstreams : Expire(v)
        BY <3>1
      <4>2. v # u
        BY <1>1, <4>1 DEF Expire, Expires
      <4> QED BY <1>1, <4>1, <4>2 DEF Expire, TypeInv, TypeOK
    <3>2. CASE \E r \in Requests : Send(r)
      <4>1. PICK r \in Requests : Send(r)
        BY <3>2
      <4>2. beforeRequest(brk[u], r).state = brk[u].state
        BY <2>0, Zenon DEF beforeRequest, Breakers
      <4> QED BY <1>1, <4>1, <4>2 DEF Send, TypeInv, TypeOK
    <3>3. CASE \E r \in Requests : Respond(r)
      <4>1. PICK r \in Requests : Respond(r)
        BY <3>3
      <4>2. u = up[r]
        BY <1>1, <4>1 DEF Respond, TypeInv, TypeOK
      <4>3. brk'[u] = afterSuccess(b, r) \/ brk'[u] = afterFailure(b, r)
        <5>1. brk \in [Upstreams -> Breakers(Requests)]
          BY <1>1 DEF TypeInv, TypeOK
        <5> QED BY <4>1, <4>2, <5>1 DEF Respond
      <4>4. /\ onSuccess(b, r).state = b.state
            /\ toNewGeneration("open").state = "open"
        BY <2>0, Zenon DEF onSuccess, toNewGeneration, Breakers
      <4> QED
        BY <1>1, <4>3, <4>4 DEF afterSuccess, afterFailure
    <3>4. CASE UNCHANGED brk
      BY <1>1, <3>4
    <3> QED
      BY <1>1, <3>1, <3>2, <3>3, <3>4
         DEF Next, Step, vars, sharedVars, SkipLoop, SelectDirect, SelectValid, SelectHealthy,
             Scan, SelectRetry, Exclude, Pick, ParseFails, Acquire, TransportFails, CopyDone,
             CopyAborts, Release, Record, Disconnect, ReadThresholds, SkipCheck, FinishCheck,
             Flip, StartRound, ResetLoadBalancers
  <2>2. Cardinality(b.current) \in Nat \ {0}
    <3>1. IsFiniteSet(b.current)
      BY <2>0, FS_Subset, ProxyAssumption
    <3> QED BY <2>1, <3>1, FS_EmptySet, FS_CardinalityType
  <2>3. /\ b.reqs = b.csucc + Cardinality(b.current) /\ b.reqs <= MaxRequests
        /\ b.csucc < MaxRequests /\ b.fails = 0
    BY <1>1, <2>0 DEF HalfOpenSound
  <2> QED BY <2>0, <2>1, <2>2, <2>3, BreakerAssumption
<1>2. TypeInv /\ BreakerInv /\ [Next]_vars =>
        [\A u \in Upstreams :
           brk[u].state = "halfopen" /\ brk'[u].state = "closed"
             => /\ brk[u].reqs = MaxRequests
                /\ brk[u].csucc = MaxRequests - 1
                /\ brk[u].fails = 0]_vars
  BY <1>1
<1> QED
  BY <1>2, BreakerInvariant, ProxyTypeInvariant, PTL DEF Spec, ClosesAfterAllProbes

(* A call admitted in an earlier generation changes neither its breaker    *)
(* nor the health record when it ends (the generation check of cb.Execute, *)
(* OnStateChange).                                                         *)
THEOREM LateAnswers == Spec => LateAnswersIgnored
<1>1. ASSUME TypeInv, [Next]_vars, NEW r \in Requests,
             pc[r] = "flight", pc'[r] # "flight", r \notin brk[up[r]].current
      PROVE  UNCHANGED <<brk, health>>
  <2>0. up[r] \in Upstreams
    BY <1>1 DEF TypeInv, Located, Serving
  <2>1. CASE Respond(r)
    <3>1. /\ afterSuccess(brk[up[r]], r) = brk[up[r]]
          /\ afterFailure(brk[up[r]], r) = brk[up[r]]
      BY <1>1 DEF afterSuccess, afterFailure
    <3>2. brk \in [Upstreams -> Breakers(Requests)]
      BY <1>1 DEF TypeInv, TypeOK
    <3>3. brk' = brk
      BY <2>0, <2>1, <3>1, <3>2 DEF Respond
    <3>4. health' = health
      BY <2>1, <3>1 DEF Respond, OnStateChange
    <3> QED BY <3>3, <3>4
  <2>2. ASSUME NEW q \in Requests, q # r,
               Step(q) \/ TransportFails(q) \/ CopyDone(q) \/ CopyAborts(q)
        PROVE  FALSE
    <3>1. pc' = pc \/ \E l : pc' = [pc EXCEPT ![q] = l]
      BY <2>2, Zenon
         DEF Step, SkipLoop, SelectDirect, SelectValid, SelectHealthy, Scan, SelectRetry,
             Exclude, Pick, ParseFails, Acquire, TransportFails, Send, Respond, CopyDone,
             CopyAborts, Release, Record, Finish, Selected, Goto
    <3> QED BY <1>1, <2>2, <3>1 DEF TypeInv, TypeOK
  <2>3. ASSUME Step(r) \/ TransportFails(r) \/ CopyDone(r) \/ CopyAborts(r)
        PROVE  Respond(r)
    BY <1>1, <2>3
       DEF Step, SkipLoop, SelectDirect, SelectValid, SelectHealthy, Scan, SelectRetry,
           Exclude, Pick, ParseFails, Acquire, TransportFails, Send, CopyDone, CopyAborts,
           Release, Record, Balanced
  <2>4. CASE \/ Background \/ ResetLoadBalancers \/ UNCHANGED vars
             \/ \E u \in Upstreams : Expire(u)
    <3>1. pc' = pc
      BY <2>4 DEF Background, ReadThresholds, SkipCheck, FinishCheck, Flip, StartRound,
                  Disconnect, ResetLoadBalancers, Expire, vars, requestVars
    <3> QED BY <1>1, <3>1
  <2> QED BY <1>1, <2>1, <2>2, <2>3, <2>4 DEF Next, Background
<1>2. TypeInv /\ [Next]_vars =>
        [\A r \in Requests :
           pc[r] = "flight" /\ pc'[r] # "flight" /\ r \notin brk[up[r]].current
             => UNCHANGED <<brk, health>>]_vars
  BY <1>1
<1> QED
  BY <1>2, ProxyTypeInvariant, PTL DEF Spec, LateAnswersIgnored

----------------------------------------------------------------------------
(***************************************************************************)
(* The requests: the connection counts match the requests that hold them,  *)
(* and retries never return to an upstream before all have failed.         *)
(***************************************************************************)

Selecting == {"select", "scan", "exclude", "pick"}

\* Steps that leave every request where it is.
Quiet ==
  \/ \E u \in Upstreams : \/ ReadThresholds(u) \/ SkipCheck(u) \/ FinishCheck(u)
                          \/ Expire(u) \/ Flip(u)
  \/ StartRound \/ \E r \in Requests : Disconnect(r)
  \/ UNCHANGED vars

\* A step outside the request goroutines changes nothing the counts depend on.
LEMMA QuietFrame ==
  ASSUME Quiet
  PROVE  UNCHANGED <<requestVars, rr, rrRetry, active, reloads>>
  BY DEF Quiet, ReadThresholds, SkipCheck, FinishCheck, Expire, Flip, StartRound, Disconnect,
         vars, envVars, sharedVars, requestVars

\* The fields of another request never change.
LEMMA OtherRequests ==
  ASSUME TypeInv, NEW r \in Requests,
         Step(r) \/ TransportFails(r) \/ CopyDone(r) \/ CopyAborts(r),
         NEW q \in Requests, q # r
  PROVE  /\ pc'[q] = pc[q] /\ up'[q] = up[q] /\ answer'[q] = answer[q]
         /\ failed'[q] = failed[q] /\ attempt'[q] = attempt[q] /\ avail'[q] = avail[q]
<1> DEFINE Touches(f, g) == g = f \/ \E x : g = [f EXCEPT ![r] = x]
<1>1. /\ Touches(pc, pc') /\ Touches(up, up') /\ Touches(answer, answer')
  BY Zenon
     DEF Step, SkipLoop, SelectDirect, SelectValid, SelectHealthy, Scan, SelectRetry,
         Exclude, Pick, ParseFails, Acquire, TransportFails, Send, Respond, CopyDone,
         CopyAborts, Release, Record, Finish, Selected, Goto
<1>2. /\ Touches(failed, failed') /\ Touches(attempt, attempt') /\ Touches(avail, avail')
  BY Zenon
     DEF Step, SkipLoop, SelectDirect, SelectValid, SelectHealthy, Scan, SelectRetry,
         Exclude, Pick, ParseFails, Acquire, TransportFails, Send, Respond, CopyDone,
         CopyAborts, Release, Record, Finish, Selected, Goto
<1> QED BY <1>1, <1>2 DEF TypeInv, TypeOK

----------------------------------------------------------------------------
(* 1. Connection counts.                                                   *)

\* A request that is choosing has no upstream, so that a handler that ends
\* or panics there holds no count.
NothingHeld == \A r \in Requests : pc[r] \in Selecting => up[r] = NoUpstream

CountInv == NothingHeld /\ ActiveMatchesHolders

\* The requests that hold a connection count are finitely many.
LEMMA HoldersFinite ==
  ASSUME NEW u \in Upstreams
  PROVE  IsFiniteSet(Holders(u)) /\ Cardinality(Holders(u)) \in Nat
  BY FS_Subset, FS_CardinalityType, ProxyAssumption DEF Holders

\* A step that moves no count and no holder.
LEMMA CountFrame ==
  ASSUME ActiveMatchesHolders, UNCHANGED <<active, reloads>>,
         \A u \in Upstreams : Holders(u)' = Holders(u)
  PROVE  ActiveMatchesHolders'
  BY DEF ActiveMatchesHolders

\* Where the request itself neither joins nor leaves the holders.
LEMMA SameHolders ==
  ASSUME TypeInv, NEW r \in Requests,
         Step(r) \/ TransportFails(r) \/ CopyDone(r) \/ CopyAborts(r),
         \A u \in Upstreams : (r \in Holders(u)') <=> (r \in Holders(u)),
         NEW u \in Upstreams
  PROVE  Holders(u)' = Holders(u)
<1>1. \A q \in Requests \ {r} : (q \in Holders(u)') <=> (q \in Holders(u))
  BY OtherRequests DEF Holders
<1>2. Holders(u) \subseteq Requests /\ Holders(u)' \subseteq Requests
  BY DEF Holders
<1> QED BY <1>1, <1>2

\* A decrement by a holder.
LEMMA Decrement ==
  ASSUME TypeInv, CountInv, NEW r \in Requests, up[r] \in Upstreams,
         r \in Holders(up[r]), DecrementActiveConnections(up[r]), UNCHANGED reloads,
         \A u \in Upstreams : Holders(u)' = Holders(u) \ {r}
  PROVE  ActiveMatchesHolders'
<1> SUFFICES ASSUME NEW u \in Upstreams
             PROVE  /\ active'[u] <= Cardinality(Holders(u)')
                    /\ reloads' = 0 => active'[u] = Cardinality(Holders(u)')
  BY DEF ActiveMatchesHolders
<1>1. active[u] \in Nat /\ active \in [Upstreams -> Nat]
  BY DEF TypeInv, TypeOK
<1>2. /\ active[u] <= Cardinality(Holders(u))
      /\ reloads = 0 => active[u] = Cardinality(Holders(u))
  BY DEF CountInv, ActiveMatchesHolders
<1>3. CASE u = up[r]
  <2>1. active'[u] = IF active[u] > 0 THEN active[u] - 1 ELSE active[u]
    BY <1>1, <1>3 DEF DecrementActiveConnections
  <2>2. Cardinality(Holders(u)') = Cardinality(Holders(u)) - 1
    BY <1>3, HoldersFinite, FS_RemoveElement
  <2>3. Cardinality(Holders(u)) \in Nat \ {0}
    BY <1>3, HoldersFinite, FS_EmptySet
  <2> QED BY <1>1, <1>2, <2>1, <2>2, <2>3
<1>4. CASE u # up[r]
  <2>1. active'[u] = active[u]
    BY <1>1, <1>4 DEF DecrementActiveConnections
  <2>2. r \notin Holders(u)
    BY <1>4 DEF Holders
  <2>3. Holders(u)' = Holders(u)
    BY <2>2
  <2> QED BY <1>2, <2>1, <2>3
<1> QED BY <1>3, <1>4

\* Every step of the gateway keeps the relation of counts and holders.
LEMMA NextCountInv == TypeInv /\ CountInv /\ [Next]_vars => CountInv'
<1> SUFFICES ASSUME TypeInv, CountInv, [Next]_vars PROVE CountInv'
  OBVIOUS
<1> USE DEF envVars, sharedVars, CountInv
<1>a. NoUpstream \notin Upstreams
  BY ProxyAssumption DEF NoUpstream, Upstreams
<1>b. ASSUME NEW r \in Requests,
             Step(r) \/ TransportFails(r) \/ CopyDone(r) \/ CopyAborts(r),
             pc'[r] \in Selecting => up'[r] = NoUpstream
      PROVE  NothingHeld'
  BY <1>b, OtherRequests DEF NothingHeld
<1>1. ASSUME NEW r \in Requests,
             \/ SkipLoop(r) \/ SelectDirect(r) \/ SelectValid(r) \/ SelectHealthy(r)
             \/ Scan(r) \/ SelectRetry(r) \/ Exclude(r) \/ Pick(r)
      PROVE  CountInv'
  <2>1. pc[r] \in Selecting /\ up[r] = NoUpstream /\ UNCHANGED <<active, reloads>>
    BY <1>1 DEF SkipLoop, SelectDirect, SelectValid, SelectHealthy, Scan, SelectRetry,
                Exclude, Pick, Balanced, NothingHeld, Selecting
  <2>2. \/ pc' = pc /\ up' = up
        \/ (\E l \in {"scan", "exclude", "pick", "done"} : Goto(r, l)) /\ up' = up
        \/ Goto(r, "acquire")
    BY <1>1, Zenon DEF SkipLoop, SelectDirect, SelectValid, SelectHealthy, Scan, SelectRetry,
                Exclude, Pick, Finish, Selected
  <2>3. NothingHeld'
    <3>1. pc'[r] \in Selecting => up'[r] = NoUpstream
      BY <2>1, <2>2 DEF Goto, Selecting, TypeInv, TypeOK
    <3> QED BY <1>1, <1>b, <3>1 DEF Step
  <2>4. \A u \in Upstreams : r \notin Holders(u) /\ r \notin Holders(u)'
    BY <1>a, <2>1, <2>2 DEF Goto, Holders, Selecting, TypeInv, TypeOK
  <2>5. \A u \in Upstreams : Holders(u)' = Holders(u)
    BY <1>1, <2>4, SameHolders DEF Step
  <2> QED BY <2>1, <2>3, <2>5, CountFrame
<1>2. ASSUME NEW r \in Requests, ParseFails(r) PROVE CountInv'
  <2>1. pc'[r] = "done" /\ up'[r] = NoUpstream /\ pc[r] = "acquire"
    BY <1>2 DEF ParseFails, Finish, Goto, TypeInv, TypeOK
  <2>2. NothingHeld'
    BY <1>2, <1>b, <2>1 DEF Step
  <2>3. \A u \in Upstreams : r \notin Holders(u) /\ r \notin Holders(u)'
    BY <1>a, <2>1 DEF Holders
  <2>4. \A u \in Upstreams : Holders(u)' = Holders(u)
    BY <1>2, <2>3, SameHolders DEF Step
  <2> QED BY <1>2, <2>2, <2>4, CountFrame DEF ParseFails
<1>3. ASSUME NEW r \in Requests, Acquire(r) PROVE CountInv'
  <2>1. /\ pc'[r] = "send" /\ up' = up /\ up[r] \in Upstreams /\ pc[r] = "acquire"
        /\ reloads' = reloads
    BY <1>3 DEF Acquire, Goto, TypeInv, TypeOK, Located, Serving
  <2>2. NothingHeld'
    BY <1>3, <1>b, <2>1 DEF Step, Selecting
  <2>3. ASSUME NEW u \in Upstreams
        PROVE  Holders(u)' = IF u = up[r] THEN Holders(u) \union {r} ELSE Holders(u)
    <3>1. \A q \in Requests \ {r} : (q \in Holders(u)') <=> (q \in Holders(u))
      BY <1>3, OtherRequests DEF Holders, Step
    <3>2. (r \in Holders(u)') <=> u = up[r]
      BY <2>1 DEF Holders
    <3>3. r \notin Holders(u) /\ Holders(u) \subseteq Requests /\ Holders(u)' \subseteq Requests
      BY <2>1 DEF Holders
    <3> QED BY <3>1, <3>2, <3>3
  <2>4. ASSUME NEW u \in Upstreams
        PROVE  /\ active'[u] <= Cardinality(Holders(u)')
               /\ reloads' = 0 => active'[u] = Cardinality(Holders(u)')
    <3>1. active'[u] = IF u = up[r] THEN active[u] + 1 ELSE active[u]
      BY <1>3, <2>1 DEF Acquire, IncrementActiveConnections, TypeInv, TypeOK
    <3>2. r \notin Holders(u)
      BY <2>1 DEF Holders
    <3>3. Cardinality(Holders(u)') =
            IF u = up[r] THEN Cardinality(Holders(u)) + 1 ELSE Cardinality(Holders(u))
      BY <2>3, <3>2, HoldersFinite, FS_AddElement
    <3>4. /\ active[u] \in Nat /\ Cardinality(Holders(u)) \in Nat
          /\ active[u] <= Cardinality(Holders(u))
          /\ reloads = 0 => active[u] = Cardinality(Holders(u))
      BY HoldersFinite DEF ActiveMatchesHolders, TypeInv, TypeOK
    <3> QED BY <2>1, <3>1, <3>3, <3>4
  <2> QED BY <2>2, <2>4 DEF ActiveMatchesHolders
<1>4. ASSUME NEW r \in Requests, TransportFails(r) \/ Release(r) PROVE CountInv'
  <2>1. /\ up[r] \in Upstreams /\ r \in Holders(up[r])
        /\ DecrementActiveConnections(up[r]) /\ UNCHANGED reloads
    BY <1>4 DEF TransportFails, Release, TypeInv, Located, Serving, Holders
  <2>2. \/ pc'[r] = "done" /\ up'[r] = NoUpstream
        \/ pc'[r] = "record"
    BY <1>4 DEF TransportFails, Release, Finish, Goto, TypeInv, TypeOK
  <2>3. NothingHeld'
    BY <1>4, <1>b, <2>2 DEF Step, Selecting
  <2>4. ASSUME NEW u \in Upstreams PROVE Holders(u)' = Holders(u) \ {r}
    <3>1. \A q \in Requests \ {r} : (q \in Holders(u)') <=> (q \in Holders(u))
      BY <1>4, OtherRequests DEF Holders, Step
    <3>2. r \notin Holders(u)'
      BY <1>a, <2>2 DEF Holders
    <3>3. Holders(u) \subseteq Requests /\ Holders(u)' \subseteq Requests
      BY DEF Holders
    <3> QED BY <3>1, <3>2, <3>3
  <2> QED BY <2>1, <2>3, <2>4, Decrement
<1>5. ASSUME NEW r \in Requests, Send(r) \/ Respond(r) \/ CopyDone(r) PROVE CountInv'
  <2>1. /\ pc[r] \in {"send", "flight", "copy"} /\ pc'[r] \in {"flight", "copy", "release"}
        /\ UNCHANGED <<up, active, reloads>>
    BY <1>5 DEF Send, Respond, CopyDone, Goto, TypeInv, TypeOK
  <2>2. NothingHeld'
    BY <1>5, <1>b, <2>1 DEF Step, Selecting
  <2>3. \A u \in Upstreams : (r \in Holders(u)') <=> (r \in Holders(u))
    BY <2>1 DEF Holders
  <2>4. \A u \in Upstreams : Holders(u)' = Holders(u)
    BY <1>5, <2>3, SameHolders DEF Step
  <2> QED BY <2>1, <2>2, <2>4, CountFrame
<1>6. ASSUME NEW r \in Requests, CopyAborts(r) PROVE CountInv'
  <2>1. /\ pc[r] = "copy" /\ pc'[r] = "done" /\ answer'[r] = "aborted"
        /\ UNCHANGED <<up, active, reloads>>
    BY <1>6 DEF CopyAborts, Finish, Goto, TypeInv, TypeOK
  <2>2. NothingHeld'
    BY <1>6, <1>b, <2>1 DEF Selecting
  <2>3. \A u \in Upstreams : (r \in Holders(u)') <=> (r \in Holders(u))
    BY <2>1 DEF Holders
  <2>4. \A u \in Upstreams : Holders(u)' = Holders(u)
    BY <1>6, <2>3, SameHolders
  <2> QED BY <2>1, <2>2, <2>4, CountFrame
<1>7. ASSUME NEW r \in Requests, Record(r) PROVE CountInv'
  <2>1. /\ pc[r] = "record" /\ pc'[r] \in {"select", "done"} /\ up'[r] = NoUpstream
        /\ UNCHANGED <<active, reloads>>
    BY <1>7 DEF Record, Finish, Goto, TypeInv, TypeOK
  <2>2. NothingHeld'
    BY <1>7, <1>b, <2>1 DEF Step
  <2>3. \A u \in Upstreams : r \notin Holders(u) /\ r \notin Holders(u)'
    BY <1>a, <2>1 DEF Holders
  <2>4. \A u \in Upstreams : Holders(u)' = Holders(u)
    BY <1>7, <2>3, SameHolders DEF Step
  <2> QED BY <2>1, <2>2, <2>4, CountFrame
<1>8. CASE ResetLoadBalancers
  <2>1. UNCHANGED <<pc, up, answer>> /\ reloads' # 0
    BY <1>8 DEF ResetLoadBalancers, requestVars, TypeInv, TypeOK
  <2>2. NothingHeld'
    BY <2>1 DEF NothingHeld
  <2>3. ASSUME NEW u \in Upstreams
        PROVE  active'[u] <= Cardinality(Holders(u)')
    <3>1. Holders(u)' = Holders(u) /\ active'[u] = 0
      BY <1>8, <2>1 DEF Holders, ResetLoadBalancers
    <3> QED BY <3>1, HoldersFinite
  <2> QED BY <2>1, <2>2, <2>3 DEF ActiveMatchesHolders
<1>9. CASE Quiet
  <2>1. UNCHANGED <<pc, up, answer, active, reloads>>
    BY <1>9, QuietFrame DEF requestVars
  <2> QED BY <2>1, CountFrame DEF NothingHeld, Holders
<1> QED
  BY <1>1, <1>2, <1>3, <1>4, <1>5, <1>6, <1>7, <1>8, <1>9 DEF Next, Step, Quiet

\* The relation of connection counts and their holders holds in every
\* reachable state (Increment/DecrementActiveConnections, ResetLoadBalancers).
THEOREM CountInvariant == Spec => []CountInv
<1>1. Init => CountInv
  <2> SUFFICES ASSUME Init PROVE CountInv
    OBVIOUS
  <2>1. \A u \in Upstreams : Holders(u) = {} /\ active[u] = 0
    BY DEF Init, Holders
  <2>2. ActiveMatchesHolders
    BY <2>1, FS_EmptySet DEF ActiveMatchesHolders
  <2> QED BY <2>2 DEF CountInv, NothingHeld, Init
<1> QED BY <1>1, NextCountInv, ProxyTypeInvariant, PTL DEF Spec

(* The connection counts match the requests that hold them for any number  *)
(* of requests, upstreams and reloads (IncrementActiveConnections,         *)
(* DecrementActiveConnections, ResetLoadBalancers).                        *)
THEOREM ActiveCounts == Spec => []ActiveMatchesHolders
<1>1. CountInv => ActiveMatchesHolders
  BY DEF CountInv
<1> QED BY <1>1, CountInvariant, PTL

----------------------------------------------------------------------------
(* 2. Retries.                                                             *)

\* Candidates exclude the failed upstreams, unless all have failed or none
\* has: then the request selects as it does on its first attempt.
Candidates(r) ==
  /\ pc[r] = "scan" => PlainSelection(r)
  /\ pc[r] = "exclude" => ~PlainSelection(r)
  /\ pc[r] \in {"exclude", "pick"} => PlainSelection(r) \/ avail[r] \intersect failed[r] = {}
  /\ pc[r] \in {"select", "scan"} \union Serving => avail[r] = {}

\* RetriesSpread for one request.
Spread(r) ==
  /\ Cardinality(failed[r]) = IF attempt[r] < N THEN attempt[r] ELSE N
  /\ pc[r] \in Serving => up[r] \notin failed[r] \/ failed[r] = Upstreams

SpreadInv == \A r \in Requests : Candidates(r) /\ Spread(r)

\* The service has N upstreams.
LEMMA UpstreamsFinite == IsFiniteSet(Upstreams) /\ Cardinality(Upstreams) = N
  BY FS_Interval, ProxyAssumption DEF Upstreams

\* The cardinality of the failed set after one more failure.
LEMMA OneMoreFailure ==
  ASSUME NEW S \in SUBSET Upstreams, NEW u \in Upstreams, NEW n \in Nat,
         Cardinality(S) = IF n < N THEN n ELSE N,
         u \notin S \/ S = Upstreams
  PROVE  Cardinality(S \union {u}) = IF n + 1 < N THEN n + 1 ELSE N
<1>1. IsFiniteSet(S) /\ Cardinality(S) \in Nat
  BY UpstreamsFinite, FS_Subset, FS_CardinalityType
<1>2. CASE u \notin S
  <2>1. Cardinality(S \union {u}) = Cardinality(S) + 1
    BY <1>1, <1>2, FS_AddElement
  <2>2. S # Upstreams
    BY <1>2
  <2>3. Cardinality(S) # N
    BY <2>2, UpstreamsFinite, FS_Subset
  <2> QED BY <2>1, <2>3, ProxyAssumption
<1>3. CASE S = Upstreams
  <2>1. S \union {u} = S
    BY <1>3
  <2>2. Cardinality(S) = N
    BY <1>3, UpstreamsFinite
  <2>3. ~(n < N) /\ ~(n + 1 < N)
    BY <2>2, ProxyAssumption
  <2>4. Cardinality(S \union {u}) = N
    BY <2>1, <2>2
  <2> QED BY <2>3, <2>4
<1> QED BY <1>2, <1>3

\* A handler that returns has no failed upstream and no attempt left.
LEMMA FinishSpread ==
  ASSUME TypeInv, NEW r \in Requests, NEW a, Finish(r, a)
  PROVE  Candidates(r)' /\ Spread(r)'
<1>1. pc'[r] = "done" /\ failed'[r] = {} /\ attempt'[r] = 0 /\ avail'[r] = {}
  BY DEF Finish, Goto, TypeInv, TypeOK
<1> QED
  BY <1>1, FS_EmptySet, ProxyAssumption DEF Candidates, Spread, Serving, PlainSelection

\* A selected upstream has not failed this request, or all have.
LEMMA SelectedSpread ==
  ASSUME TypeInv, SpreadInv, NEW r \in Requests, NEW u \in Upstreams, Selected(r, u),
         PlainSelection(r) \/ u \notin failed[r]
  PROVE  Candidates(r)' /\ Spread(r)'
<1>1. /\ pc'[r] = "acquire" /\ up'[r] = u /\ avail'[r] = {}
      /\ UNCHANGED <<failed, attempt>>
  BY DEF Selected, Goto, TypeInv, TypeOK
<1> QED
  BY <1>1 DEF Candidates, Spread, Serving, PlainSelection, SpreadInv

\* Every step of the gateway keeps the relation of attempts and failures.
LEMMA NextSpreadInv == TypeInv /\ SpreadInv /\ [Next]_vars => SpreadInv'
<1> SUFFICES ASSUME TypeInv, SpreadInv, [Next]_vars PROVE SpreadInv'
  OBVIOUS
<1> USE DEF envVars, sharedVars
<1>a. ASSUME NEW r \in Requests,
             Step(r) \/ TransportFails(r) \/ CopyDone(r) \/ CopyAborts(r),
             Candidates(r)' /\ Spread(r)'
      PROVE  SpreadInv'
  <2>1. ASSUME NEW q \in Requests \ {r} PROVE Candidates(q)' /\ Spread(q)'
    BY <1>a, <2>1, OtherRequests DEF SpreadInv, Candidates, Spread, PlainSelection
  <2> QED BY <1>a, <2>1 DEF SpreadInv
<1>b. \A r \in Requests : Candidates(r) /\ Spread(r)
  BY DEF SpreadInv
<1>1. ASSUME NEW r \in Requests, SkipLoop(r) \/ SelectDirect(r) PROVE SpreadInv'
  BY <1>1, <1>a, FinishSpread DEF SkipLoop, SelectDirect, Step
<1>2. ASSUME NEW r \in Requests, SelectValid(r) \/ SelectHealthy(r) PROVE SpreadInv'
  <2>0. 0 \in Upstreams /\ PlainSelection(r) /\ pc[r] = "select"
    BY <1>2, ProxyAssumption DEF Upstreams, SelectValid, SelectHealthy, Balanced
  <2>1. CASE Finish(r, "503")
    BY <1>2, <1>a, <2>1, FinishSpread DEF Step
  <2>2. CASE Selected(r, 0)
    BY <1>2, <1>a, <2>0, <2>2, SelectedSpread DEF Step
  <2>3. CASE /\ \/ Goto(r, "pick")
                \/ Goto(r, "scan") /\ UNCHANGED avail
             /\ UNCHANGED <<attempt, failed, up>>
    <3>1. \/ pc'[r] = "pick"
          \/ pc'[r] = "scan" /\ avail'[r] = {}
      BY <1>b, <2>0, <2>3 DEF Goto, TypeInv, TypeOK, Candidates
    <3>2. Candidates(r)' /\ Spread(r)'
      BY <1>b, <2>0, <2>3, <3>1 DEF Candidates, Spread, PlainSelection, Serving
    <3> QED BY <1>2, <1>a, <3>2 DEF Step
  <2> QED BY <1>2, <2>1, <2>2, <2>3 DEF SelectValid, SelectHealthy
<1>3. ASSUME NEW r \in Requests, Scan(r) PROVE SpreadInv'
  <2>0. pc[r] = "scan" /\ PlainSelection(r)
    BY <1>3, <1>b DEF Scan, Candidates
  <2>1. CASE \E u \in Matching[r] : Selected(r, u)
    <3>1. PICK u \in Matching[r] : Selected(r, u)
      BY <2>1
    <3>2. u \in Upstreams
      BY ProxyAssumption
    <3> QED BY <1>3, <1>a, <2>0, <3>1, <3>2, SelectedSpread DEF Step
  <2>2. CASE Finish(r, "503")
    BY <1>3, <1>a, <2>2, FinishSpread DEF Step
  <2>3. CASE UNCHANGED <<pc, attempt, failed, avail, up>>
    <3>1. Candidates(r)' /\ Spread(r)'
      BY <1>b, <2>3 DEF Candidates, Spread, PlainSelection
    <3> QED BY <1>3, <1>a, <3>1 DEF Step
  <2> QED BY <1>3, <2>1, <2>2, <2>3 DEF Scan
<1>4. ASSUME NEW r \in Requests, SelectRetry(r) PROVE SpreadInv'
  <2>1. /\ pc[r] = "select" /\ ~PlainSelection(r) /\ avail[r] = {}
        /\ pc'[r] = "exclude" /\ UNCHANGED <<attempt, failed, up, avail>>
    BY <1>4, <1>b DEF SelectRetry, Balanced, Goto, TypeInv, TypeOK, Candidates
  <2>2. Candidates(r)' /\ Spread(r)'
    BY <1>b, <2>1 DEF Candidates, Spread, PlainSelection, Serving
  <2> QED BY <1>4, <1>a, <2>2 DEF Step
<1>5. ASSUME NEW r \in Requests, Exclude(r) PROVE SpreadInv'
  <2> DEFINE collected == IF /\ idx[r] \notin failed[r] /\ idx[r] \in Matching[r]
                             /\ isUpstreamAvailable(idx[r])
                          THEN avail[r] \union {idx[r]}
                          ELSE avail[r]
  <2>0. pc[r] = "exclude" /\ ~PlainSelection(r) /\ collected \intersect failed[r] = {}
    BY <1>5, <1>b DEF Exclude, Candidates
  <2>1. \/ Finish(r, "503")
        \/ /\ avail' = [avail EXCEPT ![r] = collected]
           /\ UNCHANGED pc \/ Goto(r, "pick")
           /\ UNCHANGED <<attempt, failed, up>>
    BY <1>5 DEF Exclude
  <2> HIDE DEF collected
  <2>2. CASE Finish(r, "503")
    BY <1>5, <1>a, <2>2, FinishSpread DEF Step
  <2>3. CASE /\ avail' = [avail EXCEPT ![r] = collected]
             /\ UNCHANGED pc \/ Goto(r, "pick")
             /\ UNCHANGED <<attempt, failed, up>>
    <3>1. avail'[r] = collected /\ pc'[r] \in {"exclude", "pick"}
      BY <2>0, <2>3 DEF Goto, TypeInv, TypeOK
    <3>2. Candidates(r)' /\ Spread(r)'
      BY <1>b, <2>0, <2>3, <3>1 DEF Candidates, Spread, PlainSelection, Serving
    <3> QED BY <1>5, <1>a, <3>2 DEF Step
  <2> QED BY <2>1, <2>2, <2>3
<1>6. ASSUME NEW r \in Requests, Pick(r) PROVE SpreadInv'
  <2>1. PICK u \in Upstreams : u \in avail[r] /\ Selected(r, u)
    BY <1>6 DEF Pick, IsNth
  <2>2. PlainSelection(r) \/ u \notin failed[r]
    BY <1>6, <1>b, <2>1 DEF Pick, Candidates
  <2> QED BY <1>6, <1>a, <2>1, <2>2, SelectedSpread DEF Step
<1>7. ASSUME NEW r \in Requests, ParseFails(r) \/ TransportFails(r) \/ CopyAborts(r)
      PROVE  SpreadInv'
  BY <1>7, <1>a, FinishSpread DEF ParseFails, TransportFails, CopyAborts, Step
<1>8. ASSUME NEW r \in Requests,
             Acquire(r) \/ Send(r) \/ Respond(r) \/ CopyDone(r) \/ Release(r)
      PROVE  SpreadInv'
  <2>1. /\ pc[r] \in Serving /\ pc'[r] \in Serving
        /\ UNCHANGED <<attempt, failed, up, avail>>
    BY <1>8 DEF Acquire, Send, Respond, CopyDone, Release, Goto, TypeInv, TypeOK, Serving
  <2>2. Candidates(r)' /\ Spread(r)'
    BY <1>b, <2>1 DEF Candidates, Spread, PlainSelection, Serving
  <2> QED BY <1>8, <1>a, <2>2 DEF Step
<1>9. ASSUME NEW r \in Requests, Record(r) PROVE SpreadInv'
  <2>1. CASE \E x : Finish(r, x)
    BY <1>9, <1>a, <2>1, FinishSpread DEF Step
  <2>2. CASE /\ Goto(r, "select")
             /\ failed' = [failed EXCEPT ![r] = @ \union {up[r]}]
             /\ attempt' = [attempt EXCEPT ![r] = @ + 1]
             /\ UNCHANGED avail
    <3>1. up[r] \in Upstreams /\ failed[r] \in SUBSET Upstreams /\ attempt[r] \in Nat
      BY <1>9 DEF Record, TypeInv, TypeOK, Located, Serving
    <3>2. up[r] \notin failed[r] \/ failed[r] = Upstreams
      BY <1>9, <1>b DEF Record, Spread, Serving
    <3>3. Cardinality(failed[r]) = IF attempt[r] < N THEN attempt[r] ELSE N
      BY <1>b DEF Spread
    <3>4. Cardinality(failed[r] \union {up[r]}) =
            IF attempt[r] + 1 < N THEN attempt[r] + 1 ELSE N
      BY <3>1, <3>2, <3>3, OneMoreFailure
    <3>5. /\ pc'[r] = "select" /\ avail'[r] = {}
          /\ failed'[r] = failed[r] \union {up[r]} /\ attempt'[r] = attempt[r] + 1
      BY <1>9, <1>b, <2>2 DEF Record, Goto, TypeInv, TypeOK, Candidates, Serving
    <3>6. Candidates(r)' /\ Spread(r)'
      BY <3>4, <3>5 DEF Candidates, Spread, Serving
    <3> QED BY <1>9, <1>a, <3>6 DEF Step
  <2> QED BY <1>9, <2>1, <2>2 DEF Record
<1>10. CASE Quiet \/ ResetLoadBalancers
  <2>1. UNCHANGED <<pc, up, failed, attempt, avail>>
    BY <1>10, QuietFrame DEF ResetLoadBalancers, requestVars
  <2> QED BY <2>1 DEF SpreadInv, Candidates, Spread, PlainSelection
<1> QED
  BY <1>1, <1>2, <1>3, <1>4, <1>5, <1>6, <1>7, <1>8, <1>9, <1>10 DEF Next, Step, Quiet

\* The relation of attempts and failed upstreams holds in every reachable
\* state (MarkFailed, GetNextUpstreamWithRetry).
THEOREM SpreadInvariant == Spec => []SpreadInv
<1>1. Init => SpreadInv
  <2> SUFFICES ASSUME Init, NEW r \in Requests PROVE Candidates(r) /\ Spread(r)
    BY DEF SpreadInv
  <2>1. pc[r] = "select" /\ failed[r] = {} /\ attempt[r] = 0 /\ avail[r] = {}
    BY DEF Init
  <2> QED
    BY <2>1, FS_EmptySet, ProxyAssumption DEF Candidates, Spread, Serving, PlainSelection
<1> QED BY <1>1, NextSpreadInv, ProxyTypeInvariant, PTL DEF Spec

(* Retries spread out for any number of upstreams, tags and retries, also  *)
(* while a reload replaces the counters in the middle of a request         *)
(* (GetNextUpstreamWithRetry, handleRoundRobinExcluding, MarkFailed).      *)
THEOREM RetriesSpreadOut == Spec => []RetriesSpread
<1>1. SpreadInv => RetriesSpread
  BY DEF SpreadInv, Spread, Serving, RetriesSpread
<1> QED BY <1>1, SpreadInvariant, PTL
=============================================================================
