-------------------------- MODULE PluginChainProofs -------------------------
(***************************************************************************)
(* Proofs about requests in their chain, for any configurations, plugins,  *)
(* requests and backends.                                                  *)
(*                                                                         *)
(* - Response aggregation comes first and by itself: in PluginChain its    *)
(*   variables change by the steps of AggregationNext only.  The chain     *)
(*   then implements that specification, and what it delivers is complete. *)
(* - The list that createHandlerForRoute builds, by induction over the     *)
(*   plugins that it loads; it is the list of the configuration            *)
(*   (ReloadInv).                                                          *)
(* - What the plugins without state say, multi_auth by induction over its  *)
(*   strategies.                                                           *)
(* - Where a request can be (PlaceInv).  On this rest the answers and the  *)
(*   cache (ServedInv) and the breaker (ProbeInv).                         *)
(***************************************************************************)
EXTENDS PluginChain, FoldLemmas, SequenceTheorems, TLAPS

AtRest(r) == \A b \in Backends : calls[r][b] = "idle"

AggregationNext ==
  \E r \in Requests :
    \/ AtRest(r) /\ CallBackends(r)
    \/ \E b \in Backends : BackendReturns(r, b) \/ BackendFails(r, b)
    \/ ClientLeaves(r)
    \/ Waited(r) /\ Merged(r)

AggregationSpec == AggregationInit /\ [][AggregationNext]_aggregationVars

----------------------------------------------------------------------------
\* Nothing is left of an earlier request of the connection.
RestIsClean == \A r \in Requests : AtRest(r) => ~cancelled[r]

\* Calls are cancelled for a reason.
CancelledForCause ==
  \A r \in Requests : cancelled[r] => left[r] \/ ~(Required \subseteq serving[r])

\* Calls fail for a reason.
FailedForCause ==
  \A r \in Requests, b \in Backends :
    calls[r][b] = "failed" => b \notin serving[r] \/ cancelled[r]

CauseInv == AggregationTypeOK /\ RestIsClean /\ CancelledForCause /\ FailedForCause

LEMMA CauseInit == AggregationInit => CauseInv
BY DEF AggregationInit, CauseInv, AggregationTypeOK, RestIsClean, AtRest,
       CancelledForCause, FailedForCause

LEMMA CauseStep == CauseInv /\ [AggregationNext]_aggregationVars => CauseInv'
<1> SUFFICES ASSUME CauseInv, [AggregationNext]_aggregationVars PROVE CauseInv'
  OBVIOUS
<1> USE AggregationAssumption DEF CauseInv, AggregationTypeOK, RestIsClean, AtRest,
        CancelledForCause, FailedForCause
<1>1. ASSUME NEW r \in Requests, AtRest(r), CallBackends(r) PROVE CauseInv'
  BY <1>1 DEF CallBackends
<1>2. ASSUME NEW r \in Requests, NEW b \in Backends, BackendReturns(r, b) PROVE CauseInv'
  BY <1>2 DEF BackendReturns
<1>3. ASSUME NEW r \in Requests, NEW b \in Backends, BackendFails(r, b) PROVE CauseInv'
  <2>1. AggregationTypeOK'
    BY <1>3 DEF BackendFails, Cancels
  <2>2. RestIsClean'
    BY <1>3 DEF BackendFails
  <2>3. CancelledForCause'
    BY <1>3 DEF BackendFails, Cancels
  <2>4. FailedForCause'
    BY <1>3 DEF BackendFails
  <2> QED
    BY <2>1, <2>2, <2>3, <2>4
<1>4. ASSUME NEW r \in Requests, ClientLeaves(r) PROVE CauseInv'
  BY <1>4 DEF ClientLeaves
<1>5. ASSUME NEW r \in Requests, Waited(r), Merged(r) PROVE CauseInv'
  BY <1>5 DEF Merged
<1>6. CASE UNCHANGED aggregationVars
  BY <1>6 DEF aggregationVars
<1> QED
  BY <1>1, <1>2, <1>3, <1>4, <1>5, <1>6 DEF AggregationNext

(***************************************************************************)
(* Type correctness of the state of HandleAggregation.                     *)
(***************************************************************************)
THEOREM AggregationTypeCorrect == AggregationSpec => []AggregationTypeOK
<1>1. CauseInv => AggregationTypeOK
  BY DEF CauseInv
<1> QED
  BY CauseInit, CauseStep, <1>1, PTL DEF AggregationSpec

(***************************************************************************)
(* For any set of backends, required or not: as long as the client stays   *)
(* and all required backends answer, no call to a backend that answers     *)
(* fails (the errgroup of HandleAggregation).                              *)
(***************************************************************************)
THEOREM OptionalFailuresLocal == AggregationSpec => []OptionalFailureIsLocal
<1>1. CauseInv => OptionalFailureIsLocal
  BY AggregationAssumption
     DEF CauseInv, AggregationTypeOK, CancelledForCause, FailedForCause, OptionalFailureIsLocal
<1> QED
  BY CauseInit, CauseStep, <1>1, PTL DEF AggregationSpec

----------------------------------------------------------------------------
(* The chain.                                                               *)

\* A merged answer that is no error lacks no required backend.
Complete(x) == x.status \in {200, 206} /\ x.data # {} => Required \subseteq x.data

\* Calls exist exactly while the request waits for them.
CallsInPlace ==
  \A r \in Requests :
    /\ pc[r] # "calling" => AtRest(r)
    /\ pc[r] = "calling" => \A b \in Backends : calls[r][b] # "idle"

\* Whatever is on its way to a client, now or from the cache.
AllComplete ==
  /\ \A r \in Requests : Complete(resp[r])
  /\ \A s \in stores : Complete(s.resp)
  /\ \A u \in Uris : Complete(cache[u])

ChainInv ==
  /\ AggregationTypeOK
  /\ pc \in [Requests -> {"new", "down", "up", "calling"}]
  /\ DOMAIN resp = Requests
  /\ DOMAIN cache = Uris
  /\ CallsInPlace
  /\ AllComplete

LEMMA NothingIsComplete ==
  /\ Complete(NoResponse) /\ Complete(Panic)
  /\ \A code : Complete([NoResponse EXCEPT !.status = code])
BY DEF Complete, NoResponse, Panic

LEMMA ChainInit == Init => ChainInv
BY NothingIsComplete
   DEF Init, ChainInv, AggregationInit, AggregationTypeOK, CallsInPlace, AtRest, AllComplete

\* What Return and Continue keep.
LEMMA ReturnKeeps ==
  ASSUME ChainInv, NEW r \in Requests, NEW x, Complete(x), Return(r, x),
         UNCHANGED aggregationVars, pc[r] # "calling"
  PROVE  /\ pc' \in [Requests -> {"new", "down", "up", "calling"}]
         /\ DOMAIN resp' = Requests
         /\ CallsInPlace'
         /\ \A q \in Requests : Complete(resp'[q])
<1> USE DEF ChainInv, Return
<1>1. CallsInPlace'
  BY DEF CallsInPlace, AtRest, aggregationVars
<1>2. \A q \in Requests : resp'[q] = IF q = r THEN x ELSE resp[q]
  OBVIOUS
<1>3. \A q \in Requests : Complete(resp'[q])
  BY <1>2 DEF AllComplete
<1> QED
  BY <1>1, <1>3

LEMMA ContinueKeeps ==
  ASSUME ChainInv, NEW r \in Requests, NEW q, Continue(r, q), UNCHANGED aggregationVars
  PROVE  /\ pc' \in [Requests -> {"new", "down", "up", "calling"}]
         /\ DOMAIN resp' = Requests
         /\ CallsInPlace'
         /\ \A s \in Requests : Complete(resp'[s])
<1> USE DEF ChainInv, Continue
<1>1. CallsInPlace'
  BY DEF CallsInPlace, AtRest, aggregationVars
<1> QED
  BY <1>1 DEF AllComplete

\* The rest of the invariant, when nothing reaches the cache.
LEMMA CacheKept ==
  ASSUME ChainInv, UNCHANGED <<cache, aggregationVars>>, stores' = stores,
         pc' \in [Requests -> {"new", "down", "up", "calling"}],
         DOMAIN resp' = Requests, CallsInPlace', \A q \in Requests : Complete(resp'[q])
  PROVE  ChainInv'
BY DEF ChainInv, AllComplete, AggregationTypeOK, aggregationVars

LEMMA EnterStep ==
  ASSUME ChainInv, NEW r \in Requests, Enter(r) \/ Respond(r)
  PROVE  ChainInv'
<1>1. UNCHANGED <<cache, aggregationVars>> /\ stores' = stores
  BY DEF Enter, Respond, stateVars
<1>2. pc' \in [Requests -> {"new", "down", "up", "calling"}] /\ CallsInPlace'
  BY <1>1 DEF ChainInv, Enter, Respond, CallsInPlace, AtRest, aggregationVars
<1>3. DOMAIN resp' = Requests
  BY DEF ChainInv, Enter, Respond
<1>4. \A q \in Requests : Complete(resp'[q])
  <2>1. CASE UNCHANGED resp
    BY <2>1 DEF ChainInv, AllComplete
  <2>2. CASE resp' = [resp EXCEPT ![r] = NoResponse]
    BY <2>2, NothingIsComplete DEF ChainInv, AllComplete
  <2>3. ASSUME NEW q,
               resp' = [resp EXCEPT ![r] = [NoResponse EXCEPT !.status = validateRequestFraming(q)]]
        PROVE  \A s \in Requests : Complete(resp'[s])
    <3> DEFINE x == [NoResponse EXCEPT !.status = validateRequestFraming(q)]
    <3>1. Complete(x)
      BY NothingIsComplete
    <3> HIDE DEF x
    <3>2. resp' = [resp EXCEPT ![r] = x]
      BY <2>3 DEF x
    <3> QED
      BY <3>1, <3>2 DEF ChainInv, AllComplete
  <2> QED
    BY <2>1, <2>2, <2>3 DEF Enter, Respond
<1> QED
  BY <1>1, <1>2, <1>3, <1>4, CacheKept

LEMMA FilterStep ==
  ASSUME ChainInv, NEW r \in Requests, Filter(r) \/ LimitRate(r) \/ CacheMiss(r)
  PROVE  ChainInv'
<1>1. /\ UNCHANGED <<cache, aggregationVars>> /\ stores' = stores
      /\ pc[r] # "calling"
  BY DEF Filter, LimitRate, CacheMiss, stateVars, AtPlugin
<1>2. ASSUME NEW q, Continue(r, q) PROVE ChainInv'
  BY <1>1, <1>2, ContinueKeeps, CacheKept
<1>3. ASSUME NEW code, Answer(r, code) PROVE ChainInv'
  <2> DEFINE x == [NoResponse EXCEPT !.status = code]
  <2>1. Complete(x)
    BY NothingIsComplete
  <2>2. Return(r, x)
    BY <1>3 DEF Answer
  <2> HIDE DEF x
  <2> QED
    BY <1>1, <2>1, <2>2, ReturnKeeps, CacheKept
<1> QED
  BY <1>2, <1>3 DEF Filter, LimitRate, CacheMiss

LEMMA CacheStep ==
  ASSUME ChainInv, NEW r \in Requests, CacheHit(r) \/ CacheStore(r)
  PROVE  ChainInv'
<1>1. ASSUME CacheHit(r) PROVE ChainInv'
  <2>1. /\ UNCHANGED <<cache, aggregationVars>> /\ stores' = stores
        /\ pc[r] # "calling"
    BY <1>1 DEF CacheHit, stateVars, AtPlugin
  <2>2. PICK uri \in Uris : Return(r, cache[uri])
    BY <1>1 DEF CacheHit
  <2>3. Complete(cache[uri])
    BY DEF ChainInv, AllComplete
  <2> QED
    BY <2>1, <2>2, <2>3, ReturnKeeps, CacheKept
<1>2. ASSUME CacheStore(r) PROVE ChainInv'
  <2>1. /\ UNCHANGED aggregationVars /\ cache' = cache
        /\ pc[r] # "calling" /\ Return(r, resp[r])
    BY <1>2 DEF CacheStore, BackAtPlugin
  <2>2. Complete(resp[r])
    BY DEF ChainInv, AllComplete
  <2>3. /\ pc' \in [Requests -> {"new", "down", "up", "calling"}]
        /\ DOMAIN resp' = Requests
        /\ CallsInPlace'
        /\ \A q \in Requests : Complete(resp'[q])
    BY <2>1, <2>2, ReturnKeeps
  <2>4. stores' \subseteq stores \union {[uri |-> req[r].uri, resp |-> resp[r]]}
    BY <1>2 DEF CacheStore
  <2>5. \A s \in stores' : Complete(s.resp)
    BY <2>2, <2>4 DEF ChainInv, AllComplete
  <2> QED
    BY <2>1, <2>3, <2>5 DEF ChainInv, AllComplete, AggregationTypeOK, aggregationVars
<1> QED
  BY <1>1, <1>2

LEMMA StoreStep ==
  ASSUME ChainInv, (\E s \in stores : StoreInCache(s)) \/ (\E uri \in Uris : Expire(uri))
  PROVE  ChainInv'
<1>1. UNCHANGED <<localVars, aggregationVars>>
  BY DEF StoreInCache, Expire
<1>2. /\ pc' \in [Requests -> {"new", "down", "up", "calling"}]
      /\ DOMAIN resp' = Requests
      /\ \A q \in Requests : Complete(resp'[q])
      /\ AggregationTypeOK'
      /\ CallsInPlace'
  BY <1>1 DEF ChainInv, AllComplete, localVars, aggregationVars, AggregationTypeOK, CallsInPlace, AtRest
<1>3. stores' \subseteq stores
  BY DEF StoreInCache, Expire
<1>4. /\ DOMAIN cache' = Uris
      /\ \A u \in Uris : Complete(cache'[u])
  <2>1. ASSUME NEW s \in stores, StoreInCache(s) PROVE <1>4
    BY <2>1 DEF StoreInCache, ChainInv, AllComplete
  <2>2. ASSUME NEW uri \in Uris, Expire(uri) PROVE <1>4
    BY <2>2, NothingIsComplete DEF Expire, ChainInv, AllComplete
  <2> QED
    BY <2>1, <2>2
<1> QED
  BY <1>2, <1>3, <1>4 DEF ChainInv, AllComplete

LEMMA BreakerStep ==
  ASSUME ChainInv, NEW r \in Requests, BreakerEnter(r) \/ BreakerLeave(r)
  PROVE  ChainInv'
<1>1. /\ UNCHANGED <<cache, aggregationVars>> /\ stores' = stores
      /\ pc[r] # "calling"
  BY DEF BreakerEnter, BreakerLeave, AtPlugin, BackAtPlugin
<1>2. ASSUME Continue(r, req[r]) PROVE ChainInv'
  BY <1>1, <1>2, ContinueKeeps, CacheKept
<1>3. ASSUME Answer(r, 503) PROVE ChainInv'
  <2> DEFINE x == [NoResponse EXCEPT !.status = 503]
  <2>1. Complete(x)
    BY NothingIsComplete
  <2>2. Return(r, x)
    BY <1>3 DEF Answer
  <2> HIDE DEF x
  <2> QED
    BY <1>1, <2>1, <2>2, ReturnKeeps, CacheKept
<1>4. ASSUME Return(r, resp[r]) PROVE ChainInv'
  <2>1. Complete(resp[r])
    BY DEF ChainInv, AllComplete
  <2> QED
    BY <1>1, <1>4, <2>1, ReturnKeeps, CacheKept
<1> QED
  BY <1>2, <1>3, <1>4 DEF BreakerEnter, BreakerLeave

LEMMA EndStep ==
  ASSUME ChainInv, NEW r \in Requests, ProxyPass(r) \/ SendLog(r)
  PROVE  ChainInv'
<1>1. /\ UNCHANGED <<cache, aggregationVars>> /\ stores' = stores
      /\ pc[r] # "calling"
  BY DEF ProxyPass, SendLog, stateVars, AtEnd, BackAtPlugin
<1>2. ASSUME NEW x, Complete(x), Return(r, x) PROVE ChainInv'
  BY <1>1, <1>2, ReturnKeeps, CacheKept
<1>3. CASE ProxyPass(r)
  <2> DEFINE ok(plain) == [NoResponse EXCEPT !.status = 200, !.backend = TRUE, !.plain = plain]
             bad == [NoResponse EXCEPT !.status = 502, !.backend = TRUE]
  <2>1. Complete(bad) /\ \A plain \in BOOLEAN : Complete(ok(plain))
    BY DEF Complete, NoResponse
  <2>2. \/ \E plain \in BOOLEAN : Return(r, ok(plain))
        \/ Return(r, bad)
        \/ Return(r, Panic)
    BY <1>3 DEF ProxyPass
  <2> HIDE DEF ok, bad
  <2> QED
    BY <1>2, <2>1, <2>2, NothingIsComplete
<1>4. CASE SendLog(r)
  <2>1. Return(r, Panic) \/ Return(r, resp[r])
    BY <1>4 DEF SendLog
  <2>2. Complete(resp[r])
    BY DEF ChainInv, AllComplete
  <2> QED
    BY <1>2, <2>1, <2>2, NothingIsComplete
<1> QED
  BY <1>3, <1>4

\* What is merged lacks nothing that is required.
LEMMA MergedIsComplete ==
  ASSUME ChainInv, NEW r \in Requests, pc[r] = "calling", Waited(r)
  PROVE  Complete([status |-> mergedStatus(r), backend |-> TRUE, plain |-> TRUE, data |-> Data(r)])
<1>1. \A b \in Backends : calls[r][b] \in {"ok", "failed"}
  BY DEF ChainInv, CallsInPlace, AggregationTypeOK, Waited, With
<1>2. mergedStatus(r) \in {200, 206} => With(r, "failed") \intersect Required = {}
  BY DEF mergedStatus
<1>3. mergedStatus(r) \in {200, 206} => Required \subseteq Data(r)
  BY <1>1, <1>2, AggregationAssumption DEF With, Data
<1> QED
  BY <1>3 DEF Complete

LEMMA AggregateStep ==
  ASSUME ChainInv, NEW r \in Requests, HandleAggregation(r) \/ AggregationStep(r) \/ Merge(r)
  PROVE  /\ ChainInv'
         /\ AggregationNext
<1>1. cache' = cache /\ stores' = stores
  BY DEF HandleAggregation, AggregationStep, Merge, stateVars
<1>2. CASE HandleAggregation(r)
  <2>1. CallBackends(r) /\ AtRest(r) /\ pc' = [pc EXCEPT ![r] = "calling"] /\ UNCHANGED resp
    BY <1>2 DEF HandleAggregation, ChainInv, CallsInPlace, AtEnd
  <2>2. AggregationTypeOK' /\ CallsInPlace'
    BY <2>1 DEF ChainInv, AggregationTypeOK, CallsInPlace, AtRest, CallBackends
  <2> QED
    BY <1>1, <2>1, <2>2 DEF ChainInv, AllComplete, AggregationNext
<1>3. CASE AggregationStep(r)
  <2>1. /\ pc[r] = "calling" /\ UNCHANGED <<pc, resp>>
        /\ ClientLeaves(r) \/ \E b \in Backends : BackendReturns(r, b) \/ BackendFails(r, b)
    BY <1>3 DEF AggregationStep, localVars
  <2>2. AggregationTypeOK' /\ CallsInPlace'
    <3> USE <2>1 DEF ChainInv, AggregationTypeOK, CallsInPlace, AtRest
    <3>1. CASE ClientLeaves(r)
      BY <3>1 DEF ClientLeaves
    <3>2. ASSUME NEW b \in Backends, BackendReturns(r, b) PROVE AggregationTypeOK' /\ CallsInPlace'
      BY <3>2 DEF BackendReturns
    <3>3. ASSUME NEW b \in Backends, BackendFails(r, b) PROVE AggregationTypeOK' /\ CallsInPlace'
      <4>1. AggregationTypeOK'
        BY <3>3 DEF BackendFails, Cancels
      <4>2. CallsInPlace'
        BY <3>3 DEF BackendFails
      <4> QED
        BY <4>1, <4>2
    <3> QED
      BY <3>1, <3>2, <3>3
  <2> QED
    BY <1>1, <2>1, <2>2 DEF ChainInv, AllComplete, AggregationNext
<1>4. CASE Merge(r)
  <2> DEFINE x == [status |-> mergedStatus(r), backend |-> TRUE, plain |-> TRUE, data |-> Data(r)]
  <2>1. pc[r] = "calling" /\ Waited(r) /\ Return(r, x) /\ Merged(r)
    BY <1>4 DEF Merge
  <2>2. Complete(x)
    BY <2>1, MergedIsComplete
  <2> HIDE DEF x
  <2>3. AggregationTypeOK' /\ CallsInPlace'
    BY <2>1 DEF ChainInv, AggregationTypeOK, CallsInPlace, AtRest, Merged, Return
  <2>4. DOMAIN resp' = Requests /\ \A q \in Requests : Complete(resp'[q])
    BY <2>1, <2>2 DEF ChainInv, AllComplete, Return
  <2>5. pc' \in [Requests -> {"new", "down", "up", "calling"}]
    BY <2>1 DEF ChainInv, Return
  <2> QED
    BY <1>1, <2>1, <2>3, <2>4, <2>5 DEF ChainInv, AllComplete, AggregationNext
<1> QED
  BY <1>2, <1>3, <1>4

\* Every step keeps the invariant, and is one of the aggregation or leaves
\* it alone.
LEMMA ChainStep ==
  ASSUME ChainInv, [Next]_vars
  PROVE  ChainInv' /\ [AggregationNext]_aggregationVars
<1>1. ASSUME NEW r \in Requests, Step(r) PROVE ChainInv' /\ [AggregationNext]_aggregationVars
  <2>1. CASE HandleAggregation(r) \/ AggregationStep(r) \/ Merge(r)
    BY <2>1, AggregateStep
  <2>2. CASE Enter(r) \/ Respond(r)
    BY <2>2, EnterStep DEF Enter, Respond
  <2>3. CASE Filter(r) \/ LimitRate(r) \/ CacheMiss(r)
    BY <2>3, FilterStep DEF Filter, LimitRate, CacheMiss
  <2>4. CASE CacheHit(r) \/ CacheStore(r)
    BY <2>4, CacheStep DEF CacheHit, CacheStore
  <2>5. CASE BreakerEnter(r) \/ BreakerLeave(r)
    BY <2>5, BreakerStep DEF BreakerEnter, BreakerLeave
  <2>6. CASE ProxyPass(r) \/ SendLog(r)
    BY <2>6, EndStep DEF ProxyPass, SendLog
  <2> QED
    BY <1>1, <2>1, <2>2, <2>3, <2>4, <2>5, <2>6 DEF Step
<1>2. CASE (\E s \in stores : StoreInCache(s)) \/ (\E uri \in Uris : Expire(uri))
  BY <1>2, StoreStep DEF StoreInCache, Expire
<1>3. CASE BreakerTimeout \/ (\E g \in Gens : Install(g) \/ UpdateRouter(g)) \/ UNCHANGED vars
  <2>1. UNCHANGED <<cache, stores, pc, resp, aggregationVars>>
    BY <1>3 DEF BreakerTimeout, Install, UpdateRouter, vars, stateVars, localVars
  <2> QED
    BY <2>1 DEF ChainInv, AllComplete, AggregationTypeOK, CallsInPlace, AtRest, aggregationVars
<1> QED
  BY <1>1, <1>2, <1>3 DEF Next

LEMMA ChainInvariant == Spec => []ChainInv
BY ChainInit, ChainStep, PTL DEF Spec

(***************************************************************************)
(* The chain implements aggregation: whatever plugins, caches, breakers    *)
(* and reloads do, the calls of a request are started once, by a request   *)
(* that has none, and merged when all have returned (HandleAggregation).   *)
(***************************************************************************)
THEOREM ChainAggregates == Spec => AggregationSpec
<1>1. Init => AggregationInit
  BY DEF Init
<1> QED
  BY <1>1, ChainInvariant, ChainStep, PTL DEF Spec, AggregationSpec

(***************************************************************************)
(* In every chain, a failing optional backend is nobody else's business    *)
(* (the errgroup of HandleAggregation).                                    *)
(***************************************************************************)
THEOREM ChainFailuresLocal == Spec => []OptionalFailureIsLocal
BY ChainAggregates, OptionalFailuresLocal, PTL

(***************************************************************************)
(* No client gets a merged answer, fresh or cached, that is no error and   *)
(* lacks the data of a required backend (HandleAggregation, cache.go).     *)
(***************************************************************************)
THEOREM RequiredDelivered == Spec => []RequiredDataDelivered
<1>1. ChainInv => RequiredDataDelivered
  BY DEF ChainInv, AllComplete, Complete, RequiredDataDelivered
<1> QED
  BY <1>1, ChainInvariant, PTL

----------------------------------------------------------------------------
(* The list of plugins: what registering one more does to it.              *)

\* d is c with the plugin of p's name replaced by p.
Replaced(d, c, p) ==
  /\ Len(d) = Len(c)
  /\ \A i \in 1 .. Len(c) : d[i] = IF c[i].name = p.name THEN p ELSE c[i]

\* d is c with p put before the first plugin of a higher priority.
Inserted(d, c, p) ==
  /\ Len(d) = Len(c) + 1
  /\ \E k \in 1 .. Len(c) + 1 :
       /\ \A i \in 1 .. Len(c) + 1 : d[i] = IF i < k THEN c[i] ELSE IF i = k THEN p ELSE c[i - 1]
       /\ \A i \in 1 .. k - 1 : ~(Priority[c[i].name] > Priority[p.name])
       /\ k <= Len(c) => Priority[c[k].name] > Priority[p.name]

\* What RegisterPlugin makes of a list.
LEMMA RegisterShape ==
  ASSUME NEW P, NEW c \in Seq(P), NEW p \in P
  PROVE  /\ RegisterPlugin(c, p) \in Seq(P)
         /\ \/ /\ \E i \in 1 .. Len(c) : c[i].name = p.name
               /\ Replaced(RegisterPlugin(c, p), c, p)
            \/ /\ \A i \in 1 .. Len(c) : c[i].name # p.name
               /\ Inserted(RegisterPlugin(c, p), c, p)
<1>0. Len(c) \in Nat /\ DOMAIN c = 1 .. Len(c)
  OBVIOUS
<1>1. CASE \E i \in 1 .. Len(c) : c[i].name = p.name
  <2>1. RegisterPlugin(c, p) = [i \in 1 .. Len(c) |-> IF c[i].name = p.name THEN p ELSE c[i]]
    BY <1>0, <1>1 DEF RegisterPlugin
  <2>2. \A i \in 1 .. Len(c) : (IF c[i].name = p.name THEN p ELSE c[i]) \in P
    OBVIOUS
  <2>3. RegisterPlugin(c, p) \in [1 .. Len(c) -> P]
    BY <2>1, <2>2
  <2>4. RegisterPlugin(c, p) \in Seq(P) /\ Len(RegisterPlugin(c, p)) = Len(c)
    BY <1>0, <2>3
  <2> QED BY <1>1, <2>1, <2>4 DEF Replaced
<1>2. CASE \A i \in 1 .. Len(c) : c[i].name # p.name
  <2> DEFINE H == {i \in DOMAIN c : Priority[c[i].name] > Priority[p.name]}
             k == Min(H \union {Len(c) + 1})
  <2>1. H \union {Len(c) + 1} \in SUBSET Nat
    BY <1>0
  <2>2. k \in H \union {Len(c) + 1} /\ \A x \in H \union {Len(c) + 1} : k <= x
    <3> HIDE DEF H
    <3> QED BY <2>1, MinIs
  <2>3. RegisterPlugin(c, p) = InsertAt(c, k, p)
    BY <1>0, <1>2 DEF RegisterPlugin
  <2>4. k \in 1 .. Len(c) + 1
    <3>1. \A x \in H \union {Len(c) + 1} : x \in 1 .. Len(c) + 1
      BY <1>0
    <3> HIDE DEF H, k
    <3> QED BY <2>2, <3>1
  <2>5. /\ \A i \in 1 .. k - 1 : ~(Priority[c[i].name] > Priority[p.name])
        /\ k <= Len(c) => Priority[c[k].name] > Priority[p.name]
    <3> HIDE DEF k
    <3>1. \A i \in 1 .. k - 1 : i \in DOMAIN c /\ i < k
      BY <1>0, <2>4
    <3>2. \A i \in 1 .. k - 1 : i \notin H
      <4> HIDE DEF H
      <4> QED BY <1>0, <2>2, <2>4
    <3>3. k <= Len(c) => k \in H
      <4> HIDE DEF H
      <4> QED BY <1>0, <2>2, <2>4
    <3> QED BY <3>1, <3>2, <3>3
  <2> HIDE DEF k, H
  <2>6. /\ InsertAt(c, k, p) \in Seq(P)
        /\ Len(InsertAt(c, k, p)) = Len(c) + 1
        /\ \A i \in 1 .. Len(c) + 1 :
             InsertAt(c, k, p)[i] = IF i < k THEN c[i] ELSE IF i = k THEN p ELSE c[i - 1]
    <3> DEFINE a == SubSeq(c, 1, k - 1)
               b == SubSeq(c, k, Len(c))
    <3>1. a \in Seq(P) /\ Len(a) = k - 1 /\ \A i \in 1 .. k - 1 : a[i] = c[i]
      BY <1>0, <2>4
    <3>2. b \in Seq(P) /\ Len(b) = Len(c) - k + 1 /\ \A i \in 1 .. Len(c) - k + 1 : b[i] = c[k + i - 1]
      BY <1>0, <2>4
    <3>3. InsertAt(c, k, p) = (a \o <<p>>) \o b
      BY DEF InsertAt
    <3> HIDE DEF a, b
    <3>4. /\ a \o <<p>> \in Seq(P) /\ Len(a \o <<p>>) = k
          /\ \A i \in 1 .. k : (a \o <<p>>)[i] = IF i < k THEN c[i] ELSE p
      BY <2>4, <3>1
    <3> DEFINE d == a \o <<p>>
    <3>5. d \in Seq(P) /\ Len(d) = k /\ \A i \in 1 .. k : d[i] = IF i < k THEN c[i] ELSE p
      BY <3>4
    <3> HIDE DEF d
    <3>60. /\ d \o b \in Seq(P) /\ Len(d \o b) = Len(d) + Len(b)
           /\ \A i \in 1 .. Len(d) + Len(b) : (d \o b)[i] = IF i <= Len(d) THEN d[i] ELSE b[i - Len(d)]
      <4>1. d \in Seq(P) /\ b \in Seq(P)
        BY <3>2, <3>5
      <4> QED BY <4>1, ConcatProperties
    <3>6. d \o b \in Seq(P) /\ Len(d \o b) = k + (Len(c) - k + 1)
      BY <3>2, <3>5, <3>60, Zenon
    <3>61. k + (Len(c) - k + 1) = Len(c) + 1
      BY <1>0, <2>4
    <3>7. \A i \in 1 .. Len(c) + 1 : (d \o b)[i] = IF i <= k THEN d[i] ELSE b[i - k]
      <4>1. \A i \in 1 .. k + (Len(c) - k + 1) : (d \o b)[i] = IF i <= k THEN d[i] ELSE b[i - k]
        BY <3>2, <3>5, <3>60, Zenon
      <4> QED BY <3>61, <4>1, Zenon
    <3>8. \A i \in 1 .. Len(c) + 1 : i > k => b[i - k] = c[i - 1]
      BY <1>0, <2>4, <3>2
    <3>9. \A i \in 1 .. Len(c) + 1 :
            (d \o b)[i] = IF i < k THEN c[i] ELSE IF i = k THEN p ELSE c[i - 1]
      <4> DEFINE e == d \o b
      <4>1. \A i \in 1 .. Len(c) + 1 : e[i] = IF i <= k THEN d[i] ELSE b[i - k]
        BY <3>7
      <4> HIDE DEF e
      <4>2. \A i \in 1 .. Len(c) + 1 : e[i] = IF i < k THEN c[i] ELSE IF i = k THEN p ELSE c[i - 1]
        BY <1>0, <2>4, <3>5, <3>8, <4>1
      <4> QED BY <4>2 DEF e
    <3> QED BY <3>3, <3>6, <3>61, <3>9 DEF d
  <2> QED BY <1>2, <2>3, <2>4, <2>5, <2>6 DEF Inserted
<1> QED BY <1>1, <1>2

\* createHandlerForRoute loads one plugin after the other.
LEMMA LoadSteps ==
  ASSUME NEW n \in Nat, NEW L, DOMAIN L = 1 .. n
  PROVE  \E v : /\ v[0] = <<>>
                /\ \A i \in 1 .. n : v[i] = loadConfig(v[i - 1], L[i])
                /\ FoldLeft(loadConfig, <<>>, L) = v[n]
<1> DEFINE P == {[name |-> L[i].name, config |-> L[i].config] : i \in 1 .. n}
           F == [i \in 1 .. n |-> [x \in Seq(P) |-> loadConfig(x, L[i])]]
           Folds(g) == g = [s \in SUBSET (1 .. n) |->
                               IF s = {} THEN <<>> ELSE loadConfig(g[s \ {Max(s)}], L[Max(s)])]
<1>1. ASSUME NEW i \in 1 .. n, NEW x \in Seq(P) PROVE loadConfig(x, L[i]) \in Seq(P)
  <2> DEFINE p == [name |-> L[i].name, config |-> L[i].config]
  <2>1. p \in P
    OBVIOUS
  <2>2. loadConfig(x, L[i]) = x \/ loadConfig(x, L[i]) = RegisterPlugin(x, p)
    BY DEF loadConfig
  <2> HIDE DEF P, p
  <2>3. RegisterPlugin(x, p) \in Seq(P)
    BY <2>1, RegisterShape
  <2> QED BY <2>2, <2>3, Zenon
<1>2. \E g : Folds(g)
  <2> HIDE DEF P
  <2>1. \A i \in 1 .. n : \A x \in Seq(P) : F[i][x] \in Seq(P)
    BY <1>1
  <2>2. <<>> \in Seq(P)
    OBVIOUS
  <2> DEFINE D == Seq(P)
  <2> HIDE DEF F, D
  <2>3. PICK g \in [SUBSET (1 .. n) -> D] :
          \A s \in SUBSET (1 .. n) : g[s] = IF s = {} THEN <<>> ELSE F[Max(s)][g[s \ {Max(s)}]]
    <3> DEFINE e == <<>>
    <3>1. e \in D /\ \A i \in 1 .. n : \A x \in D : F[i][x] \in D
      BY <2>1, <2>2 DEF D
    <3> HIDE DEF e
    <3>2. \E g : IsFold(g, n, D, e, F)
      BY <3>1, FoldExists
    <3> QED BY <3>2 DEF e, IsFold
  <2>4. ASSUME NEW s \in SUBSET (1 .. n), s # {} PROVE Max(s) \in 1 .. n
    BY <2>4, MaxIn
  <2>5. ASSUME NEW s \in SUBSET (1 .. n), s # {}
        PROVE  F[Max(s)][g[s \ {Max(s)}]] = loadConfig(g[s \ {Max(s)}], L[Max(s)])
    <3>1. Max(s) \in 1 .. n
      BY <2>4, <2>5
    <3>2. g[s \ {Max(s)}] \in Seq(P)
      BY <2>3 DEF D
    <3> QED BY <3>1, <3>2 DEF F
  <2>6. Folds(g)
    BY <2>3, <2>5
  <2> QED BY <2>6
<1> DEFINE g == CHOOSE g : Folds(g)
<1>3. Folds(g)
  BY <1>2
<1>4. FoldLeft(loadConfig, <<>>, L) = g[1 .. n]
  BY DEF FoldLeft, MapThenFoldSet
<1> HIDE DEF g
<1> DEFINE v == [i \in 0 .. n |-> g[1 .. i]]
<1>5. v[0] = <<>>
  BY <1>3
<1>6. ASSUME NEW i \in 1 .. n PROVE v[i] = loadConfig(v[i - 1], L[i])
  <2>1. Max(1 .. i) = i
    BY MaxOfInterval
  <2>2. (1 .. i) \ {i} = 1 .. i - 1 /\ 1 .. i # {} /\ 1 .. i \in SUBSET (1 .. n)
    <3>1. i \in Nat /\ n \in Nat /\ 1 <= i /\ i <= n
      OBVIOUS
    <3>2. i \in 1 .. i /\ 1 .. i \subseteq 1 .. n
      BY <3>1
    <3>3. (1 .. i) \ {i} = 1 .. i - 1
      BY <3>1
    <3> QED BY <3>2, <3>3
  <2>3. g[1 .. i] = loadConfig(g[(1 .. i) \ {Max(1 .. i)}], L[Max(1 .. i)])
    BY <1>3, <2>2
  <2>4. g[1 .. i] = loadConfig(g[1 .. i - 1], L[i])
    BY <2>1, <2>2, <2>3, Zenon
  <2> QED BY <2>4
<1>7. v[n] = g[1 .. n]
  OBVIOUS
<1> HIDE DEF v
<1> QED BY <1>4, <1>5, <1>6, <1>7

\* x comes before y: by priority, or because it was loaded first.
Ahead(x, y, E, K) ==
  \/ Priority[x] < Priority[y]
  \/ /\ Priority[x] = Priority[y]
     /\ \E a \in K : E[a].name = x /\ \A b \in K : E[b].name = y => a < b

\* The list c is what registering the entries K of E, in their order, gives.
Registered(c, E, K) ==
  /\ \A i \in DOMAIN c : \E m \in K : E[m].name = c[i].name
  /\ \A m \in K : \E i \in DOMAIN c : c[i].name = E[m].name
  /\ \A i \in DOMAIN c : \A m \in K :
       E[m].name = c[i].name /\ (\A l \in K : E[l].name = c[i].name => l <= m)
         => c[i].config = E[m].config
  /\ \A i, j \in DOMAIN c : i < j => Ahead(c[i].name, c[j].name, E, K)

LEMMA PriorityType == \A n \in DOMAIN Priority : Priority[n] \in Nat
BY DEF Priority

\* Registering one more entry.
LEMMA RegisterKeeps ==
  ASSUME NEW P, \A x \in P : x.name \in DOMAIN Priority,
         NEW c \in Seq(P), NEW p \in P, NEW E, NEW K \in SUBSET Nat, NEW m \in Nat,
         \A l \in K : l < m, E[m].name = p.name, E[m].config = p.config,
         Registered(c, E, K)
  PROVE  Registered(RegisterPlugin(c, p), E, K \union {m})
<1> DEFINE d == RegisterPlugin(c, p)
           M == K \union {m}
<1>0. /\ Len(c) \in Nat /\ DOMAIN c = 1 .. Len(c)
      /\ d \in Seq(P) /\ Len(d) \in Nat /\ DOMAIN d = 1 .. Len(d)
  <2>1. d \in Seq(P)
    BY RegisterShape
  <2> HIDE DEF d
  <2> QED BY <2>1
<1>1. \A i \in DOMAIN c : c[i].name \in DOMAIN Priority /\ Priority[c[i].name] \in Nat
  BY <1>0, PriorityType
<1>2. p.name \in DOMAIN Priority /\ Priority[p.name] \in Nat
  BY PriorityType
<1>4. ASSUME NEW x, NEW y, Ahead(x, y, E, K) PROVE Ahead(x, y, E, M)
  <2>1. CASE Priority[x] < Priority[y]
    BY <2>1 DEF Ahead
  <2>2. CASE ~(Priority[x] < Priority[y])
    <3>1. /\ Priority[x] = Priority[y]
          /\ \E a \in K : E[a].name = x /\ \A b \in K : E[b].name = y => a < b
      BY <1>4, <2>2 DEF Ahead
    <3>2. PICK a \in K : E[a].name = x /\ \A b \in K : E[b].name = y => a < b
      BY <3>1
    <3>3. a \in M /\ \A b \in M : E[b].name = y => a < b
      BY <3>2
    <3> QED BY <3>1, <3>2, <3>3 DEF Ahead
  <2> QED BY <2>1, <2>2
<1>5. CASE (\E i \in 1 .. Len(c) : c[i].name = p.name) /\ Replaced(d, c, p)
  <2>1. Len(d) = Len(c) /\ \A i \in 1 .. Len(c) : d[i] = IF c[i].name = p.name THEN p ELSE c[i]
    BY <1>5 DEF Replaced
  <2> HIDE DEF d
  <2>2. DOMAIN d = DOMAIN c /\ \A i \in DOMAIN c : d[i].name = c[i].name
    BY <1>0, <2>1
  <2>3. \A i \in DOMAIN d : \E l \in M : E[l].name = d[i].name
    BY <2>2 DEF Registered
  <2>4. \A l \in M : \E i \in DOMAIN d : d[i].name = E[l].name
    <3>1. \A l \in K : \E i \in DOMAIN d : d[i].name = E[l].name
      BY <2>2 DEF Registered
    <3>2. \E i \in DOMAIN d : d[i].name = E[m].name
      BY <1>0, <1>5, <2>2
    <3> QED BY <3>1, <3>2
  <2>5. ASSUME NEW i \in DOMAIN d, NEW l \in M, E[l].name = d[i].name,
               \A h \in M : E[h].name = d[i].name => h <= l
        PROVE  d[i].config = E[l].config
    <3>1. CASE c[i].name = p.name
      <4>1. d[i] = p
        BY <1>0, <2>1, <2>2, <3>1
      <4>2. m <= l
        BY <2>5, <4>1
      <4>3. l = m
        <5>1. l \in K => l < m /\ l \in Nat
          OBVIOUS
        <5> QED BY <4>2, <5>1
      <4> QED BY <4>1, <4>3
    <3>2. CASE c[i].name # p.name
      <4>1. d[i] = c[i]
        BY <1>0, <2>1, <2>2, <3>2
      <4>2. l \in K
        BY <2>5, <3>2, <4>1
      <4> QED BY <2>2, <2>5, <4>1, <4>2 DEF Registered
    <3> QED BY <3>1, <3>2
  <2>6. \A i, j \in DOMAIN d : i < j => Ahead(d[i].name, d[j].name, E, M)
    BY <1>4, <2>2 DEF Registered
  <2> QED BY <2>3, <2>4, <2>5, <2>6 DEF Registered, d
<1>6. CASE (\A i \in 1 .. Len(c) : c[i].name # p.name) /\ Inserted(d, c, p)
  <2>1. PICK k \in 1 .. Len(c) + 1 :
          /\ \A i \in 1 .. Len(c) + 1 : d[i] = IF i < k THEN c[i] ELSE IF i = k THEN p ELSE c[i - 1]
          /\ \A i \in 1 .. k - 1 : ~(Priority[c[i].name] > Priority[p.name])
          /\ k <= Len(c) => Priority[c[k].name] > Priority[p.name]
    BY <1>6 DEF Inserted
  <2>2. DOMAIN d = 1 .. Len(c) + 1
    BY <1>0, <1>6 DEF Inserted
  <2> HIDE DEF d
  <2>3. \A b \in K : E[b].name # p.name
    BY <1>0, <1>6 DEF Registered
  <2>4. \A i \in DOMAIN d : \/ i < k /\ i \in DOMAIN c /\ d[i] = c[i]
                            \/ i = k /\ d[i] = p
                            \/ i > k /\ i - 1 \in DOMAIN c /\ d[i] = c[i - 1]
    BY <1>0, <2>1, <2>2
  <2>5. \A i \in DOMAIN d : \E l \in M : E[l].name = d[i].name
    <3>1. \A i \in DOMAIN c : \E l \in M : E[l].name = c[i].name
      BY DEF Registered
    <3>2. E[m].name = p.name /\ m \in M
      OBVIOUS
    <3> QED BY <2>4, <3>1, <3>2
  <2>6. \A l \in M : \E i \in DOMAIN d : d[i].name = E[l].name
    <3> SUFFICES ASSUME NEW l \in M PROVE \E i \in DOMAIN d : d[i].name = E[l].name
      OBVIOUS
    <3>1. CASE l = m
      BY <2>1, <2>2, <3>1
    <3>2. CASE l \in K
      <4>1. PICK i \in DOMAIN c : c[i].name = E[l].name
        BY <3>2 DEF Registered
      <4>2. CASE i < k
        BY <1>0, <2>1, <2>2, <4>1, <4>2
      <4>3. CASE ~(i < k)
        <5>1. i + 1 \in DOMAIN d /\ d[i + 1] = c[i]
          BY <1>0, <2>1, <2>2, <4>3
        <5> QED BY <4>1, <5>1
      <4> QED BY <4>2, <4>3
    <3> QED BY <3>1, <3>2
  <2>7. ASSUME NEW i \in DOMAIN d, NEW l \in M, E[l].name = d[i].name,
               \A h \in M : E[h].name = d[i].name => h <= l
        PROVE  d[i].config = E[l].config
    <3>1. CASE d[i] = p
      <4>1. l = m
        BY <2>3, <2>7, <3>1
      <4> QED BY <3>1, <4>1
    <3>2. CASE \E j \in DOMAIN c : d[i] = c[j]
      <4>1. PICK j \in DOMAIN c : d[i] = c[j]
        BY <3>2
      <4>2. l \in K
        BY <1>0, <1>6, <2>7, <4>1
      <4> QED BY <2>7, <4>1, <4>2 DEF Registered
    <3> QED BY <2>4, <3>1, <3>2
  <2>8. ASSUME NEW i \in DOMAIN d, NEW j \in DOMAIN d, i < j
        PROVE  Ahead(d[i].name, d[j].name, E, M)
    <3>0. i \in Nat /\ j \in Nat /\ k \in Nat
      BY <1>0, <2>2
    <3>1. CASE i # k /\ j # k
      <4>1. PICK a, b \in DOMAIN c : a < b /\ d[i] = c[a] /\ d[j] = c[b]
        <5> DEFINE f(x) == IF x < k THEN x ELSE x - 1
        <5>1. f(i) \in DOMAIN c /\ d[i] = c[f(i)] /\ f(j) \in DOMAIN c /\ d[j] = c[f(j)]
          BY <2>4, <3>0, <3>1
        <5>2. f(i) < f(j)
          BY <2>8, <3>0, <3>1
        <5> QED BY <5>1, <5>2
      <4>2. Ahead(c[a].name, c[b].name, E, K)
        BY <4>1 DEF Registered
      <4> QED BY <1>4, <4>1, <4>2
    <3>2. CASE j = k
      <4>1. i \in DOMAIN c /\ d[i] = c[i] /\ d[j] = p /\ i \in 1 .. k - 1
        BY <2>4, <2>8, <3>0, <3>2
      <4>2. Priority[c[i].name] <= Priority[p.name]
        BY <1>1, <1>2, <2>1, <4>1
      <4>3. CASE Priority[c[i].name] < Priority[p.name]
        BY <4>1, <4>3 DEF Ahead
      <4>4. CASE Priority[c[i].name] = Priority[p.name]
        <5>1. PICK a \in K : E[a].name = c[i].name
          BY <4>1 DEF Registered
        <5>2. a \in M /\ \A b \in M : E[b].name = p.name => a < b
          BY <2>3
        <5> QED BY <4>1, <4>4, <5>1, <5>2 DEF Ahead
      <4> QED BY <1>1, <1>2, <4>1, <4>2, <4>3, <4>4
    <3>3. CASE i = k
      <4>1. d[i] = p /\ j - 1 \in DOMAIN c /\ d[j] = c[j - 1] /\ j - 1 >= k
        BY <2>4, <2>8, <3>0, <3>3
      <4>2. k \in DOMAIN c /\ Priority[c[k].name] > Priority[p.name]
        BY <1>0, <2>1, <3>0, <4>1
      <4>3. Priority[c[j - 1].name] >= Priority[c[k].name]
        <5>1. CASE j - 1 = k
          BY <1>1, <4>2, <5>1
        <5>2. CASE k < j - 1
          <6>1. Ahead(c[k].name, c[j - 1].name, E, K)
            BY <4>1, <4>2, <5>2 DEF Registered
          <6> QED BY <1>1, <4>1, <4>2, <6>1 DEF Ahead
        <5> QED BY <3>0, <4>1, <5>1, <5>2
      <4>4. Priority[p.name] < Priority[c[j - 1].name]
        BY <1>1, <1>2, <4>1, <4>2, <4>3
      <4> QED BY <4>1, <4>4 DEF Ahead
    <3> QED BY <3>1, <3>2, <3>3
  <2> QED BY <2>5, <2>6, <2>7, <2>8 DEF Registered, d
<1>7. \/ (\E i \in 1 .. Len(c) : c[i].name = p.name) /\ Replaced(d, c, p)
      \/ (\A i \in 1 .. Len(c) : c[i].name # p.name) /\ Inserted(d, c, p)
  BY RegisterShape, Zenon
<1> QED BY <1>5, <1>6, <1>7, Zenon

----------------------------------------------------------------------------
(* The list that is built, plugin by plugin.                               *)

\* All entries of a handler's configuration, and those that are registered.
Entries(global, own) == Levels(global, own) \o <<ResponseHandler>>
Taken(global, own) ==
  {i \in DOMAIN Entries(global, own) :
     i = Len(Entries(global, own)) \/ Loadable(Entries(global, own)[i])}

\* What they are in the list.
Plugins(global, own) ==
  {[name |-> Entries(global, own)[i].name, config |-> Entries(global, own)[i].config] :
     i \in Taken(global, own)}

LEMMA LevelsAre ==
  ASSUME NEW global \in Gens, NEW own \in Gens
  PROVE  /\ Len(Levels(global, own)) \in Nat
         /\ DOMAIN Levels(global, own) = 1 .. Len(Levels(global, own))
         /\ DOMAIN Entries(global, own) = 1 .. Len(Levels(global, own)) + 1
         /\ Len(Entries(global, own)) = Len(Levels(global, own)) + 1
         /\ \A i \in 1 .. Len(Levels(global, own)) :
              /\ Entries(global, own)[i] = Levels(global, own)[i]
              /\ Loadable(Levels(global, own)[i]) =>
                   Valid(Levels(global, own)[i].name, Levels(global, own)[i].config)
         /\ Entries(global, own)[Len(Levels(global, own)) + 1] = ResponseHandler
<1> DEFINE a == Configs[global].plugins
           b == Configs[own].route
           c == Configs[own].service
           L == Levels(global, own)
           Ok(p) == Loadable(p) => Valid(p.name, p.config)
           Good(s) == s \in Seq({s[i] : i \in DOMAIN s}) /\ \A i \in DOMAIN s : Ok(s[i])
<1>1. Good(a) /\ Good(b) /\ Good(c)
  BY ConfigAssumption
<1> HIDE DEF a, b, c, Ok
<1> DEFINE A == {a[i] : i \in DOMAIN a}
           B == {b[i] : i \in DOMAIN b}
           C == {c[i] : i \in DOMAIN c}
           S == A \union B \union C
<1>2. \A p \in S : Ok(p)
  BY <1>1
<1>3. a \in Seq(S) /\ b \in Seq(S) /\ c \in Seq(S)
  <2>1. a \in Seq(A) /\ b \in Seq(B) /\ c \in Seq(C)
    BY <1>1
  <2>2. A \subseteq S /\ B \subseteq S /\ C \subseteq S
    OBVIOUS
  <2> HIDE DEF A, B, C, S
  <2> QED BY <2>1, <2>2, SeqMonotonic
<1> HIDE DEF S
<1>4. L \in Seq(S)
  <2>1. L = (a \o b) \o c
    BY DEF L, Levels, a, b, c
  <2> QED BY <1>3, <2>1
<1>5. Entries(global, own) = L \o <<ResponseHandler>>
  BY DEF Entries
<1> HIDE DEF L
<1> DEFINE T == S \union {ResponseHandler}
<1>6. L \in Seq(T) /\ <<ResponseHandler>> \in Seq(T) /\ Len(<<ResponseHandler>>) = 1
  <2>1. S \subseteq T /\ ResponseHandler \in T
    OBVIOUS
  <2> HIDE DEF T
  <2> QED BY <1>4, <2>1, SeqMonotonic
<1> DEFINE E == L \o <<ResponseHandler>>
<1>7. /\ E \in Seq(T) /\ Len(E) = Len(L) + 1
      /\ \A i \in 1 .. Len(L) + 1 : E[i] = IF i <= Len(L) THEN L[i] ELSE <<ResponseHandler>>[i - Len(L)]
  <2> HIDE DEF T
  <2> QED BY <1>6, ConcatProperties
<1>8. Len(L) \in Nat /\ DOMAIN L = 1 .. Len(L) /\ \A i \in 1 .. Len(L) : L[i] \in S
  BY <1>4
<1> HIDE DEF E, T
<1>9. DOMAIN E = 1 .. Len(L) + 1
  BY <1>7, <1>8
<1>10. \A i \in 1 .. Len(L) : E[i] = L[i] /\ Ok(L[i])
  BY <1>2, <1>7, <1>8
<1>11. E[Len(L) + 1] = ResponseHandler
  <2>1. Len(L) + 1 - Len(L) = 1 /\ ~(Len(L) + 1 <= Len(L)) /\ Len(L) + 1 \in 1 .. Len(L) + 1
    BY <1>8
  <2>2. E[Len(L) + 1] = <<ResponseHandler>>[Len(L) + 1 - Len(L)]
    BY <1>7, <2>1
  <2>3. <<ResponseHandler>>[1] = ResponseHandler
    OBVIOUS
  <2> QED BY <2>1, <2>2, <2>3, Zenon
<1>12. Entries(global, own) = E /\ Levels(global, own) = L
  BY <1>5 DEF E, L
<1> QED BY <1>7, <1>8, <1>9, <1>10, <1>11, <1>12 DEF Ok

LEMMA EmptyRegistered ==
  ASSUME NEW E PROVE Registered(<<>>, E, {})
BY DEF Registered

LEMMA TakenAre ==
  ASSUME NEW global \in Gens, NEW own \in Gens
  PROVE  \A x \in Plugins(global, own) : x.name \in DOMAIN Priority /\ Valid(x.name, x.config)
<1> DEFINE E == Entries(global, own)
<1>1. \A i \in Taken(global, own) : E[i].name \in DOMAIN Priority /\ Valid(E[i].name, E[i].config)
  <2> SUFFICES ASSUME NEW i \in Taken(global, own)
               PROVE  E[i].name \in DOMAIN Priority /\ Valid(E[i].name, E[i].config)
    OBVIOUS
  <2>1. CASE i = Len(E)
    <3>1. E[i] = ResponseHandler
      BY <2>1, LevelsAre
    <3> QED BY <3>1 DEF ResponseHandler, Priority, Valid
  <2>2. CASE i # Len(E)
    <3>1. i \in 1 .. Len(Levels(global, own)) /\ Loadable(E[i])
      BY <2>2, LevelsAre DEF Taken
    <3>2. Valid(E[i].name, E[i].config)
      BY <3>1, LevelsAre
    <3>3. E[i].name \in DOMAIN Priority
      BY <3>1 DEF Loadable
    <3> QED BY <3>2, <3>3
  <2> QED BY <2>1, <2>2
<1> HIDE DEF E
<1>2. Plugins(global, own) = {[name |-> E[i].name, config |-> E[i].config] : i \in Taken(global, own)}
  BY DEF Plugins, E
<1> QED BY <1>1, <1>2

(***************************************************************************)
(* The list that createHandlerForRoute builds.                             *)
(***************************************************************************)
LEMMA ChainRegistered ==
  ASSUME NEW global \in Gens, NEW own \in Gens
  PROVE  /\ Chains[global][own] \in Seq(Plugins(global, own))
         /\ Registered(Chains[global][own], Entries(global, own), Taken(global, own))
<1> DEFINE L == Levels(global, own)
           n == Len(L)
           E == Entries(global, own)
           P == Plugins(global, own)
           K(i) == {l \in Taken(global, own) : l <= i}
           pl(i) == [name |-> E[i].name, config |-> E[i].config]
<1>1. /\ n \in Nat /\ DOMAIN L = 1 .. n /\ DOMAIN E = 1 .. n + 1 /\ Len(E) = n + 1
      /\ \A i \in 1 .. n : E[i] = L[i]
      /\ E[n + 1] = ResponseHandler
  BY LevelsAre
<1>2. Taken(global, own) = {i \in 1 .. n : Loadable(E[i])} \union {n + 1}
  <2> HIDE DEF E, L
  <2>1. Taken(global, own) = {i \in DOMAIN E : i = Len(E) \/ Loadable(E[i])}
    BY DEF Taken, E
  <2> QED BY <1>1, <2>1
<1>3. \A i \in Taken(global, own) : pl(i) \in P
  BY DEF Plugins
<1>4. \A x \in P : x.name \in DOMAIN Priority
  BY TakenAre
<1>5. PICK v : /\ v[0] = <<>>
               /\ \A i \in 1 .. n : v[i] = loadConfig(v[i - 1], L[i])
               /\ FoldLeft(loadConfig, <<>>, L) = v[n]
  <2> HIDE DEF n, L
  <2> QED BY <1>1, LoadSteps
<1>6. Chains[global][own] = RegisterPlugin(v[n], ResponseHandler)
  BY <1>5 DEF Chains, createHandlerForRoute
<1> HIDE DEF L, n, E, P
<1>7. ASSUME NEW c \in Seq(P), NEW i \in 1 .. n + 1, i \in Taken(global, own), Registered(c, E, K(i - 1))
      PROVE  /\ RegisterPlugin(c, pl(i)) \in Seq(P)
             /\ Registered(RegisterPlugin(c, pl(i)), E, K(i))
  <2>1. K(i) = K(i - 1) \union {i} /\ K(i - 1) \in SUBSET Nat /\ (\A l \in K(i - 1) : l < i) /\ i \in Nat
    BY <1>1, <1>2, <1>7
  <2>2. pl(i) \in P /\ pl(i).name = E[i].name /\ pl(i).config = E[i].config
    BY <1>3, <1>7
  <2> HIDE DEF pl, K
  <2>3. RegisterPlugin(c, pl(i)) \in Seq(P)
    BY <2>2, RegisterShape
  <2>4. Registered(RegisterPlugin(c, pl(i)), E, K(i - 1) \union {i})
    BY <1>4, <1>7, <2>1, <2>2, RegisterKeeps
  <2> QED BY <2>1, <2>3, <2>4
<1> DEFINE Q == {i \in Nat : i <= n => v[i] \in Seq(P) /\ Registered(v[i], E, K(i))}
<1>8. 0 \in Q
  <2>1. K(0) = {}
    BY <1>1, <1>2
  <2> HIDE DEF K
  <2>2. Registered(v[0], E, K(0))
    BY <1>5, <2>1, EmptyRegistered
  <2>3. v[0] \in Seq(P)
    BY <1>5
  <2> QED BY <2>2, <2>3
<1>9. ASSUME NEW j \in Q PROVE j + 1 \in Q
  <2>0. j \in Nat
    OBVIOUS
  <2> DEFINE i == j + 1
  <2> SUFFICES ASSUME i <= n PROVE v[i] \in Seq(P) /\ Registered(v[i], E, K(i))
    <3> HIDE DEF K
    <3> QED BY <2>0
  <2>1. v[j] \in Seq(P) /\ Registered(v[j], E, K(j))
    <3> HIDE DEF K
    <3> QED BY <1>1, <2>0
  <2>2. i \in 1 .. n /\ i - 1 = j /\ i \in 1 .. n + 1
    BY <1>1, <2>0
  <2> HIDE DEF i
  <2>3. v[i] = loadConfig(v[j], E[i])
    BY <1>1, <1>5, <2>2
  <2>4. CASE Loadable(E[i])
    <3>1. i \in Taken(global, own)
      BY <1>2, <2>2, <2>4
    <3>2. v[i] = RegisterPlugin(v[j], pl(i))
      BY <2>3, <2>4 DEF loadConfig
    <3> HIDE DEF pl, K
    <3> QED BY <1>7, <2>1, <2>2, <3>1, <3>2
  <2>5. CASE ~Loadable(E[i])
    <3>1. v[i] = v[j]
      BY <2>3, <2>5 DEF loadConfig
    <3>2. i \notin Taken(global, own)
      BY <1>1, <1>2, <2>2, <2>5
    <3>3. K(i) = K(j)
      BY <1>1, <1>2, <2>0, <2>2, <3>2
    <3> HIDE DEF K
    <3> QED BY <2>1, <3>1, <3>3
  <2> QED BY <2>4, <2>5
<1>10. Q = Nat
  <2> HIDE DEF Q
  <2>1. Q \in SUBSET Nat BY DEF Q
  <2> QED BY <1>8, <1>9, <2>1, SetInduction
<1>11. v[n] \in Seq(P) /\ Registered(v[n], E, K(n))
  <2>1. n \in Q
    <3> HIDE DEF Q
    <3> QED BY <1>1, <1>10
  <2> HIDE DEF K
  <2> QED BY <1>1, <2>1
<1>12. n + 1 \in Taken(global, own) /\ n + 1 \in 1 .. n + 1 /\ n + 1 - 1 = n
  BY <1>1, <1>2
<1>13. K(n + 1) = Taken(global, own)
  BY <1>1, <1>2
<1>14. pl(n + 1) = ResponseHandler
  BY <1>1 DEF ResponseHandler
<1> HIDE DEF K, pl
<1>15. /\ RegisterPlugin(v[n], pl(n + 1)) \in Seq(P)
       /\ Registered(RegisterPlugin(v[n], pl(n + 1)), E, K(n + 1))
  <2> DEFINE c == v[n]
             m == n + 1
  <2>1. m - 1 = n /\ m \in 1 .. n + 1 /\ m \in Taken(global, own)
    BY <1>1, <1>12
  <2>2. c \in Seq(P) /\ Registered(c, E, K(m - 1))
    BY <1>11, <2>1, Zenon
  <2> HIDE DEF c, m
  <2>3. RegisterPlugin(c, pl(m)) \in Seq(P) /\ Registered(RegisterPlugin(c, pl(m)), E, K(m))
    BY <1>7, <2>1, <2>2
  <2> QED BY <2>3 DEF c, m
<1> QED BY <1>6, <1>13, <1>14, <1>15 DEF E, P

----------------------------------------------------------------------------
(* Reloads.                                                                *)

\* No plugin is in a list twice, and the list is sorted by priority.
LEMMA ChainSorted ==
  ASSUME NEW global \in Gens, NEW own \in Gens
  PROVE  LET c == Chains[global][own] IN
         /\ Len(c) \in Nat /\ DOMAIN c = 1 .. Len(c)
         /\ \A i \in 1 .. Len(c) : /\ c[i].name \in DOMAIN Priority
                                   /\ Valid(c[i].name, c[i].config)
         /\ \A i, j \in 1 .. Len(c) : i < j => /\ c[i].name # c[j].name
                                              /\ Priority[c[i].name] <= Priority[c[j].name]
<1> DEFINE c == Chains[global][own]
           P == Plugins(global, own)
           E == Entries(global, own)
           K == Taken(global, own)
<1>1. c \in Seq(P) /\ Registered(c, E, K)
  BY ChainRegistered
<1>2. \A x \in P : x.name \in DOMAIN Priority /\ Valid(x.name, x.config)
  BY TakenAre
<1>3. K \in SUBSET Nat
  BY LevelsAre DEF Taken
<1> HIDE DEF c, P, E, K
<1>4. Len(c) \in Nat /\ DOMAIN c = 1 .. Len(c) /\ \A i \in 1 .. Len(c) : c[i] \in P
  BY <1>1
<1>5. ASSUME NEW i \in 1 .. Len(c), NEW j \in 1 .. Len(c), i < j
      PROVE  c[i].name # c[j].name /\ Priority[c[i].name] <= Priority[c[j].name]
  <2>1. Ahead(c[i].name, c[j].name, E, K)
    BY <1>1, <1>4, <1>5 DEF Registered
  <2>2. Priority[c[i].name] \in Nat /\ Priority[c[j].name] \in Nat
    BY <1>2, <1>4, PriorityType
  <2>3. c[i].name # c[j].name
    BY <1>3, <2>1, <2>2 DEF Ahead
  <2>4. Priority[c[i].name] <= Priority[c[j].name]
    BY <2>1, <2>2 DEF Ahead
  <2> QED BY <2>3, <2>4
<1> QED BY <1>2, <1>4, <1>5 DEF c

\* Built for one configuration, it is the list of that configuration.
LEMMA ChainIsOf ==
  ASSUME NEW g \in Gens
  PROVE  IsChainOf(Chains[g][g], g)
<1> DEFINE c == Chains[g][g]
           E == Entries(g, g)
           K == Taken(g, g)
           n == Len(Levels(g, g)) + 1
           At(x) == {i \in DOMAIN E : E[i].name = x /\ (i = Len(E) \/ Loadable(E[i]))}
<1>1. Registered(c, E, K)
  BY ChainRegistered
<1>2. n \in Nat /\ DOMAIN E = 1 .. n /\ K \in SUBSET (1 .. n)
  BY LevelsAre DEF Taken
<1>3. \A x : At(x) = {i \in K : E[i].name = x}
  BY DEF Taken
<1>4. \A i \in DOMAIN c : c[i].name \in DOMAIN Priority
  BY ChainSorted
<1>5. \A i \in K : E[i].name \in DOMAIN Priority
  <2>1. ASSUME NEW i \in K PROVE E[i].name \in DOMAIN Priority
    <3> DEFINE p == [name |-> E[i].name, config |-> E[i].config]
    <3>1. p \in Plugins(g, g)
      BY DEF Plugins
    <3>2. p.name \in DOMAIN Priority
      BY <3>1, TakenAre
    <3> QED BY <3>2
  <2> QED BY <2>1
<1>6. IsChainOf(c, g) <=>
        /\ {c[i].name : i \in DOMAIN c} = {x \in DOMAIN Priority : At(x) # {}}
        /\ \A i \in DOMAIN c : c[i].config = E[Max(At(c[i].name))].config
        /\ \A i, j \in DOMAIN c :
             i < j => \/ Priority[c[i].name] < Priority[c[j].name]
                      \/ /\ Priority[c[i].name] = Priority[c[j].name]
                         /\ Min(At(c[i].name)) < Min(At(c[j].name))
  BY Zenon DEF IsChainOf, Entries
<1> HIDE DEF c, E, K, n
<1>8. \A x : /\ At(x) \in SUBSET (1 .. n) /\ At(x) \in SUBSET Nat
             /\ \A i : i \in At(x) <=> i \in K /\ E[i].name = x
  BY <1>2, <1>3
<1> HIDE DEF At
<1>7. {c[i].name : i \in DOMAIN c} = {x \in DOMAIN Priority : At(x) # {}}
  <2>1. \A i \in DOMAIN c : At(c[i].name) # {}
    BY <1>1, <1>8 DEF Registered
  <2>2. \A x : At(x) # {} => \E i \in DOMAIN c : c[i].name = x
    BY <1>1, <1>8 DEF Registered
  <2> QED BY <1>4, <2>1, <2>2
<1>9. ASSUME NEW i \in DOMAIN c PROVE At(c[i].name) # {}
  BY <1>1, <1>8 DEF Registered
<1>10. ASSUME NEW i \in DOMAIN c PROVE c[i].config = E[Max(At(c[i].name))].config
  <2> DEFINE A == At(c[i].name)
             m == Max(A)
  <2>1. A # {} /\ A \in SUBSET (1 .. n)
    BY <1>8, <1>9
  <2> HIDE DEF A
  <2>2. m \in A /\ \A y \in A : m >= y
    BY <1>2, <2>1, MaxIn
  <2> HIDE DEF m
  <2>3. m \in K /\ E[m].name = c[i].name
    BY <1>8, <2>2 DEF A
  <2>4. \A l \in K : E[l].name = c[i].name => l <= m
    <3>1. \A l \in A : l \in Nat
      BY <1>8 DEF A
    <3>2. \A l \in K : E[l].name = c[i].name => l \in A
      BY <1>8 DEF A
    <3> QED BY <2>2, <3>1, <3>2
  <2>5. c[i].config = E[m].config
    BY <1>1, <2>3, <2>4 DEF Registered
  <2> QED BY <2>5 DEF m, A
<1>11. ASSUME NEW i \in DOMAIN c, NEW j \in DOMAIN c, i < j,
              ~(Priority[c[i].name] < Priority[c[j].name])
       PROVE  /\ Priority[c[i].name] = Priority[c[j].name]
              /\ Min(At(c[i].name)) < Min(At(c[j].name))
  <2>1. Ahead(c[i].name, c[j].name, E, K)
    BY <1>1, <1>11 DEF Registered
  <2>2. /\ Priority[c[i].name] = Priority[c[j].name]
        /\ \E a \in K : E[a].name = c[i].name /\ \A b \in K : E[b].name = c[j].name => a < b
    BY <1>11, <2>1 DEF Ahead
  <2>3. PICK a \in K : E[a].name = c[i].name /\ \A b \in K : E[b].name = c[j].name => a < b
    BY <2>2
  <2> DEFINE A == At(c[i].name)
             B == At(c[j].name)
  <2>4. A \in SUBSET Nat /\ B \in SUBSET Nat /\ A # {} /\ B # {}
    BY <1>8, <1>9
  <2>5. a \in A /\ \A b \in B : a < b
    BY <1>8, <2>3
  <2> HIDE DEF A, B
  <2>6. Min(A) \in A /\ (\A x \in A : Min(A) <= x) /\ Min(B) \in B
    BY <2>4, MinIs
  <2>7. Min(A) < Min(B)
    <3>1. Min(A) <= a /\ a < Min(B)
      BY <2>5, <2>6
    <3>2. Min(A) \in Nat /\ a \in Nat /\ Min(B) \in Nat
      BY <2>4, <2>5, <2>6
    <3> QED BY <3>1, <3>2
  <2> QED BY <2>2, <2>7 DEF A, B
<1> QED BY <1>6, <1>7, <1>10, <1>11 DEF c

\* What reloads leave: a router is never newer than what is installed, and
\* the newest one has all of its configuration.
ReloadInv ==
  /\ installed \in Gens
  /\ reloading \subseteq {g \in Gens : g <= installed}
  /\ router \in [global : Gens, own : Gens]
  /\ router.own <= installed
  /\ router.own = installed => router.global = installed

LEMMA ReloadStep == ReloadInv /\ [Next]_vars => ReloadInv'
<1> SUFFICES ASSUME ReloadInv, [Next]_vars PROVE ReloadInv'
  OBVIOUS
<1> USE DEF ReloadInv, Gens
<1>0. Len(Configs) \in Nat
  BY ConfigAssumption
<1>1. ASSUME NEW g \in Gens, Install(g) PROVE ReloadInv'
  BY <1>0, <1>1 DEF Install
<1>2. ASSUME NEW g \in Gens, UpdateRouter(g) PROVE ReloadInv'
  BY <1>0, <1>2 DEF UpdateRouter, Built
<1>3. CASE UNCHANGED chainVars
  BY <1>3 DEF chainVars
<1>4. ASSUME NEW r \in Requests, Step(r) PROVE UNCHANGED chainVars
  BY <1>4 DEF Step, Enter, Filter, LimitRate, CacheMiss, CacheHit, CacheStore, BreakerEnter,
     BreakerLeave, ProxyPass, HandleAggregation, AggregationStep, Merge, SendLog, Respond
<1>5. ASSUME NEW s \in stores, StoreInCache(s) PROVE UNCHANGED chainVars
  BY <1>5 DEF StoreInCache
<1>6. ASSUME NEW uri \in Uris, Expire(uri) PROVE UNCHANGED chainVars
  BY <1>6 DEF Expire
<1>7. BreakerTimeout \/ UNCHANGED vars => UNCHANGED chainVars
  BY DEF BreakerTimeout, vars
<1> QED BY <1>1, <1>2, <1>3, <1>4, <1>5, <1>6, <1>7 DEF Next

LEMMA ReloadInvariant == Spec => []ReloadInv
<1>1. Init => ReloadInv
  BY ConfigAssumption DEF Init, ReloadInv, Gens
<1> QED BY <1>1, ReloadStep, PTL DEF Spec

(***************************************************************************)
(* Whatever reloads overlap: a router that is built for the configuration  *)
(* installed now has the list of that configuration, each plugin once, in  *)
(* order, and with the settings that win (createHandlerForRoute).          *)
(***************************************************************************)
THEOREM ChainsMatchConfig == Spec => []ChainMatchesConfig
<1>1. \A global, own \in Gens : Faithful[global][own] = IsChainOf(Chains[global][own], own)
  BY DEF Faithful
<1>2. ReloadInv => ChainMatchesConfig
  <2> SUFFICES ASSUME ReloadInv, router.own = installed
               PROVE  Faithful[router.global][router.own]
    BY DEF ChainMatchesConfig
  <2>1. installed \in Gens /\ router.global = installed
    BY DEF ReloadInv
  <2>2. Faithful[installed][installed]
    BY <1>1, <2>1, ChainIsOf, Zenon
  <2> QED BY <2>1, <2>2
<1> QED BY <1>2, ReloadInvariant, PTL

----------------------------------------------------------------------------
(* The invariants of a request on its way.                                 *)

\* The chains that a request can be in.
Routers == [global : Gens, own : Gens]

\* A request as a plugin may leave it.
IsRequest(q) ==
  /\ q = [f \in DOMAIN q |-> q[f]]
  /\ {"method", "uri"} \subseteq DOMAIN q
  /\ q.uri \in Uris

\* Where a request can be.
Place(r) ==
  /\ pc[r] = "new" => pos[r] = 0
  /\ pos[r] # 0 => mine[r] \in Routers /\ IsRequest(req[r])
  /\ pc[r] = "down" => pos[r] \in 1 .. Len(Chain(r)) + 1
  /\ pc[r] = "calling" => pos[r] = Len(Chain(r)) + 1 /\ pos[r] # 0
  /\ pc[r] = "up" /\ pos[r] # 0 => pos[r] <= Len(Chain(r)) /\ Here(r).name \in Responding

PlaceInv ==
  /\ installed \in Gens /\ router \in Routers
  /\ pc \in [Requests -> {"new", "down", "up", "calling"}]
  /\ pos \in [Requests -> Nat]
  /\ mine \in [Requests -> [global : Gens \union {0}, own : Gens \union {0}]]
  /\ req = [r \in Requests |-> req[r]]
  /\ \A r \in Requests : Place(r)

\* What a cache may keep.
Cacheable(x) ==
  x.backend /\ x.status \in 200 .. 299 /\ (CacheControlRespected => x.plain)

\* A success on its way up is a backend's, or has no cache before it.
Served(r) ==
  pc[r] = "up" /\ resp[r].status \in 200 .. 299 /\ ~resp[r].backend =>
    \A i \in 1 .. pos[r] : Name(r, i) # "cache"

AnswersInv == resp \in [Requests -> Responses] /\ \A r \in Requests : Served(r)

KeptInv ==
  /\ cache \in [Uris -> Responses]
  /\ \A u \in Uris : cache[u] = NoResponse \/ Cacheable(cache[u])
  /\ \A s \in stores : s.uri \in Uris /\ s.resp \in Responses /\ Cacheable(s.resp)

ServedInv == AnswersInv /\ KeptInv

BreakerOK(b) ==
  /\ b \in [state : {"none", "closed", "halfopen", "open"}, reqs : Nat, cfails : Nat,
            csucc : Nat, current : SUBSET Requests, trip : Nat, max : Nat]
  /\ b.reqs <= b.max /\ b.cfails <= b.trip
  /\ IsFiniteSet(b.current)
  /\ b.state = "halfopen" => b.reqs = b.csucc + Cardinality(b.current)

ProbeInv ==
  /\ BreakerOK(brk)
  /\ \A r \in brk.current : BelowBreaker(r)

\* The headers that a strategy may leave behind.
Stripped(q) ==
  {q, [q EXCEPT !.auth = NoAuth],
      [q EXCEPT !.header = [n \in DOMAIN q.header |->
         IF n \in {"X-API-Key", "apiKey"} THEN "" ELSE q.header[n]]]}

\* A strategy that fails leaves the request as it was.
LEMMA AttemptIs ==
  ASSUME NEW c, NEW s \in Strategies, NEW q, NEW people
  PROVE  \/ Attempt(c, s, q, people).status = 0 /\ Attempt(c, s, q, people).req \in Stripped(q)
         \/ Attempt(c, s, q, people) = Reject(q, 401)
         \/ Attempt(c, s, q, people) = Reject(q, 500)
<1> USE DEF Stripped
<1>1. ASSUME NEW d, NEW t PROVE validateWithCredentials(d, t) \in {0, 401, 500}
  BY DEF validateWithCredentials
<1>2. ASSUME NEW d, NEW t PROVE validateToken(d, t, people) \in {0, 401, 500}
  <2>1. CASE t.parses /\ t.iss \in DOMAIN people.secrets
    <3>1. validateToken(d, t, people) = validateWithCredentials(people.secrets[t.iss], t)
      BY <2>1, Zenon DEF validateToken
    <3> QED BY <1>1, <3>1
  <2>2. CASE ~(t.parses /\ t.iss \in DOMAIN people.secrets)
    <3>1. \/ validateToken(d, t, people) = 401
          \/ validateToken(d, t, people) = validateWithCredentials(d, t)
      BY <2>2, Zenon DEF validateToken
    <3> QED BY <1>1, <3>1
  <2> QED BY <2>1, <2>2
<1>3. CASE s = "jwt"
  <2>1. Attempt(c, s, q, people) = Jwt(c.jwt, q, people)
    BY <1>3 DEF Attempt
  <2> DEFINE st == IF q.auth.words = 2 THEN validateToken(c.jwt, q.auth.token, people) ELSE 401
  <2>2. st \in {0, 401, 500}
    BY <1>2
  <2>3. Jwt(c.jwt, q, people) = IF st = 0 THEN Pass([q EXCEPT !.auth = NoAuth]) ELSE Reject(q, st)
    BY DEF Jwt
  <2> HIDE DEF st
  <2> QED BY <2>1, <2>2, <2>3 DEF Pass, Reject
<1>4. CASE s = "key_auth"
  <2>1. Attempt(c, s, q, people) = KeyAuth(c.key_auth, q, people)
    BY <1>4 DEF Attempt
  <2> DEFINE h == [n \in DOMAIN q.header |-> IF n \in {"X-API-Key", "apiKey"} THEN "" ELSE q.header[n]]
  <2>2. KeyAuth(c.key_auth, q, people) \in {Pass(q), Pass([q EXCEPT !.header = h]), Reject(q, 401)}
    <3> DEFINE k == extractAPIKey(c.key_auth, q)
    <3>1. KeyAuth(c.key_auth, q, people) =
            IF k # "" /\ validateAPIKey(c.key_auth, k, people)
            THEN Pass(IF c.key_auth.hide_credentials THEN [q EXCEPT !.header = h] ELSE q)
            ELSE Reject(q, 401)
      BY DEF KeyAuth
    <3> HIDE DEF h, k
    <3> QED BY <3>1, Zenon
  <2> HIDE DEF h
  <2>3. \A x : Pass(x).status = 0 /\ Pass(x).req = x
    BY DEF Pass
  <2>4. KeyAuth(c.key_auth, q, people) = Reject(q, 401)
        \/ (KeyAuth(c.key_auth, q, people).status = 0 /\
            KeyAuth(c.key_auth, q, people).req \in {q, [q EXCEPT !.header = h]})
    BY <2>2, <2>3
  <2> QED BY <2>1, <2>4 DEF h
<1>5. CASE s = "basic_auth"
  <2>1. Attempt(c, s, q, people) = BasicAuth(c.basic_auth, q)
    BY <1>5 DEF Attempt
  <2> QED BY <2>1 DEF BasicAuth, Pass, Reject
<1> QED BY <1>3, <1>4, <1>5 DEF Strategies

\* multi_auth tries its strategies one after the other.
LEMMA TrySteps ==
  ASSUME NEW n \in Nat, NEW c, DOMAIN c.strategies = 1 .. n, NEW q, NEW people
  PROVE  \E v : /\ v[0] = Reject(q, 401)
                /\ \A i \in 1 .. n :
                     v[i] = IF v[i - 1].status = 0 \/ c.strategies[i] \notin Strategies THEN v[i - 1]
                            ELSE Attempt(c, c.strategies[i], v[i - 1].req, people)
                /\ MultiAuth(c, q, people) = v[n]
<1> DEFINE op(out, s) == IF out.status = 0 \/ s \notin Strategies THEN out
                         ELSE Attempt(c, s, out.req, people)
           base == Reject(q, 401)
           D == {Reject(q, 401), Reject(q, 500)} \union {Attempt(c, s, q, people) : s \in Strategies}
           L == c.strategies
           F == [i \in 1 .. n |-> [x \in D |-> op(x, L[i])]]
           Folds(g) == g = [s \in SUBSET (1 .. n) |->
                              IF s = {} THEN base ELSE op(g[s \ {Max(s)}], L[Max(s)])]
<1>1. ASSUME NEW i \in 1 .. n, NEW x \in D PROVE op(x, L[i]) \in D
  <2>1. x.status = 0 \/ x.req = q
    <3>1. \A code : Reject(q, code).req = q
      BY DEF Reject
    <3>2. ASSUME NEW s \in Strategies, x = Attempt(c, s, q, people) PROVE x.status = 0 \/ x.req = q
      BY <3>1, <3>2, AttemptIs
    <3> QED BY <3>1, <3>2
  <2>2. CASE x.status = 0 \/ L[i] \notin Strategies
    BY <2>2
  <2>3. CASE x.status # 0 /\ L[i] \in Strategies
    BY <2>1, <2>3
  <2> QED BY <2>2, <2>3
<1>2. base \in D
  OBVIOUS
<1>3. MultiAuth(c, q, people) = (CHOOSE g : g = [s \in SUBSET (DOMAIN L) |->
                                   IF s = {} THEN base ELSE op(g[s \ {Max(s)}], L[Max(s)])])[DOMAIN L]
  BY DEF MultiAuth, FoldLeft, MapThenFoldSet
<1> HIDE DEF op, base, D
<1>4. \E g : Folds(g)
  <2>1. \A i \in 1 .. n : \A x \in D : F[i][x] \in D
    BY <1>1
  <2> HIDE DEF F
  <2>2. PICK g : IsFold(g, n, D, base, F)
    BY <1>2, <2>1, FoldExists
  <2>3. ASSUME NEW s \in SUBSET (1 .. n), s # {}
        PROVE  F[Max(s)][g[s \ {Max(s)}]] = op(g[s \ {Max(s)}], L[Max(s)])
    <3>1. Max(s) \in 1 .. n
      BY <2>3, MaxIn
    <3>2. g[s \ {Max(s)}] \in D
      BY <2>2 DEF IsFold
    <3> QED BY <3>1, <3>2 DEF F
  <2>4. Folds(g)
    BY <2>2, <2>3 DEF IsFold
  <2> QED BY <2>4
<1> DEFINE g == CHOOSE g : Folds(g)
<1>5. Folds(g)
  BY <1>4
<1>6. MultiAuth(c, q, people) = g[1 .. n]
  BY <1>3
<1> HIDE DEF g, L
<1> DEFINE v == [i \in 0 .. n |-> g[1 .. i]]
<1>7. v[0] = base
  BY <1>5
<1>8. ASSUME NEW i \in 1 .. n PROVE v[i] = op(v[i - 1], L[i])
  <2>1. Max(1 .. i) = i
    BY MaxOfInterval
  <2>2. (1 .. i) \ {i} = 1 .. i - 1 /\ 1 .. i # {} /\ 1 .. i \in SUBSET (1 .. n)
    <3>1. i \in Nat /\ n \in Nat /\ 1 <= i /\ i <= n
      OBVIOUS
    <3>2. i \in 1 .. i /\ 1 .. i \subseteq 1 .. n
      BY <3>1
    <3>3. (1 .. i) \ {i} = 1 .. i - 1
      BY <3>1
    <3> QED BY <3>2, <3>3
  <2>3. g[1 .. i] = op(g[(1 .. i) \ {Max(1 .. i)}], L[Max(1 .. i)])
    BY <1>5, <2>2
  <2>4. g[1 .. i] = op(g[1 .. i - 1], L[i])
    BY <2>1, <2>2, <2>3, Zenon
  <2> QED BY <2>4
<1>9. v[n] = g[1 .. n]
  OBVIOUS
<1> HIDE DEF v
<1>10. /\ v[0] = Reject(q, 401)
       /\ \A i \in 1 .. n :
            v[i] = IF v[i - 1].status = 0 \/ c.strategies[i] \notin Strategies THEN v[i - 1]
                   ELSE Attempt(c, c.strategies[i], v[i - 1].req, people)
       /\ MultiAuth(c, q, people) = v[n]
  BY <1>6, <1>7, <1>8, <1>9 DEF op, base, L
<1> QED BY <1>10

\* It says what the first strategy that passes says; if none does it rejects
\* the request, which is then as it was.
LEMMA MultiAuthIs ==
  ASSUME NEW c, c.strategies \in Seq(STRING), NEW q, NEW people
  PROVE  LET out == MultiAuth(c, q, people)
             Passes(i) == /\ c.strategies[i] \in Strategies
                          /\ Attempt(c, c.strategies[i], q, people).status = 0
         IN \/ \E i \in DOMAIN c.strategies :
                 Passes(i) /\ out = Attempt(c, c.strategies[i], q, people)
            \/ /\ \A i \in DOMAIN c.strategies : ~Passes(i)
               /\ out \in {Reject(q, 401), Reject(q, 500)}
<1> DEFINE n == Len(c.strategies)
           Passes(i) == /\ c.strategies[i] \in Strategies
                        /\ Attempt(c, c.strategies[i], q, people).status = 0
           At(i) == Attempt(c, c.strategies[i], q, people)
           Bad == {Reject(q, 401), Reject(q, 500)}
<1>1. n \in Nat /\ DOMAIN c.strategies = 1 .. n
  OBVIOUS
<1> HIDE DEF n
<1>2. PICK v : /\ v[0] = Reject(q, 401)
               /\ \A i \in 1 .. n :
                    v[i] = IF v[i - 1].status = 0 \/ c.strategies[i] \notin Strategies THEN v[i - 1]
                           ELSE Attempt(c, c.strategies[i], v[i - 1].req, people)
               /\ MultiAuth(c, q, people) = v[n]
  BY <1>1, TrySteps
<1> DEFINE J(k) == \/ \E i \in 1 .. k : Passes(i) /\ v[k] = At(i)
                   \/ (\A i \in 1 .. k : ~Passes(i)) /\ v[k] \in Bad
           Q == {k \in Nat : k <= n => J(k)}
<1>3. \A x \in Bad : x.status # 0 /\ x.req = q
  BY DEF Reject
<1>4. 0 \in Q
  BY <1>2
<1>5. ASSUME NEW k \in Q PROVE k + 1 \in Q
  <2>0. k \in Nat
    OBVIOUS
  <2> SUFFICES ASSUME k + 1 <= n PROVE J(k + 1)
    <3> HIDE DEF J
    <3> QED BY <2>0
  <2>1. J(k)
    <3> HIDE DEF J
    <3> QED BY <1>1, <2>0
  <2>2. k + 1 \in 1 .. n /\ k + 1 - 1 = k
    BY <1>1, <2>0
  <2>3. \A i \in 1 .. k : i \in 1 .. k + 1
    BY <2>0
  <2>4. k + 1 \in 1 .. k + 1 /\ \A i \in 1 .. k + 1 : i \in 1 .. k \/ i = k + 1
    BY <2>0
  <2>5. v[k + 1] = IF v[k].status = 0 \/ c.strategies[k + 1] \notin Strategies THEN v[k]
                   ELSE Attempt(c, c.strategies[k + 1], v[k].req, people)
    BY <1>2, <2>2
  <2> HIDE DEF Bad
  <2>6. CASE \E i \in 1 .. k : Passes(i) /\ v[k] = At(i)
    <3>1. v[k].status = 0
      BY <2>6
    <3>2. v[k + 1] = v[k]
      BY <2>5, <3>1
    <3> QED BY <2>3, <2>6, <3>2
  <2>7. CASE (\A i \in 1 .. k : ~Passes(i)) /\ v[k] \in Bad
    <3>1. v[k].status # 0 /\ v[k].req = q
      BY <1>3, <2>7
    <3>2. CASE c.strategies[k + 1] \notin Strategies
      <4>1. v[k + 1] = v[k] /\ ~Passes(k + 1)
        BY <2>5, <3>2
      <4> QED BY <2>4, <2>7, <4>1
    <3>3. CASE c.strategies[k + 1] \in Strategies
      <4>1. v[k + 1] = At(k + 1)
        BY <2>5, <3>1, <3>3
      <4>2. CASE At(k + 1).status = 0
        BY <2>4, <3>3, <4>1, <4>2
      <4>3. CASE At(k + 1).status # 0
        <5>1. At(k + 1) \in Bad
          <6>1. \/ At(k + 1).status = 0 \/ At(k + 1) = Reject(q, 401) \/ At(k + 1) = Reject(q, 500)
            BY <3>3, AttemptIs
          <6> QED BY <4>3, <6>1 DEF Bad
        <5> QED BY <2>4, <2>7, <4>1, <4>3, <5>1
      <4> QED BY <4>2, <4>3
    <3> QED BY <3>2, <3>3
  <2> QED BY <2>1, <2>6, <2>7
<1>6. Q = Nat
  <2> HIDE DEF Q
  <2>1. Q \in SUBSET Nat BY DEF Q
  <2> QED BY <1>4, <1>5, <2>1, SetInduction
<1>7. J(n)
  <2>1. n \in Q
    <3> HIDE DEF Q
    <3> QED BY <1>1, <1>6
  <2> HIDE DEF J
  <2> QED BY <1>1, <2>1
<1> QED BY <1>1, <1>2, <1>7

LEMMA StrippedIsRequest ==
  ASSUME NEW q, IsRequest(q), NEW x \in Stripped(q)
  PROVE  IsRequest(x)
<1>1. ASSUME NEW f, f \notin {"method", "uri"}, NEW y PROVE IsRequest([q EXCEPT ![f] = y])
  <2> DEFINE d == [q EXCEPT ![f] = y]
  <2>1. d = [g \in DOMAIN q |-> IF g = f THEN y ELSE q[g]]
    BY Zenon
  <2>2. DOMAIN d = DOMAIN q /\ d = [g \in DOMAIN d |-> d[g]]
    BY <2>1
  <2>3. d["uri"] = q["uri"]
    BY <1>1, <2>1 DEF IsRequest
  <2> QED BY <2>2, <2>3 DEF IsRequest
<1>2. IsRequest([q EXCEPT !.auth = NoAuth])
  BY <1>1
<1>3. \A h : IsRequest([q EXCEPT !.header = h])
  BY <1>1
<1> QED BY <1>2, <1>3, Zenon DEF Stripped

\* Status codes.
Codes == -1 .. 999

Stateless == Accepting \ {"rate_limit", "cache", "circuit_breaker"}

\* What a plugin without state says: the answers of those that are behind a
\* cache are errors.
LEMMA VerdictIs ==
  ASSUME NEW p, p.name \in Stateless, Valid(p.name, p.config), NEW q, IsRequest(q)
  PROVE  /\ Verdict(p, q).status \in Codes
         /\ IsRequest(Verdict(p, q).req)
         /\ Priority[p.name] >= 100 => Verdict(p, q).status \notin 200 .. 299
<1> DEFINE people == Configs[installed].consumers
           v == Verdict(p, q)
           Good(x) == /\ x.status \in {0, 401, 403, 413, 500}
                      /\ IsRequest(x.req)
<1>2. Good(Pass(q)) /\ \A code : code \in {401, 403, 413, 500} => Good(Reject(q, code))
  BY DEF Pass, Reject
<1>3. ASSUME NEW c, NEW s \in Strategies PROVE Good(Attempt(c, s, q, people))
  BY AttemptIs, StrippedIsRequest DEF Reject
<1>4. \A x : Good(x) => x.status \in Codes /\ IsRequest(x.req) /\ x.status \notin 200 .. 299
  BY DEF Codes
<1> HIDE DEF people, Good
<1>5. CASE p.name = "cors"
  <2>1. v = Cors(p.config, q)
    BY <1>5 DEF Verdict
  <2>2. v.status \in {0, 200} /\ v.req = q
    BY <2>1 DEF Cors, PassIf, Pass, Reject
  <2>3. Priority[p.name] = 0
    BY <1>5 DEF Priority
  <2> QED BY <2>2, <2>3 DEF Codes
<1>6. CASE p.name = "request_termination"
  <2>1. v = RequestTermination(p.config, q)
    BY <1>6 DEF Verdict
  <2>2. v.status = Written(p.config.status_code) /\ v.req = q
    BY <2>1 DEF RequestTermination, Reject
  <2>3. p.config.status_code \in Int
    BY <1>6 DEF Valid
  <2>4. Priority[p.name] = 2
    BY <1>6 DEF Priority
  <2>5. Written(p.config.status_code) \in Codes
    <3> DEFINE code == p.config.status_code
    <3> HIDE DEF code
    <3>1. code \in Int
      BY <2>3 DEF code
    <3>2. code \in 100 .. 999 => code \in Codes
      BY DEF Codes
    <3>3. Written(code) = -1 \/ Written(code) = 200 \/ (code \in 100 .. 999 /\ Written(code) = code)
      BY <3>1 DEF Written
    <3>4. -1 \in Codes /\ 200 \in Codes
      BY DEF Codes
    <3> DEFINE w == Written(code)
    <3>5. w = -1 \/ w = 200 \/ (code \in 100 .. 999 /\ w = code)
      BY <3>3
    <3> HIDE DEF w
    <3>6. w \in Codes
      <4>1. CASE w = -1
        BY <3>4, <4>1, Zenon
      <4>2. CASE w = 200
        BY <3>4, <4>2, Zenon
      <4>3. CASE code \in 100 .. 999 /\ w = code
        BY <3>2, <4>3, Zenon
      <4> QED BY <3>5, <4>1, <4>2, <4>3, Zenon
    <3> QED BY <3>6, Zenon DEF w, code
  <2> QED BY <2>2, <2>4, <2>5
<1>7. CASE p.name = "request_size_limit"
  <2>1. v = RequestSizeLimit(p.config, q)
    BY <1>7 DEF Verdict
  <2>2. v = Pass(q) \/ v = Reject(q, 413)
    BY <2>1, Zenon DEF RequestSizeLimit, PassIf
  <2> QED BY <1>2, <1>4, <2>2
<1>8. CASE p.name = "acl"
  <2>1. v = Acl(p.config, q)
    BY <1>8 DEF Verdict
  <2>2. v = Pass(q) \/ v = Reject(q, 403)
    BY <2>1, Zenon DEF Acl, PassIf
  <2> QED BY <1>2, <1>4, <2>2
<1>9. CASE p.name = "multi_auth"
  <2>1. v = MultiAuth(p.config, q, people)
    BY <1>9, Zenon DEF Verdict, people
  <2>2. p.config.strategies \in Seq(STRING)
    BY <1>9 DEF Valid
  <2> DEFINE c == p.config
  <2>3. \/ \E i \in DOMAIN c.strategies :
             c.strategies[i] \in Strategies /\ v = Attempt(c, c.strategies[i], q, people)
        \/ v \in {Reject(q, 401), Reject(q, 500)}
    BY <2>1, <2>2, MultiAuthIs
  <2>4. Good(v)
    BY <1>2, <1>3, <2>3
  <2> QED BY <1>4, <2>4
<1>10. CASE p.name = "basic_auth"
  <2>1. v = BasicAuth(p.config, q)
    BY <1>10 DEF Verdict
  <2> DEFINE c == [basic_auth |-> p.config]
  <2>2. v = Attempt(c, "basic_auth", q, people)
    BY <2>1 DEF Attempt
  <2> HIDE DEF c
  <2> QED BY <1>3, <1>4, <2>2 DEF Strategies
<1>11. CASE p.name = "key_auth"
  <2>1. v = KeyAuth(p.config, q, people)
    BY <1>11, Zenon DEF Verdict, people
  <2> DEFINE c == [key_auth |-> p.config]
  <2>2. v = Attempt(c, "key_auth", q, people)
    BY <2>1 DEF Attempt
  <2> HIDE DEF c
  <2> QED BY <1>3, <1>4, <2>2 DEF Strategies
<1>12. CASE p.name = "jwt"
  <2>1. v = Jwt(p.config, q, people)
    BY <1>12, Zenon DEF Verdict, people
  <2> DEFINE c == [jwt |-> p.config]
  <2>2. v = Attempt(c, "jwt", q, people)
    BY <2>1 DEF Attempt
  <2> HIDE DEF c
  <2> QED BY <1>3, <1>4, <2>2 DEF Strategies
<1>13. CASE p.name = "mtls"
  <2>1. v = Mtls(q)
    BY <1>13 DEF Verdict
  <2>2. v = Pass(q) \/ v = Reject(q, 401)
    BY <2>1, Zenon DEF Mtls, PassIf
  <2> QED BY <1>2, <1>4, <2>2
<1>14. CASE p.name = "rbac"
  <2>1. v = Rbac(p.config, q)
    BY <1>14 DEF Verdict
  <2>2. v = Pass(q) \/ v = Reject(q, 403) \/ v = Reject(q, 500)
    BY <2>1, Zenon DEF Rbac, PassIf
  <2> QED BY <1>2, <1>4, <2>2
<1>15. CASE p.name = "bot_protection"
  <2>1. v = BotProtection(p.config, q)
    BY <1>15 DEF Verdict
  <2>2. v = Pass(q) \/ v = Reject(q, 403)
    BY <2>1, Zenon DEF BotProtection, PassIf
  <2> QED BY <1>2, <1>4, <2>2
<1>16. p.name \in {"cors", "request_termination", "request_size_limit", "acl", "multi_auth",
                   "basic_auth", "key_auth", "mtls", "rbac", "bot_protection", "jwt"}
  <2>1. DOMAIN Priority = {"cors", "response_handler", "request_termination", "rate_limit",
          "request_size_limit", "acl", "cache", "circuit_breaker", "multi_auth", "basic_auth",
          "key_auth", "mtls", "rbac", "bot_protection", "http_log", "jwt"}
    BY DEF Priority
  <2> QED BY <2>1, Zenon DEF Stateless, Accepting
<1> HIDE DEF v
<1> QED BY <1>5, <1>6, <1>7, <1>8, <1>9, <1>10, <1>11, <1>12, <1>13, <1>14, <1>15, <1>16, Zenon DEF v

LEMMA AfterIs ==
  ASSUME NEW c, Len(c) \in Nat, NEW i \in Nat, i <= Len(c) + 1
  PROVE  After(c, i) \in i .. Len(c) + 1
<1> DEFINE T == {j \in i .. Len(c) : c[j].name \in Accepting} \union {Len(c) + 1}
<1>1. T \in SUBSET Nat /\ T # {} /\ T \subseteq i .. Len(c) + 1
  OBVIOUS
<1>2. After(c, i) = Min(T)
  BY DEF After
<1> HIDE DEF T
<1> QED BY <1>1, <1>2, MinIs

LEMMA BeforeIs ==
  ASSUME NEW c, Len(c) \in Nat, NEW i \in 1 .. Len(c) + 1
  PROVE  /\ Before(c, i) \in 0 .. i - 1
         /\ Before(c, i) # 0 => c[Before(c, i)].name \in Responding
         /\ \A j \in 1 .. i - 1 : c[j].name \in Responding => j <= Before(c, i)
<1> DEFINE S == {j \in 1 .. i - 1 : c[j].name \in Responding}
           T == S \union {0}
           U == {j + 1 : j \in T}
           b == Before(c, i)
<1>1. i \in Nat /\ \A j \in S : j \in Nat /\ 1 <= j /\ j <= i - 1
  OBVIOUS
<1>2. b = Max(T)
  BY DEF Before
<1> HIDE DEF S, b
<1>3. b \in T /\ \A j \in T : b >= j
  <2>1. U \in SUBSET (1 .. i) /\ U # {}
    BY <1>1
  <2> DEFINE m == Max(U)
  <2> HIDE DEF U
  <2>2. m \in U /\ \A y \in U : m >= y
    BY <1>1, <2>1, MaxIn
  <2> HIDE DEF m
  <2>3. PICK k \in T : m = k + 1
    BY <2>2 DEF U
  <2>4. \A j \in T : k >= j
    <3>1. \A j \in T : m >= j + 1
      BY <2>2 DEF U
    <3> QED BY <1>1, <2>3, <3>1
  <2> HIDE DEF T
  <2> QED BY <1>2, <2>3, <2>4 DEF Max
<1>4. \A j \in 1 .. i - 1 : c[j].name \in Responding => j \in T
  BY DEF S
<1>5. b \in 0 .. i - 1
  BY <1>1, <1>3
<1>6. b # 0 => c[b].name \in Responding
  BY <1>3 DEF S
<1>7. \A j \in 1 .. i - 1 : c[j].name \in Responding => j <= b
  BY <1>1, <1>3, <1>4
<1> QED BY <1>5, <1>6, <1>7 DEF b

----------------------------------------------------------------------------
(* Places.                                                                 *)

LEMMA ChainOf ==
  ASSUME NEW r \in Requests, mine[r] \in Routers
  PROVE  /\ Len(Chain(r)) \in Nat
         /\ \A i \in 1 .. Len(Chain(r)) :
              Chain(r)[i].name \in DOMAIN Priority /\ Valid(Chain(r)[i].name, Chain(r)[i].config)
         /\ \A i, j \in 1 .. Len(Chain(r)) :
              i < j => /\ Chain(r)[i].name # Chain(r)[j].name
                       /\ Priority[Chain(r)[i].name] <= Priority[Chain(r)[j].name]
<1>1. mine[r].global \in Gens /\ mine[r].own \in Gens
  BY DEF Routers
<1> QED BY <1>1, ChainSorted DEF Chain

\* A request stays in its place as long as nothing moves it.
LEMMA PlaceKept ==
  ASSUME PlaceInv, UNCHANGED <<pc, pos, mine, req>>, installed' \in Gens, router' \in Routers
  PROVE  PlaceInv'
BY DEF PlaceInv, Place, Chain, Here

\* One request moves.
LEMMA PlaceMoved ==
  ASSUME PlaceInv, UNCHANGED chainVars, NEW r \in Requests,
         NEW a \in {"new", "down", "up", "calling"}, pc' = [pc EXCEPT ![r] = a],
         NEW k \in Nat, pos' = [pos EXCEPT ![r] = k],
         NEW m \in [global : Gens \union {0}, own : Gens \union {0}], mine' = [mine EXCEPT ![r] = m],
         NEW q, req' = [req EXCEPT ![r] = q],
         a = "new" => k = 0,
         k # 0 => m \in Routers /\ IsRequest(q),
         LET c == Chains[m.global][m.own] IN
           /\ a = "down" => k \in 1 .. Len(c) + 1
           /\ a = "calling" => k = Len(c) + 1 /\ k # 0
           /\ a = "up" /\ k # 0 => k <= Len(c) /\ c[k].name \in Responding
  PROVE  PlaceInv'
<1> USE DEF PlaceInv
<1>1. installed' \in Gens /\ router' \in Routers
  BY DEF chainVars
<1>2. /\ pc' \in [Requests -> {"new", "down", "up", "calling"}]
      /\ pos' \in [Requests -> Nat]
      /\ mine' \in [Requests -> [global : Gens \union {0}, own : Gens \union {0}]]
      /\ req' = [s \in Requests |-> req'[s]]
  OBVIOUS
<1>3. \A s \in Requests : s # r => /\ pc'[s] = pc[s] /\ pos'[s] = pos[s]
                                   /\ mine'[s] = mine[s] /\ req'[s] = req[s]
  OBVIOUS
<1>4. pc'[r] = a /\ pos'[r] = k /\ mine'[r] = m /\ req'[r] = q
  OBVIOUS
<1>5. Place(r)'
  BY <1>4 DEF Place, Chain, Here
<1>6. ASSUME NEW s \in Requests, s # r PROVE Place(s)'
  <2>1. Place(s)
    OBVIOUS
  <2> QED BY <1>3, <1>6, <2>1 DEF Place, Chain, Here
<1> QED BY <1>1, <1>2, <1>5, <1>6

LEMMA ReturnPlaces ==
  ASSUME PlaceInv, UNCHANGED chainVars, NEW r \in Requests, NEW x, Return(r, x),
         pc[r] # "new", pos[r] # 0
  PROVE  /\ PlaceInv'
         /\ pos[r] \in 1 .. Len(Chain(r)) + 1
         /\ pos'[r] = Before(Chain(r), pos[r])
         /\ mine[r] \in Routers
<1> DEFINE k == Before(Chain(r), pos[r])
<1>1. Place(r) /\ mine[r] \in Routers /\ IsRequest(req[r])
  BY DEF PlaceInv, Place
<1>2. Len(Chain(r)) \in Nat
  BY <1>1, ChainOf
<1>3. pos[r] \in 1 .. Len(Chain(r)) + 1
  BY <1>1, <1>2 DEF PlaceInv, Place
<1>4. k \in 0 .. pos[r] - 1 /\ (k # 0 => Chain(r)[k].name \in Responding)
  BY <1>2, <1>3, BeforeIs
<1>5. k \in Nat /\ k <= Len(Chain(r))
  BY <1>2, <1>3, <1>4
<1>6. /\ pc' = [pc EXCEPT ![r] = "up"] /\ pos' = [pos EXCEPT ![r] = k]
      /\ mine' = [mine EXCEPT ![r] = mine[r]] /\ req' = [req EXCEPT ![r] = req[r]]
  <2>1. mine = [mine EXCEPT ![r] = mine[r]] /\ req = [req EXCEPT ![r] = req[r]]
    BY DEF PlaceInv
  <2> QED BY <2>1, Zenon DEF Return
<1>7. pos'[r] = k
  BY <1>6 DEF PlaceInv
<1>8. mine[r] \in [global : Gens \union {0}, own : Gens \union {0}]
  BY DEF PlaceInv
<1>9. Chain(r) = Chains[mine[r].global][mine[r].own]
  BY DEF Chain
<1> HIDE DEF k
<1>10. PlaceInv'
  BY <1>1, <1>4, <1>5, <1>6, <1>8, <1>9, PlaceMoved
<1> QED BY <1>1, <1>3, <1>7, <1>10 DEF k

LEMMA ContinuePlaces ==
  ASSUME PlaceInv, UNCHANGED chainVars, NEW r \in Requests, NEW q, Continue(r, q), IsRequest(q),
         pc[r] = "down", pos[r] <= Len(Chain(r))
  PROVE  /\ PlaceInv'
         /\ pos'[r] > pos[r]
<1> DEFINE k == After(Chain(r), pos[r] + 1)
<1>1. Place(r) /\ pos[r] \in Nat
  BY DEF PlaceInv
<1>2. mine[r] \in Routers /\ pos[r] # 0
  BY <1>1 DEF Place
<1>3. Len(Chain(r)) \in Nat
  BY <1>2, ChainOf
<1>4. pos[r] + 1 \in Nat /\ pos[r] + 1 <= Len(Chain(r)) + 1
  BY <1>1, <1>3
<1>5. k \in pos[r] + 1 .. Len(Chain(r)) + 1
  <2> DEFINE j == pos[r] + 1
  <2>1. j \in Nat /\ j <= Len(Chain(r)) + 1
    BY <1>4
  <2> HIDE DEF j
  <2>2. After(Chain(r), j) \in j .. Len(Chain(r)) + 1
    BY <1>3, <2>1, AfterIs
  <2> QED BY <2>2 DEF j
<1>6. /\ pc' = [pc EXCEPT ![r] = "down"] /\ pos' = [pos EXCEPT ![r] = k]
      /\ mine' = [mine EXCEPT ![r] = mine[r]] /\ req' = [req EXCEPT ![r] = q]
  BY DEF Continue, PlaceInv
<1>7. pos'[r] = k
  BY <1>6 DEF PlaceInv
<1>8. mine[r] \in [global : Gens \union {0}, own : Gens \union {0}]
  BY DEF PlaceInv
<1>9. Chain(r) = Chains[mine[r].global][mine[r].own]
  BY DEF Chain
<1> HIDE DEF k
<1>10. k \in Nat /\ k \in 1 .. Len(Chain(r)) + 1 /\ k > pos[r]
  BY <1>1, <1>3, <1>5
<1>11. PlaceInv'
  BY <1>2, <1>6, <1>8, <1>9, <1>10, PlaceMoved
<1> QED BY <1>7, <1>10, <1>11

\* At a plugin: what ChainOf says of it.
LEMMA HereIs ==
  ASSUME PlaceInv, NEW r \in Requests, pc[r] # "new", pos[r] # 0, pos[r] <= Len(Chain(r))
  PROVE  /\ pos[r] \in 1 .. Len(Chain(r))
         /\ Here(r).name \in DOMAIN Priority
         /\ Valid(Here(r).name, Here(r).config)
         /\ IsRequest(req[r])
         /\ mine[r] \in Routers
<1>1. Place(r) /\ pos[r] \in Nat
  BY DEF PlaceInv
<1>2. mine[r] \in Routers /\ IsRequest(req[r])
  BY <1>1 DEF Place
<1>3. Len(Chain(r)) \in Nat
  BY <1>2, ChainOf
<1>4. pos[r] \in 1 .. Len(Chain(r))
  BY <1>1, <1>3
<1>5. /\ Chain(r)[pos[r]].name \in DOMAIN Priority
      /\ Valid(Chain(r)[pos[r]].name, Chain(r)[pos[r]].config)
  BY <1>2, <1>4, ChainOf
<1> QED BY <1>2, <1>4, <1>5 DEF Here

\* A request on its way down, and on its way up, is at a plugin of its chain.
LEMMA AtPluginIs ==
  ASSUME PlaceInv, NEW r \in Requests, NEW n, AtPlugin(r, n)
  PROVE  /\ pc[r] = "down" /\ pos[r] # 0 /\ pos[r] <= Len(Chain(r)) /\ Here(r).name = n
<1>1. Place(r) /\ pos[r] \in Nat
  BY DEF PlaceInv
<1> QED BY <1>1 DEF AtPlugin, Place

LEMMA BackAtPluginIs ==
  ASSUME PlaceInv, NEW r \in Requests, NEW n, BackAtPlugin(r, n)
  PROVE  /\ pc[r] = "up" /\ pos[r] # 0 /\ pos[r] <= Len(Chain(r)) /\ Here(r).name = n
<1>1. Place(r) /\ pos[r] \in Nat
  BY DEF PlaceInv
<1> QED BY <1>1 DEF BackAtPlugin, Place

\* How a request moves.
GoesDown(r) ==
  /\ pc[r] = "down" /\ pos[r] # 0 /\ pos[r] <= Len(Chain(r))
  /\ \E q : IsRequest(q) /\ Continue(r, q)

GoesUp(r) == pc[r] # "new" /\ pos[r] # 0 /\ \E x : Return(r, x)

LEMMA FilterMoves ==
  ASSUME PlaceInv, NEW r \in Requests, Filter(r)
  PROVE  LET v == Verdict(Here(r), req[r]) IN
         /\ pc[r] = "down" /\ pos[r] # 0 /\ pos[r] <= Len(Chain(r)) /\ Here(r).name \in Stateless
         /\ v.status \in Codes /\ IsRequest(v.req)
         /\ Priority[Here(r).name] >= 100 => v.status \notin 200 .. 299
         /\ \/ v.status = 0 /\ Continue(r, v.req)
            \/ v.status # 0 /\ Answer(r, v.status)
<1>1. /\ pc[r] = "down" /\ pos[r] # 0 /\ pos[r] <= Len(Chain(r)) /\ Here(r).name \in Stateless
  BY AtPluginIs DEF Filter, Stateless
<1>2. Valid(Here(r).name, Here(r).config) /\ IsRequest(req[r])
  BY <1>1, HereIs
<1> DEFINE p == Here(r)
           q == req[r]
<1> HIDE DEF p, q
<1>3. /\ Verdict(p, q).status \in Codes
      /\ IsRequest(Verdict(p, q).req)
      /\ Priority[p.name] >= 100 => Verdict(p, q).status \notin 200 .. 299
  BY <1>1, <1>2, VerdictIs DEF p, q
<1> QED BY <1>1, <1>3 DEF Filter, p, q

LEMMA EndGoesUp ==
  ASSUME PlaceInv, NEW r \in Requests, ProxyPass(r) \/ Merge(r)
  PROVE  GoesUp(r)
<1>1. Place(r) /\ pos[r] \in Nat
  BY DEF PlaceInv
<1>2. pc[r] # "new" /\ pos[r] # 0
  <2>1. pc[r] \in {"down", "calling"}
    BY DEF ProxyPass, Merge, AtEnd
  <2>2. pc[r] = "down" => pos[r] # 0
    BY <1>1 DEF Place
  <2>3. pc[r] = "calling" => pos[r] # 0
    BY <1>1 DEF Place
  <2> QED BY <2>1, <2>2, <2>3
<1>3. \E x : Return(r, x)
  BY DEF ProxyPass, Merge
<1> QED BY <1>2, <1>3 DEF GoesUp

LEMMA StepMoves ==
  ASSUME PlaceInv, NEW r \in Requests, Step(r)
  PROVE  /\ UNCHANGED chainVars
         /\ \/ Enter(r) \/ Respond(r) \/ HandleAggregation(r) \/ AggregationStep(r)
            \/ GoesDown(r) \/ GoesUp(r)
<1>0. UNCHANGED chainVars
  BY DEF Step, Enter, Filter, LimitRate, CacheMiss, CacheHit, CacheStore, BreakerEnter,
     BreakerLeave, ProxyPass, HandleAggregation, AggregationStep, Merge, SendLog, Respond
<1>1. ASSUME NEW n, AtPlugin(r, n), Continue(r, req[r]) PROVE GoesDown(r)
  <2>1. pc[r] = "down" /\ pos[r] # 0 /\ pos[r] <= Len(Chain(r))
    BY <1>1, AtPluginIs
  <2>2. IsRequest(req[r])
    BY <2>1, HereIs
  <2> QED BY <1>1, <2>1, <2>2 DEF GoesDown
<1>2. ASSUME NEW n, AtPlugin(r, n) \/ BackAtPlugin(r, n), NEW x, Return(r, x) PROVE GoesUp(r)
  BY <1>2, AtPluginIs, BackAtPluginIs DEF GoesUp
<1>3. CASE Filter(r)
  <2> DEFINE v == Verdict(Here(r), req[r])
  <2>1. /\ pc[r] = "down" /\ pos[r] # 0 /\ pos[r] <= Len(Chain(r))
        /\ IsRequest(v.req)
        /\ Continue(r, v.req) \/ Answer(r, v.status)
    BY <1>3, FilterMoves
  <2> HIDE DEF v
  <2>2. CASE Continue(r, v.req)
    BY <1>0, <2>1, <2>2 DEF GoesDown
  <2>3. CASE Answer(r, v.status)
    BY <1>0, <2>1, <2>3 DEF GoesUp, Answer
  <2> QED BY <1>0, <2>1, <2>2, <2>3
<1>4. CASE LimitRate(r) \/ CacheMiss(r)
  BY <1>1, <1>2, <1>4 DEF LimitRate, CacheMiss, Answer
<1>5. CASE CacheHit(r) \/ CacheStore(r)
  BY <1>2, <1>5 DEF CacheHit, CacheStore
<1>6. CASE BreakerEnter(r) \/ BreakerLeave(r)
  BY <1>1, <1>2, <1>6 DEF BreakerEnter, BreakerLeave, Answer
<1>7. CASE ProxyPass(r) \/ Merge(r)
  BY <1>0, <1>7, EndGoesUp
<1>8. CASE SendLog(r)
  BY <1>2, <1>8 DEF SendLog
<1> QED BY <1>0, <1>3, <1>4, <1>5, <1>6, <1>7, <1>8 DEF Step

LEMMA PlaceStep == ReloadInv /\ PlaceInv /\ [Next]_vars => PlaceInv'
<1> SUFFICES ASSUME ReloadInv, PlaceInv, [Next]_vars PROVE PlaceInv'
  OBVIOUS
<1>0. installed' \in Gens /\ router' \in Routers
  <2>1. ReloadInv'
    BY ReloadStep
  <2> QED BY <2>1 DEF ReloadInv, Routers
<1>1. ASSUME NEW r \in Requests, Step(r) PROVE PlaceInv'
  <2>0. UNCHANGED chainVars
    BY <1>1, StepMoves
  <2>1. CASE GoesDown(r)
    BY <2>0, <2>1, ContinuePlaces DEF GoesDown
  <2>2. CASE GoesUp(r)
    BY <2>0, <2>2, ReturnPlaces DEF GoesUp
  <2>3. CASE Enter(r)
    <3>1. pc[r] = "new" /\ pos[r] = 0
      BY <2>3 DEF Enter, PlaceInv, Place
    <3>2. CASE pc' = [pc EXCEPT ![r] = "up"] /\ UNCHANGED <<pos, mine, req>>
      <4>1. /\ pos' = [pos EXCEPT ![r] = 0] /\ mine' = [mine EXCEPT ![r] = mine[r]]
            /\ req' = [req EXCEPT ![r] = req[r]]
        <5>1. /\ pos = [pos EXCEPT ![r] = 0] /\ mine = [mine EXCEPT ![r] = mine[r]]
              /\ req = [req EXCEPT ![r] = req[r]]
          BY <3>1 DEF PlaceInv
        <5> QED BY <3>2, <5>1, Zenon
      <4> DEFINE a == "up"
                 k == 0
                 m == mine[r]
                 q == req[r]
      <4>2. /\ k \in Nat /\ k = 0 /\ a = "up"
            /\ pc' = [pc EXCEPT ![r] = a] /\ pos' = [pos EXCEPT ![r] = k]
            /\ m \in [global : Gens \union {0}, own : Gens \union {0}]
            /\ mine' = [mine EXCEPT ![r] = m] /\ req' = [req EXCEPT ![r] = q]
        BY <3>2, <4>1 DEF PlaceInv
      <4> HIDE DEF a, k, m, q
      <4> QED BY <2>0, <4>2, PlaceMoved
    <3>3. ASSUME NEW q \in Inputs[r],
                 pc' = [pc EXCEPT ![r] = "down"],
                 pos' = [pos EXCEPT ![r] = After(Chains[router.global][router.own], 1)],
                 mine' = [mine EXCEPT ![r] = router],
                 req' = [req EXCEPT ![r] = q]
          PROVE  PlaceInv'
      <4> DEFINE c == Chains[router.global][router.own]
                 k == After(c, 1)
      <4>1. router \in Routers /\ router \in [global : Gens \union {0}, own : Gens \union {0}]
        BY DEF PlaceInv, Routers
      <4>2. Len(c) \in Nat
        <5>1. router.global \in Gens /\ router.own \in Gens
          BY <4>1 DEF Routers
        <5> QED BY <5>1, ChainSorted
      <4> HIDE DEF c
      <4>3. k \in 1 .. Len(c) + 1
        <5>1. 1 \in Nat /\ 1 <= Len(c) + 1
          BY <4>2
        <5> QED BY <4>2, <5>1, AfterIs
      <4>4. IsRequest(q)
        BY InputAssumption DEF IsRequest, Uris
      <4>5. pos' = [pos EXCEPT ![r] = k]
        BY <3>3 DEF c
      <4> HIDE DEF k
      <4>6. k \in Nat
        BY <4>2, <4>3
      <4> QED BY <2>0, <3>3, <4>1, <4>3, <4>4, <4>5, <4>6, PlaceMoved DEF c
    <3> QED BY <2>3, <3>2, <3>3 DEF Enter
  <2>4. CASE Respond(r)
    <3>1. pos[r] = 0 /\ pos' = [pos EXCEPT ![r] = 0]
      <4>1. pos[r] = 0 /\ pos = [pos EXCEPT ![r] = 0]
        BY <2>4 DEF Respond, PlaceInv
      <4> QED BY <2>4, <4>1, Zenon DEF Respond
    <3>2. NoRouter \in [global : Gens \union {0}, own : Gens \union {0}]
      BY DEF NoRouter
    <3>3. /\ pc' = [pc EXCEPT ![r] = "new"] /\ mine' = [mine EXCEPT ![r] = NoRouter]
          /\ req' = [req EXCEPT ![r] = NoInput]
      BY <2>4 DEF Respond
    <3> DEFINE k == 0
               a == "new"
               m == NoRouter
               q == NoInput
    <3>4. /\ k \in Nat /\ k = 0 /\ a = "new"
          /\ pc' = [pc EXCEPT ![r] = a] /\ pos' = [pos EXCEPT ![r] = k]
          /\ m \in [global : Gens \union {0}, own : Gens \union {0}]
          /\ mine' = [mine EXCEPT ![r] = m] /\ req' = [req EXCEPT ![r] = q]
      BY <3>1, <3>2, <3>3
    <3> HIDE DEF k, a, m, q
    <3> QED BY <2>0, <3>4, PlaceMoved
  <2>5. CASE HandleAggregation(r)
    <3>1. pc[r] = "down" /\ pos[r] > Len(Chain(r)) /\ Place(r) /\ pos[r] \in Nat
      BY <2>5 DEF HandleAggregation, AtEnd, PlaceInv
    <3>2. mine[r] \in Routers /\ IsRequest(req[r]) /\ pos[r] # 0 /\ pos[r] \in 1 .. Len(Chain(r)) + 1
      BY <3>1 DEF Place
    <3>3. pos[r] = Len(Chain(r)) + 1
      <4>1. Len(Chain(r)) \in Nat
        BY <3>2, ChainOf
      <4> QED BY <3>1, <3>2, <4>1
    <3>4. /\ pos = [pos EXCEPT ![r] = pos[r]] /\ mine = [mine EXCEPT ![r] = mine[r]]
          /\ req = [req EXCEPT ![r] = req[r]]
      BY DEF PlaceInv
    <3>5. /\ pos' = [pos EXCEPT ![r] = pos[r]] /\ mine' = [mine EXCEPT ![r] = mine[r]]
          /\ req' = [req EXCEPT ![r] = req[r]] /\ pc' = [pc EXCEPT ![r] = "calling"]
      BY <2>5, <3>4, Zenon DEF HandleAggregation
    <3>6. mine[r] \in [global : Gens \union {0}, own : Gens \union {0}]
      BY DEF PlaceInv
    <3>7. Chain(r) = Chains[mine[r].global][mine[r].own]
      BY DEF Chain
    <3> QED BY <2>0, <3>1, <3>2, <3>3, <3>5, <3>6, <3>7, PlaceMoved
  <2>6. CASE AggregationStep(r)
    BY <1>0, <2>6, PlaceKept DEF AggregationStep, localVars
  <2> QED BY <1>1, <2>1, <2>2, <2>3, <2>4, <2>5, <2>6, StepMoves
<1>2. ASSUME UNCHANGED localVars PROVE PlaceInv'
  BY <1>0, <1>2, PlaceKept DEF localVars
<1>3. ASSUME NEW s \in stores, StoreInCache(s) PROVE UNCHANGED localVars
  BY <1>3 DEF StoreInCache
<1>4. ASSUME NEW uri \in Uris, Expire(uri) PROVE UNCHANGED localVars
  BY <1>4 DEF Expire
<1>5. ASSUME NEW g \in Gens, Install(g) \/ UpdateRouter(g) PROVE UNCHANGED localVars
  BY <1>5 DEF Install, UpdateRouter
<1>6. BreakerTimeout \/ UNCHANGED vars => UNCHANGED localVars
  BY DEF BreakerTimeout, vars
<1> QED BY <1>1, <1>2, <1>3, <1>4, <1>5, <1>6 DEF Next

LEMMA PlaceInit == Init => PlaceInv
<1>1. 1 \in Gens
  BY ConfigAssumption DEF Gens
<1> QED BY <1>1 DEF Init, PlaceInv, Place, Routers, NoRouter

LEMMA PlaceInvariant == Spec => [](ReloadInv /\ PlaceInv)
BY ReloadInvariant, PlaceInit, PlaceStep, PTL DEF Spec

----------------------------------------------------------------------------
(* Answers and the cache.                                                  *)

LEMMA AnswersKept ==
  ASSUME AnswersInv, UNCHANGED <<pc, pos, mine, resp>>
  PROVE  AnswersInv'
BY DEF AnswersInv, Served, Name, Chain

LEMMA KeptStays ==
  ASSUME KeptInv, UNCHANGED <<cache, stores>>
  PROVE  KeptInv'
BY DEF KeptInv, Cacheable

\* An answer goes up: if it is a plugin's success, no cache is above.
LEMMA AnswerGoesUp ==
  ASSUME PlaceInv, AnswersInv, UNCHANGED chainVars, NEW r \in Requests,
         NEW x \in Responses, Return(r, x), pc[r] # "new", pos[r] # 0,
         x.status \in 200 .. 299 /\ ~x.backend =>
           \A i \in 1 .. pos[r] - 1 : Name(r, i) # "cache"
  PROVE  AnswersInv'
<1>1. /\ pos[r] \in 1 .. Len(Chain(r)) + 1
      /\ pos'[r] = Before(Chain(r), pos[r])
      /\ mine[r] \in Routers
  BY ReturnPlaces
<1>2. Len(Chain(r)) \in Nat
  BY <1>1, ChainOf
<1>3. pos'[r] \in 0 .. pos[r] - 1
  BY <1>1, <1>2, BeforeIs
<1>4. \A i \in 1 .. pos'[r] : i \in 1 .. pos[r] - 1
  BY <1>1, <1>2, <1>3
<1>5. resp'[r] = x /\ mine' = mine
  BY DEF Return, AnswersInv
<1>6. resp' \in [Requests -> Responses]
  BY DEF Return, AnswersInv
<1>7. Served(r)'
  BY <1>4, <1>5 DEF Served, Name, Chain
<1>8. ASSUME NEW s \in Requests, s # r PROVE Served(s)'
  <2>1. pc'[s] = pc[s] /\ pos'[s] = pos[s] /\ mine'[s] = mine[s] /\ resp'[s] = resp[s]
    BY <1>8 DEF Return, PlaceInv, AnswersInv
  <2>2. Served(s)
    BY DEF AnswersInv
  <2> QED BY <2>1, <2>2 DEF Served, Name, Chain
<1> QED BY <1>6, <1>7, <1>8 DEF AnswersInv

\* The answer that has come goes on.
LEMMA AnswerGoesOn ==
  ASSUME PlaceInv, AnswersInv, UNCHANGED chainVars, NEW r \in Requests,
         Return(r, resp[r]), pc[r] = "up", pos[r] # 0
  PROVE  AnswersInv'
<1>1. Served(r) /\ resp[r] \in Responses /\ pos[r] \in Nat
  BY DEF AnswersInv, PlaceInv
<1>2. \A i \in 1 .. pos[r] - 1 : i \in 1 .. pos[r]
  BY <1>1
<1>3. resp[r].status \in 200 .. 299 /\ ~resp[r].backend =>
        \A i \in 1 .. pos[r] - 1 : Name(r, i) # "cache"
  BY <1>1, <1>2 DEF Served
<1> QED BY <1>1, <1>3, AnswerGoesUp

\* The answers of a plugin and of HandleProxyPass.
AnswerOf(code) == [NoResponse EXCEPT !.status = code]
ProxyAnswer(code, plain) == [NoResponse EXCEPT !.status = code, !.backend = TRUE, !.plain = plain]
ProxyError(code) == [NoResponse EXCEPT !.status = code, !.backend = TRUE]

LEMMA ResponseIs ==
  ASSUME NEW x, x = [f \in DOMAIN x |-> x[f]], DOMAIN x = {"status", "backend", "plain", "data"},
         x.status \in Codes, x.backend \in BOOLEAN, x.plain \in BOOLEAN, x.data \in SUBSET Backends
  PROVE  x \in Responses
<1> DEFINE D == SUBSET Backends
           B == BOOLEAN
<1>1. Responses = [status : Codes, backend : B, plain : B, data : D]
  BY DEF Responses, Codes
<1>2. x.status \in Codes /\ x.data \in D /\ x.backend \in B /\ x.plain \in B
  OBVIOUS
<1> HIDE DEF D, B
<1> QED BY <1>1, <1>2

LEMMA AnswerIs ==
  ASSUME NEW code \in Codes
  PROVE  AnswerOf(code) \in Responses /\ AnswerOf(code).status = code
<1> DEFINE x == AnswerOf(code)
<1>1. /\ x = [f \in DOMAIN x |-> x[f]] /\ DOMAIN x = {"status", "backend", "plain", "data"}
      /\ x.status = code /\ x.backend = FALSE /\ x.plain = FALSE /\ x.data = {}
  BY DEF AnswerOf, NoResponse
<1> HIDE DEF x
<1>2. x \in Responses
  BY <1>1, ResponseIs
<1> QED BY <1>1, <1>2 DEF x

LEMMA ProxyAnswerIs ==
  ASSUME NEW code \in Codes, NEW plain \in BOOLEAN
  PROVE  ProxyAnswer(code, plain) \in Responses /\ ProxyAnswer(code, plain).backend
<1> DEFINE x == ProxyAnswer(code, plain)
<1>1. /\ x = [f \in DOMAIN x |-> x[f]] /\ DOMAIN x = {"status", "backend", "plain", "data"}
      /\ x.status = code /\ x.backend = TRUE /\ x.plain = plain /\ x.data = {}
  BY DEF ProxyAnswer, NoResponse
<1> HIDE DEF x
<1>2. x \in Responses
  BY <1>1, ResponseIs
<1> QED BY <1>1, <1>2 DEF x

LEMMA ProxyErrorIs ==
  ASSUME NEW code \in Codes
  PROVE  ProxyError(code) \in Responses /\ ProxyError(code).backend
<1> DEFINE x == ProxyError(code)
<1>1. /\ x = [f \in DOMAIN x |-> x[f]] /\ DOMAIN x = {"status", "backend", "plain", "data"}
      /\ x.status = code /\ x.backend = TRUE /\ x.plain = FALSE /\ x.data = {}
  BY DEF ProxyError, NoResponse
<1> HIDE DEF x
<1>2. x \in Responses
  BY <1>1, ResponseIs
<1> QED BY <1>1, <1>2 DEF x

LEMMA PanicIs == Panic \in Responses /\ Panic.status \notin 200 .. 299
<1> DEFINE code == -1
<1>1. code \in Codes
  BY DEF Codes
<1>2. code \notin 200 .. 299
  OBVIOUS
<1>3. Panic = AnswerOf(code)
  BY Zenon DEF Panic, AnswerOf
<1> HIDE DEF code
<1>4. AnswerOf(code) \in Responses /\ AnswerOf(code).status = code
  BY <1>1, AnswerIs
<1> QED BY <1>2, <1>3, <1>4

LEMMA StepServes ==
  ASSUME PlaceInv, ServedInv, NEW r \in Requests, Step(r)
  PROVE  ServedInv'
<1> USE DEF ServedInv
<1>0. UNCHANGED chainVars
  BY StepMoves
<1>1. ASSUME NEW n, AtPlugin(r, n) PROVE pc[r] # "new" /\ pos[r] # 0
  BY <1>1, AtPluginIs
<1>2. ASSUME NEW n, BackAtPlugin(r, n) PROVE pc[r] = "up" /\ pos[r] # 0
  BY <1>2, BackAtPluginIs
<1>3. ASSUME NEW q, Continue(r, q), pc[r] = "down" PROVE AnswersInv'
  <2>1. ASSUME NEW s \in Requests PROVE Served(s)'
    <3>1. /\ pc'[s] = pc[s] /\ mine'[s] = mine[s] /\ resp'[s] = resp[s]
          /\ s # r => pos'[s] = pos[s]
      BY <1>3 DEF Continue, PlaceInv
    <3>2. Served(s)
      BY DEF AnswersInv
    <3> QED BY <1>3, <3>1, <3>2 DEF Served, Name, Chain
  <2>2. resp' \in [Requests -> Responses]
    BY <1>3 DEF Continue, AnswersInv
  <2> QED BY <2>1, <2>2 DEF AnswersInv
<1>4. ASSUME NEW n, AtPlugin(r, n), NEW code \in Codes, code \notin 200 .. 299, Answer(r, code)
      PROVE  AnswersInv'
  <2> DEFINE x == AnswerOf(code)
  <2>1. x \in Responses /\ x.status = code
    BY AnswerIs
  <2>2. Return(r, x)
    BY <1>4, Zenon DEF Answer, AnswerOf
  <2> HIDE DEF x
  <2> QED BY <1>0, <1>1, <1>4, <2>1, <2>2, AnswerGoesUp
<1>5. CASE Filter(r)
  <2> DEFINE v == Verdict(Here(r), req[r])
             x == AnswerOf(v.status)
  <2>1. /\ pc[r] = "down" /\ pos[r] # 0 /\ pos[r] <= Len(Chain(r)) /\ Here(r).name \in Stateless
        /\ v.status \in Codes
        /\ Priority[Here(r).name] >= 100 => v.status \notin 200 .. 299
        /\ Continue(r, v.req) \/ Answer(r, v.status)
    BY <1>5, FilterMoves
  <2>2. KeptInv'
    BY <1>5, KeptStays DEF Filter, stateVars
  <2> HIDE DEF v
  <2>3. x \in Responses /\ x.status = v.status
    BY <2>1, AnswerIs
  <2>4. Answer(r, v.status) => Return(r, x)
    BY Zenon DEF Answer, AnswerOf
  <2> HIDE DEF x
  <2>5. CASE Continue(r, v.req)
    BY <1>3, <2>1, <2>2, <2>5
  <2>6. CASE Answer(r, v.status)
    <3>1. ASSUME NEW i \in 1 .. pos[r] - 1, x.status \in 200 .. 299 PROVE Name(r, i) # "cache"
      <4>1. pos[r] \in 1 .. Len(Chain(r)) /\ mine[r] \in Routers
        BY <2>1, HereIs
      <4>2. Len(Chain(r)) \in Nat
        BY <4>1, ChainOf
      <4>3. i \in 1 .. Len(Chain(r)) /\ i < pos[r]
        BY <4>1, <4>2
      <4>4. /\ Priority[Chain(r)[i].name] <= Priority[Chain(r)[pos[r]].name]
            /\ Chain(r)[i].name \in DOMAIN Priority
            /\ Chain(r)[pos[r]].name \in DOMAIN Priority
        BY <4>1, <4>3, ChainOf
      <4>5. ~(Priority[Chain(r)[pos[r]].name] >= 100)
        BY <2>1, <2>3, <3>1 DEF Here
      <4>6. Priority["cache"] = 100
        BY DEF Priority
      <4>7. Priority[Chain(r)[i].name] \in Nat /\ Priority[Chain(r)[pos[r]].name] \in Nat
        BY <4>4, PriorityType
      <4>8. Chain(r)[i].name # "cache"
        BY <4>4, <4>5, <4>6, <4>7
      <4> QED BY <4>8 DEF Name
    <3>2. AnswersInv'
      <4>1. x.status \in 200 .. 299 /\ ~x.backend =>
              \A i \in 1 .. pos[r] - 1 : Name(r, i) # "cache"
        BY <3>1
      <4>2. pc[r] # "new" /\ pos[r] # 0 /\ Return(r, x) /\ x \in Responses
        BY <2>1, <2>3, <2>4, <2>6
      <4> QED BY <1>0, <4>1, <4>2, AnswerGoesUp
    <3> QED BY <2>2, <3>2
  <2> QED BY <2>1, <2>5, <2>6
<1>6. CASE LimitRate(r) \/ CacheMiss(r)
  <2>1. KeptInv'
    BY <1>6, KeptStays DEF LimitRate, CacheMiss, stateVars
  <2>2. pc[r] = "down" /\ (Continue(r, req[r]) \/ (AtPlugin(r, "rate_limit") /\ Answer(r, 429)))
    BY <1>6 DEF LimitRate, CacheMiss, AtPlugin
  <2>3. 429 \in Codes /\ 429 \notin 200 .. 299
    BY DEF Codes
  <2> QED BY <1>3, <1>4, <2>1, <2>2, <2>3
<1>7. CASE CacheHit(r)
  <2>1. KeptInv'
    BY <1>7, KeptStays DEF CacheHit, stateVars
  <2>2. PICK u \in Uris : cache[u] # NoResponse /\ Return(r, cache[u])
    BY <1>7 DEF CacheHit
  <2>3. cache[u] \in Responses /\ cache[u].backend
    BY <2>2 DEF KeptInv, Cacheable
  <2>4. pc[r] # "new" /\ pos[r] # 0
    BY <1>1, <1>7 DEF CacheHit
  <2>5. AnswersInv'
    BY <1>0, <2>2, <2>3, <2>4, AnswerGoesUp
  <2> QED BY <2>1, <2>5
<1>8. CASE CacheStore(r)
  <2>1. BackAtPlugin(r, "cache") /\ Return(r, resp[r])
    BY <1>8 DEF CacheStore
  <2>2. pc[r] = "up" /\ pos[r] # 0 /\ pos[r] <= Len(Chain(r)) /\ Here(r).name = "cache"
    BY <2>1, BackAtPluginIs
  <2>3. AnswersInv'
    BY <1>0, <2>1, <2>2, AnswerGoesOn
  <2>4. /\ pos[r] \in 1 .. Len(Chain(r)) /\ mine[r] \in Routers /\ IsRequest(req[r])
    BY <2>2, HereIs
  <2>5. resp[r] \in Responses /\ Served(r)
    BY DEF AnswersInv
  <2>6. isCacheable(Here(r).config, resp[r]) => Cacheable(resp[r])
    <3>1. CacheControlRespected => Here(r).config.cache_control
      <4>1. mine[r].global \in Gens /\ mine[r].own \in Gens
        BY <2>4 DEF Routers
      <4>2. pos[r] \in DOMAIN Chains[mine[r].global][mine[r].own]
        BY <2>4, <4>1, ChainSorted DEF Chain
      <4> QED BY <2>2, <4>1, <4>2 DEF CacheControlRespected, Here, Chain
    <3>2. resp[r].status \in 200 .. 299 => resp[r].backend
      <4>1. pos[r] \in 1 .. pos[r] /\ Name(r, pos[r]) = "cache"
        BY <2>2, <2>4 DEF Here, Name
      <4> QED BY <2>2, <2>5, <4>1 DEF Served
    <3>3. resp[r].backend \in BOOLEAN
      BY <2>5 DEF Responses
    <3> QED BY <3>1, <3>2, <3>3 DEF isCacheable, Cacheable
  <2>7. KeptInv'
    <3>1. cache' = cache
      BY <1>8 DEF CacheStore
    <3>2. ASSUME NEW s \in stores'
          PROVE  s.uri \in Uris /\ s.resp \in Responses /\ Cacheable(s.resp)
      <4>1. CASE s \in stores
        BY <4>1 DEF KeptInv
      <4>2. CASE s \notin stores
        <5>1. s = [uri |-> req[r].uri, resp |-> resp[r]] /\ isCacheable(Here(r).config, resp[r])
          BY <1>8, <3>2, <4>2 DEF CacheStore
        <5> QED BY <2>4, <2>5, <2>6, <5>1 DEF IsRequest
      <4> QED BY <4>1, <4>2
    <3> QED BY <3>1, <3>2 DEF KeptInv, Cacheable
  <2> QED BY <2>3, <2>7
<1>9. CASE BreakerEnter(r) \/ BreakerLeave(r)
  <2>1. KeptInv'
    BY <1>9, KeptStays DEF BreakerEnter, BreakerLeave
  <2>2. CASE BreakerEnter(r)
    <3>1. pc[r] = "down" /\ AtPlugin(r, "circuit_breaker") /\ (Continue(r, req[r]) \/ Answer(r, 503))
      BY <2>2 DEF BreakerEnter, AtPlugin
    <3>2. 503 \in Codes /\ 503 \notin 200 .. 299
      BY DEF Codes
    <3> QED BY <1>3, <1>4, <2>1, <3>1, <3>2
  <2>3. CASE BreakerLeave(r)
    <3>1. AnswersInv'
      BY <1>0, <1>2, <2>3, AnswerGoesOn DEF BreakerLeave
    <3> QED BY <2>1, <3>1
  <2> QED BY <1>9, <2>2, <2>3
<1>10. CASE SendLog(r)
  <2>1. KeptInv'
    BY <1>10, KeptStays DEF SendLog, stateVars
  <2>2. pc[r] = "up" /\ pos[r] # 0 /\ (Return(r, Panic) \/ Return(r, resp[r]))
    BY <1>2, <1>10, Zenon DEF SendLog
  <2>3. Panic \in Responses /\ Panic.status \notin 200 .. 299
    BY PanicIs
  <2>4. CASE Return(r, Panic)
    BY <1>0, <2>1, <2>2, <2>3, <2>4, AnswerGoesUp
  <2>5. CASE Return(r, resp[r])
    BY <1>0, <2>1, <2>2, <2>5, AnswerGoesOn
  <2> QED BY <2>2, <2>4, <2>5
<1>11. CASE ProxyPass(r) \/ Merge(r)
  <2>1. KeptInv'
    BY <1>11, KeptStays DEF ProxyPass, Merge, stateVars
  <2>2. GoesUp(r)
    BY <1>11, EndGoesUp
  <2>3. PICK x \in Responses : Return(r, x) /\ (x.status \in 200 .. 299 => x.backend)
    <3>1. CASE ProxyPass(r)
      <4> DEFINE ok == 200
                 bad == 502
      <4>1. ok \in Codes /\ bad \in Codes
        BY DEF Codes
      <4>2. \/ \E plain \in BOOLEAN : Return(r, ProxyAnswer(ok, plain))
            \/ Return(r, ProxyError(bad))
            \/ Return(r, Panic)
        BY <3>1, Zenon DEF ProxyPass, ProxyAnswer, ProxyError
      <4> HIDE DEF ok, bad
      <4>3. \A plain \in BOOLEAN : ProxyAnswer(ok, plain) \in Responses /\ ProxyAnswer(ok, plain).backend
        BY <4>1, ProxyAnswerIs
      <4>4. ProxyError(bad) \in Responses /\ ProxyError(bad).backend
        BY <4>1, ProxyErrorIs
      <4> QED BY <4>2, <4>3, <4>4, PanicIs
    <3>2. CASE Merge(r)
      <4> DEFINE x == [status |-> mergedStatus(r), backend |-> TRUE, plain |-> TRUE, data |-> Data(r)]
      <4>1. mergedStatus(r) \in Codes
        BY DEF mergedStatus, Codes
      <4>2. Data(r) \in SUBSET Backends
        BY DEF Data, With
      <4>3. x \in Responses /\ x.backend
        BY <4>1, <4>2, ResponseIs
      <4> QED BY <3>2, <4>3 DEF Merge
    <3> QED BY <1>11, <3>1, <3>2
  <2>4. AnswersInv'
    BY <1>0, <2>2, <2>3, AnswerGoesUp DEF GoesUp
  <2> QED BY <2>1, <2>4
<1>12. CASE HandleAggregation(r) \/ AggregationStep(r)
  <2>1. KeptInv'
    BY <1>12, KeptStays DEF HandleAggregation, AggregationStep, stateVars
  <2>2. CASE AggregationStep(r)
    BY <2>1, <2>2, AnswersKept DEF AggregationStep, localVars
  <2>3. CASE HandleAggregation(r)
    <3>1. resp' = resp /\ pos' = pos /\ mine' = mine /\ pc' = [pc EXCEPT ![r] = "calling"]
      BY <2>3 DEF HandleAggregation
    <3>2. ASSUME NEW s \in Requests PROVE Served(s)'
      <4>1. Served(s) /\ (pc'[s] = "up" => pc[s] = "up")
        BY <3>1 DEF AnswersInv, PlaceInv
      <4> QED BY <3>1, <4>1 DEF Served, Name, Chain
    <3>3. AnswersInv'
      BY <3>1, <3>2 DEF AnswersInv
    <3> QED BY <2>1, <3>3
  <2> QED BY <1>12, <2>2, <2>3
<1>13. CASE Enter(r) \/ Respond(r)
  <2>1. KeptInv'
    BY <1>13, KeptStays DEF Enter, Respond, stateVars
  <2>2. ASSUME NEW s \in Requests, s # r PROVE Served(s)'
    <3>1. pc'[s] = pc[s] /\ pos'[s] = pos[s] /\ mine'[s] = mine[s] /\ resp'[s] = resp[s]
      BY <1>13, <2>2 DEF Enter, Respond, PlaceInv, AnswersInv
    <3>2. Served(s)
      BY DEF AnswersInv
    <3> QED BY <3>1, <3>2 DEF Served, Name, Chain
  <2>3. Served(r)' /\ resp' \in [Requests -> Responses]
    <3>1. CASE Respond(r)
      <4>1. pc'[r] = "new" /\ NoResponse \in Responses
        BY <3>1 DEF Respond, PlaceInv, NoResponse, Responses
      <4> QED BY <3>1, <4>1 DEF Respond, Served, AnswersInv
    <3>2. CASE Enter(r)
      <4>0. Place(r) /\ pc[r] = "new"
        BY <3>2 DEF PlaceInv, Enter
      <4>1. pos[r] = 0
        BY <4>0 DEF Place
      <4>2. PICK q \in Inputs[r] :
              \/ /\ resp' = [resp EXCEPT ![r] = [NoResponse EXCEPT !.status = validateRequestFraming(q)]]
                 /\ pos' = pos
              \/ resp' = resp /\ pc' = [pc EXCEPT ![r] = "down"]
        BY <3>2 DEF Enter
      <4>3. validateRequestFraming(q) \in Codes
        BY DEF validateRequestFraming, Codes
      <4>4. resp' \in [Requests -> Responses]
        <5> DEFINE code == validateRequestFraming(q)
                   x == AnswerOf(code)
        <5>1. code \in Codes
          BY <4>3
        <5> HIDE DEF code
        <5>2. x \in Responses
          BY <5>1, AnswerIs
        <5>3. resp' = [resp EXCEPT ![r] = x] \/ resp' = resp
          BY <4>2, Zenon DEF code, AnswerOf
        <5> HIDE DEF x
        <5> QED BY <5>2, <5>3 DEF AnswersInv
      <4>5. pos'[r] = 0 \/ pc'[r] = "down"
        BY <4>1, <4>2 DEF PlaceInv
      <4> QED BY <4>4, <4>5 DEF Served
    <3> QED BY <1>13, <3>1, <3>2
  <2> QED BY <2>1, <2>2, <2>3 DEF AnswersInv
<1> QED BY <1>5, <1>6, <1>7, <1>8, <1>9, <1>10, <1>11, <1>12, <1>13 DEF Step

LEMMA ServedStep == PlaceInv /\ ServedInv /\ [Next]_vars => ServedInv'
<1> SUFFICES ASSUME PlaceInv, ServedInv, [Next]_vars PROVE ServedInv'
  OBVIOUS
<1> USE DEF ServedInv
<1>1. ASSUME NEW r \in Requests, Step(r) PROVE ServedInv'
  BY <1>1, StepServes
<1>2. ASSUME NEW s \in stores, StoreInCache(s) PROVE ServedInv'
  <2>1. s.uri \in Uris /\ s.resp \in Responses /\ Cacheable(s.resp)
    BY DEF KeptInv
  <2>2. stores' \subseteq stores /\ (cache' = [cache EXCEPT ![s.uri] = s.resp] \/ cache' = cache)
    BY <1>2 DEF StoreInCache
  <2>3. KeptInv'
    BY <2>1, <2>2 DEF KeptInv, Cacheable
  <2>4. UNCHANGED localVars
    BY <1>2 DEF StoreInCache
  <2> QED BY <2>3, <2>4, AnswersKept DEF localVars
<1>3. ASSUME NEW uri \in Uris, Expire(uri) PROVE ServedInv'
  <2>1. stores' = stores /\ cache' = [cache EXCEPT ![uri] = NoResponse]
    BY <1>3 DEF Expire
  <2>2. NoResponse \in Responses
    BY DEF NoResponse, Responses
  <2> HIDE DEF NoResponse
  <2>3. KeptInv'
    BY <2>1, <2>2 DEF KeptInv, Cacheable
  <2>4. UNCHANGED localVars
    BY <1>3 DEF Expire
  <2> QED BY <2>3, <2>4, AnswersKept DEF localVars
<1>4. ASSUME UNCHANGED <<localVars, cache, stores>> PROVE ServedInv'
  BY <1>4, AnswersKept, KeptStays DEF localVars
<1>5. ASSUME NEW g \in Gens, Install(g) \/ UpdateRouter(g) PROVE UNCHANGED <<localVars, cache, stores>>
  BY <1>5 DEF Install, UpdateRouter, stateVars
<1>6. BreakerTimeout \/ UNCHANGED vars => UNCHANGED <<localVars, cache, stores>>
  BY DEF BreakerTimeout, vars, stateVars
<1> QED BY <1>1, <1>2, <1>3, <1>4, <1>5, <1>6 DEF Next

LEMMA ServedInit == Init => ServedInv
<1>1. NoResponse \in Responses
  BY DEF NoResponse, Responses
<1> HIDE DEF NoResponse
<1> QED BY <1>1 DEF Init, ServedInv, AnswersInv, KeptInv, Served

LEMMA ServedInvariant == Spec => []ServedInv
BY PlaceInvariant, ServedInit, ServedStep, PTL DEF Spec

(***************************************************************************)
(* Whatever the plugins are and however requests interleave: only what a   *)
(* backend has answered with success is cached, because no plugin before a *)
(* cache makes a success of its own, and a cache looks at the status       *)
(* (CachePlugin.Execute).                                                  *)
(***************************************************************************)
THEOREM BackendsAreCached == Spec => []OnlyBackendsCached
<1>1. ServedInv => OnlyBackendsCached
  BY DEF ServedInv, KeptInv, OnlyBackendsCached, Cacheable
<1> QED BY <1>1, ServedInvariant, PTL

----------------------------------------------------------------------------
(* The breaker.                                                            *)

\* The breaker as it is made, as it lets a call in, and as it settles one.
LEMMA FreshBreaker ==
  ASSUME NEW b, BreakerOK(b), NEW s \in {"closed", "halfopen", "open"}
  PROVE  BreakerOK(NewGeneration(b, s)) /\ NewGeneration(b, s).current = {}
<1>1. Cardinality({}) = 0 /\ IsFiniteSet({})
  BY FS_EmptySet
<1> DEFINE x == NewGeneration(b, s)
<1>2. /\ x.state = s /\ x.reqs = 0 /\ x.cfails = 0 /\ x.csucc = 0 /\ x.current = {}
      /\ x.trip = b.trip /\ x.max = b.max
      /\ x \in [state : {"none", "closed", "halfopen", "open"}, reqs : Nat, cfails : Nat,
                csucc : Nat, current : SUBSET Requests, trip : Nat, max : Nat]
  BY DEF BreakerOK, NewGeneration
<1>3. b.trip \in Nat /\ b.max \in Nat
  BY DEF BreakerOK
<1> HIDE DEF x
<1>4. BreakerOK(x)
  BY <1>1, <1>2, <1>3 DEF BreakerOK
<1> QED BY <1>2, <1>4 DEF x

LEMMA CreatedBreaker ==
  ASSUME BreakerOK(brk), NEW c, Valid("circuit_breaker", c)
  PROVE  LET b == getOrCreateCircuitBreaker(c) IN BreakerOK(b) /\ b.current \subseteq brk.current
<1> DEFINE b == getOrCreateCircuitBreaker(c)
<1>1. c.failure_threshold \in Nat /\ c.success_threshold \in Nat
  BY DEF Valid
<1>2. CASE brk.state # "none"
  BY <1>2 DEF getOrCreateCircuitBreaker
<1>3. CASE brk.state = "none"
  <2>1. b = [state |-> "closed", reqs |-> 0, cfails |-> 0, csucc |-> 0, current |-> {},
             trip |-> c.failure_threshold, max |-> c.success_threshold]
    BY <1>3 DEF getOrCreateCircuitBreaker, NoBreaker
  <2>2. IsFiniteSet({})
    BY FS_EmptySet
  <2> DEFINE x == b
  <2>3. /\ x.state = "closed" /\ x.reqs = 0 /\ x.cfails = 0 /\ x.csucc = 0 /\ x.current = {}
        /\ x.trip = c.failure_threshold /\ x.max = c.success_threshold
        /\ x \in [state : {"none", "closed", "halfopen", "open"}, reqs : Nat, cfails : Nat,
                  csucc : Nat, current : SUBSET Requests, trip : Nat, max : Nat]
    BY <1>1, <2>1
  <2> HIDE DEF b
  <2>4. BreakerOK(b)
    BY <1>1, <2>2, <2>3 DEF BreakerOK
  <2> QED BY <2>3, <2>4 DEF b
<1> QED BY <1>2, <1>3

LEMMA CallEnters ==
  ASSUME NEW b, BreakerOK(b), NEW r \in Requests, r \notin b.current,
         b.state = "halfopen" => b.reqs < b.max
  PROVE  BreakerOK([b EXCEPT !.reqs = IF b.state = "halfopen" THEN @ + 1 ELSE @,
                             !.current = @ \union {r}])
<1> DEFINE n == b.current \union {r}
           k == IF b.state = "halfopen" THEN b.reqs + 1 ELSE b.reqs
           x == [b EXCEPT !.reqs = k, !.current = n]
<1>1. Cardinality(n) = Cardinality(b.current) + 1 /\ IsFiniteSet(n) /\ n \in SUBSET Requests
  BY FS_AddElement DEF BreakerOK
<1>2. Cardinality(b.current) \in Nat
  BY FS_CardinalityType DEF BreakerOK
<1>3. k \in Nat /\ k <= b.max /\ (b.state = "halfopen" => k = b.reqs + 1)
  BY DEF BreakerOK
<1> HIDE DEF n, k
<1>4. /\ x.state = b.state /\ x.reqs = k /\ x.cfails = b.cfails /\ x.csucc = b.csucc
      /\ x.current = n /\ x.trip = b.trip /\ x.max = b.max
      /\ x \in [state : {"none", "closed", "halfopen", "open"}, reqs : Nat, cfails : Nat,
                csucc : Nat, current : SUBSET Requests, trip : Nat, max : Nat]
  BY <1>1, <1>3 DEF BreakerOK
<1>5. BreakerOK(x)
  <2> HIDE DEF x
  <2> QED BY <1>1, <1>2, <1>3, <1>4 DEF BreakerOK
<1> QED BY <1>5 DEF n, k

LEMMA CallSettles ==
  ASSUME NEW b, BreakerOK(b), NEW r \in b.current
  PROVE  /\ BreakerOK(afterSuccess(b, r)) /\ afterSuccess(b, r).current \subseteq b.current \ {r}
         /\ BreakerOK(afterFailure(b, r)) /\ afterFailure(b, r).current \subseteq b.current \ {r}
<1> DEFINE n == b.current \ {r}
<1>1. Cardinality(n) = Cardinality(b.current) - 1 /\ IsFiniteSet(n) /\ n \in SUBSET Requests
  BY FS_RemoveElement DEF BreakerOK
<1>2. Cardinality(b.current) \in Nat
  BY FS_CardinalityType DEF BreakerOK
<1> HIDE DEF n
<1>3. ASSUME NEW k \in Nat, NEW m \in Nat, m <= b.trip, b.state = "halfopen" => k = b.csucc + 1,
             NEW x, x = [b EXCEPT !.csucc = k, !.cfails = m, !.current = n]
      PROVE  BreakerOK(x) /\ x.current = n
  <2>1. /\ x.state = b.state /\ x.reqs = b.reqs /\ x.cfails = m /\ x.csucc = k
        /\ x.current = n /\ x.trip = b.trip /\ x.max = b.max
        /\ x \in [state : {"none", "closed", "halfopen", "open"}, reqs : Nat, cfails : Nat,
                  csucc : Nat, current : SUBSET Requests, trip : Nat, max : Nat]
    BY <1>1, <1>3 DEF BreakerOK
  <2> QED BY <1>1, <1>2, <1>3, <2>1 DEF BreakerOK
<1>4. BreakerOK(afterSuccess(b, r)) /\ afterSuccess(b, r).current \subseteq n
  <2>1. CASE b.state = "halfopen" /\ b.csucc + 1 >= b.max
    <3>1. afterSuccess(b, r) = NewGeneration(b, "closed")
      BY <2>1 DEF afterSuccess
    <3> QED BY <3>1, FreshBreaker
  <2>2. CASE ~(b.state = "halfopen" /\ b.csucc + 1 >= b.max)
    <3> DEFINE k == IF b.state = "halfopen" THEN b.csucc + 1 ELSE b.csucc
               m == 0
    <3>1. afterSuccess(b, r) = [b EXCEPT !.csucc = k, !.cfails = m, !.current = n]
      BY <2>2 DEF afterSuccess, n
    <3>2. k \in Nat /\ m \in Nat /\ m <= b.trip /\ (b.state = "halfopen" => k = b.csucc + 1)
      BY DEF BreakerOK
    <3> HIDE DEF k, m
    <3> QED BY <1>3, <3>1, <3>2
  <2> QED BY <2>1, <2>2
<1>5. BreakerOK(afterFailure(b, r)) /\ afterFailure(b, r).current \subseteq n
  <2>1. CASE b.state = "halfopen" \/ b.cfails + 1 >= b.trip
    <3>1. afterFailure(b, r) = NewGeneration(b, "open")
      BY <2>1 DEF afterFailure
    <3> QED BY <3>1, FreshBreaker
  <2>2. CASE ~(b.state = "halfopen" \/ b.cfails + 1 >= b.trip)
    <3> DEFINE k == b.csucc
               m == b.cfails + 1
    <3>1. afterFailure(b, r) = [b EXCEPT !.csucc = k, !.cfails = m, !.current = n]
      BY <2>2 DEF afterFailure, n, BreakerOK
    <3>2. k \in Nat /\ m \in Nat /\ m <= b.trip /\ (b.state = "halfopen" => k = b.csucc + 1)
      BY <2>2 DEF BreakerOK
    <3> HIDE DEF k, m
    <3> QED BY <1>3, <3>1, <3>2
  <2> QED BY <2>1, <2>2
<1> QED BY <1>4, <1>5 DEF n

\* Who does not move stays where he is.
LEMMA OthersBelow ==
  ASSUME PlaceInv, NEW r \in Requests, Step(r), NEW s \in Requests, s # r, BelowBreaker(s)
  PROVE  BelowBreaker(s)'
<1>1. pc'[s] = pc[s] /\ pos'[s] = pos[s] /\ mine'[s] = mine[s]
  <2>1. CASE Enter(r) \/ Respond(r)
    BY <2>1 DEF Enter, Respond, PlaceInv
  <2>2. CASE HandleAggregation(r) \/ AggregationStep(r)
    BY <2>2 DEF HandleAggregation, AggregationStep, localVars, PlaceInv
  <2>3. CASE GoesDown(r)
    BY <2>3 DEF GoesDown, Continue, PlaceInv
  <2>4. CASE GoesUp(r)
    BY <2>4 DEF GoesUp, Return, PlaceInv
  <2> QED BY <2>1, <2>2, <2>3, <2>4, StepMoves
<1> QED BY <1>1 DEF BelowBreaker, Name, Chain

\* Going down, and going up unless it is at the breaker, a request stays below.
LEMMA DownBelow ==
  ASSUME PlaceInv, NEW r \in Requests, GoesDown(r), UNCHANGED chainVars,
         BelowBreaker(r) \/ Here(r).name = "circuit_breaker"
  PROVE  BelowBreaker(r)'
<1>1. pc[r] = "down" /\ pos[r] # 0 /\ pos[r] <= Len(Chain(r)) /\ pos'[r] > pos[r]
  BY ContinuePlaces DEF GoesDown
<1>2. pc'[r] = "down" /\ mine'[r] = mine[r]
  BY <1>1 DEF GoesDown, Continue
<1>3. pos[r] \in Nat /\ pos'[r] \in Nat
  BY ContinuePlaces DEF GoesDown, PlaceInv
<1>4. PICK i \in 1 .. pos[r] : i <= Len(Chain(r)) /\ Name(r, i) = "circuit_breaker"
  <2>1. pos[r] \in 1 .. pos[r]
    BY <1>1, <1>3
  <2> QED BY <1>1, <2>1 DEF BelowBreaker, Here, Name
<1>5. i \in 1 .. pos'[r] /\ i < pos'[r]
  BY <1>1, <1>3
<1> QED BY <1>2, <1>4, <1>5 DEF BelowBreaker, Name, Chain

LEMMA UpBelow ==
  ASSUME PlaceInv, NEW r \in Requests, GoesUp(r), UNCHANGED chainVars, BelowBreaker(r),
         pc[r] = "up" => Here(r).name # "circuit_breaker"
  PROVE  BelowBreaker(r)'
<1>1. /\ pos[r] \in 1 .. Len(Chain(r)) + 1
      /\ pos'[r] = Before(Chain(r), pos[r])
      /\ mine[r] \in Routers
  BY ReturnPlaces DEF GoesUp
<1>2. pc'[r] = "up" /\ mine'[r] = mine[r]
  BY DEF GoesUp, Return, PlaceInv
<1>3. Len(Chain(r)) \in Nat
  BY <1>1, ChainOf
<1>4. PICK i \in 1 .. pos[r] : /\ i <= Len(Chain(r)) /\ Name(r, i) = "circuit_breaker"
                               /\ pc[r] = "down" => i < pos[r]
  BY DEF BelowBreaker
<1>5. i \in 1 .. pos[r] - 1
  <2>1. i # pos[r]
    <3>1. pc[r] \in {"down", "up", "calling"} /\ Place(r)
      BY DEF GoesUp, PlaceInv
    <3>2. CASE pc[r] = "down"
      BY <1>1, <1>3, <1>4, <3>2
    <3>3. CASE pc[r] = "calling"
      BY <1>3, <1>4, <3>1, <3>3 DEF Place
    <3>4. CASE pc[r] = "up"
      BY <1>4, <3>4 DEF Here, Name
    <3> QED BY <3>1, <3>2, <3>3, <3>4
  <2> QED BY <1>1, <1>3, <1>4, <2>1
<1>6. pos'[r] \in 0 .. pos[r] - 1 /\ i <= pos'[r]
  <2>1. Chain(r)[i].name \in Responding
    BY <1>4 DEF Name, Responding
  <2> QED BY <1>1, <1>3, <1>5, <2>1, BeforeIs
<1>7. i \in 1 .. pos'[r]
  BY <1>1, <1>3, <1>5, <1>6
<1> QED BY <1>2, <1>4, <1>7 DEF BelowBreaker, Name, Chain

\* The breaker is in the list once: a request comes to it once.
LEMMA NotYetBelow ==
  ASSUME PlaceInv, NEW r \in Requests, AtPlugin(r, "circuit_breaker")
  PROVE  ~BelowBreaker(r)
<1>1. pc[r] = "down" /\ pos[r] # 0 /\ pos[r] <= Len(Chain(r)) /\ Here(r).name = "circuit_breaker"
  BY AtPluginIs
<1>2. pos[r] \in 1 .. Len(Chain(r)) /\ mine[r] \in Routers
  BY <1>1, HereIs
<1>3. Len(Chain(r)) \in Nat
  BY <1>2, ChainOf
<1>4. ASSUME NEW i \in 1 .. pos[r], i < pos[r] PROVE Name(r, i) # "circuit_breaker"
  <2>1. i \in 1 .. Len(Chain(r))
    BY <1>2, <1>3
  <2>2. Chain(r)[i].name # Chain(r)[pos[r]].name
    BY <1>2, <1>4, <2>1, ChainOf
  <2> QED BY <1>1, <2>2 DEF Here, Name
<1> QED BY <1>1, <1>4 DEF BelowBreaker

LEMMA ProbeStep == PlaceInv /\ ProbeInv /\ [Next]_vars => ProbeInv'
<1> SUFFICES ASSUME PlaceInv, ProbeInv, [Next]_vars PROVE ProbeInv'
  OBVIOUS
<1>0. BreakerOK(brk) /\ brk.current \in SUBSET Requests /\ \A s \in brk.current : BelowBreaker(s)
  BY DEF ProbeInv, BreakerOK
<1>1. ASSUME NEW r \in Requests, Step(r) PROVE ProbeInv'
  <2>0. UNCHANGED chainVars
    BY <1>1, StepMoves
  <2>1. \A s \in brk.current : s # r => BelowBreaker(s)'
    BY <1>0, <1>1, OthersBelow
  <2>2. CASE brk' = brk /\ (r \notin brk.current \/ BelowBreaker(r)')
    BY <1>0, <2>1, <2>2 DEF ProbeInv
  <2>3. CASE Enter(r) \/ Respond(r)
    <3>1. pc[r] = "new" \/ pos[r] = 0
      BY <2>3 DEF Enter, Respond
    <3>2. ~BelowBreaker(r)
      BY <3>1 DEF BelowBreaker
    <3>3. brk' = brk
      BY <2>3 DEF Enter, Respond, stateVars
    <3> QED BY <1>0, <2>2, <3>2, <3>3
  <2>4. CASE HandleAggregation(r) \/ AggregationStep(r)
    <3>1. brk' = brk /\ pos' = pos /\ mine' = mine
      BY <2>4 DEF HandleAggregation, AggregationStep, stateVars, localVars
    <3>2. pc'[r] = "calling"
      BY <2>4 DEF HandleAggregation, AggregationStep, localVars, PlaceInv
    <3>3. BelowBreaker(r) => BelowBreaker(r)'
      BY <3>1, <3>2 DEF BelowBreaker, Name, Chain
    <3> QED BY <1>0, <2>2, <3>1, <3>3
  <2>5. CASE BreakerEnter(r)
    <3> DEFINE b == getOrCreateCircuitBreaker(Here(r).config)
    <3>1. AtPlugin(r, "circuit_breaker")
      BY <2>5 DEF BreakerEnter
    <3>2. ~BelowBreaker(r) /\ r \notin brk.current
      BY <1>0, <3>1, NotYetBelow
    <3>3. BreakerOK(b) /\ b.current \subseteq brk.current
      <4>1. Valid("circuit_breaker", Here(r).config)
        BY <3>1, AtPluginIs, HereIs
      <4> QED BY <1>0, <4>1, CreatedBreaker
    <3> DEFINE x == [b EXCEPT !.reqs = IF b.state = "halfopen" THEN @ + 1 ELSE @,
                              !.current = @ \union {r}]
    <3>4. \/ (b.state = "closed" \/ (b.state = "halfopen" /\ b.reqs < b.max)) /\ brk' = x /\ Continue(r, req[r])
          \/ brk' = b
      BY <2>5 DEF BreakerEnter
    <3> HIDE DEF b
    <3>5. CASE brk' = b
      BY <2>1, <3>2, <3>3, <3>5 DEF ProbeInv
    <3>6. CASE (b.state = "closed" \/ (b.state = "halfopen" /\ b.reqs < b.max)) /\ brk' = x /\ Continue(r, req[r])
      <4>1. BreakerOK(x)
        BY <3>2, <3>3, <3>6, CallEnters
      <4>2. x.current \subseteq b.current \union {r}
        BY <3>3 DEF BreakerOK
      <4> HIDE DEF x
      <4>3. GoesDown(r)
        BY <3>1, <3>6, AtPluginIs, HereIs DEF GoesDown
      <4>4. Here(r).name = "circuit_breaker"
        BY <3>1, AtPluginIs
      <4>5. BelowBreaker(r)'
        BY <2>0, <4>3, <4>4, DownBelow
      <4> QED BY <2>1, <3>3, <3>6, <4>1, <4>2, <4>5 DEF ProbeInv
    <3> QED BY <3>4, <3>5, <3>6
  <2>6. CASE BreakerLeave(r)
    <3>1. brk' = afterRequest(r)
      BY <2>6 DEF BreakerLeave
    <3>2. BreakerOK(brk') /\ brk'.current \subseteq brk.current \ {r}
      <4>1. CASE r \notin brk.current
        BY <1>0, <3>1, <4>1 DEF afterRequest
      <4>2. CASE r \in brk.current
        <5>1. brk' = afterFailure(brk, r) \/ brk' = afterSuccess(brk, r)
          BY <3>1, <4>2 DEF afterRequest
        <5> QED BY <1>0, <4>2, <5>1, CallSettles
      <4> QED BY <4>1, <4>2
    <3> QED BY <2>1, <3>2 DEF ProbeInv
  <2>7. CASE /\ brk' = brk /\ GoesDown(r)
    <3>1. BelowBreaker(r) => BelowBreaker(r)'
      BY <2>0, <2>7, DownBelow
    <3> QED BY <1>0, <2>2, <2>7, <3>1
  <2>8. CASE /\ brk' = brk /\ GoesUp(r) /\ (pc[r] = "up" => Here(r).name # "circuit_breaker")
    <3>1. BelowBreaker(r) => BelowBreaker(r)'
      BY <2>0, <2>8, UpBelow
    <3> QED BY <1>0, <2>2, <2>8, <3>1
  <2>9. CASE \/ Filter(r) \/ LimitRate(r) \/ CacheMiss(r) \/ CacheHit(r) \/ CacheStore(r)
             \/ ProxyPass(r) \/ Merge(r) \/ SendLog(r)
    <3>1. brk' = brk
      BY <2>9 DEF Filter, LimitRate, CacheMiss, CacheHit, CacheStore, ProxyPass, Merge, SendLog, stateVars
    <3>2. pc[r] = "up" => Here(r).name # "circuit_breaker"
      BY <2>9 DEF Filter, LimitRate, CacheMiss, CacheHit, CacheStore, ProxyPass, Merge, SendLog,
         AtPlugin, BackAtPlugin, AtEnd
    <3>3. CASE GoesDown(r)
      BY <2>7, <3>1, <3>3
    <3>4. CASE GoesUp(r)
      BY <2>8, <3>1, <3>2, <3>4
    <3>5. CASE Enter(r) \/ Respond(r) \/ HandleAggregation(r) \/ AggregationStep(r)
      BY <2>3, <2>4, <3>5
    <3> QED BY <1>1, <3>3, <3>4, <3>5, StepMoves
  <2> QED BY <1>1, <2>3, <2>4, <2>5, <2>6, <2>9 DEF Step
<1>2. ASSUME UNCHANGED localVars, brk' = brk PROVE ProbeInv'
  BY <1>2 DEF localVars, ProbeInv, BelowBreaker, Name, Chain
<1>3. ASSUME NEW s \in stores, StoreInCache(s) PROVE ProbeInv'
  BY <1>2, <1>3 DEF StoreInCache
<1>4. ASSUME NEW uri \in Uris, Expire(uri) PROVE ProbeInv'
  BY <1>2, <1>4 DEF Expire
<1>5. ASSUME NEW g \in Gens, Install(g) \/ UpdateRouter(g) PROVE ProbeInv'
  BY <1>2, <1>5 DEF Install, UpdateRouter, stateVars
<1>6. CASE UNCHANGED vars
  BY <1>2, <1>6 DEF vars, stateVars
<1>7. CASE BreakerTimeout
  <2>1. brk' = NewGeneration(brk, "halfopen")
    BY <1>7 DEF BreakerTimeout
  <2>2. BreakerOK(brk') /\ brk'.current = {}
    BY <1>0, <2>1, FreshBreaker
  <2> QED BY <2>2 DEF ProbeInv
<1> QED BY <1>1, <1>3, <1>4, <1>5, <1>6, <1>7 DEF Next

LEMMA ProbeInit == Init => ProbeInv
BY FS_EmptySet DEF Init, ProbeInv, BreakerOK, NoBreaker

LEMMA ProbeInvariant == Spec => []ProbeInv
BY PlaceInvariant, ProbeInit, ProbeStep, PTL DEF Spec

(***************************************************************************)
(* A half-open breaker loses no probe, for any list of plugins around it,  *)
(* any thresholds, and whatever reloads happen in between                  *)
(* (CircuitBreakerPlugin.Execute).                                         *)
(***************************************************************************)
THEOREM ProbesAlwaysSettle == Spec => []ProbesSettle
<1>1. ProbeInv => ProbesSettle
  BY DEF ProbeInv, BreakerOK, ProbesSettle
<1> QED BY <1>1, ProbeInvariant, PTL

----------------------------------------------------------------------------
(* multi_auth.                                                             *)

LEMMA VerdictOfMultiAuth ==
  ASSUME PlaceInv, NEW r \in Requests, AtPlugin(r, "multi_auth")
  PROVE  LET c == Here(r).config IN
         Verdict(Here(r), req[r]).status = 0 <=>
           \E i \in DOMAIN c.strategies :
             /\ c.strategies[i] \in Strategies
             /\ Attempt(c, c.strategies[i], req[r], Configs[installed].consumers).status = 0
<1> DEFINE c == Here(r).config
           people == Configs[installed].consumers
           q == req[r]
           v == Verdict(Here(r), q)
           Passes(i) == /\ c.strategies[i] \in Strategies
                        /\ Attempt(c, c.strategies[i], q, people).status = 0
<1>1. Here(r).name = "multi_auth" /\ Valid("multi_auth", c)
  BY AtPluginIs, HereIs
<1>2. c.strategies \in Seq(STRING)
  BY <1>1 DEF Valid
<1>3. v = MultiAuth(c, q, people)
  BY <1>1, Zenon DEF Verdict
<1> HIDE DEF c, people, q, v
<1>4. \/ \E i \in DOMAIN c.strategies : Passes(i) /\ v = Attempt(c, c.strategies[i], q, people)
      \/ (\A i \in DOMAIN c.strategies : ~Passes(i)) /\ v \in {Reject(q, 401), Reject(q, 500)}
  BY <1>2, <1>3, MultiAuthIs
<1>5. v.status = 0 <=> \E i \in DOMAIN c.strategies : Passes(i)
  BY <1>4 DEF Reject
<1> QED BY <1>5 DEF c, people, q, v

\* A request that multi_auth has seen goes on if it says so, and back if not.
LEMMA MultiAuthMoves ==
  ASSUME PlaceInv, NEW r \in Requests, AtPlugin(r, "multi_auth"), Step(r)
  PROVE  pos'[r] > pos[r] <=> Verdict(Here(r), req[r]).status = 0
<1> DEFINE v == Verdict(Here(r), req[r])
<1>1. pc[r] = "down" /\ pos[r] # 0 /\ pos[r] <= Len(Chain(r)) /\ Here(r).name = "multi_auth"
  BY AtPluginIs
<1>2. pos[r] \in 1 .. Len(Chain(r)) /\ mine[r] \in Routers
  BY <1>1, HereIs
<1>3. Len(Chain(r)) \in Nat
  BY <1>2, ChainOf
<1>4. Filter(r)
  <2>1. ~AtEnd(r)
    BY <1>1, <1>2, <1>3 DEF AtEnd
  <2> QED BY <1>1, <2>1 DEF Step, Enter, LimitRate, CacheMiss, CacheHit, CacheStore, BreakerEnter,
       BreakerLeave, ProxyPass, HandleAggregation, AggregationStep, Merge, SendLog, Respond,
       AtPlugin, BackAtPlugin
<1>5. UNCHANGED chainVars
  BY <1>4 DEF Filter
<1>6. \/ v.status = 0 /\ Continue(r, v.req) /\ IsRequest(v.req)
      \/ v.status # 0 /\ Answer(r, v.status)
  BY <1>4, FilterMoves
<1> HIDE DEF v
<1>7. CASE v.status = 0 /\ Continue(r, v.req) /\ IsRequest(v.req)
  BY <1>1, <1>5, <1>7, ContinuePlaces DEF v
<1>8. CASE v.status # 0 /\ Answer(r, v.status)
  <2>1. pos'[r] = Before(Chain(r), pos[r]) /\ pos[r] \in 1 .. Len(Chain(r)) + 1
    BY <1>1, <1>5, <1>8, ReturnPlaces DEF Answer
  <2>2. pos'[r] \in 0 .. pos[r] - 1
    BY <1>3, <2>1, BeforeIs
  <2>3. ~(pos'[r] > pos[r])
    BY <1>2, <1>3, <2>2
  <2> QED BY <1>8, <2>3 DEF v
<1> QED BY <1>6, <1>7, <1>8

\* Requests move by their own steps.
LEMMA OthersStay ==
  ASSUME PlaceInv, [Next]_vars, NEW r \in Requests, pos'[r] # pos[r]
  PROVE  Step(r)
<1>1. ASSUME NEW s \in Requests, Step(s), s # r PROVE FALSE
  <2>1. CASE Enter(s) \/ Respond(s)
    BY <1>1, <2>1 DEF Enter, Respond, PlaceInv
  <2>2. CASE HandleAggregation(s) \/ AggregationStep(s)
    BY <2>2 DEF HandleAggregation, AggregationStep, localVars
  <2>3. CASE GoesDown(s)
    BY <1>1, <2>3 DEF GoesDown, Continue, PlaceInv
  <2>4. CASE GoesUp(s)
    BY <1>1, <2>4 DEF GoesUp, Return, PlaceInv
  <2> QED BY <1>1, <2>1, <2>2, <2>3, <2>4, StepMoves
<1>2. ~ UNCHANGED localVars
  BY DEF localVars
<1>3. \A s \in stores : ~StoreInCache(s)
  BY <1>2 DEF StoreInCache
<1>4. \A uri \in Uris : ~Expire(uri)
  BY <1>2 DEF Expire
<1>5. \A g \in Gens : ~Install(g) /\ ~UpdateRouter(g)
  BY <1>2 DEF Install, UpdateRouter
<1>6. ~BreakerTimeout /\ ~ UNCHANGED vars
  BY <1>2 DEF BreakerTimeout, vars
<1> QED BY <1>1, <1>3, <1>4, <1>5, <1>6 DEF Next

(***************************************************************************)
(* Whatever the strategies and their order: multi_auth admits a request    *)
(* exactly if one of its strategies would, since one that fails leaves the *)
(* headers alone (MultiAuthPlugin.Execute, createAuthPlugin).              *)
(***************************************************************************)
THEOREM MultiAuthAdmits == Spec => MultiAuthIsOr
<1>1. PlaceInv /\ [Next]_vars =>
        [\A r \in Requests :
           AtPlugin(r, "multi_auth") /\ pos'[r] # pos[r] =>
             LET c == Here(r).config IN
             (pos'[r] > pos[r]) <=>
               \E i \in DOMAIN c.strategies :
                 /\ c.strategies[i] \in Strategies
                 /\ Attempt(c, c.strategies[i], req[r], Configs[installed].consumers).status = 0]_vars
  <2> SUFFICES ASSUME PlaceInv, [Next]_vars, NEW r \in Requests,
                      AtPlugin(r, "multi_auth"), pos'[r] # pos[r]
               PROVE  LET c == Here(r).config IN
                      (pos'[r] > pos[r]) <=>
                        \E i \in DOMAIN c.strategies :
                          /\ c.strategies[i] \in Strategies
                          /\ Attempt(c, c.strategies[i], req[r],
                                     Configs[installed].consumers).status = 0
    BY Zenon
  <2>1. pos'[r] > pos[r] <=> Verdict(Here(r), req[r]).status = 0
    BY OthersStay, MultiAuthMoves
  <2> QED BY <2>1, VerdictOfMultiAuth, Zenon
<1> QED BY <1>1, PlaceInvariant, PTL DEF Spec, MultiAuthIsOr

----------------------------------------------------------------------------
(***************************************************************************)
(* Every variable keeps its type, and the counters of the breaker stay     *)
(* within its thresholds.                                                  *)
(***************************************************************************)
THEOREM ChainTypeCorrect == Spec => []TypeOK
<1>1. ChainInv /\ ReloadInv /\ PlaceInv /\ ServedInv /\ ProbeInv => TypeOK
  <2> SUFFICES ASSUME ChainInv, ReloadInv, PlaceInv, ServedInv, ProbeInv PROVE TypeOK
    OBVIOUS
  <2>1. AggregationTypeOK
    BY DEF ChainInv
  <2>2. installed \in Gens /\ reloading \subseteq Gens /\ router \in [global : Gens, own : Gens]
    BY DEF ReloadInv
  <2>3. /\ pc \in [Requests -> {"new", "down", "up", "calling"}]
        /\ pos \in [Requests -> Nat]
        /\ mine \in [Requests -> [global : Gens \union {0}, own : Gens \union {0}]]
    BY DEF PlaceInv
  <2>4. /\ resp \in [Requests -> Responses] /\ cache \in [Uris -> Responses]
        /\ \A s \in stores : s.uri \in Uris /\ s.resp \in Responses
    BY DEF ServedInv, AnswersInv, KeptInv
  <2>5. /\ brk \in [state : {"none", "closed", "halfopen", "open"}, reqs : Nat, cfails : Nat,
                    csucc : Nat, current : SUBSET Requests, trip : Nat, max : Nat]
        /\ brk.reqs <= brk.max /\ brk.cfails <= brk.trip
    BY DEF ProbeInv, BreakerOK
  <2> QED BY <2>1, <2>2, <2>3, <2>4, <2>5 DEF TypeOK
<1> QED BY <1>1, ChainInvariant, PlaceInvariant, ServedInvariant, ProbeInvariant, PTL
=============================================================================
