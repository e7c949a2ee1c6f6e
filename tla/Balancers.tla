----------------------------- MODULE Balancers -----------------------------
(***************************************************************************)
(* The consistent-hashing, least-connections and latency balancers of one  *)
(* service (load_balancer.go, consistent_hash.go, least_conn_heap.go,      *)
(* latency_balancer.go, hash_extractor.go) while its configuration is      *)
(* replaced.  ProxyPass has the round-robin balancer.                      *)
(*                                                                         *)
(* The caches of the balancers are keyed by the name of the service, so    *)
(* that requests that were routed before a reload and requests routed      *)
(* after it use the same entry.  A request keeps the service it was routed *)
(* to, with its list of upstreams.                                         *)
(***************************************************************************)
EXTENDS Integers, Sequences, FiniteSets, FiniteSetsExt

CONSTANTS
  Requests,       \* the requests of one run
  Strategies,     \* load_balancing_strategy: each run uses one of these
  Ids,            \* ids of upstream targets
  Configs,        \* Configs[g]: the upstreams of the service in configuration g
  Weight,         \* Weight[u]: the weight of target u
  Tagged,         \* targets that have the tags of tagged routes
  Selective,      \* requests whose route has tags
  HealthEnabled,  \* service.Health.Enabled
  M,              \* MaglevM, a prime number
  Offset, Skip,   \* generateOffsetAndSkip of each id
  HashOn,         \* hash_on of the upstream
  HashFallback,   \* hash_fallback
  Attributes,     \* Attributes[r][t]: what r has for hash type t, or "";
                  \* "peer" is the address of its connection
  SlotOf,         \* SlotOf[v]: xxhash of v, modulo M
  LoadCheckAbove, \* 10: connections from which on load is bounded
  MaxRetries,     \* service.RetryOptions.MaxRetries
  MaxChanges      \* bound: changes of the condition of a target in one run

Gens == 1 .. Len(Configs)
Slots == 0 .. M - 1
UpstreamsOf(g) == {Configs[g][i] : i \in 1 .. Len(Configs[g])}

\* Breaker and health status of a target, as far as the balancers tell them
\* apart: closed and Healthy; half-open and Unhealthy; open and Healthy;
\* open and Unhealthy; closed and not in the health map.
Conditions == {"up", "probe", "short", "down", "absent"}

ASSUME BalancerAssumption ==
  /\ Strategies \subseteq {"consistent-hashing", "least-connections", "latency"}
  /\ Configs \in Seq(Seq(Ids)) /\ Configs # <<>>
  /\ \A g \in Gens : Len(Configs[g]) \in 1 .. M
  /\ Weight \in [Ids -> Nat]
  /\ Tagged \subseteq Ids
  /\ Selective \subseteq Requests
  /\ M \in Nat /\ M > 1 /\ \A d \in 2 .. M - 1 : M % d # 0
  /\ Offset \in [Ids -> Slots]
  /\ Skip \in [Ids -> 1 .. M - 1]
  /\ LoadCheckAbove \in Nat
  /\ MaxRetries \in Nat
  /\ MaxChanges \in Nat

VARIABLES
  strategy,   \* the strategy of the service
  installed,  \* configuration of the last globalProxyConfig.Store
  router,     \* configuration the router was built from
  ring,       \* consistentHashCache: the configuration of the ring, 0 if none
  heap,       \* leastConnHeapCache: the configuration of the heap, 0 if none
  conns,      \* activeConnectionCache
  cond,       \* condition of each target
  changes,    \* changes of it so far
  pc,         \* where each request is
  svc,        \* the configuration its service is from, 0 before it is routed
  attempt,    \* its loop variable
  failed,     \* its retryHandle.FailedUpstreams
  index,      \* index of its upstream in the service's list
  uses,       \* the configuration of the cached ring or heap it has used
  load,       \* totalConns and healthyCount as it has summed them
  answer      \* what its client got

sharedVars == <<strategy, installed, router, ring, heap, conns, cond, changes>>
localVars == <<pc, svc, attempt, failed, index, uses, load, answer>>
vars == <<sharedVars, localVars>>

TypeOK ==
  /\ strategy \in Strategies
  /\ installed \in Gens /\ router \in Gens
  /\ ring \in Gens \union {0} /\ heap \in Gens \union {0}
  /\ conns \in [Ids -> Nat]
  /\ cond \in [Ids -> Conditions]
  /\ changes \in 0 .. MaxChanges
  /\ pc \in [Requests -> {"route", "select", "probe", "acquire", "busy", "done"}]
  /\ svc \in [Requests -> Gens \union {0}]
  /\ attempt \in [Requests -> 0 .. MaxRetries]
  /\ failed \in [Requests -> SUBSET Ids]
  /\ index \in [Requests -> Nat]
  /\ uses \in [Requests -> Gens \union {0}]
  /\ load \in [Requests -> [total : Nat, healthy : Nat]]
  /\ answer \in [Requests -> {"none", "ok", "502", "503", "aborted"}]

NoLoad == [total |-> 0, healthy |-> 0]

\* Initialize has put the targets of the first configuration into the map.
Init ==
  /\ strategy \in Strategies
  /\ installed = 1 /\ router = 1
  /\ ring = 0 /\ heap = 0
  /\ conns = [u \in Ids |-> 0]
  /\ cond = [u \in Ids |-> IF u \in UpstreamsOf(1) THEN "up" ELSE "absent"]
  /\ changes = 0
  /\ pc = [r \in Requests |-> "route"]
  /\ svc = [r \in Requests |-> 0]
  /\ attempt = [r \in Requests |-> 0]
  /\ failed = [r \in Requests |-> {}]
  /\ index = [r \in Requests |-> 0]
  /\ uses = [r \in Requests |-> 0]
  /\ load = [r \in Requests |-> NoLoad]
  /\ answer = [r \in Requests |-> "none"]

----------------------------------------------------------------------------
(* What a selection asks of a target.                                      *)

Upstreams(r) == Configs[svc[r]]
Indices(r) == 1 .. Len(Upstreams(r))

tagsMatch(r, u) == r \in Selective => u \in Tagged

Exists(u) == cond[u] # "absent"
Healthy(u) == cond[u] \in {"up", "short"}

isUpstreamAvailable(u) ==
  IF HealthEnabled THEN cond[u] \in {"up", "probe"} ELSE cond[u] \notin {"short", "down"}

\* Scores (connections + 1) / weight, compared without division.
WeightOf(u) == IF Weight[u] = 0 THEN 1 ELSE Weight[u]
ScoreLess(u, v) == (conns[u] + 1) * WeightOf(v) < (conns[v] + 1) * WeightOf(u)

----------------------------------------------------------------------------
(* The Maglev table.                                                       *)

\* generatePermutation.
Permutation(u, j) == (Offset[u] + j * Skip[u]) % M

\* Mutation: an upstream takes its next slot although it has an owner.
ClaimAny(table, u, n) == Permutation(u, n)

\* The first free slot in the permutation of u; n is the number of claims so far.
Claim(table, u, n) ==
  LET j == CHOOSE j \in Slots :
             /\ table[Permutation(u, j)] = 0
             /\ \A i \in 0 .. j - 1 : table[Permutation(u, i)] # 0
  IN Permutation(u, j)

\* GenerateRing: the upstreams claim slots in turn until the table is full.
GenerateRing(ups) ==
  LET turn(n) == ((n - 1) % Len(ups)) + 1
      fill[n \in 0 .. M] ==
        IF n = 0
        THEN [s \in Slots |-> 0]
        ELSE [fill[n - 1] EXCEPT ![Claim(fill[n - 1], ups[turn(n)], n - 1)] = turn(n)]
  IN fill[M]

lookupTable == [g \in Gens |-> GenerateRing(Configs[g])]

\* GetUpstreamWithFilter: the first accepted target from the slot on, or the
\* owner of the slot.
GetUpstreamWithFilter(g, slot, accepted) ==
  LET at(i) == Configs[g][lookupTable[g][(slot + i) % M]]
      hits == {i \in Slots : at(i) \in accepted}
  IN at(IF hits = {} THEN 0 ELSE Min(hits))

\* ExtractHashValue: hash_on, then hash_fallback, then the address.
ExtractHashValue(r) ==
  LET on == IF HashOn \in {"", "none"} THEN "ip" ELSE HashOn IN
  IF Attributes[r][on] # "" THEN Attributes[r][on]
  ELSE IF HashFallback \notin {"", "none"} /\ Attributes[r][HashFallback] # ""
  THEN Attributes[r][HashFallback]
  ELSE Attributes[r]["ip"]

\* Whatever is hashed has a slot.
ASSUME HashAssumption ==
  /\ \A r \in Requests : {ExtractHashValue(r), Attributes[r]["peer"]} \subseteq DOMAIN SlotOf
  /\ SlotOf \in [DOMAIN SlotOf -> Slots]

----------------------------------------------------------------------------
(* Requests.                                                               *)

Goto(r, loc) == pc' = [pc EXCEPT ![r] = loc]

\* The handler returns, and with it its variables are gone.
Finish(r, what) ==
  /\ Goto(r, "done")
  /\ svc' = [svc EXCEPT ![r] = 0]
  /\ attempt' = [attempt EXCEPT ![r] = 0]
  /\ failed' = [failed EXCEPT ![r] = {}]
  /\ index' = [index EXCEPT ![r] = 0]
  /\ uses' = [uses EXCEPT ![r] = 0]
  /\ load' = [load EXCEPT ![r] = NoLoad]
  /\ answer' = [answer EXCEPT ![r] = what]

\* selectUpstreamWithRetry got an index, with the help of a ring or heap of
\* configuration g; an index outside the list panics.
Selected(r, i, g) ==
  \/ /\ i \in Indices(r)
     /\ Goto(r, "acquire")
     /\ index' = [index EXCEPT ![r] = i]
     /\ uses' = [uses EXCEPT ![r] = g]
     /\ load' = [load EXCEPT ![r] = NoLoad]
     /\ UNCHANGED <<svc, attempt, failed, answer>>
  \/ i \notin Indices(r) /\ Finish(r, "aborted")

\* One of the indices, or NoUpstreamsAvailable if there is none.
SelectedAmong(r, S, g) ==
  \/ S = {} /\ Finish(r, "503")
  \/ \E i \in S : Selected(r, i, g)

\* ServeHTTP loads the router.
RouteRequest(r) ==
  /\ pc[r] = "route"
  /\ svc' = [svc EXCEPT ![r] = router]
  /\ Goto(r, "select")
  /\ UNCHANGED <<sharedVars, attempt, failed, index, uses, load, answer>>

\* No upstream has failed the request, or all have.
Plain(r) == failed[r] = {} \/ UpstreamsOf(svc[r]) \subseteq failed[r]

\* GetNextUpstreamWithRequest and GetNextUpstreamWithRetry choose by strategy.
Selects(r, s) == pc[r] = "select" /\ strategy = s /\ Plain(r)
Retries(r, S) == pc[r] = "select" /\ strategy \in S /\ ~Plain(r)

\* handleIPHash: take the ring from the cache, or put one there, and sum up
\* the connections.
HashPrepare(r) ==
  LET ups == UpstreamsOf(svc[r])
      g == IF ring = 0 THEN svc[r] ELSE ring
  IN
  /\ Selects(r, "consistent-hashing")
  /\ ring' = g
  /\ uses' = [uses EXCEPT ![r] = g]
  /\ load' = [load EXCEPT ![r] =
                [total |-> SumFunctionOnSet(conns, ups),
                 healthy |-> Cardinality({u \in ups : isUpstreamAvailable(u)})]]
  /\ Goto(r, "probe")
  /\ UNCHANGED <<strategy, installed, router, heap, conns, cond, changes,
                 svc, attempt, failed, index, answer>>

\* Mutation: the load is bounded by the average itself.
OverloadedAboveAverage(r, u) ==
  /\ load[r].total > LoadCheckAbove
  /\ conns[u] * load[r].healthy >= load[r].total

\* More than 1.25 times the average load, which is 0 if nothing was
\* available, and more than 1.
Overloaded(r, u) ==
  /\ load[r].total > LoadCheckAbove
  /\ conns[u] > 1
  /\ load[r].healthy = 0 \/ 4 * conns[u] * load[r].healthy > 5 * load[r].total

\* The filter of handleIPHash.
Accepted(r) ==
  {u \in Ids : /\ tagsMatch(r, u)
               /\ isUpstreamAvailable(u)
               /\ HealthEnabled /\ Exists(u) => Healthy(u)
               /\ ~Overloaded(r, u)}

\* Mutation: the target of the fallback has to pass the filter, too.
VerifiedAccepted(r, u) == u \in Accepted(r) /\ u \in UpstreamsOf(svc[r])

\* The final verification of the target that the ring returned.
Verified(r, u) ==
  /\ tagsMatch(r, u)
  /\ isUpstreamAvailable(u) \/ ~HealthEnabled
  /\ u \in UpstreamsOf(svc[r])

\* Once every upstream has failed the request, the address of the peer is
\* hashed (GetNextUpstream), whatever hash_on says.
Slot(r) == SlotOf[IF failed[r] = {} THEN ExtractHashValue(r) ELSE Attributes[r]["peer"]]

HashProbe(r) ==
  LET u == GetUpstreamWithFilter(uses[r], Slot(r), Accepted(r)) IN
  /\ pc[r] = "probe"
  /\ SelectedAmong(r, {i \in Indices(r) : Upstreams(r)[i] = u /\ Verified(r, u)}, uses[r])
  /\ UNCHANGED sharedVars

\* handleLeastConnections: two candidates by chance, the less loaded one of
\* them.  getHealthyCandidates does not look at the tags.
SelectP2C(r) ==
  LET ups == Upstreams(r)
      candidates == {i \in Indices(r) : isUpstreamAvailable(ups[i])}
  IN
  /\ Selects(r, "least-connections")
  /\ IF Len(ups) = 1 THEN Selected(r, 1, 0)
     ELSE IF Cardinality(candidates) < 2 THEN SelectedAmong(r, candidates, 0)
     ELSE \E i, j \in candidates :
            i # j /\ Selected(r, IF ScoreLess(ups[i], ups[j]) THEN i ELSE j, 0)
  /\ UNCHANGED sharedVars

\* The upstreams that handleLeastConnectionsExcluding excludes.
Excluded(r) ==
  failed[r] \union {u \in UpstreamsOf(svc[r]) : HealthEnabled /\ Exists(u) /\ ~Healthy(u)}

\* The items of a heap with the lowest score that are not excluded.
PeekExcluding(g, excluded) ==
  LET items == {i \in 1 .. Len(Configs[g]) : Configs[g][i] \notin excluded}
  IN {i \in items : \A j \in items : ~ScoreLess(Configs[g][j], Configs[g][i])}

\* GetOrCreateLeastConnHeap refreshes the counts of the heap.  The Index of an
\* item is one of the list that the heap was made from.
SelectHeap(r) ==
  LET g == IF heap = 0 THEN svc[r] ELSE heap IN
  /\ Retries(r, {"least-connections"})
  /\ heap' = g
  /\ SelectedAmong(r, PeekExcluding(g, Excluded(r)), g)
  /\ UNCHANGED <<strategy, installed, router, ring, conns, cond, changes>>

\* handleLatency.  Averages decay at different rates, so that any candidate
\* may have the lowest score.  Without health checks and without a match the
\* loop finds nothing and index 0 is returned.
SelectLatency(r) ==
  LET ups == Upstreams(r)
      candidates == {i \in Indices(r) : /\ tagsMatch(r, ups[i])
                                        /\ HealthEnabled => Healthy(ups[i])}
  IN
  /\ Selects(r, "latency")
  /\ IF Len(ups) = 1
     THEN SelectedAmong(r, {i \in {1} : tagsMatch(r, ups[1])}, 0)
     ELSE SelectedAmong(r, IF candidates = {} /\ ~HealthEnabled THEN {1} ELSE candidates, 0)
  /\ UNCHANGED sharedVars

\* Mutation: the tags of a retry's upstream are not looked at, and neither
\* are the failed upstreams.
RetryCandidatesAll(r) ==
  {i \in Indices(r) : isUpstreamAvailable(Upstreams(r)[i])}

RetryCandidates(r) ==
  {i \in Indices(r) : LET u == Upstreams(r)[i] IN
                      u \notin failed[r] /\ tagsMatch(r, u) /\ isUpstreamAvailable(u)}

\* handleLatencyExcluding, and handleRoundRobinExcluding for the hash
\* balancer, of which ProxyPass has the index.
SelectExcluding(r) ==
  /\ Retries(r, Strategies \ {"least-connections"})
  /\ SelectedAmong(r, RetryCandidates(r), 0)
  /\ UNCHANGED sharedVars

Target(r) == Upstreams(r)[index[r]]

Acquire(r) ==
  /\ pc[r] = "acquire"
  /\ conns' = [conns EXCEPT ![Target(r)] = @ + 1]
  /\ Goto(r, "busy")
  /\ UNCHANGED <<strategy, installed, router, ring, heap, cond, changes,
                 svc, attempt, failed, index, uses, load, answer>>

\* Mutation: a count that a reload has reset is decremented all the same.
ReleaseAlways(r) == conns' = [conns EXCEPT ![Target(r)] = @ - 1]

Release(r) == conns' = [conns EXCEPT ![Target(r)] = IF @ > 0 THEN @ - 1 ELSE @]

Succeed(r) ==
  /\ pc[r] = "busy"
  /\ Release(r)
  /\ Finish(r, "ok")
  /\ UNCHANGED <<strategy, installed, router, ring, heap, cond, changes>>

\* The attempt fails: MarkFailed, and the next turn of the loop.
Fail(r) ==
  /\ pc[r] = "busy"
  /\ Release(r)
  /\ \/ /\ attempt[r] < MaxRetries
        /\ Goto(r, "select")
        /\ failed' = [failed EXCEPT ![r] = @ \union {Target(r)}]
        /\ attempt' = [attempt EXCEPT ![r] = @ + 1]
        /\ index' = [index EXCEPT ![r] = 0]
        /\ uses' = [uses EXCEPT ![r] = 0]
        /\ UNCHANGED <<svc, load, answer>>
     \/ attempt[r] = MaxRetries /\ Finish(r, "502")
  /\ UNCHANGED <<strategy, installed, router, ring, heap, cond, changes>>

----------------------------------------------------------------------------
(* Reloads and the environment.                                            *)

\* ResetLoadBalancers; the cache of the heaps is not among those it clears.
ResetLoadBalancers == ring' = 0 /\ conns' = [u \in Ids |-> 0] /\ UNCHANGED heap

\* A reload stores the configuration and resets the balancers ...
Install ==
  /\ installed = router /\ installed < Len(Configs)
  /\ installed' = installed + 1
  /\ ResetLoadBalancers
  /\ UNCHANGED <<strategy, router, cond, changes, localVars>>

\* ... and then replaces the router.
UpdateRouter ==
  /\ router # installed
  /\ router' = installed
  /\ UNCHANGED <<strategy, installed, ring, heap, conns, cond, changes, localVars>>

\* Breakers and health checks at work; the first check of a target enters it.
Change(u) ==
  /\ changes < MaxChanges /\ changes' = changes + 1
  /\ \E c \in Conditions \ {"absent", cond[u]} : cond' = [cond EXCEPT ![u] = c]
  /\ UNCHANGED <<strategy, installed, router, ring, heap, conns, localVars>>

Next ==
  \/ \E r \in Requests :
       \/ RouteRequest(r) \/ HashPrepare(r) \/ HashProbe(r) \/ SelectP2C(r) \/ SelectHeap(r)
       \/ SelectLatency(r) \/ SelectExcluding(r) \/ Acquire(r) \/ Succeed(r) \/ Fail(r)
  \/ Install
  \/ UpdateRouter
  \/ \E u \in Ids : Change(u)

Spec == Init /\ [][Next]_vars

----------------------------------------------------------------------------
(* Properties.                                                             *)

(***************************************************************************)
(* Every slot of a ring in use has an owner, and the shares of two         *)
(* upstreams differ by at most one slot: the claims of GenerateRing go     *)
(* round until the table is full.                                          *)
(***************************************************************************)
RingBalanced ==
  ring # 0 =>
    LET table == lookupTable[ring]
        share(i) == Cardinality({s \in Slots : table[s] = i})
    IN /\ \A s \in Slots : table[s] # 0
       /\ \A i, j \in 1 .. Len(Configs[ring]) : share(i) - share(j) <= 1

(***************************************************************************)
(* A retry goes to an upstream that has not failed the request, as long as *)
(* there is one (GetNextUpstreamWithRetry), by every strategy, unless the  *)
(* heap it has used was made from another configuration.                   *)
(***************************************************************************)
RetriesAvoidFailed ==
  \A r \in Requests :
    pc[r] = "acquire" /\ ~Plain(r) /\ uses[r] \in {0, svc[r]} => Target(r) \notin failed[r]

Primary(r) == Configs[uses[r]][lookupTable[uses[r]][Slot(r)]]

Refused(r) == pc[r] = "probe" /\ answer'[r] = "503"

(***************************************************************************)
(* The client of a hash balancer whose own upstream is available is never  *)
(* refused, whatever the load and the other upstreams: the ring falls back *)
(* to the primary mapping (GetUpstreamWithFilter).  A ring that an old     *)
(* configuration has left in the cache may lead to an upstream that the    *)
(* service no longer has.                                                  *)
(***************************************************************************)
PrimaryServes ==
  [][\A r \in Requests :
       LET u == Primary(r) IN
       /\ Refused(r)
       /\ u \in UpstreamsOf(svc[r]) /\ UpstreamsOf(uses[r]) \subseteq UpstreamsOf(svc[r])
       /\ tagsMatch(r, u)
       => ~isUpstreamAvailable(u)]_vars

(***************************************************************************)
(* Bounding the load turns nobody away.  If a request of a route without   *)
(* tags is refused with a ring of its own configuration, with counts that  *)
(* have not changed since they were summed up and without half-open        *)
(* breakers, then no upstream is available (handleIPHash): not all of them *)
(* can have more than the average load.                                    *)
(***************************************************************************)
LoadNeverRefuses ==
  [][\A r \in Requests :
       LET ups == UpstreamsOf(svc[r]) IN
       /\ Refused(r)
       /\ uses[r] = svc[r] /\ r \notin Selective
       /\ load[r].total = SumFunctionOnSet(conns, ups)
       /\ load[r].healthy = Cardinality({u \in ups : isUpstreamAvailable(u)})
       /\ \A u \in ups : cond[u] # "probe"
       => \A u \in ups : ~isUpstreamAvailable(u)]_vars

(***************************************************************************)
(* docs/concepts/load-balancing.md: all algorithms avoid failed upstreams  *)
(* during retries, also when the configuration has been reloaded.          *)
(***************************************************************************)
RetriesAlwaysAvoidFailed ==
  \A r \in Requests : pc[r] = "acquire" /\ ~Plain(r) => Target(r) \notin failed[r]
=============================================================================
