----------------------------- MODULE ProxyPass -----------------------------
(***************************************************************************)
(* The life of proxied requests of one service: HandleProxyPass with its   *)
(* retry loop (sushi_proxy.go), the round-robin choice of an upstream      *)
(* (load_balancer.go), the target circuit breakers, the health checker     *)
(* with its active-check goroutines, the active-connection counters and a  *)
(* configuration reload that resets the load balancer's caches.            *)
(*                                                                         *)
(* Every request is handled by a goroutine of its own.  A step of the      *)
(* model is what the goroutine does between two accesses to state it       *)
(* shares with the others.                                                 *)
(***************************************************************************)
EXTENDS TargetBreaker, UpstreamHealth

CONSTANTS
  Requests,     \* the requests of one run, each handled once
  N,            \* len(service.Upstreams)
  Matching,     \* Matching[r]: upstreams with the tags of the route of r
  MaxRetries,   \* service.RetryOptions.MaxRetries
  Impatient,    \* requests whose client may disconnect
  WithBody,     \* requests with a body
  BadPath,      \* requests whose path makes url.Parse fail
  Direct,       \* requests to a sibling service that has a url, no upstreams
  Unlooped,     \* requests to a sibling service with a negative max_retries
  MaxReloads    \* bound: configuration reloads in one run

Upstreams == 0 .. N - 1

ASSUME ProxyAssumption ==
  /\ IsFiniteSet(Requests)
  /\ N \in Nat \ {0}
  /\ Matching \in [Requests -> SUBSET Upstreams]
  /\ MaxRetries \in Nat
  /\ Impatient \subseteq Requests
  /\ WithBody \subseteq Requests
  /\ BadPath \subseteq Requests
  /\ Direct \subseteq Requests
  /\ Unlooped \subseteq Requests
  /\ MaxReloads \in Nat

VARIABLES
  alive,     \* environment: alive[u] iff upstream u answers, and not with a 5xx
  gone,      \* environment: the clients that have disconnected
  brk,       \* GlobalTargetCBManager.breakers
  health,    \* GlobalHealthChecker.serviceHealthMap of the service
  probe,     \* the active-check goroutine of each upstream
  rr,        \* roundRobinCache[service.Name]
  rrRetry,   \* roundRobinCache[service.Name + "_retry"]
  active,    \* activeConnectionCache[service.Name].Counts
  reloads,   \* reloads so far
  pc,        \* where each request is
  attempt,   \* its loop variable
  failed,    \* its retryHandle.FailedUpstreams
  up,        \* its selectedUpstream, or NoUpstream
  cur,       \* the round-robin index it has loaded
  idx,       \* position of its scan over service.Upstreams
  avail,     \* the indices its selection has collected
  ok,        \* its isSuccess
  answer     \* what its client got

envVars     == <<alive, gone>>
sharedVars  == <<brk, health, probe, rr, rrRetry, active, reloads>>
requestVars == <<pc, attempt, failed, up, cur, idx, avail, ok, answer>>
vars == <<envVars, sharedVars, requestVars>>

NoUpstream == -1    \* model.NoUpstreamsAvailable

Locations == {"select", "scan", "exclude", "pick", "acquire", "send", "flight",
              "copy", "release", "record", "done"}

\* "ok" is a response of an upstream, "empty" the 200 that net/http sends for
\* a handler that returned without writing, "aborted" a closed connection.
Answers == {"none", "ok", "empty", "500", "502", "503", "aborted"}

\* A check goroutine is absent, launched, or waits for the answer to its
\* request, having read a status before it.
ProbeStates == {"none", "launched"} \union Statuses

TypeOK ==
  /\ alive \in [Upstreams -> BOOLEAN]
  /\ gone \subseteq Requests
  /\ brk \in [Upstreams -> Breakers(Requests)]
  /\ health \in [Upstreams -> HealthStates]
  /\ probe \in [Upstreams -> ProbeStates]
  /\ rr \in Upstreams
  /\ rrRetry \in Upstreams
  /\ active \in [Upstreams -> Nat]
  /\ reloads \in 0 .. MaxReloads
  /\ pc \in [Requests -> Locations]
  /\ attempt \in [Requests -> Nat]
  /\ failed \in [Requests -> SUBSET Upstreams]
  /\ up \in [Requests -> Upstreams \union {NoUpstream}]
  /\ cur \in [Requests -> Upstreams]
  /\ idx \in [Requests -> 0 .. N]
  /\ avail \in [Requests -> SUBSET Upstreams]
  /\ ok \in [Requests -> BOOLEAN]
  /\ answer \in [Requests -> Answers]

----------------------------------------------------------------------------
(* main: Initialize, then one round of active checks before any server     *)
(* listens.                                                                *)
Init ==
  /\ alive \in [Upstreams -> BOOLEAN]
  /\ gone = {}
  /\ brk = [u \in Upstreams |-> NewBreaker]
  /\ health = [u \in Upstreams |->
                 IF ChecksRun
                 THEN ApplyActiveCheck(InitialHealth, alive[u], "NotAvailable")
                 ELSE InitialHealth]
  /\ probe = [u \in Upstreams |-> "none"]
  /\ rr = 0
  /\ rrRetry = 0
  /\ active = [u \in Upstreams |-> 0]
  /\ reloads = 0
  /\ pc = [r \in Requests |-> "select"]
  /\ attempt = [r \in Requests |-> 0]
  /\ failed = [r \in Requests |-> {}]
  /\ up = [r \in Requests |-> NoUpstream]
  /\ cur = [r \in Requests |-> 0]
  /\ idx = [r \in Requests |-> 0]
  /\ avail = [r \in Requests |-> {}]
  /\ ok = [r \in Requests |-> FALSE]
  /\ answer = [r \in Requests |-> "none"]

----------------------------------------------------------------------------
(* Request-local bookkeeping.                                              *)

Goto(r, loc) == pc' = [pc EXCEPT ![r] = loc]

\* The handler returns and its locals are gone.
Finish(r, what) ==
  /\ Goto(r, "done")
  /\ answer' = [answer EXCEPT ![r] = what]
  /\ attempt' = [attempt EXCEPT ![r] = 0]
  /\ failed' = [failed EXCEPT ![r] = {}]
  /\ cur' = [cur EXCEPT ![r] = 0]
  /\ idx' = [idx EXCEPT ![r] = 0]
  /\ avail' = [avail EXCEPT ![r] = {}]
  /\ ok' = [ok EXCEPT ![r] = FALSE]

\* selectUpstreamWithRetry has its index.
Selected(r, u) ==
  /\ Goto(r, "acquire")
  /\ up' = [up EXCEPT ![r] = u]
  /\ cur' = [cur EXCEPT ![r] = 0]
  /\ idx' = [idx EXCEPT ![r] = 0]
  /\ avail' = [avail EXCEPT ![r] = {}]
  /\ UNCHANGED <<attempt, failed, ok, answer>>

\* Mutation: a half-open breaker counts as unavailable.
isUpstreamAvailableIfClosed(u) ==
  /\ brk[u].state = "closed"
  /\ HealthEnabled => health[u].status = "Healthy"

\* isUpstreamAvailable.
isUpstreamAvailable(u) ==
  /\ brk[u].state # "open"
  /\ HealthEnabled => health[u].status = "Healthy" \/ brk[u].state = "halfopen"

\* Mutation: a retry does not look at the failed upstreams.
PlainSelectionAlways(r) == TRUE

\* GetNextUpstreamWithRequest on the first attempt, and the fall-back of
\* GetNextUpstreamWithRetry when every upstream has failed this request.
PlainSelection(r) == failed[r] = {} \/ failed[r] = Upstreams

\* GetHealthyUpstreams filtered by the route's tags.
filteredHealthy(r) == {u \in Matching[r] : health[u].status = "Healthy"}

\* Element k of a slice of indices in ascending order.
IsNth(S, k, u) == u \in S /\ Cardinality({v \in S : v < u}) = k

----------------------------------------------------------------------------
(* Selection: GetNextUpstreamWithRequest, GetNextUpstreamWithRetry,        *)
(* handleRoundRobin and handleRoundRobinExcluding.                         *)

\* max_retries is not validated.  When it is negative the loop body never
\* runs and lasErr is still nil, so the handler returns as after a success
\* and net/http answers 200.
SkipLoop(r) ==
  /\ pc[r] = "select" /\ r \in Unlooped
  /\ Finish(r, "empty")
  /\ UNCHANGED <<envVars, sharedVars, up>>

\* service.URL: selectedUpstream is nil and `selectedUpstream.Target' panics.
SelectDirect(r) ==
  /\ pc[r] = "select" /\ r \in Direct \ Unlooped
  /\ Finish(r, "aborted")
  /\ UNCHANGED <<envVars, sharedVars, up>>

Balanced(r) == pc[r] = "select" /\ r \notin Direct \union Unlooped

\* Health checks off: the tag-matching indices, then the counter is loaded.
SelectValid(r) ==
  /\ Balanced(r) /\ PlainSelection(r) /\ ~HealthEnabled
  /\ IF Matching[r] = {}
     THEN Finish(r, "503") /\ UNCHANGED up
     ELSE IF N = 1
     THEN Selected(r, 0)
     ELSE /\ Goto(r, "pick")
          /\ avail' = [avail EXCEPT ![r] = Matching[r]]
          /\ cur' = [cur EXCEPT ![r] = rr]
          /\ UNCHANGED <<attempt, failed, up, idx, ok, answer>>
  /\ UNCHANGED <<envVars, sharedVars>>

\* Health checks on: some matching upstream must be Healthy; a service with
\* one upstream uses it without asking its breaker.
SelectHealthy(r) ==
  /\ Balanced(r) /\ PlainSelection(r) /\ HealthEnabled
  /\ IF filteredHealthy(r) = {}
     THEN Finish(r, "503") /\ UNCHANGED up
     ELSE IF N = 1
     THEN Selected(r, 0)
     ELSE /\ Goto(r, "scan")
          /\ cur' = [cur EXCEPT ![r] = rr]
          /\ UNCHANGED <<attempt, failed, up, idx, avail, ok, answer>>
  /\ UNCHANGED <<envVars, sharedVars>>

\* One turn of the scan that starts at the loaded counter.
Scan(r) ==
  LET candidate == (cur[r] + idx[r]) % N IN
  /\ pc[r] = "scan"
  /\ IF candidate \in Matching[r] /\ isUpstreamAvailable(candidate)
     THEN /\ rr' = (candidate + 1) % N
          /\ Selected(r, candidate)
     ELSE /\ IF idx[r] + 1 < N
             THEN /\ idx' = [idx EXCEPT ![r] = @ + 1]
                  /\ UNCHANGED <<pc, attempt, failed, cur, avail, ok, answer>>
             ELSE Finish(r, "503")
          /\ UNCHANGED <<rr, up>>
  /\ UNCHANGED <<envVars, brk, health, probe, rrRetry, active, reloads>>

\* A retry, with an upstream left that has not failed this request.
SelectRetry(r) ==
  /\ Balanced(r) /\ ~PlainSelection(r)
  /\ Goto(r, "exclude")
  /\ UNCHANGED <<envVars, sharedVars, attempt, failed, up, cur, idx, avail, ok, answer>>

\* One turn of the loop that collects availableIndices; after the last one
\* the retry counter is loaded.
Exclude(r) ==
  LET u == idx[r]
      collected == IF u \notin failed[r] /\ u \in Matching[r] /\ isUpstreamAvailable(u)
                   THEN avail[r] \union {u}
                   ELSE avail[r]
  IN
  /\ pc[r] = "exclude"
  /\ IF u + 1 < N
     THEN /\ idx' = [idx EXCEPT ![r] = @ + 1]
          /\ avail' = [avail EXCEPT ![r] = collected]
          /\ UNCHANGED <<pc, attempt, failed, cur, ok, answer>>
     ELSE IF collected = {}
     THEN Finish(r, "503")
     ELSE /\ Goto(r, "pick")
          /\ avail' = [avail EXCEPT ![r] = collected]
          /\ cur' = [cur EXCEPT ![r] = rrRetry]
          /\ UNCHANGED <<attempt, failed, idx, ok, answer>>
  /\ UNCHANGED <<envVars, sharedVars, up>>

\* The collected indices are taken in turn and the counter is stored; the
\* load and the store are not one atomic operation.
Pick(r) ==
  LET size == Cardinality(avail[r])
      next == (cur[r] + 1) % size
  IN
  /\ pc[r] = "pick"
  /\ \E u \in Upstreams : IsNth(avail[r], cur[r] % size, u) /\ Selected(r, u)
  /\ IF PlainSelection(r)
     THEN rr' = next /\ UNCHANGED rrRetry
     ELSE rrRetry' = next /\ UNCHANGED rr
  /\ UNCHANGED <<envVars, brk, health, probe, active, reloads>>

----------------------------------------------------------------------------
(* One attempt: the rest of the loop body of HandleProxyPass.              *)

\* url.Parse fails.
ParseFails(r) ==
  /\ pc[r] = "acquire" /\ r \in BadPath
  /\ Finish(r, "500")
  /\ up' = [up EXCEPT ![r] = NoUpstream]
  /\ UNCHANGED <<envVars, sharedVars>>

IncrementActiveConnections(u) == active' = [active EXCEPT ![u] = @ + 1]

\* Mutation: the count is not kept from falling below 0.
DecrementUnguarded(u) == active' = [active EXCEPT ![u] = @ - 1]

DecrementActiveConnections(u) ==
  active' = [active EXCEPT ![u] = IF @ > 0 THEN @ - 1 ELSE @]

Acquire(r) ==
  /\ pc[r] = "acquire" /\ r \notin BadPath
  /\ IncrementActiveConnections(up[r])
  /\ Goto(r, "send")
  /\ UNCHANGED <<envVars, brk, health, probe, rr, rrRetry, reloads,
                 attempt, failed, up, cur, idx, avail, ok, answer>>

\* Mutation: the early return forgets the decrement.
TransportFailsLeaking(r) ==
  /\ pc[r] = "send"
  /\ Finish(r, "500")
  /\ up' = [up EXCEPT ![r] = NoUpstream]
  /\ UNCHANGED <<envVars, brk, health, probe, rr, rrRetry, active, reloads>>

\* getTransport cannot read the certificates of the service.
TransportFails(r) ==
  /\ pc[r] = "send"
  /\ DecrementActiveConnections(up[r])
  /\ Finish(r, "500")
  /\ up' = [up EXCEPT ![r] = NoUpstream]
  /\ UNCHANGED <<envVars, brk, health, probe, rr, rrRetry, reloads>>

\* RoundTrip enters cb.Execute: admitted, or ErrOpenState/ErrTooManyRequests,
\* which reaches the error handler like a network error.
Send(r) ==
  LET u == up[r] IN
  /\ pc[r] = "send"
  /\ IF Admits(brk[u])
     THEN /\ brk' = [brk EXCEPT ![u] = beforeRequest(@, r)]
          /\ Goto(r, "flight")
     ELSE /\ Goto(r, "release")
          /\ UNCHANGED brk
  /\ UNCHANGED <<envVars, health, probe, rr, rrRetry, active, reloads,
                 attempt, failed, up, cur, idx, avail, ok, answer>>

\* OnStateChange runs inside the breaker's critical section.
OnStateChange(u, old, new) ==
  health' = IF new.state = old.state THEN health
            ELSE IF new.state = "open"
            THEN [health EXCEPT ![u] = UpdateHealthStatus(@, "Unhealthy")]
            ELSE IF new.state = "closed"
            THEN [health EXCEPT ![u] = UpdateHealthStatus(@, "Healthy")]
            ELSE health

\* The first attempt closes the body of the request (httputil.ReverseProxy),
\* and nothing has kept a copy: a retry cannot send it.
BodyGone(r) == r \in WithBody /\ attempt[r] > 0

\* The call fails (network error, timeout, 5xx, a cancelled client context,
\* or a body that cannot be read) or a response below 500 begins; then
\* cb.Execute ends.
Respond(r) ==
  LET u == up[r]
      success == alive[u] /\ r \notin gone /\ ~BodyGone(r)
      new == IF success THEN afterSuccess(brk[u], r) ELSE afterFailure(brk[u], r)
  IN
  /\ pc[r] = "flight"
  /\ brk' = [brk EXCEPT ![u] = new]
  /\ OnStateChange(u, brk[u], new)
  /\ Goto(r, IF success THEN "copy" ELSE "release")
  /\ UNCHANGED <<envVars, probe, rr, rrRetry, active, reloads,
                 attempt, failed, up, cur, idx, avail, ok, answer>>

\* The reverse proxy copies the whole body into the buffered writer.
CopyDone(r) ==
  /\ pc[r] = "copy"
  /\ ok' = [ok EXCEPT ![r] = TRUE]
  /\ Goto(r, "release")
  /\ UNCHANGED <<envVars, sharedVars, attempt, failed, up, cur, idx, avail, answer>>

\* The body breaks off: httputil.ReverseProxy panics with ErrAbortHandler and
\* the rest of the loop body, the decrement included, never runs.
CopyAborts(r) ==
  /\ pc[r] = "copy" /\ (~alive[up[r]] \/ r \in gone)
  /\ Finish(r, "aborted")
  /\ UNCHANGED <<envVars, sharedVars, up>>

Release(r) ==
  /\ pc[r] = "release"
  /\ DecrementActiveConnections(up[r])
  /\ Goto(r, "record")
  /\ UNCHANGED <<envVars, brk, health, probe, rr, rrRetry, reloads,
                 attempt, failed, up, cur, idx, avail, ok, answer>>

\* Mutation: the attempts are not counted.
RecordUncounted(r) ==
  /\ pc[r] = "record"
  /\ health' = [health EXCEPT ![up[r]] = RecordPassiveResult(@, ok[r])]
  /\ IF ok[r]
     THEN Finish(r, "ok")
     ELSE /\ Goto(r, "select")
          /\ failed' = [failed EXCEPT ![r] = @ \union {up[r]}]
          /\ UNCHANGED <<attempt, cur, idx, avail, ok, answer>>
  /\ up' = [up EXCEPT ![r] = NoUpstream]
  /\ UNCHANGED <<envVars, brk, probe, rr, rrRetry, active, reloads>>

\* RecordPassiveResult, then success, MarkFailed, the end of the loop, or the
\* next attempt.
Record(r) ==
  LET u == up[r] IN
  /\ pc[r] = "record"
  /\ health' = [health EXCEPT ![u] = RecordPassiveResult(@, ok[r])]
  /\ IF ok[r]
     THEN Finish(r, "ok")
     ELSE IF attempt[r] = MaxRetries
     THEN Finish(r, "502")
     ELSE /\ Goto(r, "select")
          /\ failed' = [failed EXCEPT ![r] = @ \union {u}]
          /\ attempt' = [attempt EXCEPT ![r] = @ + 1]
          /\ UNCHANGED <<cur, idx, avail, ok, answer>>
  /\ up' = [up EXCEPT ![r] = NoUpstream]
  /\ UNCHANGED <<envVars, brk, probe, rr, rrRetry, active, reloads>>

----------------------------------------------------------------------------
(* Active checks: CheckHealthForAllServices launches one goroutine per     *)
(* upstream and waits for all of them before the next round can start.     *)

StartRound ==
  /\ ChecksRun
  /\ \A u \in Upstreams : probe[u] = "none"
  /\ probe' = [u \in Upstreams |-> "launched"]
  /\ UNCHANGED <<envVars, brk, health, rr, rrRetry, active, reloads, requestVars>>

\* The goroutine reads the status that decides its thresholds.
ReadThresholds(u) ==
  /\ probe[u] = "launched"
  /\ probe' = [probe EXCEPT ![u] = health[u].status]
  /\ UNCHANGED <<envVars, brk, health, rr, rrRetry, active, reloads, requestVars>>

\* It is not yet time for this upstream: its last check is more recent than
\* the interval its status asks for.
SkipCheck(u) ==
  /\ ActiveConfigured
  /\ probe[u] = "launched"
  /\ probe' = [probe EXCEPT ![u] = "none"]
  /\ UNCHANGED <<envVars, brk, health, rr, rrRetry, active, reloads, requestVars>>

FinishCheck(u) ==
  /\ probe[u] \in Statuses
  /\ health' = [health EXCEPT ![u] = ApplyActiveCheck(@, alive[u], probe[u])]
  /\ probe' = [probe EXCEPT ![u] = "none"]
  /\ UNCHANGED <<envVars, brk, rr, rrRetry, active, reloads, requestVars>>

----------------------------------------------------------------------------
(* The breakers' clocks, a configuration reload and the environment.       *)

Expire(u) ==
  /\ Expires(brk[u])
  /\ brk' = [brk EXCEPT ![u] = afterExpiry(@)]
  /\ UNCHANGED <<envVars, health, probe, rr, rrRetry, active, reloads, requestVars>>

ResetLoadBalancers ==
  /\ reloads < MaxReloads
  /\ reloads' = reloads + 1
  /\ rr' = 0
  /\ rrRetry' = 0
  /\ active' = [u \in Upstreams |-> 0]
  /\ UNCHANGED <<envVars, brk, health, probe, requestVars>>

\* An upstream fails or comes back.
Flip(u) ==
  /\ alive' = [alive EXCEPT ![u] = ~@]
  /\ UNCHANGED <<gone, sharedVars, requestVars>>

\* A client disconnects: the context of its request is cancelled.
Disconnect(r) ==
  /\ r \in Impatient \ gone /\ pc[r] # "done"
  /\ gone' = gone \union {r}
  /\ UNCHANGED <<alive, sharedVars, requestVars>>

----------------------------------------------------------------------------
\* What the goroutine of request r does on its own.
Step(r) ==
  \/ SkipLoop(r) \/ SelectDirect(r) \/ SelectValid(r) \/ SelectHealthy(r)
  \/ Scan(r) \/ SelectRetry(r) \/ Exclude(r) \/ Pick(r)
  \/ ParseFails(r) \/ Acquire(r) \/ Send(r) \/ Respond(r)
  \/ Release(r) \/ Record(r)

Next ==
  \/ \E r \in Requests :
       Step(r) \/ TransportFails(r) \/ CopyDone(r) \/ CopyAborts(r) \/ Disconnect(r)
  \/ \E u \in Upstreams :
       ReadThresholds(u) \/ SkipCheck(u) \/ FinishCheck(u) \/ Expire(u) \/ Flip(u)
  \/ StartRound
  \/ ResetLoadBalancers

(* Goroutines run (Step), connect and response-header timeouts end every   *)
(* call (Respond is part of Step), the ticker starts rounds of checks,     *)
(* every check ends by its timeout, an upstream's check interval elapses   *)
(* again and again however often a round skips it (strong fairness), and   *)
(* the open state of a breaker times out.  A passive result restarts the   *)
(* interval too, but the requests of a run are finitely many.  Nothing     *)
(* bounds the copy of a body, so there is no fairness on CopyDone or       *)
(* CopyAborts.                                                             *)
Fairness ==
  /\ \A r \in Requests : WF_vars(Step(r))
  /\ WF_vars(StartRound)
  /\ \A u \in Upstreams : SF_vars(ReadThresholds(u)) /\ WF_vars(FinishCheck(u))
  /\ \A u \in Upstreams : WF_vars(brk[u].state = "open" /\ Expire(u))

Spec == Init /\ [][Next]_vars /\ Fairness

----------------------------------------------------------------------------
(* Properties.                                                             *)

\* The requests that hold a connection count of upstream u: between the
\* increment and the decrement, or torn out of that span by a panic.
Holders(u) ==
  {r \in Requests : /\ up[r] = u
                    /\ \/ pc[r] \in {"send", "flight", "copy", "release"}
                       \/ pc[r] = "done" /\ answer[r] = "aborted"}

(* The connection count of an upstream never exceeds the requests that     *)
(* incremented it and have not decremented it, and equals their number     *)
(* until a reload throws the counts away: a request that outlives a reload *)
(* never drives a fresh count below the requests counted after it by more  *)
(* than itself, and never below zero (Increment/DecrementActiveConnections *)
(* against ResetLoadBalancers).                                            *)
ActiveMatchesHolders ==
  \A u \in Upstreams :
    /\ active[u] <= Cardinality(Holders(u))
    /\ reloads = 0 => active[u] = Cardinality(Holders(u))

(* Retries spread out: the first N failed attempts of a request hit N      *)
(* different upstreams, and no upstream is tried again before all of them  *)
(* have failed (GetNextUpstreamWithRetry, MarkFailed).                     *)
RetriesSpread ==
  \A r \in Requests :
    /\ Cardinality(failed[r]) = IF attempt[r] < N THEN attempt[r] ELSE N
    /\ pc[r] \in {"acquire", "send", "flight", "copy", "release", "record"}
         => up[r] \notin failed[r] \/ failed[r] = Upstreams

(* A half-open breaker is never wedged: whenever none of its upstream's    *)
(* calls is under way it admits the next one, although it never gives back *)
(* a slot it has handed out (cb.Execute in RoundTrip).                     *)
HalfOpenNeverWedged ==
  \A u \in Upstreams :
    /\ brk[u].state = "halfopen"
    /\ \A r \in Requests : ~(pc[r] = "flight" /\ up[r] = u)
    => Admits(brk[u])

(* A call admitted before its breaker last changed state, and answered     *)
(* after it, changes neither the breaker nor the health record: a late     *)
(* failure cannot reopen a breaker that is probing, a late success cannot  *)
(* close it (the generation check of cb.Execute).                          *)
LateAnswersIgnored ==
  [][\A r \in Requests :
       pc[r] = "flight" /\ pc'[r] # "flight" /\ r \notin brk[up[r]].current
         => UNCHANGED <<brk, health>>]_vars

(* A half-open breaker closes only after it has used all of its probes and *)
(* every one of them succeeded; no call admitted under another generation  *)
(* counts as one (MaxRequests in GetBreaker).                              *)
ClosesAfterAllProbes ==
  [][\A u \in Upstreams :
       brk[u].state = "halfopen" /\ brk'[u].state = "closed"
         => /\ brk[u].reqs = MaxRequests
            /\ brk[u].csucc = MaxRequests - 1
            /\ brk[u].fails = 0]_vars

(* No upstream is lost for good: once an upstream answers again and stays  *)
(* up, isUpstreamAvailable becomes and stays true without any traffic,     *)
(* whatever the breaker, the shared counters and the checks under way were *)
(* (active checks, breaker time-out).                                      *)
Recovery ==
  \A u \in Upstreams : <>[]alive[u] => <>[]isUpstreamAvailable(u)

(* Every request is answered, unless its upstream stops in the middle of a *)
(* body: retries end and selection never loops (HandleProxyPass).          *)
EveryRequestSettles ==
  \A r \in Requests : <>[](pc[r] \in {"done", "copy"})

----------------------------------------------------------------------------
(* What the documentation says, and the code does not do.                  *)

(* "Retry failed requests": an attempt fails only if its upstream fails or *)
(* the client has left, so that a retry to an upstream that is up gets     *)
(* through (HandleProxyPass passes the same request to every attempt).     *)
RetryCanSucceed ==
  [][\A r \in Requests :
       pc[r] = "flight" /\ pc'[r] = "release" => ~alive[up[r]] \/ r \in gone]_vars
=============================================================================
