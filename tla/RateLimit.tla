----------------------------- MODULE RateLimit -----------------------------
(***************************************************************************)
(* The rate_limit plugin (rate_limit.go): requests of several gateways     *)
(* count themselves in windows kept in one Redis.  A window is a key that  *)
(* carries its number; INCR and EXPIRE are two calls.  Calls to Redis may  *)
(* fail before or after they took effect, gateways stop, Redis loses its   *)
(* data, and time passes between any two steps.                            *)
(*                                                                         *)
(* The requests are those that run one instance of the plugin, that is     *)
(* one set of limits.                                                      *)
(***************************************************************************)
EXTENDS Integers, FiniteSets

CONSTANTS
  Requests,      \* the requests of one run
  Gateway,       \* Gateway[r]: the process that handles r
  Client,        \* Client[r]: the IP address of its client
  Service,       \* Service[r]: the service it is routed to
  Route,         \* Route[r]: the name of its route
  ServiceLevel,  \* services whose plugins name rate_limit
  RouteLevel,    \* names of routes whose plugins name rate_limit
  Limit,         \* Limit[w]: the plugin's limit for windows of kind w, 0 if absent
  Length,        \* Length[w]: 1, 60 and 3600 seconds in the code
  FaultTolerant, \* fault_tolerant
  MaxTime,       \* bound: the last instant
  MaxFaults      \* bound: faults in one run

Kinds == {"second", "minute", "hour"}
Order == <<"second", "minute", "hour">>
Times == 0 .. MaxTime
Never == -1      \* the expiry of a key without one

ASSUME RateAssumption ==
  /\ Limit \in [Kinds -> Nat]
  /\ \E w \in Kinds : Limit[w] > 0    \* Validate
  /\ Length \in [Kinds -> Nat \ {0}]
  /\ FaultTolerant \in BOOLEAN
  /\ MaxTime \in Nat
  /\ MaxFaults \in Nat

VARIABLES
  now,        \* the clock
  count,      \* count[k]: the value of a key in Redis, 0 when there is none
  deadline,   \* deadline[k]: when it expires, or Never
  faults,     \* faults so far
  pc,         \* where each request is
  step,       \* the position in Order it checks
  key,        \* the window key it has computed
  verdict,    \* verdict[r][w]: what came of its check of w
  outcome,    \* what its client got
  granted     \* history: checks that passed while k was not over, since the last Lose

vars == <<now, count, deadline, faults, pc, step, key, verdict, outcome, granted>>

----------------------------------------------------------------------------
(* Keys.                                                                   *)

detectRateLimitOperationLevel(r) ==
  IF Service[r] \in ServiceLevel THEN "Service"
  ELSE IF Route[r] \in RouteLevel THEN "Route" ELSE "Global"

getMapKeyEntry(r) ==
  LET level == detectRateLimitOperationLevel(r) IN
  <<level, CASE level = "Global" -> level
             [] level = "Service" -> Service[r]
             [] level = "Route" -> Route[r]>>

\* baseKey: scope and client.
RateLimitKey(r) == <<getMapKeyEntry(r), Client[r]>>

\* time.Now().Unix() / windowSeconds, given by the first second of the window.
Start(t, w) == t - (t % Length[w])

Keys == {[base |-> RateLimitKey(r), window |-> w, start |-> Start(t, w)] :
           r \in Requests, w \in Kinds, t \in Times}

\* Mutation: a window of its own for every second.
windowKeyOfInstant(r, w) == [base |-> RateLimitKey(r), window |-> w, start |-> now]

windowKey(r, w) == [base |-> RateLimitKey(r), window |-> w, start |-> Start(now, w)]

\* The windows that have a limit, from position i on.
Limited(i) == {j \in i .. 3 : Limit[Order[j]] > 0}

End(k) == k.start + Length[k.window]
Over(k) == End(k) <= now

----------------------------------------------------------------------------
TypeOK ==
  /\ now \in Times
  /\ count \in [Keys -> Nat]
  /\ deadline \in [Keys -> Nat \union {Never}]
  /\ faults \in 0 .. MaxFaults
  /\ pc \in [Requests -> {"check", "incr", "expire", "done"}]
  /\ step \in [Requests -> 1 .. 3]
  /\ key \in [Requests -> Keys]
  /\ verdict \in [Requests -> [Kinds -> {"open", "granted", "refused", "waived", "failed"}]]
  /\ outcome \in [Requests -> {"none", "passed", "429", "500", "lost"}]
  /\ granted \in [Keys -> Nat]

Init ==
  /\ now = 0
  /\ count = [k \in Keys |-> 0]
  /\ deadline = [k \in Keys |-> Never]
  /\ faults = 0
  /\ pc = [r \in Requests |-> "check"]
  /\ \E j \in Limited(1) : (\A i \in Limited(1) : j <= i) /\ step = [r \in Requests |-> j]
  /\ key = [r \in Requests |-> windowKey(r, "second")]
  /\ verdict = [r \in Requests |-> [w \in Kinds |-> "open"]]
  /\ outcome = [r \in Requests |-> "none"]
  /\ granted = [k \in Keys |-> 0]

redisVars == <<now, count, deadline>>

----------------------------------------------------------------------------
(* Execute and checkLimit.                                                 *)

Finish(r, what) ==
  /\ pc' = [pc EXCEPT ![r] = "done"]
  /\ outcome' = [outcome EXCEPT ![r] = what]
  /\ UNCHANGED step

\* The next window with a limit, or, after the last one, next.ServeHTTP.
Proceed(r) ==
  LET rest == Limited(step[r] + 1) IN
  IF rest = {}
  THEN Finish(r, "passed")
  ELSE /\ pc' = [pc EXCEPT ![r] = "check"]
       /\ \E j \in rest : (\A i \in rest : j <= i) /\ step' = [step EXCEPT ![r] = j]
       /\ UNCHANGED outcome

SetVerdict(r, v) == verdict' = [verdict EXCEPT ![r][Order[step[r]]] = v]

\* checkRateLimitRedis computes the key from the clock.
ComputeKey(r) ==
  /\ pc[r] = "check"
  /\ key' = [key EXCEPT ![r] = windowKey(r, Order[step[r]])]
  /\ pc' = [pc EXCEPT ![r] = "incr"]
  /\ UNCHANGED <<redisVars, faults, step, verdict, outcome, granted>>

\* Mutation: the comparison is off by one.
AllowsOneLess(k, n) == n < Limit[k.window]

Allows(k, n) == n <= Limit[k.window]

\* What checkLimit does with the verdict.
Settle(r, allowed) == IF allowed THEN Proceed(r) ELSE Finish(r, "429")

\* Mutation: the expiry is set when the count is 2.
IsNewLate(n) == n = 2

IsNew(n) == n = 1

\* INCR answers, and the count it returned decides.  A new key gets its
\* expiry first.
Incr(r) ==
  LET k == key[r]
      n == count[k] + 1
  IN
  /\ pc[r] = "incr"
  /\ count' = [count EXCEPT ![k] = n]
  /\ SetVerdict(r, IF Allows(k, n) THEN "granted" ELSE "refused")
  /\ granted' = IF Allows(k, n) /\ ~Over(k) THEN [granted EXCEPT ![k] = @ + 1] ELSE granted
  /\ IF IsNew(n)
     THEN pc' = [pc EXCEPT ![r] = "expire"] /\ UNCHANGED <<step, outcome>>
     ELSE Settle(r, Allows(k, n))
  /\ UNCHANGED <<now, deadline, faults, key>>

Fault == faults < MaxFaults /\ faults' = faults + 1

\* checkLimit sees an error: waived, or 500.
StoreError(r) ==
  IF FaultTolerant
  THEN SetVerdict(r, "waived") /\ Proceed(r)
  ELSE SetVerdict(r, "failed") /\ Finish(r, "500")

\* INCR fails without effect (Redis is down, the client's context is done).
IncrFails(r) ==
  /\ pc[r] = "incr" /\ Fault
  /\ StoreError(r)
  /\ UNCHANGED <<redisVars, key, granted>>

\* INCR takes effect and its answer is lost.
IncrLost(r) ==
  /\ pc[r] = "incr" /\ Fault
  /\ count' = [count EXCEPT ![key[r]] = @ + 1]
  /\ StoreError(r)
  /\ UNCHANGED <<now, deadline, key, granted>>

\* The same, and go-redis sends the command again.
IncrRepeated(r) ==
  /\ pc[r] = "incr" /\ Fault
  /\ count' = [count EXCEPT ![key[r]] = @ + 1]
  /\ UNCHANGED <<now, deadline, pc, step, key, verdict, outcome, granted>>

\* Mutation: the window is set to expire at its half.
ExpiryHalf(k) == now + Length[k.window] \div 2

\* EXPIRE windowKey windowSeconds.
Expiry(k) == now + Length[k.window]

Granted(r) == verdict[r][Order[step[r]]] = "granted"

\* EXPIRE has no effect on a key that is gone.
Expire(r) ==
  LET k == key[r] IN
  /\ pc[r] = "expire"
  /\ deadline' = IF count[k] > 0 THEN [deadline EXCEPT ![k] = Expiry(k)] ELSE deadline
  /\ Settle(r, Granted(r))
  /\ UNCHANGED <<now, count, faults, key, verdict, granted>>

\* Its error is not looked at.
ExpireFails(r) ==
  /\ pc[r] = "expire" /\ Fault
  /\ Settle(r, Granted(r))
  /\ UNCHANGED <<redisVars, key, verdict, granted>>

----------------------------------------------------------------------------
(* The environment.                                                        *)

\* A gateway stops; the requests it was handling are lost with it.
Crash(g) ==
  LET hit == {r \in Requests : Gateway[r] = g /\ pc[r] # "done"} IN
  /\ hit # {} /\ Fault
  /\ pc' = [r \in Requests |-> IF r \in hit THEN "done" ELSE pc[r]]
  /\ outcome' = [r \in Requests |-> IF r \in hit THEN "lost" ELSE outcome[r]]
  /\ UNCHANGED <<redisVars, step, key, verdict, granted>>

\* Redis restarts without its data.
Lose ==
  /\ Fault
  /\ count' = [k \in Keys |-> 0]
  /\ deadline' = [k \in Keys |-> Never]
  /\ granted' = [k \in Keys |-> 0]
  /\ UNCHANGED <<now, pc, step, key, verdict, outcome>>

Expired(k) == deadline[k] # Never /\ deadline[k] <= now + 1

\* A second passes and Redis drops the keys that expire.
Tick ==
  /\ now < MaxTime
  /\ now' = now + 1
  /\ count' = [k \in Keys |-> IF Expired(k) THEN 0 ELSE count[k]]
  /\ deadline' = [k \in Keys |-> IF Expired(k) THEN Never ELSE deadline[k]]
  /\ UNCHANGED <<faults, pc, step, key, verdict, outcome, granted>>

Next ==
  \/ \E r \in Requests :
       \/ ComputeKey(r) \/ Incr(r) \/ IncrFails(r) \/ IncrLost(r)
       \/ IncrRepeated(r) \/ Expire(r) \/ ExpireFails(r)
  \/ \E r \in Requests : Crash(Gateway[r])
  \/ Lose
  \/ Tick

Spec == Init /\ [][Next]_vars

----------------------------------------------------------------------------
(* Properties.                                                             *)

Budget == [k \in Keys |-> Limit[k.window]]

Left == [k \in Keys |-> IF count[k] < Limit[k.window] THEN Limit[k.window] - count[k] ELSE 0]
Ended == {k \in Keys : Over(k)}
KindOf == [k \in Keys |-> k.window]

Limiter == INSTANCE WindowLimiter WITH Callers <- Requests, left <- Left, over <- Ended

(***************************************************************************)
(* checkRateLimitRedis is a window limiter: with answers lost, commands    *)
(* repeated, gateways stopping between INCR and EXPIRE and keys expiring   *)
(* under delayed requests, a request is granted only what its window has   *)
(* left, refused only when nothing is left, and a window that is not over  *)
(* is never forgotten.                                                     *)
(***************************************************************************)
LimiterRefined == Limiter!Spec

(***************************************************************************)
(* While a window lasts, all gateways together let at most `limit' of its  *)
(* checks pass, unless Redis loses its data: no key expires in its window, *)
(* whenever EXPIRE was sent.                                               *)
(***************************************************************************)
GrantsWithinLimit == \A k \in Keys : granted[k] <= Limit[k.window]

(***************************************************************************)
(* Without faults the count of the present window is exact: as long as     *)
(* checks of it pass, each is counted once, and the first refusal comes    *)
(* when `limit' of them have passed.                                       *)
(***************************************************************************)
CountIsExact ==
  faults = 0 =>
    \A k \in Keys : ~Over(k) =>
      granted[k] = IF count[k] <= Limit[k.window] THEN count[k] ELSE Limit[k.window]

(***************************************************************************)
(* A key without an expiry stays in Redis for ever.  Only a fault leaves   *)
(* one behind: otherwise the request that created it is about to set the   *)
(* expiry (the two calls of checkRateLimitRedis).                          *)
(***************************************************************************)
KeysExpire ==
  faults = 0 =>
    \A k \in Keys : count[k] > 0 /\ deadline[k] = Never =>
      \E r \in Requests : pc[r] = "expire" /\ key[r] = k
=============================================================================
