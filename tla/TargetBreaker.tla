--------------------------- MODULE TargetBreaker ---------------------------
(***************************************************************************)
(* The circuit breaker that guards one upstream target                     *)
(* (sushi-proxy/internal/gateway/target_circuit_breaker.go).  The breaker  *)
(* itself is sony/gobreaker v1.0.0, a library outside the repository: its  *)
(* operations are modelled from the way RoundTrip and isUpstreamAvailable  *)
(* use them.  The trip rule and the limits are the gateway's own settings. *)
(*                                                                         *)
(* gobreaker numbers the generations of a breaker and ignores the result   *)
(* of a call that was admitted in an earlier one.  A generation number is  *)
(* only ever compared with the present one and never comes back, so the    *)
(* model keeps, instead of numbers, the set `current' of the outstanding   *)
(* calls that were admitted in the present generation.                     *)
(***************************************************************************)
EXTENDS Integers, FiniteSets

CONSTANTS
  MaxRequests,       \* calls a half-open breaker admits (5 in the code)
  FailureThreshold,  \* consecutive failures that trip it (10 or http_failures)
  RateRequests       \* calls before the failure rate counts (10 in the code)

ASSUME BreakerAssumption ==
  /\ MaxRequests      \in Nat \ {0}
  /\ FailureThreshold \in Nat \ {0}
  /\ RateRequests     \in Nat \ {0}

BreakerStates == {"closed", "halfopen", "open"}

Breakers(Calls) ==
  [state   : BreakerStates,
   reqs    : Nat,             \* Counts.Requests
   fails   : Nat,             \* Counts.TotalFailures
   cfails  : Nat,             \* Counts.ConsecutiveFailures
   csucc   : Nat,             \* Counts.ConsecutiveSuccesses
   current : SUBSET Calls]    \* outstanding calls of this generation

----------------------------------------------------------------------------
(* setState and toNewGeneration: every count is cleared and no outstanding *)
(* call belongs to the new generation.                                     *)
toNewGeneration(state) ==
  [state |-> state, reqs |-> 0, fails |-> 0, cfails |-> 0, csucc |-> 0,
   current |-> {}]

\* GetBreaker creates a closed breaker with clean counts.
NewBreaker == toNewGeneration("closed")

\* The trip rule the gateway passes to gobreaker.  The rate 0.5 is doubled
\* through so that it stays in the integers.
ReadyToTrip(b) ==
  \/ b.cfails >= FailureThreshold
  \/ b.reqs >= RateRequests /\ 2 * b.fails >= b.reqs

\* Execute calls the base transport iff beforeRequest admits the call.
Admits(b) ==
  \/ b.state = "closed"
  \/ b.state = "halfopen" /\ b.reqs < MaxRequests

beforeRequest(b, call) ==
  [b EXCEPT !.reqs = @ + 1, !.current = @ \union {call}]

\* Counts.onSuccess and Counts.onFailure; the call is no longer outstanding.
onSuccess(b, call) ==
  [b EXCEPT !.csucc = @ + 1, !.cfails = 0, !.current = @ \ {call}]

onFailure(b, call) ==
  [b EXCEPT !.fails = @ + 1, !.cfails = @ + 1, !.csucc = 0,
            !.current = @ \ {call}]

\* Mutation: one success more than MaxRequests is asked for.
afterSuccessOffByOne(b, call) ==
  IF call \notin b.current
  THEN b
  ELSE IF b.state = "halfopen" /\ b.csucc + 1 > MaxRequests
       THEN toNewGeneration("closed")
       ELSE onSuccess(b, call)

\* Mutation: the first success closes a half-open breaker.
afterSuccessFirst(b, call) ==
  IF call \notin b.current
  THEN b
  ELSE IF b.state = "halfopen" THEN toNewGeneration("closed") ELSE onSuccess(b, call)

\* afterRequest(generation, true).
afterSuccess(b, call) ==
  IF call \notin b.current
  THEN b
  ELSE IF b.state = "halfopen" /\ b.csucc + 1 >= MaxRequests
       THEN toNewGeneration("closed")
       ELSE onSuccess(b, call)

\* Mutation: the generation of the call is not compared.
afterFailureAnyGeneration(b, call) ==
  IF b.state = "halfopen" \/ ReadyToTrip(onFailure(b, call))
  THEN toNewGeneration("open")
  ELSE onFailure(b, call)

\* afterRequest(generation, false).
afterFailure(b, call) ==
  IF call \notin b.current
  THEN b
  ELSE IF b.state = "halfopen" \/ ReadyToTrip(onFailure(b, call))
       THEN toNewGeneration("open")
       ELSE onFailure(b, call)

\* currentState when the deadline of the present generation has passed: an
\* open breaker (Timeout, 10s) becomes half-open, a closed one (Interval,
\* 60s) starts counting afresh, a half-open one has no deadline.
Expires(b) == b.state # "halfopen"

afterExpiry(b) ==
  IF b.state = "open" THEN toNewGeneration("halfopen") ELSE NewBreaker
=============================================================================
