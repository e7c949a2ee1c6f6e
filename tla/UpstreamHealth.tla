--------------------------- MODULE UpstreamHealth ---------------------------
(***************************************************************************)
(* The health record the gateway keeps of one upstream                     *)
(* (sushi-proxy/internal/gateway/health.go) and the three ways it changes: *)
(* the result of an active check, the result of a proxied call (passive    *)
(* check), and a status forced by the target's circuit breaker.  All three *)
(* run under the health checker's mutex and share the two counters.        *)
(***************************************************************************)
EXTENDS Integers

CONSTANTS
  HealthEnabled,      \* service.Health.Enabled
  ActiveConfigured,   \* UpstreamHealthChecks.Active # nil
  PassiveConfigured,  \* UpstreamHealthChecks.Passive # nil
  ActiveSuccesses,    \* active.healthy.successes (0: not set)
  ActiveFailures,     \* active.unhealthy.http_failures (0: not set)
  PassiveSuccesses,   \* passive.healthy.successes (0: not set)
  PassiveFailures,    \* passive.unhealthy.http_failures (0: not set)
  CounterCap          \* bound: where the model stops the two counters

ASSUME HealthAssumption ==
  /\ HealthEnabled \in BOOLEAN
  /\ ActiveConfigured \in BOOLEAN
  /\ PassiveConfigured \in BOOLEAN
  /\ ActiveSuccesses \in Nat /\ ActiveFailures \in Nat
  /\ PassiveSuccesses \in Nat /\ PassiveFailures \in Nat
  /\ CounterCap \in Nat \ {0}
  /\ CounterCap >= ActiveSuccesses /\ CounterCap >= ActiveFailures
  /\ CounterCap >= PassiveSuccesses /\ CounterCap >= PassiveFailures

Statuses == {"Healthy", "Unhealthy", "NotAvailable"}

\* A threshold that is not configured is 1.
AtLeastOne(n) == IF n = 0 THEN 1 ELSE n

(* The counters only grow or return to 0 and are only compared with a      *)
(* threshold by >=, so stopping them at a cap that no threshold exceeds    *)
(* loses nothing.                                                          *)
Bump(n) == IF n < CounterCap THEN n + 1 ELSE n

HealthStates == [status : Statuses, succ : 0 .. CounterCap, fail : 0 .. CounterCap]

\* Initialize.
InitialHealth == [status |-> "NotAvailable", succ |-> 0, fail |-> 0]

----------------------------------------------------------------------------
\* Mutation: a count of successes past the threshold no longer counts.
processHealthResultExact(h, success, healthyThreshold, unhealthyThreshold) ==
  IF success
  THEN [status |-> IF Bump(h.succ) = healthyThreshold THEN "Healthy" ELSE h.status,
        succ |-> Bump(h.succ), fail |-> 0]
  ELSE [status |-> IF Bump(h.fail) >= unhealthyThreshold THEN "Unhealthy" ELSE h.status,
        succ |-> 0, fail |-> Bump(h.fail)]

processHealthResult(h, success, healthyThreshold, unhealthyThreshold) ==
  IF success
  THEN [status |-> IF Bump(h.succ) >= healthyThreshold THEN "Healthy" ELSE h.status,
        succ |-> Bump(h.succ), fail |-> 0]
  ELSE [status |-> IF Bump(h.fail) >= unhealthyThreshold THEN "Unhealthy" ELSE h.status,
        succ |-> 0, fail |-> Bump(h.fail)]

\* UpdateHealthStatus: the breaker forces a status.
UpdateHealthStatus(h, status) ==
  IF h.status = status THEN h ELSE [status |-> status, succ |-> 0, fail |-> 0]

\* RecordPassiveResult.
RecordPassiveResult(h, success) ==
  IF ~PassiveConfigured
  THEN h
  ELSE processHealthResult(h, success, AtLeastOne(PassiveSuccesses),
                           AtLeastOne(PassiveFailures))

----------------------------------------------------------------------------
\* CheckHealthForAllServices skips a service with neither kind of check.
ChecksRun == HealthEnabled \/ ActiveConfigured

(* The thresholds an active check works with, chosen by the status it read *)
(* BEFORE it sent its request: `successes' is looked up only for a Healthy *)
(* upstream and `http_failures' only for an Unhealthy one; every other     *)
(* threshold is the default 1.                                             *)
HealthyThreshold(status) ==
  IF ActiveConfigured /\ status = "Healthy" THEN AtLeastOne(ActiveSuccesses) ELSE 1

UnhealthyThreshold(status) ==
  IF ActiveConfigured /\ status = "Unhealthy" THEN AtLeastOne(ActiveFailures) ELSE 1

\* The check of one upstream, ending: `read' is the status it started from.
ApplyActiveCheck(h, success, read) ==
  processHealthResult(h, success, HealthyThreshold(read), UnhealthyThreshold(read))
=============================================================================
