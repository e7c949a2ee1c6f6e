---------------------------- MODULE Aggregation ----------------------------
(***************************************************************************)
(* Response aggregation (aggregation.go): a request to a route with        *)
(* backends calls all of them in parallel goroutines of one errgroup, and  *)
(* merges what they return.  The failure of a required backend cancels the *)
(* context of all calls, and so does a client that leaves; every call has  *)
(* a timeout.  A call without a transport error is a success, whatever its *)
(* status.                                                                 *)
(***************************************************************************)
EXTENDS Integers, FiniteSets

CONSTANTS
  Requests,
  Backends,     \* route.Backends
  Required      \* those with required: true

ASSUME AggregationAssumption == Required \subseteq Backends

VARIABLES
  serving,      \* the backends that answer r in time if they are let
  calls,        \* calls[r][b]: the call of r to backend b
  cancelled,    \* the context of the errgroup is cancelled
  left          \* the client is gone

aggregationVars == <<serving, calls, cancelled, left>>

AggregationTypeOK ==
  /\ serving \in [Requests -> SUBSET Backends]
  /\ calls \in [Requests -> [Backends -> {"idle", "running", "ok", "failed"}]]
  /\ cancelled \in [Requests -> BOOLEAN]
  /\ left \in [Requests -> BOOLEAN]

AggregationInit ==
  /\ serving = [r \in Requests |-> {}]
  /\ calls = [r \in Requests |-> [b \in Backends |-> "idle"]]
  /\ cancelled = [r \in Requests |-> FALSE]
  /\ left = [r \in Requests |-> FALSE]

----------------------------------------------------------------------------

IsAggregationRoute == Backends # {}

\* HandleAggregation reads the body once and starts all calls.
CallBackends(r) ==
  /\ \E up \in SUBSET Backends : serving' = [serving EXCEPT ![r] = up]
  /\ calls' = [calls EXCEPT ![r] = [b \in Backends |-> "running"]]
  /\ UNCHANGED <<cancelled, left>>

\* A response has been read; it may have come before a cancellation.
BackendReturns(r, b) ==
  /\ calls[r][b] = "running" /\ b \in serving[r]
  /\ calls' = [calls EXCEPT ![r][b] = "ok"]
  /\ UNCHANGED <<serving, cancelled, left>>

\* Mutation: every failure cancels the other calls.
CancelsAlways(b) == TRUE

\* The goroutine of a required backend returns an error.
Cancels(b) == b \in Required

\* No connection, a timeout, a body that cannot be read, or a cancelled context.
BackendFails(r, b) ==
  /\ calls[r][b] = "running" /\ (b \notin serving[r] \/ cancelled[r])
  /\ calls' = [calls EXCEPT ![r][b] = "failed"]
  /\ cancelled' = [cancelled EXCEPT ![r] = @ \/ Cancels(b)]
  /\ UNCHANGED <<serving, left>>

\* The context of the request is cancelled, and that of the group with it.
ClientLeaves(r) ==
  /\ \E b \in Backends : calls[r][b] = "running"
  /\ ~left[r]
  /\ left' = [left EXCEPT ![r] = TRUE]
  /\ cancelled' = [cancelled EXCEPT ![r] = TRUE]
  /\ UNCHANGED <<serving, calls>>

With(r, outcome) == {b \in Backends : calls[r][b] = outcome}

Waited(r) == With(r, "running") = {}

\* Mutation: only the total failure of all calls is an error.
mergedStatusLenient(r) ==
  IF With(r, "ok") = {} THEN 502 ELSE IF With(r, "failed") # {} THEN 206 ELSE 200

\* g.Wait has returned the error of a required backend, or none.
mergedStatus(r) ==
  IF With(r, "failed") \intersect Required # {} \/ With(r, "ok") = {} THEN 502
  ELSE IF With(r, "failed") # {} THEN 206 ELSE 200

\* buildAggregatedResponse: the backends whose bodies are in the answer.
Data(r) == With(r, "ok")

\* The handler returns.
Merged(r) ==
  /\ serving' = [serving EXCEPT ![r] = {}]
  /\ calls' = [calls EXCEPT ![r] = [b \in Backends |-> "idle"]]
  /\ cancelled' = [cancelled EXCEPT ![r] = FALSE]
  /\ left' = [left EXCEPT ![r] = FALSE]

----------------------------------------------------------------------------

(***************************************************************************)
(* Optional backends are nobody's business but their own: as long as the   *)
(* client stays and all required backends answer, the call to a backend    *)
(* that answers succeeds, whatever becomes of the others (the g.Go         *)
(* functions of HandleAggregation).                                        *)
(***************************************************************************)
OptionalFailureIsLocal ==
  \A r \in Requests :
    ~left[r] /\ Required \subseteq serving[r] =>
      \A b \in serving[r] : calls[r][b] # "failed"
=============================================================================
