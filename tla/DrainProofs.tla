---------------------------- MODULE DrainProofs ----------------------------
(***************************************************************************)
(* Draining keeps its promise for any number of requests and servers: the  *)
(* counters stay natural numbers, and a request that was counted when      *)
(* draining began has finished its handler when main returns.              *)
(***************************************************************************)
EXTENDS Drain, FiniteSetTheorems, TLAPS

----------------------------------------------------------------------------
(* The inductive invariant.                                                *)

\* Requests that ct.active counts; a panic in Done leaves one behind.
ActiveRequests ==
  {r \in Requests : phase[r] \in {"handling", "waking", "uncounted", "donePanic"}}

\* The two counters count requests, so Done and LeaveActive never go below 0.
CountersAgree ==
  /\ wg = Cardinality(Counted)
  /\ active = Cardinality(ActiveRequests)

\* The HTTP server's goroutine registers its waiter after it started the
\* draining, and nothing is pending before that.
DrainFirst ==
  /\ sp[Http] \in {"serve", "draining"} => waiter[Http] = "none"
  /\ sp[Http] = "serve" => pending = {}

\* A pending request is past wg.Add and cannot be counted a second time.
PendingPastAdd ==
  \A r \in pending : phase[r] \notin {"idle", "accepted", "rejected", "checked"}

\* Once the HTTP server's waiter has seen the counter at 0, or its Wait has
\* returned without a time-out, every pending request is finished.
HttpWaited ==
  \/ waiter[Http] \in {"woken", "returned"}
  \/ sp[Http] \in {"released", "closed"} /\ Http \notin timedOut
  => pending \intersect Unfinished = {}

\* main returns only after the HTTP server has stopped listening.
ExitAfterClose == process = "exited" => ~Listening(Http)

IInv ==
  /\ TypeOK /\ CountersAgree /\ DrainFirst /\ PendingPastAdd /\ HttpWaited
  /\ ExitAfterClose

----------------------------------------------------------------------------
(* Adding or removing one request changes the cardinality by one.          *)
LEMMA CountAdd ==
  ASSUME NEW S \in SUBSET Requests, NEW T, NEW x, x \notin S, T = S \union {x}
  PROVE  Cardinality(T) = Cardinality(S) + 1 /\ Cardinality(S) \in Nat
  BY FS_Subset, FS_AddElement, FS_CardinalityType, DrainAssumption

\* Taking one element out of a finite set lowers its size by one.
LEMMA CountRemove ==
  ASSUME NEW S \in SUBSET Requests, NEW T, NEW x \in S, T = S \ {x}
  PROVE  /\ Cardinality(T) = Cardinality(S) - 1
         /\ Cardinality(S) \in Nat \ {0}
<1>1. IsFiniteSet(S)
  BY FS_Subset, DrainAssumption
<1>2. Cardinality(S) # 0
  BY <1>1, FS_EmptySet
<1> QED
  BY <1>1, <1>2, FS_RemoveElement, FS_CardinalityType

\* A finite set of size 0 is empty.
LEMMA CountZero ==
  ASSUME NEW S \in SUBSET Requests, Cardinality(S) = 0
  PROVE  S = {}
  BY FS_Subset, FS_EmptySet, DrainAssumption

\* The initial state satisfies the invariant.
LEMMA InitIInv == Init => IInv
<1> SUFFICES ASSUME Init PROVE IInv
  OBVIOUS
<1>1. TypeOK
  BY DrainAssumption DEF Init, TypeOK, Phases
<1>2. Counted = {} /\ ActiveRequests = {}
  BY DEF Init, Counted, ActiveRequests
<1>3. CountersAgree
  BY <1>2, FS_EmptySet DEF Init, CountersAgree
<1>4. DrainFirst /\ PendingPastAdd /\ HttpWaited /\ ExitAfterClose
  BY DrainAssumption DEF Init, DrainFirst, PendingPastAdd, HttpWaited, ExitAfterClose
<1> QED
  BY <1>1, <1>3, <1>4 DEF IInv

----------------------------------------------------------------------------
(* A step of a request preserves the invariant: one case per action, and   *)
(* in each the sets the two counters stand for gain or lose one request.   *)
LEMMA RequestStepIInv ==
  ASSUME IInv, NEW r \in Requests, RequestStep(r)
  PROVE  IInv'
<1> USE DEF IInv
<1>0. ExitAfterClose'
  BY DEF RequestStep, Accept, Check, AddWg, AddActive, Done, WakeWaiters, LeaveActive,
         Flush, serverVars, ExitAfterClose, Listening
<1>1. CASE Accept(r)
  <2>1. TypeOK' /\ DrainFirst' /\ PendingPastAdd'
    BY <1>1 DEF Accept, Goto, serverVars, TypeOK, Phases, DrainFirst, PendingPastAdd
  <2>2. Counted' = Counted /\ ActiveRequests' = ActiveRequests /\ Unfinished' = Unfinished
    BY <1>1 DEF Accept, Goto, TypeOK, Counted, ActiveRequests, Unfinished
  <2>3. CountersAgree' /\ HttpWaited'
    BY <1>1, <2>2 DEF Accept, serverVars, CountersAgree, HttpWaited
  <2> QED BY <1>0, <2>1, <2>3
<1>2. CASE Check(r)
  <2>1. TypeOK' /\ DrainFirst' /\ PendingPastAdd'
    BY <1>2 DEF Check, Goto, serverVars, TypeOK, Phases, DrainFirst, PendingPastAdd
  <2>2. Counted' = Counted /\ ActiveRequests' = ActiveRequests /\ Unfinished' = Unfinished
    BY <1>2 DEF Check, Goto, TypeOK, Counted, ActiveRequests, Unfinished
  <2>3. CountersAgree' /\ HttpWaited'
    BY <1>2, <2>2 DEF Check, serverVars, CountersAgree, HttpWaited
  <2> QED BY <1>0, <2>1, <2>3
<1>3. CASE AddWg(r)
  <2>1. TypeOK' /\ DrainFirst' /\ PendingPastAdd'
    BY <1>3 DEF AddWg, Goto, serverVars, TypeOK, Phases, DrainFirst, PendingPastAdd
  <2>2. /\ Counted' = Counted \union {r} /\ r \notin Counted
        /\ ActiveRequests' = ActiveRequests
    BY <1>3 DEF AddWg, Goto, TypeOK, Phases, Counted, ActiveRequests
  <2>3. CountersAgree'
    <3>1. Cardinality(Counted') = Cardinality(Counted) + 1
      BY <2>2, CountAdd DEF Counted
    <3> QED BY <1>3, <2>2, <3>1 DEF AddWg, CountersAgree
  <2>4. r \notin pending
    BY <1>3 DEF AddWg, PendingPastAdd
  <2>5. pending' \intersect Unfinished' = pending \intersect Unfinished
    BY <1>3, <2>4 DEF AddWg, Goto, serverVars, TypeOK, Unfinished
  <2>6. HttpWaited'
    BY <1>3, <2>5 DEF AddWg, serverVars, HttpWaited
  <2> QED BY <1>0, <2>1, <2>3, <2>6
<1>4. CASE AddActive(r)
  <2>1. TypeOK' /\ DrainFirst' /\ PendingPastAdd'
    BY <1>4 DEF AddActive, Goto, serverVars, TypeOK, Phases, DrainFirst, PendingPastAdd
  <2>2. /\ Counted' = Counted /\ Unfinished' = Unfinished
        /\ ActiveRequests' = ActiveRequests \union {r} /\ r \notin ActiveRequests
    BY <1>4 DEF AddActive, Goto, TypeOK, Phases, Counted, Unfinished, ActiveRequests
  <2>3. CountersAgree'
    <3>1. Cardinality(ActiveRequests') = Cardinality(ActiveRequests) + 1
      BY <2>2, CountAdd DEF ActiveRequests
    <3> QED BY <1>4, <2>2, <3>1 DEF AddActive, CountersAgree
  <2>4. HttpWaited'
    BY <1>4, <2>2 DEF AddActive, serverVars, HttpWaited
  <2> QED BY <1>0, <2>1, <2>3, <2>4
<1>5. CASE Done(r)
  <2>1. /\ Counted' = Counted \ {r} /\ r \in Counted
        /\ Unfinished' \subseteq Unfinished /\ ActiveRequests' = ActiveRequests
    BY <1>5 DEF Done, Goto, TypeOK, Phases, Counted, Unfinished, ActiveRequests
  <2>2. /\ Cardinality(Counted') = Cardinality(Counted) - 1
        /\ Cardinality(Counted) \in Nat \ {0}
    BY <2>1, CountRemove DEF Counted
  <2>3. CountersAgree' /\ wg' \in Nat
    BY <1>5, <2>1, <2>2 DEF Done, CountersAgree
  <2>4. TypeOK' /\ DrainFirst' /\ PendingPastAdd'
    BY <1>5, <2>3 DEF Done, Goto, serverVars, TypeOK, Phases, DrainFirst, PendingPastAdd
  <2>5. HttpWaited'
    BY <1>5, <2>1 DEF Done, serverVars, HttpWaited
  <2> QED BY <1>0, <2>3, <2>4, <2>5
<1>6. CASE WakeWaiters(r)
  <2>1. TypeOK' /\ DrainFirst' /\ PendingPastAdd'
    BY <1>6, DrainAssumption
       DEF WakeWaiters, Goto, serverVars, TypeOK, Phases, DrainFirst, PendingPastAdd
  <2>2. Counted' = Counted /\ ActiveRequests' = ActiveRequests /\ Unfinished' = Unfinished
    BY <1>6 DEF WakeWaiters, Goto, TypeOK, Phases, Counted, Unfinished, ActiveRequests
  <2>3. CountersAgree'
    BY <1>6, <2>2 DEF WakeWaiters, CountersAgree
  <2>4. CASE wg = 0
    <3>1. Counted = {}
      BY <2>4, CountZero DEF CountersAgree, Counted
    <3>2. Unfinished' = {}
      BY <3>1, <2>2 DEF Counted, Unfinished
    <3>3. HttpWaited'
      BY <3>2 DEF HttpWaited
    <3> QED BY <1>0, <2>1, <2>3, <3>3
  <2>5. CASE wg # 0
    <3>1. HttpWaited'
      BY <1>6, <2>2, <2>5 DEF WakeWaiters, serverVars, HttpWaited
    <3> QED BY <1>0, <2>1, <2>3, <3>1
  <2> QED BY <2>4, <2>5
<1>7. CASE LeaveActive(r)
  <2>1. /\ ActiveRequests' = ActiveRequests \ {r} /\ r \in ActiveRequests
        /\ Counted' = Counted /\ Unfinished' = Unfinished
    BY <1>7 DEF LeaveActive, Goto, TypeOK, Phases, Counted, Unfinished, ActiveRequests
  <2>2. /\ Cardinality(ActiveRequests') = Cardinality(ActiveRequests) - 1
        /\ Cardinality(ActiveRequests) \in Nat \ {0}
    BY <2>1, CountRemove DEF ActiveRequests
  <2>3. CountersAgree' /\ active' \in Nat
    BY <1>7, <2>1, <2>2 DEF LeaveActive, CountersAgree
  <2>4. TypeOK' /\ DrainFirst' /\ PendingPastAdd'
    BY <1>7, <2>3 DEF LeaveActive, Goto, serverVars, TypeOK, Phases, DrainFirst, PendingPastAdd
  <2>5. HttpWaited'
    BY <1>7, <2>1 DEF LeaveActive, serverVars, HttpWaited
  <2> QED BY <1>0, <2>3, <2>4, <2>5
<1>8. CASE Flush(r)
  <2>1. TypeOK' /\ DrainFirst' /\ PendingPastAdd'
    BY <1>8 DEF Flush, Goto, serverVars, TypeOK, Phases, DrainFirst, PendingPastAdd
  <2>2. Counted' = Counted /\ ActiveRequests' = ActiveRequests /\ Unfinished' = Unfinished
    BY <1>8 DEF Flush, Goto, TypeOK, Counted, ActiveRequests, Unfinished
  <2>3. CountersAgree' /\ HttpWaited'
    BY <1>8, <2>2 DEF Flush, serverVars, CountersAgree, HttpWaited
  <2> QED BY <1>0, <2>1, <2>3
<1> QED
  BY <1>1, <1>2, <1>3, <1>4, <1>5, <1>6, <1>7, <1>8 DEF RequestStep

----------------------------------------------------------------------------
(* The steps of main leave the requests where they are.                    *)
LEMMA SamePhases ==
  ASSUME IInv, UNCHANGED <<phase, wg, active>>
  PROVE  /\ CountersAgree'
         /\ Unfinished' = Unfinished
         /\ wg = 0 => Unfinished = {}
<1>1. CountersAgree' /\ Unfinished' = Unfinished
  BY DEF IInv, CountersAgree, Counted, ActiveRequests, Unfinished
<1>2. ASSUME wg = 0 PROVE Unfinished = {}
  <2>1. Counted = {}
    BY <1>2, CountZero DEF IInv, CountersAgree, Counted
  <2> QED BY <2>1 DEF Counted, Unfinished
<1> QED BY <1>1, <1>2

\* The steps of a server's shutdown goroutine keep the invariant.
LEMMA ShutdownStepIInv ==
  ASSUME IInv, process = "running", NEW s \in Servers, ShutdownStep(s)
  PROVE  IInv'
<1>1. UNCHANGED <<phase, wg, active, pending, isDraining>>
  BY DEF ShutdownStep, StartWait, Wake, WaitReturns, WaitTimesOut, Shutdown
<1>2. CountersAgree' /\ Unfinished' = Unfinished /\ (wg = 0 => Unfinished = {})
  BY <1>1, SamePhases
<1>3. PendingPastAdd'
  BY <1>1 DEF IInv, PendingPastAdd
<1> USE DrainAssumption DEF IInv, TypeOK, DrainFirst, HttpWaited, ExitAfterClose
<1>4. CASE StartWait(s)
  BY <1>1, <1>2, <1>3, <1>4 DEF StartWait
<1>5. CASE Wake(s)
  BY <1>1, <1>2, <1>3, <1>5 DEF Wake
<1>6. CASE WaitReturns(s)
  BY <1>1, <1>2, <1>3, <1>6 DEF WaitReturns
<1>7. CASE WaitTimesOut(s)
  BY <1>1, <1>2, <1>3, <1>7 DEF WaitTimesOut
<1>8. CASE Shutdown(s)
  BY <1>1, <1>2, <1>3, <1>8 DEF Shutdown
<1> QED
  BY <1>4, <1>5, <1>6, <1>7, <1>8 DEF ShutdownStep

\* Every step preserves the invariant.
LEMMA NextIInv == IInv /\ [Next]_vars => IInv'
<1> SUFFICES ASSUME IInv, [Next]_vars PROVE IInv'
  OBVIOUS
<1> USE DEF ExitAfterClose, Listening
<1>1. ASSUME NEW r \in Requests, RequestStep(r) PROVE IInv'
  BY <1>1, RequestStepIInv
<1>2. ASSUME process = "running", NEW s \in Servers, ShutdownStep(s) PROVE IInv'
  BY <1>2, ShutdownStepIInv
<1>3. ASSUME NEW s \in Servers, ListenFails(s) PROVE IInv'
  <2>1. CountersAgree' /\ Unfinished' = Unfinished
    BY <1>3, SamePhases DEF ListenFails
  <2> QED
    BY <1>3, <2>1 DEF ListenFails, IInv, TypeOK, DrainFirst, PendingPastAdd, HttpWaited
<1>4. CASE Signal
  <2>1. CountersAgree' /\ Unfinished' = Unfinished
    BY <1>4, SamePhases DEF Signal
  <2> QED
    BY <1>4, <2>1 DEF Signal, IInv, TypeOK, DrainFirst, PendingPastAdd, HttpWaited
<1>5. CASE StartDraining
  <2>1. CountersAgree' /\ Unfinished' = Unfinished
    BY <1>5, SamePhases DEF StartDraining
  <2>2. TypeOK' /\ DrainFirst' /\ PendingPastAdd'
    BY <1>5, DrainAssumption
       DEF StartDraining, IInv, TypeOK, DrainFirst, PendingPastAdd, Unfinished
  <2>3. HttpWaited' /\ ExitAfterClose'
    BY <1>5, DrainAssumption DEF StartDraining, IInv, TypeOK, DrainFirst, HttpWaited
  <2> QED BY <2>1, <2>2, <2>3 DEF IInv
<1>6. CASE Exit
  <2>1. CountersAgree' /\ Unfinished' = Unfinished
    BY <1>6, SamePhases DEF Exit
  <2> QED
    BY <1>6, <2>1, DrainAssumption DEF Exit, IInv, TypeOK, DrainFirst, PendingPastAdd, HttpWaited
<1>7. CASE UNCHANGED vars
  <2>1. CountersAgree' /\ Unfinished' = Unfinished
    BY <1>7, SamePhases DEF vars
  <2> QED
    BY <1>7, <2>1 DEF vars, IInv, TypeOK, DrainFirst, PendingPastAdd, HttpWaited
<1> QED
  BY <1>1, <1>2, <1>3, <1>4, <1>5, <1>6, <1>7 DEF Next

----------------------------------------------------------------------------
(* The invariant holds in every reachable state (Track, Wait, main).       *)
THEOREM DrainInvariant == Spec => []IInv
  BY InitIInv, NextIInv, PTL DEF Spec

(* Type correctness for any number of requests and servers; in particular  *)
(* ct.wg and ct.active never go below 0, whatever panics happen in between *)
(* (Track).                                                                *)
THEOREM DrainTypeCorrect == Spec => []TypeOK
<1>1. IInv => TypeOK
  BY DEF IInv
<1> QED BY <1>1, DrainInvariant, PTL

(* A request counted when draining began is finished when main returns,    *)
(* for any number of requests and servers, unless the HTTP server's Wait   *)
(* timed out or that server never listened (main, Wait).                   *)
THEOREM DrainSafe == Spec => []PendingRequestsDrain
<1>1. IInv => PendingRequestsDrain
  BY DEF IInv, ExitAfterClose, Listening, HttpWaited, PendingRequestsDrain
<1> QED BY <1>1, DrainInvariant, PTL
=============================================================================
