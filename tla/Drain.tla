------------------------------- MODULE Drain -------------------------------
(***************************************************************************)
(* Graceful shutdown: the connection tracker every request passes through  *)
(* (sushi-proxy/internal/gateway/drain.go) and the goroutines of main that *)
(* drain and close the three servers (sushi-proxy/cmd/main.go).            *)
(*                                                                         *)
(* sync.WaitGroup is modelled at the grain of its own atomic operations,   *)
(* with the panics it raises when it is used again too early.  net/http    *)
(* recovers a panic of a request's goroutine; a panic of the goroutine     *)
(* that Wait starts ends the process.                                      *)
(***************************************************************************)
EXTENDS Integers, FiniteSets

CONSTANTS
  Requests,   \* the requests that may arrive, on any of the servers
  Servers,    \* the servers of main: HTTP, HTTPS and the admin API
  Http        \* the one whose goroutine starts the draining

ASSUME DrainAssumption ==
  /\ IsFiniteSet(Requests)
  /\ IsFiniteSet(Servers)
  /\ Http \in Servers

VARIABLES
  cancelled,   \* errGrpCtx is done
  deaf,        \* servers whose ListenAndServe failed
  sp,          \* the shutdown goroutine of each server
  timedOut,    \* servers whose Wait ended by the 30-second context
  waiter,      \* the goroutine that Wait starts, inside wg.Wait
  isDraining,  \* ct.isDraining
  wg,          \* the counter of ct.wg
  active,      \* ct.active
  phase,       \* where each request is
  pending,     \* history: the requests counted when draining began
  process      \* "running", "exited" (main returned) or "crashed"

vars == <<cancelled, deaf, sp, timedOut, waiter, isDraining, wg, active,
          phase, pending, process>>

serverVars == <<cancelled, deaf, sp, timedOut, pending, process>>

(* A request is accepted, passes the draining check, adds itself to wg and *)
(* then to active, runs its handler, calls wg.Done (and wakes the waiters  *)
(* when it brings the counter to 0), leaves active, and its response is    *)
(* flushed once the handler has returned.                                  *)
Phases == {"idle", "accepted", "rejected", "checked", "added", "handling",
           "waking", "uncounted", "handled", "delivered", "addPanic", "donePanic"}

\* Requests that wg counts; one that panicked in Add is never taken off.
Counted == {r \in Requests : phase[r] \in {"added", "handling", "addPanic"}}

\* Requests whose handler has yet to finish.
Unfinished == {r \in Requests : phase[r] \in {"added", "handling"}}

TypeOK ==
  /\ cancelled \in BOOLEAN
  /\ deaf \subseteq Servers
  /\ sp \in [Servers -> {"serve", "draining", "wait", "released", "closed"}]
  /\ timedOut \subseteq Servers
  /\ waiter \in [Servers -> {"none", "waiting", "woken", "returned"}]
  /\ isDraining \in BOOLEAN
  /\ wg \in Nat
  /\ active \in Nat
  /\ phase \in [Requests -> Phases]
  /\ pending \subseteq Requests
  /\ process \in {"running", "exited", "crashed"}

Init ==
  /\ cancelled = FALSE
  /\ deaf = {}
  /\ sp = [s \in Servers |-> "serve"]
  /\ timedOut = {}
  /\ waiter = [s \in Servers |-> "none"]
  /\ isDraining = FALSE
  /\ wg = 0
  /\ active = 0
  /\ phase = [r \in Requests |-> "idle"]
  /\ pending = {}
  /\ process = "running"

----------------------------------------------------------------------------
(* A request: net/http around Track.                                       *)

Goto(r, p) == phase' = [phase EXCEPT ![r] = p]

Waiting == \E s \in Servers : waiter[s] = "waiting"

Listening(s) == s \notin deaf /\ sp[s] # "closed"

Accept(r) ==
  /\ phase[r] = "idle" /\ \E s \in Servers : Listening(s)
  /\ Goto(r, "accepted")
  /\ UNCHANGED <<serverVars, waiter, isDraining, wg, active>>

Check(r) ==
  /\ phase[r] = "accepted"
  /\ Goto(r, IF isDraining THEN "rejected" ELSE "checked")
  /\ UNCHANGED <<serverVars, waiter, isDraining, wg, active>>

\* wg.Add(1), which panics when it finds the counter at 0 while waiters are
\* registered: a Done is about to release them.
AddWg(r) ==
  /\ phase[r] = "checked"
  /\ wg' = wg + 1
  /\ Goto(r, IF wg = 0 /\ Waiting THEN "addPanic" ELSE "added")
  /\ UNCHANGED <<serverVars, waiter, isDraining, active>>

AddActive(r) ==
  /\ phase[r] = "added"
  /\ active' = active + 1
  /\ Goto(r, "handling")
  /\ UNCHANGED <<serverVars, waiter, isDraining, wg>>

\* The handler has returned; wg.Done takes the request off the counter.
Done(r) ==
  /\ phase[r] = "handling"
  /\ wg' = wg - 1
  /\ Goto(r, IF wg = 1 /\ Waiting THEN "waking" ELSE "uncounted")
  /\ UNCHANGED <<serverVars, waiter, isDraining, active>>

\* The Done that reached 0 releases the waiters, or panics when the counter
\* has moved since; then the rest of the deferred function does not run.
WakeWaiters(r) ==
  /\ phase[r] = "waking"
  /\ IF wg # 0
     THEN Goto(r, "donePanic") /\ UNCHANGED waiter
     ELSE /\ Goto(r, "uncounted")
          /\ waiter' = [s \in Servers |->
                          IF waiter[s] = "waiting" THEN "woken" ELSE waiter[s]]
  /\ UNCHANGED <<serverVars, isDraining, wg, active>>

\* Mutation: a rejected request leaves active too.
LeaveActiveAlways(r) ==
  /\ phase[r] \in {"uncounted", "rejected"}
  /\ active' = active - 1
  /\ Goto(r, "handled")
  /\ UNCHANGED <<serverVars, waiter, isDraining, wg>>

LeaveActive(r) ==
  /\ phase[r] = "uncounted"
  /\ active' = active - 1
  /\ Goto(r, "handled")
  /\ UNCHANGED <<serverVars, waiter, isDraining, wg>>

\* net/http flushes the response after the outermost handler has returned.
Flush(r) ==
  /\ phase[r] = "handled"
  /\ Goto(r, "delivered")
  /\ UNCHANGED <<serverVars, waiter, isDraining, wg, active>>

----------------------------------------------------------------------------
(* main.                                                                   *)

\* A signal arrives.
Signal ==
  /\ ~cancelled
  /\ cancelled' = TRUE
  /\ UNCHANGED <<deaf, sp, timedOut, waiter, isDraining, wg, active, phase,
                 pending, process>>

\* A listener fails (the port is taken): the error group cancels the context.
ListenFails(s) ==
  /\ Listening(s)
  /\ deaf' = deaf \union {s}
  /\ cancelled' = TRUE
  /\ UNCHANGED <<sp, timedOut, waiter, isDraining, wg, active, phase, pending,
                 process>>

\* Only the goroutine of the HTTP server starts the draining.
StartDraining ==
  /\ cancelled /\ sp[Http] = "serve"
  /\ sp' = [sp EXCEPT ![Http] = "draining"]
  /\ isDraining' = TRUE
  /\ pending' = Unfinished
  /\ UNCHANGED <<cancelled, deaf, timedOut, waiter, wg, active, phase, process>>

\* Mutation: Wait looks at ct.active instead of the wait group.
StartWaitOnActive(s) ==
  /\ cancelled
  /\ sp[s] = IF s = Http THEN "draining" ELSE "serve"
  /\ sp' = [sp EXCEPT ![s] = "wait"]
  /\ waiter' = [waiter EXCEPT ![s] = IF active = 0 THEN "returned" ELSE "waiting"]
  /\ UNCHANGED <<cancelled, deaf, timedOut, isDraining, wg, active, phase,
                 pending, process>>

\* Wait: its goroutine registers with wg, unless the counter is 0.
StartWait(s) ==
  /\ cancelled
  /\ sp[s] = IF s = Http THEN "draining" ELSE "serve"
  /\ sp' = [sp EXCEPT ![s] = "wait"]
  /\ waiter' = [waiter EXCEPT ![s] = IF wg = 0 THEN "returned" ELSE "waiting"]
  /\ UNCHANGED <<cancelled, deaf, timedOut, isDraining, wg, active, phase,
                 pending, process>>

\* wg.Wait returns, or panics because wg has been used again since.
Wake(s) ==
  /\ waiter[s] = "woken"
  /\ IF wg # 0
     THEN process' = "crashed" /\ UNCHANGED waiter
     ELSE waiter' = [waiter EXCEPT ![s] = "returned"] /\ UNCHANGED process
  /\ UNCHANGED <<cancelled, deaf, sp, timedOut, isDraining, wg, active, phase,
                 pending>>

WaitReturns(s) ==
  /\ sp[s] = "wait" /\ waiter[s] = "returned"
  /\ sp' = [sp EXCEPT ![s] = "released"]
  /\ UNCHANGED <<cancelled, deaf, timedOut, waiter, isDraining, wg, active,
                 phase, pending, process>>

\* Mutation: Wait does not select on its context.
WaitWithoutTimeout(s) == FALSE

WaitTimesOut(s) ==
  /\ sp[s] = "wait"
  /\ sp' = [sp EXCEPT ![s] = "released"]
  /\ timedOut' = timedOut \union {s}
  /\ UNCHANGED <<cancelled, deaf, waiter, isDraining, wg, active, phase,
                 pending, process>>

\* Shutdown closes the listener first, and ListenAndServe returns at once.
Shutdown(s) ==
  /\ sp[s] = "released"
  /\ sp' = [sp EXCEPT ![s] = "closed"]
  /\ UNCHANGED <<cancelled, deaf, timedOut, waiter, isDraining, wg, active,
                 phase, pending, process>>

\* errGroup.Wait waits for the ListenAndServe calls, not for Shutdown; main
\* returns or calls log.Fatal.
Exit ==
  /\ cancelled
  /\ \A s \in Servers : ~Listening(s)
  /\ process' = "exited"
  /\ UNCHANGED <<cancelled, deaf, sp, timedOut, waiter, isDraining, wg, active,
                 phase, pending>>

----------------------------------------------------------------------------
RequestStep(r) ==
  \/ Accept(r) \/ Check(r) \/ AddWg(r) \/ AddActive(r)
  \/ Done(r) \/ WakeWaiters(r) \/ LeaveActive(r) \/ Flush(r)

ShutdownStep(s) ==
  StartWait(s) \/ Wake(s) \/ WaitReturns(s) \/ WaitTimesOut(s) \/ Shutdown(s)

Next ==
  /\ process = "running"
  /\ \/ \E r \in Requests : RequestStep(r)
     \/ \E s \in Servers : ListenFails(s) \/ ShutdownStep(s)
     \/ Signal \/ StartDraining \/ Exit

(* The goroutines of main run and their 30-second contexts expire.         *)
(* Nothing bounds a handler, so requests have no fairness.                 *)
Fairness ==
  /\ WF_vars(process = "running" /\ StartDraining)
  /\ \A s \in Servers : WF_vars(process = "running" /\ ShutdownStep(s))
  /\ WF_vars(process = "running" /\ Exit)

Spec == Init /\ [][Next]_vars /\ Fairness

----------------------------------------------------------------------------
(* Properties.                                                             *)

(* A request that was counted when draining began has finished its handler *)
(* by the time main returns, unless the HTTP server's Wait ran into its    *)
(* time-out or that server never listened: neither a request that slips    *)
(* past the draining check nor the unordered waits of the other servers    *)
(* cut it short (Track, Wait, main).                                       *)
PendingRequestsDrain ==
  process = "exited" /\ Http \notin timedOut \union deaf
    => pending \intersect Unfinished = {}

(* A signal or a listener failure ends the process, even if a handler      *)
(* never returns or a panic leaves the wait group at a count that never    *)
(* falls again (the time-out in Wait).                                     *)
ShutdownCompletes == cancelled ~> process # "running"
=============================================================================
