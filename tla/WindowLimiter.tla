--------------------------- MODULE WindowLimiter ---------------------------
(***************************************************************************)
(* What distributed rate limiting promises, whatever it is built from.     *)
(* Every window has a budget.  A caller that asks for a window gets one    *)
(* unit of it, or is refused because nothing is left, or is waived or      *)
(* turned away because the store cannot be asked.  The store may forget a  *)
(* window that is over; if it loses its data it starts afresh.             *)
(***************************************************************************)
EXTENDS Naturals

CONSTANTS
  Callers,    \* those who ask
  Kinds,      \* the kinds of windows a caller asks for, each at most once
  Keys,       \* the windows
  KindOf,     \* KindOf[k]: the kind of window k
  Budget      \* Budget[k]: what window k grants

VARIABLES
  left,       \* left[k]: what is left of the budget of k
  over,       \* the windows whose time has passed
  granted,    \* granted[k]: units granted while k was not over, since data was last lost
  verdict     \* verdict[c][w]: the answer c got for its window of kind w

vars == <<left, over, granted, verdict>>

Verdicts == {"open", "granted", "refused", "waived", "failed"}

Init ==
  /\ left = Budget
  /\ over = {}
  /\ granted = [k \in Keys |-> 0]
  /\ verdict = [c \in Callers |-> [w \in Kinds |-> "open"]]

Answer(c, w, v) ==
  /\ verdict[c][w] = "open"
  /\ verdict' = [verdict EXCEPT ![c][w] = v]

Grant(c, k) ==
  /\ Answer(c, KindOf[k], "granted")
  /\ left[k] > 0
  /\ left' = [left EXCEPT ![k] = @ - 1]
  /\ granted' = IF k \in over THEN granted ELSE [granted EXCEPT ![k] = @ + 1]
  /\ UNCHANGED over

Refuse(c, k) ==
  /\ Answer(c, KindOf[k], "refused")
  /\ left[k] = 0
  /\ UNCHANGED <<left, over, granted>>

\* The answer of the store is lost; the unit may or may not be spent.
Fault(c, w) ==
  /\ \E v \in {"waived", "failed"} : Answer(c, w, v)
  /\ UNCHANGED <<left, over, granted>>

Spend(k) ==
  /\ left[k] > 0
  /\ left' = [left EXCEPT ![k] = @ - 1]
  /\ UNCHANGED <<over, granted, verdict>>

FaultSpending(c, k) ==
  /\ \E v \in {"waived", "failed"} : Answer(c, KindOf[k], v)
  /\ left[k] > 0
  /\ left' = [left EXCEPT ![k] = @ - 1]
  /\ UNCHANGED <<over, granted>>

\* Time passes: windows end, and the store forgets some that have ended.
Pass ==
  /\ over' \in SUBSET Keys
  /\ over \subseteq over'
  /\ left' \in [Keys -> Nat]
  /\ \A k \in Keys : left'[k] = left[k] \/ (k \in over' /\ left'[k] = Budget[k])
  /\ UNCHANGED <<granted, verdict>>

\* The store loses its data.
Lose ==
  /\ left' = Budget
  /\ granted' = [k \in Keys |-> 0]
  /\ UNCHANGED <<over, verdict>>

Next ==
  \/ \E c \in Callers, k \in Keys : Grant(c, k) \/ Refuse(c, k) \/ FaultSpending(c, k)
  \/ \E c \in Callers, w \in Kinds : Fault(c, w)
  \/ \E k \in Keys : Spend(k)
  \/ Pass
  \/ Lose

Spec == Init /\ [][Next]_vars
=============================================================================
