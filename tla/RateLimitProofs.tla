-------------------------- MODULE RateLimitProofs --------------------------
(***************************************************************************)
(* Theorems about RateLimit, for every set of requests, every choice of    *)
(* limits and window lengths, and every number of faults.                  *)
(***************************************************************************)
EXTENDS RateLimit, TLAPS

(* What the code relies on about a window key: it has not ended when the   *)
(* clock is inside it, and no window has ended at the start.               *)
LEMMA KeyFacts ==
  ASSUME NEW k \in Keys
  PROVE  /\ k.window \in Kinds
         /\ k.start \in Int
         /\ Limit[k.window] \in Nat
         /\ Length[k.window] \in Nat \ {0}
         /\ End(k) \in Int
         /\ End(k) > 0
<1>1. PICK r \in Requests, w \in Kinds, t \in Times :
        k = [base |-> RateLimitKey(r), window |-> w, start |-> Start(t, w)]
  BY DEF Keys
<1>2. Length[w] \in Nat \ {0} /\ Limit[w] \in Nat /\ t \in Nat
  BY RateAssumption DEF Times
<1>3. t % Length[w] \in 0 .. Length[w] - 1
  BY <1>2
<1>4. Start(t, w) \in Int /\ Start(t, w) + Length[w] > 0
  BY <1>2, <1>3 DEF Start
<1> QED
  BY <1>1, <1>2, <1>4 DEF End

(* A key computed from the clock is a key, and its window has begun.       *)
LEMMA ComputedKey ==
  ASSUME NEW r \in Requests, NEW w \in Kinds, now \in Times
  PROVE  /\ windowKey(r, w) \in Keys
         /\ windowKey(r, w).window = w
         /\ windowKey(r, w).start <= now
<1>1. Length[w] \in Nat \ {0} /\ now \in Nat
  BY RateAssumption DEF Times
<1>2. now % Length[w] \in 0 .. Length[w] - 1
  BY <1>1
<1>3. Start(now, w) <= now
  BY <1>1, <1>2 DEF Start
<1> QED
  BY <1>3 DEF windowKey, Keys

Positions == 1 .. 3

(* Order lists the three kinds, each once.                                 *)
LEMMA OrderFacts ==
  /\ \A j \in Positions : Order[j] \in Kinds
  /\ \A i, j \in Positions : Order[i] = Order[j] => i = j
<1>1. Order[1] = "second" /\ Order[2] = "minute" /\ Order[3] = "hour"
  BY DEF Order
<1> QED
  BY <1>1 DEF Positions, Kinds

(* Where a request stands in its checks: it has computed the key of the    *)
(* window it checks, and has no verdict yet on it and on the later ones.   *)
Standing(r) ==
  /\ pc[r] \in {"incr", "expire"} => key[r].start <= now /\ key[r].window = Order[step[r]]
  /\ pc[r] \in {"check", "incr"} => \A j \in Positions : j >= step[r] => verdict[r][Order[j]] = "open"
  /\ pc[r] = "expire" => \A j \in Positions : j > step[r] => verdict[r][Order[j]] = "open"

(* No key expires before its window has ended.                             *)
Outlives(k) == deadline[k] # Never => deadline[k] >= End(k)

(* Every check that passed in the window is in its count.                  *)
Counted(k) == ~Over(k) => granted[k] <= count[k]

RateInv ==
  /\ TypeOK
  /\ \A r \in Requests : Standing(r)
  /\ \A k \in Keys : Outlives(k)
  /\ \A k \in Keys : Counted(k)
  /\ GrantsWithinLimit
  /\ CountIsExact
  /\ KeysExpire

(* What every way of leaving a check has in common: only r moves, to the   *)
(* next window or to the end.                                              *)
Moves(r) ==
  /\ pc' \in [Requests -> {"check", "incr", "expire", "done"}]
  /\ step' \in [Requests -> 1 .. 3]
  /\ outcome' \in [Requests -> {"none", "passed", "429", "500", "lost"}]
  /\ \A q \in Requests : q # r => pc'[q] = pc[q] /\ step'[q] = step[q]
  /\ \/ pc'[r] = "done"
     \/ pc'[r] = "check" /\ step'[r] > step[r]

LEMMA FinishMoves ==
  ASSUME TypeOK, NEW r \in Requests, NEW what \in {"passed", "429", "500", "lost"}, Finish(r, what)
  PROVE  Moves(r)
BY DEF TypeOK, Finish, Moves

LEMMA ProceedMoves ==
  ASSUME TypeOK, NEW r \in Requests, Proceed(r)
  PROVE  Moves(r)
<1>1. step[r] \in 1 .. 3
  BY DEF TypeOK
<1>2. CASE Limited(step[r] + 1) = {}
  BY <1>2, FinishMoves DEF Proceed
<1>3. CASE Limited(step[r] + 1) # {}
  <2>1. PICK j \in Limited(step[r] + 1) : step' = [step EXCEPT ![r] = j]
    BY <1>3 DEF Proceed
  <2>2. j \in 1 .. 3 /\ j > step[r]
    BY <1>1, <2>1 DEF Limited
  <2> QED
    BY <1>3, <2>1, <2>2 DEF Proceed, Moves, TypeOK
<1> QED
  BY <1>2, <1>3

LEMMA SettleMoves ==
  ASSUME TypeOK, NEW r \in Requests, NEW b \in BOOLEAN, Settle(r, b)
  PROVE  Moves(r)
BY ProceedMoves, FinishMoves DEF Settle

LEMMA StoreErrorMoves ==
  ASSUME TypeOK, NEW r \in Requests, StoreError(r)
  PROVE  /\ Moves(r)
         /\ \E v \in {"waived", "failed"} : SetVerdict(r, v)
BY ProceedMoves, FinishMoves DEF StoreError

(* A verdict on the window under check leaves the later ones open.         *)
LEMMA VerdictSet ==
  ASSUME TypeOK, NEW r \in Requests,
         NEW v \in {"granted", "refused", "waived", "failed"}, SetVerdict(r, v)
  PROVE  /\ verdict' \in [Requests -> [Kinds -> {"open", "granted", "refused", "waived", "failed"}]]
         /\ \A q \in Requests : q # r => verdict'[q] = verdict[q]
         /\ \A j \in Positions : j # step[r] => verdict'[r][Order[j]] = verdict[r][Order[j]]
         /\ verdict'[r][Order[step[r]]] = v
<1>1. step[r] \in Positions
  BY DEF TypeOK, Positions
<1>2. Order[step[r]] \in Kinds
  BY <1>1, OrderFacts
<1>3. \A j \in Positions : j # step[r] => Order[j] \in Kinds /\ Order[j] # Order[step[r]]
  BY <1>1, OrderFacts
<1> QED
  BY <1>2, <1>3 DEF TypeOK, SetVerdict

(* A request that leaves its check stands properly, whatever its verdict.  *)
LEMMA StandingAfterMove ==
  ASSUME TypeOK, NEW r \in Requests, Moves(r), now' = now, key' = key,
         pc[r] \in {"incr", "expire"},
         \A q \in Requests : Standing(q),
         \A q \in Requests : q # r => verdict'[q] = verdict[q],
         \A j \in Positions : j # step[r] => verdict'[r][Order[j]] = verdict[r][Order[j]]
  PROVE  \A q \in Requests : Standing(q)'
<1>1. ASSUME NEW q \in Requests, q # r PROVE Standing(q)'
  BY <1>1 DEF Moves, Standing
<1>2. Standing(r)'
  <2>1. step[r] \in 1 .. 3 /\ step'[r] \in 1 .. 3
    BY DEF TypeOK, Moves
  <2>2. \A j \in Positions : j > step[r] => verdict[r][Order[j]] = "open"
    BY <2>1 DEF Standing, Positions
  <2>3. CASE pc'[r] = "done"
    BY <2>3 DEF Standing
  <2>4. CASE pc'[r] = "check" /\ step'[r] > step[r]
    BY <2>1, <2>2, <2>4 DEF Standing, Positions
  <2> QED
    BY <2>3, <2>4 DEF Moves
<1> QED
  BY <1>1, <1>2

----------------------------------------------------------------------------
(* The invariant, action by action.                                        *)

LEMMA RateInit == Init => RateInv
<1> SUFFICES ASSUME Init PROVE RateInv
  OBVIOUS
<1>1. now = 0 /\ now \in Times
  BY RateAssumption DEF Init, Times
<1>2. PICK j \in Limited(1) : step = [r \in Requests |-> j]
  BY DEF Init
<1>3. j \in 1 .. 3
  BY <1>2 DEF Limited
<1>4. \A r \in Requests : windowKey(r, "second") \in Keys
  BY <1>1, ComputedKey DEF Kinds
<1>5. TypeOK
  BY <1>1, <1>2, <1>3, <1>4, RateAssumption DEF Init, TypeOK
<1>6. \A r \in Requests : Standing(r)
  BY OrderFacts DEF Init, Standing
<1>7. \A k \in Keys : Outlives(k) /\ Counted(k)
  BY DEF Init, Outlives, Counted
<1>8. GrantsWithinLimit /\ CountIsExact /\ KeysExpire
  BY KeyFacts DEF Init, GrantsWithinLimit, CountIsExact, KeysExpire
<1> QED
  BY <1>5, <1>6, <1>7, <1>8 DEF RateInv

LEMMA ComputeKeyStep ==
  ASSUME RateInv, NEW r \in Requests, ComputeKey(r)
  PROVE  RateInv'
<1> USE DEF RateInv
<1>1. Order[step[r]] \in Kinds
  BY OrderFacts DEF TypeOK, Positions
<1> DEFINE k == windowKey(r, Order[step[r]])
<1>2. k \in Keys /\ k.window = Order[step[r]] /\ k.start <= now
  BY <1>1, ComputedKey DEF TypeOK
<1> HIDE DEF k
<1>3. key' = [key EXCEPT ![r] = k]
  BY DEF ComputeKey, k
<1>4. TypeOK'
  BY <1>2, <1>3 DEF TypeOK, ComputeKey, redisVars
<1>5. ASSUME NEW q \in Requests PROVE Standing(q)'
  <2>1. CASE q = r
    BY <1>2, <1>3, <2>1 DEF Standing, ComputeKey, redisVars, TypeOK
  <2>2. CASE q # r
    BY <1>3, <2>2 DEF Standing, ComputeKey, redisVars, TypeOK
  <2> QED
    BY <2>1, <2>2
<1>6. \A i \in Keys : Outlives(i)' /\ Counted(i)'
  BY DEF Outlives, Counted, Over, ComputeKey, redisVars
<1>7. GrantsWithinLimit' /\ CountIsExact'
  BY DEF GrantsWithinLimit, CountIsExact, Over, ComputeKey, redisVars
<1>8. KeysExpire'
  BY <1>3 DEF KeysExpire, ComputeKey, redisVars, TypeOK
<1> QED
  BY <1>4, <1>5, <1>6, <1>7, <1>8

LEMMA IncrStep ==
  ASSUME RateInv, NEW r \in Requests, Incr(r)
  PROVE  RateInv'
<1> USE DEF RateInv
<1> DEFINE k == key[r]
           n == count[k] + 1
           v == IF Allows(k, n) THEN "granted" ELSE "refused"
<1>1. k \in Keys /\ count[k] \in Nat /\ granted[k] \in Nat /\ now \in Int
  BY DEF TypeOK, Times
<1>2. k.window \in Kinds /\ k.start \in Int /\ Limit[k.window] \in Nat /\ End(k) \in Int
  BY <1>1, KeyFacts
<1>3. SetVerdict(r, v) /\ v \in {"granted", "refused"}
  BY DEF Incr
<1>4. /\ verdict' \in [Requests -> [Kinds -> {"open", "granted", "refused", "waived", "failed"}]]
      /\ \A q \in Requests : q # r => verdict'[q] = verdict[q]
      /\ \A j \in Positions : j # step[r] => verdict'[r][Order[j]] = verdict[r][Order[j]]
  BY <1>3, VerdictSet
<1> HIDE DEF v
<1>5. pc[r] = "incr" /\ UNCHANGED <<now, deadline, faults, key>>
  BY DEF Incr
<1>6. count' = [count EXCEPT ![k] = n] /\ n \in Nat
  BY <1>1 DEF Incr
<1>7. granted' = IF Allows(k, n) /\ ~Over(k) THEN [granted EXCEPT ![k] = @ + 1] ELSE granted
  BY DEF Incr
<1>8. granted' \in [Keys -> Nat]
  BY <1>1, <1>7 DEF TypeOK
<1>9. \/ IsNew(n) /\ pc' = [pc EXCEPT ![r] = "expire"] /\ UNCHANGED <<step, outcome>>
      \/ ~IsNew(n) /\ Moves(r)
  <2>1. Allows(k, n) \in BOOLEAN
    BY <1>1 DEF Allows
  <2> QED
    BY <2>1, SettleMoves DEF Incr
<1>10. TypeOK'
  BY <1>4, <1>5, <1>6, <1>8, <1>9 DEF TypeOK, Moves
<1>11. \A q \in Requests : Standing(q)'
  <2>1. CASE ~IsNew(n) /\ Moves(r)
    BY <1>4, <1>5, <2>1, StandingAfterMove
  <2>2. CASE pc' = [pc EXCEPT ![r] = "expire"] /\ UNCHANGED <<step, outcome>>
    <3>1. \A q \in Requests : q # r => Standing(q)'
      BY <1>4, <1>5, <2>2 DEF Standing, TypeOK
    <3>2. \A j \in Positions : j > step[r] => verdict'[r][Order[j]] = "open"
      BY <1>4, <1>5 DEF Standing, Positions, TypeOK
    <3>3. Standing(r)'
      BY <1>5, <2>2, <3>2 DEF Standing, TypeOK
    <3> QED
      BY <3>1, <3>3
  <2> QED
    BY <1>9, <2>1, <2>2
<1>12. \A i \in Keys : Outlives(i)'
  BY <1>5 DEF Outlives, End
<1>13. \A i \in Keys : Counted(i)'
  <2>1. ASSUME NEW i \in Keys, i # k PROVE Counted(i)'
    BY <1>1, <1>5, <1>6, <1>7, <2>1 DEF Counted, Over, End, TypeOK
  <2>2. Counted(k)'
    BY <1>1, <1>5, <1>6, <1>7 DEF Counted, Over, End, TypeOK
  <2> QED
    BY <1>5, <2>1, <2>2
<1>14. GrantsWithinLimit'
  <2>1. ASSUME NEW i \in Keys, i # k PROVE granted'[i] <= Limit[i.window]
    BY <1>1, <1>7, <2>1 DEF GrantsWithinLimit, TypeOK
  <2>2. granted'[k] <= Limit[k.window]
    BY <1>1, <1>2, <1>7 DEF GrantsWithinLimit, Counted, Allows, TypeOK
  <2> QED
    BY <2>1, <2>2 DEF GrantsWithinLimit
<1>15. CountIsExact'
  <2>1. ASSUME NEW i \in Keys, i # k PROVE granted'[i] = granted[i] /\ count'[i] = count[i]
    BY <1>1, <1>6, <1>7, <2>1 DEF TypeOK
  <2>2. Over(k)' = Over(k) /\ \A i \in Keys : Over(i)' = Over(i)
    BY <1>1, <1>5 DEF Over, End
  <2>3. ASSUME faults = 0, ~Over(k)
        PROVE  granted'[k] = IF count'[k] <= Limit[k.window] THEN count'[k] ELSE Limit[k.window]
    <3>1. granted[k] = IF count[k] <= Limit[k.window] THEN count[k] ELSE Limit[k.window]
      BY <1>1, <2>3 DEF CountIsExact
    <3>2. count'[k] = count[k] + 1
      BY <1>1, <1>6 DEF TypeOK
    <3>3. CASE count[k] + 1 <= Limit[k.window]
      <4>1. granted'[k] = granted[k] + 1
        BY <1>1, <1>7, <2>3, <3>3 DEF Allows, TypeOK
      <4> QED
        BY <1>1, <1>2, <3>1, <3>2, <3>3, <4>1
    <3>4. CASE ~(count[k] + 1 <= Limit[k.window])
      <4>1. granted'[k] = granted[k]
        BY <1>1, <1>7, <3>4 DEF Allows
      <4> QED
        BY <1>1, <1>2, <3>1, <3>2, <3>4, <4>1
    <3> QED
      BY <3>3, <3>4
  <2> QED
    BY <1>5, <2>1, <2>2, <2>3 DEF CountIsExact
<1>16. KeysExpire'
  <2> SUFFICES ASSUME faults = 0, NEW i \in Keys, count'[i] > 0, deadline[i] = Never
               PROVE  \E q \in Requests : pc'[q] = "expire" /\ key[q] = i
    BY <1>5 DEF KeysExpire
  <2>1. CASE i = k /\ IsNew(n)
    BY <1>9, <2>1 DEF TypeOK
  <2>2. CASE i # k \/ ~IsNew(n)
    <3>1. count[i] > 0
      BY <1>1, <1>6, <2>2 DEF IsNew, TypeOK
    <3>2. PICK q \in Requests : pc[q] = "expire" /\ key[q] = i
      BY <3>1 DEF KeysExpire
    <3>3. q # r
      BY <1>5, <3>2
    <3> QED
      BY <1>9, <3>2, <3>3 DEF Moves, TypeOK
  <2> QED
    BY <2>1, <2>2
<1> QED
  BY <1>10, <1>11, <1>12, <1>13, <1>14, <1>15, <1>16

LEMMA IncrErrorStep ==
  ASSUME RateInv, NEW r \in Requests, IncrFails(r) \/ IncrLost(r)
  PROVE  RateInv'
<1> USE DEF RateInv
<1>1. pc[r] = "incr" /\ Fault /\ StoreError(r) /\ UNCHANGED <<now, deadline, key, granted>>
  BY DEF IncrFails, IncrLost, redisVars
<1>2. PICK v \in {"waived", "failed"} : SetVerdict(r, v)
  BY <1>1, StoreErrorMoves
<1>3. Moves(r)
  BY <1>1, StoreErrorMoves
<1>4. /\ verdict' \in [Requests -> [Kinds -> {"open", "granted", "refused", "waived", "failed"}]]
      /\ \A q \in Requests : q # r => verdict'[q] = verdict[q]
      /\ \A j \in Positions : j # step[r] => verdict'[r][Order[j]] = verdict[r][Order[j]]
  BY <1>2, VerdictSet
<1>5. faults' \in 0 .. MaxFaults /\ faults' # 0
  BY <1>1, RateAssumption DEF Fault, TypeOK
<1>6. count' \in [Keys -> Nat] /\ \A k \in Keys : count'[k] >= count[k]
  BY DEF IncrFails, IncrLost, redisVars, TypeOK
<1>7. TypeOK'
  BY <1>1, <1>3, <1>4, <1>5, <1>6 DEF TypeOK, Moves
<1>8. \A q \in Requests : Standing(q)'
  BY <1>1, <1>3, <1>4, StandingAfterMove
<1>9. \A k \in Keys : Outlives(k)'
  BY <1>1 DEF Outlives, End
<1>10. \A k \in Keys : Counted(k)'
  <2> TAKE k \in Keys
  <2>1. granted[k] \in Nat /\ count[k] \in Nat /\ count'[k] \in Nat
    BY <1>6 DEF TypeOK
  <2> QED
    BY <1>1, <1>6, <2>1 DEF Counted, Over, End
<1>11. GrantsWithinLimit' /\ CountIsExact' /\ KeysExpire'
  BY <1>1, <1>5 DEF GrantsWithinLimit, CountIsExact, KeysExpire
<1> QED
  BY <1>7, <1>8, <1>9, <1>10, <1>11

LEMMA IncrRepeatedStep ==
  ASSUME RateInv, NEW r \in Requests, IncrRepeated(r)
  PROVE  RateInv'
<1> USE DEF RateInv
<1>1. UNCHANGED <<now, deadline, pc, step, key, verdict, outcome, granted>>
  BY DEF IncrRepeated
<1>2. faults' \in 0 .. MaxFaults /\ faults' # 0
  BY RateAssumption DEF IncrRepeated, Fault, TypeOK
<1>3. count' \in [Keys -> Nat] /\ \A k \in Keys : count'[k] >= count[k]
  BY DEF IncrRepeated, TypeOK
<1>4. TypeOK' /\ \A q \in Requests : Standing(q)'
  BY <1>1, <1>2, <1>3 DEF TypeOK, Standing
<1>5. \A k \in Keys : Outlives(k)'
  BY <1>1 DEF Outlives, End
<1>6. \A k \in Keys : Counted(k)'
  <2> TAKE k \in Keys
  <2>1. granted[k] \in Nat /\ count[k] \in Nat /\ count'[k] \in Nat
    BY <1>3 DEF TypeOK
  <2> QED
    BY <1>1, <1>3, <2>1 DEF Counted, Over, End
<1>7. GrantsWithinLimit' /\ CountIsExact' /\ KeysExpire'
  BY <1>1, <1>2 DEF GrantsWithinLimit, CountIsExact, KeysExpire
<1> QED
  BY <1>4, <1>5, <1>6, <1>7

LEMMA ExpireStep ==
  ASSUME RateInv, NEW r \in Requests, Expire(r) \/ ExpireFails(r)
  PROVE  RateInv'
<1> USE DEF RateInv
<1>1. pc[r] = "expire" /\ UNCHANGED <<now, count, key, verdict, granted>>
  BY DEF Expire, ExpireFails, redisVars
<1>2. Moves(r)
  <2>1. Granted(r) \in BOOLEAN
    BY DEF Granted
  <2> QED
    BY <2>1, SettleMoves DEF Expire, ExpireFails
<1>3. key[r] \in Keys /\ key[r].start <= now /\ now \in Nat
  BY <1>1 DEF TypeOK, Standing, Times
<1>4. key[r].start \in Int /\ Length[key[r].window] \in Nat \ {0}
  BY <1>3, KeyFacts
<1>5. Expiry(key[r]) \in Nat /\ Expiry(key[r]) >= End(key[r])
  BY <1>3, <1>4 DEF Expiry, End
<1>6. /\ deadline' \in [Keys -> Nat \union {Never}]
      /\ \A k \in Keys : k # key[r] => deadline'[k] = deadline[k]
      /\ deadline'[key[r]] \in {deadline[key[r]], Expiry(key[r])}
  BY <1>3, <1>5 DEF Expire, ExpireFails, redisVars, TypeOK
<1>7. faults' = faults \/ (faults' \in 0 .. MaxFaults /\ faults' # 0)
  BY RateAssumption DEF Expire, ExpireFails, Fault, TypeOK
<1>8. TypeOK'
  BY <1>1, <1>2, <1>6, <1>7 DEF TypeOK, Moves
<1>9. \A q \in Requests : Standing(q)'
  BY <1>1, <1>2, StandingAfterMove
<1>10. \A k \in Keys : Outlives(k)'
  BY <1>5, <1>6 DEF Outlives, End
<1>11. \A k \in Keys : Counted(k)'
  BY <1>1 DEF Counted, Over, End
<1>12. GrantsWithinLimit' /\ CountIsExact'
  BY <1>1, <1>7 DEF GrantsWithinLimit, CountIsExact, Over, End
<1>13. KeysExpire'
  <2> SUFFICES ASSUME faults' = 0, NEW i \in Keys, count[i] > 0, deadline'[i] = Never
               PROVE  \E q \in Requests : pc'[q] = "expire" /\ key[q] = i
    BY <1>1 DEF KeysExpire
  <2>1. Expire(r) /\ faults = 0
    BY RateAssumption DEF Expire, ExpireFails, Fault, TypeOK
  <2>2. i # key[r] /\ deadline[i] = Never
    BY <1>3, <1>5, <2>1 DEF Expire, TypeOK, Never
  <2>3. PICK q \in Requests : pc[q] = "expire" /\ key[q] = i
    BY <2>1, <2>2 DEF KeysExpire
  <2> QED
    BY <1>2, <2>2, <2>3 DEF Moves
<1> QED
  BY <1>8, <1>9, <1>10, <1>11, <1>12, <1>13

LEMMA CrashStep ==
  ASSUME RateInv, NEW g, Crash(g)
  PROVE  RateInv'
<1> USE DEF RateInv
<1>1. UNCHANGED <<now, count, deadline, step, key, verdict, granted>>
  BY DEF Crash, redisVars
<1>2. faults' \in 0 .. MaxFaults /\ faults' # 0
  BY RateAssumption DEF Crash, Fault, TypeOK
<1>3. /\ pc' \in [Requests -> {"check", "incr", "expire", "done"}]
      /\ outcome' \in [Requests -> {"none", "passed", "429", "500", "lost"}]
      /\ \A r \in Requests : pc'[r] \in {pc[r], "done"}
  BY DEF Crash, TypeOK
<1>4. TypeOK'
  BY <1>1, <1>2, <1>3 DEF TypeOK
<1>5. \A r \in Requests : Standing(r)'
  BY <1>1, <1>3 DEF Standing
<1>6. \A k \in Keys : Outlives(k)' /\ Counted(k)'
  BY <1>1 DEF Outlives, Counted, Over, End
<1>7. GrantsWithinLimit' /\ CountIsExact' /\ KeysExpire'
  BY <1>1, <1>2 DEF GrantsWithinLimit, CountIsExact, KeysExpire
<1> QED
  BY <1>4, <1>5, <1>6, <1>7

LEMMA LoseStep ==
  ASSUME RateInv, Lose
  PROVE  RateInv'
<1> USE DEF RateInv
<1>1. UNCHANGED <<now, pc, step, key, verdict, outcome>>
  BY DEF Lose
<1>2. faults' \in 0 .. MaxFaults /\ faults' # 0
  BY RateAssumption DEF Lose, Fault, TypeOK
<1>3. TypeOK' /\ \A r \in Requests : Standing(r)'
  BY <1>1, <1>2 DEF TypeOK, Standing, Lose
<1>4. \A k \in Keys : Outlives(k)' /\ Counted(k)'
  BY DEF Outlives, Counted, Lose
<1>5. GrantsWithinLimit' /\ CountIsExact' /\ KeysExpire'
  BY <1>2, KeyFacts DEF GrantsWithinLimit, CountIsExact, KeysExpire, Lose
<1> QED
  BY <1>3, <1>4, <1>5

(* A key that Redis drops belongs to a window that has ended.              *)
LEMMA OnlyEndedExpire ==
  ASSUME RateInv, Tick, NEW k \in Keys, Expired(k)
  PROVE  Over(k)'
<1>1. deadline[k] # Never /\ deadline[k] >= End(k) /\ deadline[k] <= now + 1
  BY DEF RateInv, Outlives, Expired
<1>2. deadline[k] \in Int /\ End(k) \in Int /\ now \in Int
  BY KeyFacts DEF RateInv, TypeOK, Times, Never
<1> QED
  BY <1>1, <1>2 DEF Over, End, Tick

LEMMA TickStep ==
  ASSUME RateInv, Tick
  PROVE  RateInv'
<1> USE DEF RateInv
<1>1. UNCHANGED <<faults, pc, step, key, verdict, outcome, granted>>
  BY DEF Tick
<1>2. now \in Nat /\ now' = now + 1 /\ now' \in Times
  BY RateAssumption DEF Tick, TypeOK, Times
<1>3. TypeOK'
  BY <1>1, <1>2 DEF TypeOK, Tick
<1>4. \A r \in Requests : Standing(r)'
  <2> TAKE r \in Requests
  <2>1. key[r] \in Keys
    BY DEF TypeOK
  <2>2. key[r].start \in Int
    BY <2>1, KeyFacts
  <2> QED
    BY <1>1, <1>2, <2>2 DEF Standing
<1>5. ASSUME NEW k \in Keys
      PROVE  /\ count'[k] = IF Expired(k) THEN 0 ELSE count[k]
             /\ deadline'[k] = IF Expired(k) THEN Never ELSE deadline[k]
             /\ Over(k) => Over(k)'
             /\ Expired(k) => Over(k)'
  <2>1. End(k) \in Int
    BY KeyFacts
  <2> QED
    BY <1>2, <2>1, OnlyEndedExpire DEF Tick, Over, End
<1>6. \A k \in Keys : Outlives(k)'
  BY <1>5 DEF Outlives, End
<1>7. \A k \in Keys : Counted(k)'
  BY <1>1, <1>5 DEF Counted
<1>8. GrantsWithinLimit'
  BY <1>1 DEF GrantsWithinLimit
<1>9. CountIsExact'
  BY <1>1, <1>5 DEF CountIsExact
<1>10. KeysExpire'
  <2> SUFFICES ASSUME faults = 0, NEW k \in Keys, count'[k] > 0, deadline'[k] = Never
               PROVE  \E q \in Requests : pc[q] = "expire" /\ key[q] = k
    BY <1>1 DEF KeysExpire
  <2>1. ~Expired(k)
    BY <1>5
  <2> QED
    BY <1>5, <2>1 DEF KeysExpire
<1> QED
  BY <1>3, <1>4, <1>6, <1>7, <1>8, <1>9, <1>10

LEMMA RateStep == RateInv /\ [Next]_vars => RateInv'
<1> SUFFICES ASSUME RateInv, [Next]_vars PROVE RateInv'
  OBVIOUS
<1>1. ASSUME NEW r \in Requests, ComputeKey(r) PROVE RateInv'
  BY <1>1, ComputeKeyStep
<1>2. ASSUME NEW r \in Requests, Incr(r) PROVE RateInv'
  BY <1>2, IncrStep
<1>3. ASSUME NEW r \in Requests, IncrFails(r) \/ IncrLost(r) PROVE RateInv'
  BY <1>3, IncrErrorStep
<1>4. ASSUME NEW r \in Requests, IncrRepeated(r) PROVE RateInv'
  BY <1>4, IncrRepeatedStep
<1>5. ASSUME NEW r \in Requests, Expire(r) \/ ExpireFails(r) PROVE RateInv'
  BY <1>5, ExpireStep
<1>6. ASSUME NEW r \in Requests, Crash(Gateway[r]) PROVE RateInv'
  BY <1>6, CrashStep
<1>7. CASE Lose
  BY <1>7, LoseStep
<1>8. CASE Tick
  BY <1>8, TickStep
<1>9. CASE UNCHANGED vars
  BY <1>9 DEF vars, RateInv, TypeOK, Standing, Outlives, Counted, Over, End,
              GrantsWithinLimit, CountIsExact, KeysExpire
<1> QED
  BY <1>1, <1>2, <1>3, <1>4, <1>5, <1>6, <1>7, <1>8, <1>9 DEF Next

LEMMA RateInvariant == Spec => []RateInv
<1>1. RateInv /\ [Next]_vars => RateInv'
  BY RateStep
<1> QED
  BY <1>1, RateInit, PTL DEF Spec

(* The state of the limiter keeps its type in every interleaving.          *)
THEOREM RateTypeCorrect == Spec => []TypeOK
<1>1. RateInv => TypeOK
  BY DEF RateInv
<1> QED
  BY <1>1, RateInvariant, PTL

(* All gateways together let at most `limit' checks of a window pass while *)
(* it lasts, unless Redis loses its data (checkRateLimitRedis).            *)
THEOREM LimitHeld == Spec => []GrantsWithinLimit
<1>1. RateInv => GrantsWithinLimit
  BY DEF RateInv
<1> QED
  BY <1>1, RateInvariant, PTL

(* Without faults the count of the present window is exact, so nobody is   *)
(* refused early (checkRateLimitRedis).                                    *)
THEOREM CountsExact == Spec => []CountIsExact
<1>1. RateInv => CountIsExact
  BY DEF RateInv
<1> QED
  BY <1>1, RateInvariant, PTL

(* Only a fault leaves a key without an expiry (INCR, then EXPIRE).        *)
THEOREM KeysGetExpiry == Spec => []KeysExpire
<1>1. RateInv => KeysExpire
  BY DEF RateInv
<1> QED
  BY <1>1, RateInvariant, PTL

----------------------------------------------------------------------------
(* Refinement of WindowLimiter.                                            *)

LEMMA LeftFacts ==
  ASSUME TypeOK, NEW k \in Keys
  PROVE  /\ Left[k] \in Nat
         /\ count[k] < Limit[k.window] => Left[k] = Limit[k.window] - count[k]
         /\ ~(count[k] < Limit[k.window]) => Left[k] = 0
<1>1. count[k] \in Nat /\ Limit[k.window] \in Nat
  BY KeyFacts DEF TypeOK
<1> QED
  BY <1>1 DEF Left

(* One more in the count is one less in the budget, down to 0.             *)
LEMMA LeftAfterIncr ==
  ASSUME TypeOK, NEW k \in Keys, count' = [count EXCEPT ![k] = count[k] + 1]
  PROVE  \/ Left[k] > 0 /\ Left[k] # 0 /\ Left' = [Left EXCEPT ![k] = @ - 1]
         \/ ~(Left[k] > 0) /\ Left[k] = 0 /\ Left' = Left
<1>1. count[k] \in Nat /\ Limit[k.window] \in Nat
  BY KeyFacts DEF TypeOK
<1>2. \A i \in Keys : i # k => count'[i] = count[i]
  BY DEF TypeOK
<1>3. count'[k] = count[k] + 1
  BY DEF TypeOK
<1>4. CASE count[k] < Limit[k.window]
  <2>1. Left[k] = Limit[k.window] - count[k] /\ Left[k] > 0
    BY <1>1, <1>4 DEF Left
  <2>2. Left'[k] = Left[k] - 1
    BY <1>1, <1>3, <1>4, <2>1 DEF Left
  <2>3. \A i \in Keys : i # k => Left'[i] = Left[i]
    BY <1>2 DEF Left
  <2>4. Left = [i \in Keys |-> Left[i]] /\ Left' = [i \in Keys |-> Left'[i]]
    BY DEF Left
  <2>5. Left' = [Left EXCEPT ![k] = @ - 1]
    BY <2>2, <2>3, <2>4
  <2> QED
    BY <2>1, <2>5
<1>5. CASE ~(count[k] < Limit[k.window])
  <2>1. Left[k] = 0 /\ Left'[k] = 0
    BY <1>1, <1>3, <1>5 DEF Left
  <2>2. \A i \in Keys : Left'[i] = Left[i]
    BY <1>2, <2>1 DEF Left
  <2> QED
    BY <2>1, <2>2 DEF Left
<1> QED
  BY <1>4, <1>5

LEMMA EndedSame == ASSUME now' = now PROVE Ended' = Ended
BY DEF Ended, Over, End

LEMMA RefinesInit == Init => Limiter!Init
<1> SUFFICES ASSUME Init PROVE Limiter!Init
  OBVIOUS
<1>1. \A k \in Keys : Left[k] = Limit[k.window]
  BY KeyFacts DEF Left, Init
<1>2. Left = Budget
  BY <1>1 DEF Left, Budget
<1>3. Ended = {}
  <2>1. now = 0
    BY DEF Init
  <2>2. \A k \in Keys : ~Over(k)
    BY <2>1, KeyFacts DEF Over
  <2> QED
    BY <2>2 DEF Ended
<1> QED
  BY <1>2, <1>3 DEF Limiter!Init, Init

LEMMA RefinesIncr ==
  ASSUME RateInv, NEW r \in Requests, Incr(r)
  PROVE  \E k \in Keys : Limiter!Grant(r, k) \/ Limiter!Refuse(r, k)
<1> DEFINE k == key[r]
           w == Order[step[r]]
<1>1. TypeOK /\ Standing(r) /\ pc[r] = "incr" /\ now' = now
  BY DEF RateInv, Incr
<1>2. k \in Keys /\ KindOf[k] = w
  BY <1>1 DEF TypeOK, Standing, KindOf
<1>3. verdict[r][w] = "open"
  BY <1>1 DEF Standing, TypeOK, Positions
<1>4. count[k] \in Nat /\ Limit[k.window] \in Nat
  BY <1>1, <1>2, KeyFacts DEF TypeOK
<1>5. count' = [count EXCEPT ![k] = count[k] + 1]
  BY DEF Incr
<1>6. Ended' = Ended /\ (k \in Ended <=> Over(k))
  BY <1>1, <1>2, EndedSame DEF Ended
<1>7. CASE Allows(k, count[k] + 1)
  <2>1. Left[k] > 0
    BY <1>1, <1>2, <1>4, <1>7, LeftFacts DEF Allows
  <2>2. Left' = [Left EXCEPT ![k] = @ - 1]
    BY <1>1, <1>2, <1>5, <2>1, LeftAfterIncr
  <2>3. verdict' = [verdict EXCEPT ![r][w] = "granted"]
    BY <1>7 DEF Incr, SetVerdict
  <2>4. granted' = IF k \in Ended THEN granted ELSE [granted EXCEPT ![k] = @ + 1]
    BY <1>6, <1>7 DEF Incr
  <2> QED
    BY <1>2, <1>3, <1>6, <2>1, <2>2, <2>3, <2>4 DEF Limiter!Grant, Limiter!Answer
<1>8. CASE ~Allows(k, count[k] + 1)
  <2>1. Left[k] = 0
    BY <1>1, <1>2, <1>4, <1>8, LeftFacts DEF Allows
  <2>2. Left' = Left
    BY <1>1, <1>2, <1>5, <2>1, LeftAfterIncr
  <2>3. verdict' = [verdict EXCEPT ![r][w] = "refused"]
    BY <1>8 DEF Incr, SetVerdict
  <2>4. granted' = granted
    BY <1>8 DEF Incr
  <2> QED
    BY <1>2, <1>3, <1>6, <2>1, <2>2, <2>3, <2>4 DEF Limiter!Refuse, Limiter!Answer
<1> QED
  BY <1>7, <1>8

LEMMA RefinesIncrError ==
  ASSUME RateInv, NEW r \in Requests, IncrFails(r) \/ IncrLost(r)
  PROVE  \/ \E w \in Kinds : Limiter!Fault(r, w)
         \/ \E k \in Keys : Limiter!FaultSpending(r, k)
<1> DEFINE k == key[r]
           w == Order[step[r]]
<1>1. TypeOK /\ Standing(r) /\ pc[r] = "incr" /\ StoreError(r)
      /\ UNCHANGED <<now, granted>>
  BY DEF RateInv, IncrFails, IncrLost, redisVars
<1>2. k \in Keys /\ KindOf[k] = w /\ w \in Kinds
  BY <1>1, OrderFacts DEF TypeOK, Standing, KindOf, Positions
<1>3. verdict[r][w] = "open"
  BY <1>1 DEF Standing, TypeOK, Positions
<1>4. PICK v \in {"waived", "failed"} : verdict' = [verdict EXCEPT ![r][w] = v]
  BY <1>1, StoreErrorMoves DEF SetVerdict
<1>5. Ended' = Ended
  BY <1>1, EndedSame
<1>6. CASE count' = count
  <2>1. Left' = Left
    BY <1>6 DEF Left
  <2> QED
    BY <1>1, <1>2, <1>3, <1>4, <1>5, <2>1 DEF Limiter!Fault, Limiter!Answer
<1>7. CASE count' = [count EXCEPT ![k] = count[k] + 1]
  <2>1. CASE Left[k] > 0 /\ Left' = [Left EXCEPT ![k] = @ - 1]
    BY <1>1, <1>2, <1>3, <1>4, <1>5, <2>1 DEF Limiter!FaultSpending, Limiter!Answer
  <2>2. CASE Left' = Left
    BY <1>1, <1>2, <1>3, <1>4, <1>5, <2>2 DEF Limiter!Fault, Limiter!Answer
  <2> QED
    BY <1>1, <1>2, <1>7, <2>1, <2>2, LeftAfterIncr
<1> QED
  BY <1>6, <1>7 DEF IncrFails, IncrLost, redisVars

LEMMA RefinesIncrRepeated ==
  ASSUME RateInv, NEW r \in Requests, IncrRepeated(r)
  PROVE  (\E k \in Keys : Limiter!Spend(k)) \/ UNCHANGED Limiter!vars
<1> DEFINE k == key[r]
<1>1. TypeOK /\ k \in Keys /\ UNCHANGED <<now, granted, verdict>>
  BY DEF RateInv, TypeOK, IncrRepeated
<1>2. count' = [count EXCEPT ![k] = count[k] + 1]
  BY DEF IncrRepeated
<1>3. Ended' = Ended
  BY <1>1, EndedSame
<1>4. CASE Left[k] > 0 /\ Left' = [Left EXCEPT ![k] = @ - 1]
  BY <1>1, <1>3, <1>4 DEF Limiter!Spend
<1>5. CASE Left' = Left
  BY <1>1, <1>3, <1>5 DEF Limiter!vars
<1> QED
  BY <1>1, <1>2, <1>4, <1>5, LeftAfterIncr

LEMMA RefinesTick ==
  ASSUME RateInv, Tick
  PROVE  Limiter!Pass
<1>1. TypeOK /\ TypeOK'
  BY TickStep DEF RateInv
<1>2. \A k \in Keys : Over(k) => Over(k)'
  <2>1. \A k \in Keys : End(k) \in Int
    BY KeyFacts
  <2> QED
    BY <1>1, <2>1 DEF Tick, Over, End, TypeOK, Times
<1>3. Ended' \in SUBSET Keys /\ Ended \subseteq Ended'
  BY <1>2 DEF Ended
<1>4. \A k \in Keys : Left'[k] \in Nat
  <2> TAKE k \in Keys
  <2>1. count'[k] \in Nat /\ Limit[k.window] \in Nat
    BY <1>1, KeyFacts DEF TypeOK
  <2> QED
    BY <2>1 DEF Left
<1>5. Left' \in [Keys -> Nat]
  BY <1>4 DEF Left
<1>6. ASSUME NEW k \in Keys
      PROVE  Left'[k] = Left[k] \/ (k \in Ended' /\ Left'[k] = Budget[k])
  <2>1. CASE Expired(k)
    <3>1. k \in Ended'
      BY <2>1, OnlyEndedExpire DEF Ended
    <3>2. count'[k] = 0 /\ Limit[k.window] \in Nat
      BY <2>1, KeyFacts DEF Tick
    <3> QED
      BY <3>1, <3>2 DEF Left, Budget
  <2>2. CASE ~Expired(k)
    <3>1. count'[k] = count[k]
      BY <2>2 DEF Tick
    <3> QED
      BY <3>1 DEF Left
  <2> QED
    BY <2>1, <2>2
<1> QED
  BY <1>3, <1>5, <1>6 DEF Limiter!Pass, Tick

LEMMA RefinesLose ==
  ASSUME RateInv, Lose
  PROVE  Limiter!Lose
<1>1. \A k \in Keys : Left'[k] = Limit[k.window]
  BY KeyFacts DEF Left, Lose
<1>2. Left' = Budget
  BY <1>1 DEF Left, Budget
<1>3. Ended' = Ended
  BY EndedSame DEF Lose
<1> QED
  BY <1>2, <1>3 DEF Limiter!Lose, Lose

(* The other steps do not touch what the limiter promises.                 *)
LEMMA RefinesQuiet ==
  ASSUME UNCHANGED <<now, count, granted, verdict>>
  PROVE  UNCHANGED Limiter!vars
<1>1. Left' = Left /\ Ended' = Ended
  BY EndedSame DEF Left
<1> QED
  BY <1>1 DEF Limiter!vars

LEMMA RefinesNext ==
  RateInv /\ [Next]_vars => [Limiter!Next]_Limiter!vars
<1> SUFFICES ASSUME RateInv, [Next]_vars PROVE [Limiter!Next]_Limiter!vars
  OBVIOUS
<1>1. ASSUME NEW r \in Requests, Incr(r) PROVE Limiter!Next
  BY <1>1, RefinesIncr DEF Limiter!Next
<1>2. ASSUME NEW r \in Requests, IncrFails(r) \/ IncrLost(r) PROVE Limiter!Next
  BY <1>2, RefinesIncrError DEF Limiter!Next
<1>3. ASSUME NEW r \in Requests, IncrRepeated(r) PROVE [Limiter!Next]_Limiter!vars
  BY <1>3, RefinesIncrRepeated DEF Limiter!Next
<1>4. ASSUME NEW r \in Requests, ComputeKey(r) \/ Expire(r) \/ ExpireFails(r) \/ Crash(Gateway[r])
      PROVE  UNCHANGED Limiter!vars
  BY <1>4, RefinesQuiet DEF ComputeKey, Expire, ExpireFails, Crash, redisVars
<1>5. CASE Lose
  BY <1>5, RefinesLose DEF Limiter!Next
<1>6. CASE Tick
  BY <1>6, RefinesTick DEF Limiter!Next
<1>7. CASE UNCHANGED vars
  BY <1>7, RefinesQuiet DEF vars
<1> QED
  BY <1>1, <1>2, <1>3, <1>4, <1>5, <1>6, <1>7 DEF Next

(* checkRateLimitRedis implements the window limiter, with all faults.     *)
THEOREM RateLimitRefines == Spec => LimiterRefined
<1>1. RateInv /\ [Next]_vars => [Limiter!Next]_Limiter!vars
  BY RefinesNext
<1> QED
  BY <1>1, RefinesInit, RateInvariant, PTL DEF Spec, Limiter!Spec, LimiterRefined
=============================================================================
