-------------------------- MODULE ProxyPassHistory --------------------------
(***************************************************************************)
(* ProxyPass with a history variable: steady[r] is the set of upstreams    *)
(* that have been usable, Healthy with a breaker that is not open, in      *)
(* every state since request r began its present selection.                *)
(***************************************************************************)
EXTENDS MCProxyPass

VARIABLE steady

Usable(u) ==
  /\ brk[u].state # "open"
  /\ HealthEnabled => health[u].status = "Healthy"

UsableNow == {u \in Upstreams : Usable(u)}

HistoryInit == Init /\ steady = [r \in Requests |-> UsableNow]

HistoryNext ==
  /\ Next
  /\ steady' = [r \in Requests |->
                  IF pc[r] \in {"scan", "exclude", "pick"}
                  THEN steady[r] \intersect UsableNow'
                  ELSE UsableNow \intersect UsableNow']

HistorySpec == HistoryInit /\ [][HistoryNext]_<<vars, steady>>

(* No false alarm: a request is told that no upstream is available only if *)
(* none of the upstreams it may use stayed usable while it was selecting,  *)
(* however checks, trips and other requests interleave with the scan       *)
(* (handleRoundRobin, handleRoundRobinExcluding).                          *)
NoFalse503 ==
  [][\A r \in Requests :
       answer[r] # "503" /\ answer'[r] = "503"
         => LET pool == IF PlainSelection(r) THEN Matching[r]
                        ELSE Matching[r] \ failed[r]
            IN  pool \intersect steady[r] \intersect UsableNow = {}]_<<vars, steady>>
=============================================================================
