---------------------------- MODULE MCProxyPass ----------------------------
(* Model-checking instances of ProxyPass.                                  *)
EXTENDS ProxyPass, TLC

CONSTANTS r1, r2, r3, r4, r5

\* Every route selects all upstreams.
AllMatch == [r \in Requests |-> Upstreams]

\* The route of r2 is restricted to the upstream with index 0.
OneTagged == [r \in Requests |-> IF r = r2 THEN {0} ELSE Upstreams]

\* Requests that no constant tells apart.
Symmetry == Permutations({r1, r2})

\* The requests that end before they reach an upstream go first.  They
\* leave nothing behind but the counter of the next upstream.
EarlyEndsFirst ==
  LET early == Unlooped \union Direct \union BadPath IN
  (\E r \in early : pc[r] # "done") => (\E r \in early : pc'[r] # pc[r] \/ idx'[r] # idx[r])
=============================================================================
