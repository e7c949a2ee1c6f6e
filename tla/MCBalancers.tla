---------------------------- MODULE MCBalancers ----------------------------
(* Three requests, one of them with tags; the second configuration drops   *)
(* one upstream and moves another.                                         *)
EXTENDS Balancers, TLC

CONSTANTS a, b, c, r1, r2, r3

MCConfigs == << <<a, b, c>>, <<c, a>> >>
MCWeight == (a :> 1) @@ (b :> 0) @@ (c :> 2)
MCOffset == (a :> 3) @@ (b :> 0) @@ (c :> 3)
MCSkip == (a :> 4) @@ (b :> 2) @@ (c :> 1)
MCAttributes ==
  [r \in Requests |-> [cookie |-> IF r = r3 THEN "k2" ELSE "", header |-> "",
                       ip |-> "k1", peer |-> "k2"]]
MCSymmetry == Permutations({r1, r2})
MCSlotOf == [v \in {"k1", "k2"} |-> IF v = "k1" THEN 4 ELSE 3]
=============================================================================
