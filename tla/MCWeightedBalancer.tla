------------------------- MODULE MCWeightedBalancer -------------------------
(* Three upstreams; the route of r2 has the tags of two of them.           *)
EXTENDS WeightedBalancer, TLC

CONSTANTS a, b, c, r1, r2

MCUpstreams == <<a, b, c>>
MCWeight == (a :> 3) @@ (b :> 0) @@ (c :> 2)
MCMatching == (r1 :> {a, b, c}) @@ (r2 :> {a, c})
=============================================================================
