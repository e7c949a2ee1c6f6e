--------------------------- MODULE MCConfigStore ---------------------------
(* Model-checking instances of ConfigStore.                                *)
EXTENDS ConfigStore, TLC

CONSTANTS a1, a2, s1, s2, h1, t1

\* Services behind an upstream, valid or with a field that fails validation,
\* and one given by a url that names a port.
MixedBodies ==
  [url : {None}, host : {h1}, ok : BOOLEAN] \union
  {[url |-> [host |-> h1, port |-> 8080], host |-> None, ok |-> TRUE]}

Symmetry == Permutations({a1, a2}) \union Permutations({s1, s2})
=============================================================================
