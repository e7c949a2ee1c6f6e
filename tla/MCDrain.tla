------------------------------ MODULE MCDrain ------------------------------
(* Model-checking instances of Drain.                                      *)
EXTENDS Drain

CONSTANTS http, https, r1, r2
=============================================================================
