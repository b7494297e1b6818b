--------------------------- MODULE MCMdelayStream ---------------------------
(* MdelayStream for TLC. *)
EXTENDS MdelayStream

CONSTANTS m1, s1, a, b

InOrder == {SwThenHw}
MCHosts == {[p \in Procs |-> IF p \in Masters THEN a ELSE b]}
=============================================================================
