--------------------------- MODULE MCEchoLatency ---------------------------
(* EchoLatency for TLC. *)
EXTENDS EchoLatency

CONSTANT r1

OneOfEach == [kind \in FaultKinds |-> 1]
NoFaults  == [kind \in FaultKinds |-> 0]
=============================================================================
