--------------------------- MODULE MCSendService ---------------------------
(* SendService for TLC: a master's sender thread and a slave. *)
EXTENDS SendService

CONSTANTS m, s, a

\* The master asks for all its packets in one call, the slave for one packet
\* per call, with the sequence number it is replying to.
MCJobs == {[type |-> "DELAY_REQ", N |-> 2, seq |-> 0, dst |-> a]}
            \cup {[type |-> "DELAY_RESP", N |-> 1, seq |-> q, dst |-> a] : q \in 0..1}

InOrder == {SwThenHw}
=============================================================================
