------------------------------ MODULE MCMdelay ------------------------------
(* Mdelay for TLC. *)
EXTENDS Mdelay

CONSTANTS m1, m2, s1, s2, a, b, c

InOrder == {SwThenHw}

\* Every master runs on host a, every slave on host b.
MCHosts == {[p \in Procs |-> IF p \in Masters THEN a ELSE b]}

\* So it is, or one of the masters runs on a third host.
TwoClients ==
  MCHosts \cup {[p \in Procs |-> IF p \in Slaves THEN b ELSE IF p = r THEN c ELSE a] :
                r \in Masters}

\* Bound: nothing goes wrong when the masters run on different hosts.
FaultsOnOneHost == host \in MCHosts \/ faults = 0

\* The two masters are alike: same options, and each may be the one on host c.
MasterSymmetry == Permutations(Masters)
=============================================================================
