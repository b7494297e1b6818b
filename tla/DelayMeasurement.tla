-------------------------- MODULE DelayMeasurement --------------------------
(***************************************************************************)
(* What one run of the master and one of the slave promise each other on a *)
(* network that loses and reorders datagrams but does not duplicate them:  *)
(* a sequence number is counted at most once on each side, by the slave    *)
(* before the master, and a side completes only after it has counted them  *)
(* all.  Nothing is said of how a number comes to be counted.              *)
(***************************************************************************)
EXTENDS Integers

CONSTANTS Master, Slave, N

VARIABLES
  counted,  \* counted[p]: the sequence numbers p has counted
  tally,    \* tally[p]: how often p has counted
  outcome   \* outcome[p]: "measuring", "complete" or "ended" (without success)

Sides == {Master, Slave}

Init ==
  /\ counted = [p \in Sides |-> {}]
  /\ tally = [p \in Sides |-> 0]
  /\ outcome = [p \in Sides |-> "measuring"]

Count(p, k) ==
  /\ outcome[p] = "measuring"
  /\ k \notin counted[p]
  /\ p = Master => k \in counted[Slave]
  /\ counted' = [counted EXCEPT ![p] = @ \cup {k}]
  /\ tally' = [tally EXCEPT ![p] = @ + 1]
  /\ UNCHANGED outcome

Complete(p) ==
  /\ outcome[p] = "measuring"
  /\ counted[p] = 0..N - 1
  /\ tally[p] = N
  /\ outcome' = [outcome EXCEPT ![p] = "complete"]
  /\ UNCHANGED <<counted, tally>>

End(p) ==
  /\ outcome[p] = "measuring"
  /\ outcome' = [outcome EXCEPT ![p] = "ended"]
  /\ UNCHANGED <<counted, tally>>

Next == \E p \in Sides : (\E k \in 0..N - 1 : Count(p, k)) \/ Complete(p) \/ End(p)

Spec == Init /\ [][Next]_<<counted, tally, outcome>>
=============================================================================
