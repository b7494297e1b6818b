----------------------------- MODULE PairedSend -----------------------------
(***************************************************************************)
(* What send_udp_packets_timestamp promises its callers: "Sends packets    *)
(* with timestamps followed previous packet", 2*N in a call for N.  The    *)
(* datagrams of a process come in pairs, a packet and at once its          *)
(* follow-up, and the follow-up holds the transmit timestamp of the very   *)
(* packet before it.  How the timestamps reach the process (kernel, error  *)
(* queue, busy waiting) is not visible here.                               *)
(***************************************************************************)
EXTENDS Integers, Sequences

CONSTANTS Procs, Jobs, Zero

VARIABLES
  job,  \* job[p]: what is left of the call that p is in
  log   \* log[p]: the datagrams p has sent

Free    == [state |-> "free"]
Aborted == [state |-> "aborted"]

Partner(type) ==
  CASE type = "DELAY_REQ" -> "DELAY_REQ_FOLLOW_UP"
    [] type = "DELAY_RESP" -> "DELAY_RESP_FOLLOW_UP"

Init ==
  /\ job = [p \in Procs |-> Free]
  /\ log = [p \in Procs |-> <<>>]

Begin(p) ==
  /\ job[p] = Free
  /\ \E j \in Jobs :
       /\ j.N > 0
       /\ job' = [job EXCEPT ![p] = [state |-> "packet", type |-> j.type,
                                     seq |-> j.seq, todo |-> j.N, dst |-> j.dst]]
  /\ UNCHANGED log

\* The packet: no timestamp of its own is known when it leaves.
Packet(p) ==
  /\ job[p].state = "packet"
  /\ job[p].todo > 0
  /\ log' = [log EXCEPT ![p] =
               Append(@, [type |-> job[p].type, seq |-> job[p].seq, stamp |-> Zero,
                          id |-> <<p, Len(@) + 1>>, dst |-> job[p].dst])]
  /\ job' = [job EXCEPT ![p].state = "follow_up"]

\* The follow-up: same sequence number, and the transmit time of the packet.
FollowUp(p) ==
  /\ job[p].state = "follow_up"
  /\ log' = [log EXCEPT ![p] =
               Append(@, [type |-> Partner(job[p].type), seq |-> job[p].seq,
                          stamp |-> @[Len(@)].id,
                          id |-> <<p, Len(@) + 1>>, dst |-> job[p].dst])]
  /\ job' = [job EXCEPT ![p].state = "packet", ![p].seq = @ + 1, ![p].todo = @ - 1]

Return(p) ==
  /\ job[p].state = "packet"
  /\ job[p].todo = 0
  /\ job' = [job EXCEPT ![p] = Free]
  /\ UNCHANGED log

Abort(p) ==
  /\ job[p].state \in {"packet", "follow_up"}
  /\ job' = [job EXCEPT ![p] = Aborted]
  /\ UNCHANGED log

Next == \E p \in Procs :
          Begin(p) \/ Packet(p) \/ FollowUp(p) \/ Return(p) \/ Abort(p)

Spec == Init /\ [][Next]_<<job, log>>
=============================================================================
