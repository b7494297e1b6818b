---------------------------- MODULE SendService ----------------------------
(***************************************************************************)
(* send_udp_packets_timestamp on its own: processes that call it any       *)
(* number of times, the kernel that loops the timestamps back, and nothing *)
(* that takes datagrams off the wire, so that wire[p] is the log of what p *)
(* sent.                                                                   *)
(***************************************************************************)
EXTENDS TimestampedSend

CONSTANTS
  Jobs,     \* the arguments the callers pass, [type, N, seq, dst]
  MaxSent   \* bound: a process makes no call that would exceed it

ASSUME JobsAssumption ==
  /\ Jobs \subseteq [type : Requests, N : Nat, seq : Nat, dst : Dests]
  /\ MaxSent \in Nat

\* The master's sender thread and the slave's do_recv.
Invoke(p) ==
  /\ \E j \in Jobs : /\ txno[p] + 2 * j.N <= MaxSent
                     /\ Call(p, j.type, j.N, j.seq, j.dst)
  /\ UNCHANGED <<owed, errq, wire, txno>>

Next ==
  \E p \in Procs : Invoke(p) \/ SendStep(p) \/ SendError(p) \/ LoopStamp(p)

Spec == SendInit /\ [][Next]_sendVars

\* The routine busy-waits and sleeps only for a bounded time, so the thread
\* that runs it keeps taking steps; the kernel loops every stamp it owes.
Fairness == \A p \in Procs : WF_sendVars(SendStep(p)) /\ WF_sendVars(LoopStamp(p))

FairSpec == Spec /\ Fairness

-----------------------------------------------------------------------------
TypeOK == SendTypeOK

\* Whenever a process is about to send a packet, or is in no call, the error
\* queue is empty and will stay so: no stamp of an earlier datagram can be
\* taken for one of the next.  This is what the consuming reads at the end of
\* the loop body (util.c:159-164) are for.
FreshErrqueue ==
  \A p \in Procs : (frame[p] = Idle \/ frame[p].pc = "send")
                      => errq[p] = <<>> /\ owed[p] = <<>>

\* Every follow-up on the wire comes right after the packet with its sequence
\* number and carries the NIC timestamp of that packet, not of another one and
\* not zero (util.c:129-156).
FollowUpCarriesOwnStamp ==
  \A p \in Procs : \A k \in 1..Len(wire[p]) :
    wire[p][k].type \in FollowUps =>
      /\ k > 1
      /\ LET packet == wire[p][k - 1]
         IN  /\ wire[p][k].type = FollowUpOf(packet.type)
             /\ wire[p][k].seq = packet.seq
             /\ wire[p][k].stamp = packet.id

\* A call that has begun returns, or exits: the waits on the error queue end
\* (util.c:121-164).
CallReturns ==
  \A p \in Procs :
    (frame[p] # Idle) ~> (frame[p] = Idle \/ frame[p].pc = "exited")

-----------------------------------------------------------------------------
(* The routine implements PairedSend. *)

\* Datagrams of sequence number seq + i that are already complete.
PairsSent(f) == IF f.pc \in {"drain_kernel", "drain_nic"} THEN f.i + 1 ELSE f.i

\* What a caller still has to send, for the frame of its call.
JobOf(f) ==
  IF f = Idle THEN [state |-> "free"]
  ELSE IF f.pc = "exited" THEN [state |-> "aborted"]
  ELSE [state |-> IF f.pc \in {"kernel_ts", "nic_ts"} THEN "follow_up" ELSE "packet",
        type |-> f.type, seq |-> f.seq + PairsSent(f), todo |-> f.N - PairsSent(f),
        dst |-> f.dst]

jobBar == [p \in Procs |-> JobOf(frame[p])]

Abstract == INSTANCE PairedSend WITH job <- jobBar, log <- wire

\* Every behaviour of the routine is a behaviour of PairedSend.
ImplementsPairedSend == Abstract!Spec
=============================================================================
