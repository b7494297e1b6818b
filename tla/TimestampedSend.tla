-------------------------- MODULE TimestampedSend --------------------------
(***************************************************************************)
(* send_udp_packets_timestamp (util.c): the routine with which both the    *)
(* master's sender thread and the slave transmit.  For each of N sequence  *)
(* numbers it sends a packet, waits for the kernel to loop the packet's    *)
(* transmit timestamps to the socket's error queue, sends a follow-up that *)
(* carries the NIC's timestamp, and consumes the two timestamps of the     *)
(* follow-up itself, "which are not used".                                 *)
(*                                                                         *)
(* The routine runs in a process p of Procs; frame[p] is the frame of the  *)
(* call.  The error queue is filled by the kernel, asynchronously, in an   *)
(* order drawn from StampOrders.  A transmit timestamp is the identity of  *)
(* the datagram it was taken from, <<p, k>> for the k-th datagram that p   *)
(* sent: the instants themselves are not needed to tell a right timestamp  *)
(* from a wrong one.                                                       *)
(***************************************************************************)
EXTENDS Integers, Sequences

CONSTANTS
  Procs,        \* the processes that call the routine
  Dests,        \* destination addresses (the argument dsa)
  StampOrders,  \* the orders in which a datagram's stamps reach the queue
  SendErrors,   \* may sendto() return an error?
  Zero          \* a timestamp field that still holds the memset/calloc zero

SwThenHw == <<"sw", "hw">>

ASSUME SendAssumption ==
  /\ StampOrders \subseteq Seq({"sw", "hw"})
  /\ SendErrors \in BOOLEAN
  /\ Zero \notin Procs \X (Nat \ {0})

VARIABLES
  frame,   \* frame[p]: the local variables and the program point of the call
  owed,    \* owed[p]: stamps the kernel and the NIC have yet to loop back
  errq,    \* errq[p]: the error queue of the socket of p
  wire,    \* wire[p]: datagrams p handed to sendto, oldest first
  txno     \* txno[p]: how many datagrams p has sent

sendVars == <<frame, owed, errq, wire, txno>>

Requests  == {"DELAY_REQ", "DELAY_RESP"}
FollowUps == {"DELAY_REQ_FOLLOW_UP", "DELAY_RESP_FOLLOW_UP"}
Types     == Requests \cup FollowUps

FollowUpOf(type) ==
  IF type = "DELAY_REQ" THEN "DELAY_REQ_FOLLOW_UP" ELSE "DELAY_RESP_FOLLOW_UP"

TxIds  == Procs \X (Nat \ {0})
Stamps == [kind : {"sw", "hw"}, id : TxIds]

\* stamp is t2 of a DELAY_REQ_FOLLOW_UP and t4 of a DELAY_RESP_FOLLOW_UP; t1
\* and t3, which no receiver uses, are left out.  id is no field of the
\* header: it names the datagram.
Packets == [type : Types, seq : Nat, stamp : TxIds \cup {Zero},
            id : TxIds, dst : Dests]

-----------------------------------------------------------------------------
(* The frame of the call *)

Idle == [pc |-> "idle"]

Points == {"send", "kernel_ts", "nic_ts", "drain_kernel", "drain_nic", "exited"}

Frames == [pc : Points, type : Requests, seq : Nat, N : Nat, i : Nat, dst : Dests]

\* Faulty: i <= N.
LoopTop_OneMore(f) == IF f.i <= f.N THEN [f EXCEPT !.pc = "send"] ELSE Idle

\* The for loop's test, made on entry and at the end of each iteration.
LoopTop(f) == IF f.i < f.N THEN [f EXCEPT !.pc = "send"] ELSE Idle

\* Faulty: i--.
NextIteration_Down(f) == LoopTop([f EXCEPT !.i = f.i - 1])

NextIteration(f) == LoopTop([f EXCEPT !.i = f.i + 1])

Call(p, type, N, seq, dst) ==
  /\ frame[p] = Idle
  /\ frame' = [frame EXCEPT ![p] = LoopTop([pc |-> "send", type |-> type,
                              seq |-> seq, N |-> N, i |-> 0, dst |-> dst])]

Goto(p, pc) == frame' = [frame EXCEPT ![p].pc = pc]

-----------------------------------------------------------------------------
(* sendto and the kernel's transmit timestamps *)

\* sendto succeeds: the datagram leaves, and its stamps are owed.
SendTo(p, type, stamp) ==
  LET id == <<p, txno[p] + 1>>
  IN  /\ wire' = [wire EXCEPT ![p] =
                    Append(@, [type |-> type, seq |-> frame[p].seq + frame[p].i,
                               stamp |-> stamp, id |-> id, dst |-> frame[p].dst])]
      /\ txno' = [txno EXCEPT ![p] = @ + 1]
      /\ \E o \in StampOrders :
           owed' = [owed EXCEPT ![p] =
                      @ \o [k \in 1..Len(o) |-> [kind |-> o[k], id |-> id]]]

\* The kernel loops one stamp to the error queue, as a message of its own
\* (SOF_TIMESTAMPING_OPT_TX_SWHW).
LoopStamp(p) ==
  /\ owed[p] # <<>>
  /\ errq' = [errq EXCEPT ![p] = Append(@, Head(owed[p]))]
  /\ owed' = [owed EXCEPT ![p] = Tail(@)]
  /\ UNCHANGED <<frame, wire, txno>>

\* recvmsg(MSG_ERRQUEUE), retried for as long as it returns EAGAIN.
ReadErrqueue(p) ==
  /\ errq[p] # <<>>
  /\ errq' = [errq EXCEPT ![p] = Tail(@)]

-----------------------------------------------------------------------------
(* The steps of an iteration *)

SendPacket(p) ==
  /\ frame[p].pc = "send"
  /\ SendTo(p, frame[p].type, Zero)
  /\ Goto(p, "kernel_ts")
  /\ UNCHANGED errq

\* ts[0], the software stamp, is only printed.
ReadKernelStamp(p) ==
  /\ frame[p].pc = "kernel_ts"
  /\ ReadErrqueue(p)
  /\ Goto(p, "nic_ts")
  /\ UNCHANGED <<owed, wire, txno>>

\* Faulty: ts[0] instead of ts[2].
NicStamp_WrongSlot(s) == IF s.kind = "sw" THEN s.id ELSE Zero

\* ts[2] of a message: a message that holds the software stamp has zero there.
NicStamp(s) == IF s.kind = "hw" THEN s.id ELSE Zero

\* The second read of the error queue, and the follow-up built from it.
SendFollowUp(p) ==
  /\ frame[p].pc = "nic_ts"
  /\ ReadErrqueue(p)
  /\ SendTo(p, FollowUpOf(frame[p].type), NicStamp(Head(errq[p])))
  /\ Goto(p, "drain_kernel")

\* Faulty: one do-while too many.
DrainKernelStamp_Twice(p) ==
  /\ frame[p].pc = "drain_kernel"
  /\ Len(errq[p]) > 1
  /\ errq' = [errq EXCEPT ![p] = Tail(Tail(@))]
  /\ Goto(p, "drain_nic")
  /\ UNCHANGED <<owed, wire, txno>>

DrainKernelStamp(p) ==
  /\ frame[p].pc = "drain_kernel"
  /\ ReadErrqueue(p)
  /\ Goto(p, "drain_nic")
  /\ UNCHANGED <<owed, wire, txno>>

\* Faulty: the last do-while of the loop body is missing.
EndIteration_NoDrain(p) ==
  /\ frame[p].pc = "drain_nic"
  /\ frame' = [frame EXCEPT ![p] = NextIteration(frame[p])]
  /\ UNCHANGED <<errq, owed, wire, txno>>

EndIteration(p) ==
  /\ frame[p].pc = "drain_nic"
  /\ ReadErrqueue(p)
  /\ frame' = [frame EXCEPT ![p] = NextIteration(frame[p])]
  /\ UNCHANGED <<owed, wire, txno>>

\* TRY(sendto(...)) fails: exit(1), whichever thread the routine runs in.  The
\* follow-up's stamp has been read by then.
SendError(p) ==
  /\ SendErrors
  /\ \/ /\ frame[p].pc = "send"
        /\ UNCHANGED errq
     \/ /\ frame[p].pc = "nic_ts"
        /\ ReadErrqueue(p)
  /\ Goto(p, "exited")
  /\ UNCHANGED <<owed, wire, txno>>

SendStep(p) ==
  \/ SendPacket(p)
  \/ ReadKernelStamp(p)
  \/ SendFollowUp(p)
  \/ DrainKernelStamp(p)
  \/ EndIteration(p)

SendInit ==
  /\ frame = [p \in Procs |-> Idle]
  /\ owed = [p \in Procs |-> <<>>]
  /\ errq = [p \in Procs |-> <<>>]
  /\ wire = [p \in Procs |-> <<>>]
  /\ txno = [p \in Procs |-> 0]

\* The type invariant of the routine's part of the state.
SendTypeOK ==
  /\ frame \in [Procs -> Frames \cup {Idle}]
  /\ owed \in [Procs -> Seq(Stamps)]
  /\ errq \in [Procs -> Seq(Stamps)]
  /\ wire \in [Procs -> Seq(Packets)]
  /\ txno \in [Procs -> Nat]
=============================================================================
