------------------------ MODULE TimestampedSendProofs ------------------------
(***************************************************************************)
(* Lemmas about the steps of send_udp_packets_timestamp, for any set of    *)
(* processes.  They are about the routine's part of the state only, so     *)
(* that every specification that runs the routine can cite them.           *)
(***************************************************************************)
EXTENDS TimestampedSend, SequenceTheorems, TLAPS

-----------------------------------------------------------------------------
(* Sequences *)

\* Appending to an empty sequence and to one of length one.
LEMMA AppendShort ==
  ASSUME NEW a, NEW b
  PROVE  Append(<<>>, a) = <<a>> /\ Append(<<a>>, b) = <<a, b>>
<1>1. Append(<<>>, a) = <<a>>
  OBVIOUS
<1> DEFINE s == Append(<<a>>, b)
           t == <<a, b>>
<1>2. s \in Seq({a, b}) /\ t \in Seq({a, b}) /\ Len(s) = 2 /\ Len(t) = 2
  OBVIOUS
<1>3. \A i \in 1..2 : s[i] = t[i]
  OBVIOUS
<1> HIDE DEF s, t
<1>5. s = t
  BY <1>2, <1>3, SeqEqual
<1> QED BY <1>1, <1>5 DEF s, t

\* The first element and the rest of a sequence of length one or two.
LEMMA HeadTailShort ==
  ASSUME NEW a, NEW b
  PROVE  /\ Head(<<a>>) = a /\ Tail(<<a>>) = <<>>
         /\ Head(<<a, b>>) = a /\ Tail(<<a, b>>) = <<b>>
  OBVIOUS

\* The stamps of one datagram, in any order and number, are a sequence of
\* stamps.
LEMMA StampsOfDatagram ==
  ASSUME NEW o \in Seq({"sw", "hw"}), NEW id \in TxIds
  PROVE  [k \in 1..Len(o) |-> [kind |-> o[k], id |-> id]] \in Seq(Stamps)
  BY DEF Stamps

\* In the order SwThenHw they are the software stamp and then the NIC's.
LEMMA StampsInOrder ==
  ASSUME NEW id
  PROVE  <<>> \o [k \in 1..Len(SwThenHw) |-> [kind |-> SwThenHw[k], id |-> id]]
           = <<[kind |-> "sw", id |-> id], [kind |-> "hw", id |-> id]>>
  BY DEF SwThenHw

-----------------------------------------------------------------------------
(* Types *)

\* The loop test leaves a well-typed frame.
LEMMA LoopTopType ==
  ASSUME NEW f \in Frames
  PROVE  LoopTop(f) \in Frames \cup {Idle}
  BY DEF LoopTop, Frames, Points

\* A call with typed arguments begins with a well-typed frame.
LEMMA CallType ==
  ASSUME SendTypeOK, NEW p \in Procs, NEW type \in Requests, NEW n \in Nat,
         NEW seq \in Nat, NEW dst \in Dests, Call(p, type, n, seq, dst)
  PROVE  frame' \in [Procs -> Frames \cup {Idle}]
<1> DEFINE f == [pc |-> "send", type |-> type, seq |-> seq, N |-> n, i |-> 0, dst |-> dst]
<1>1. f \in Frames
  BY DEF Frames, Points
<1>2. frame' = [frame EXCEPT ![p] = LoopTop(f)]
  BY DEF Call
<1> HIDE DEF f
<1> QED BY <1>1, <1>2, LoopTopType DEF SendTypeOK

LEMMA NextIterationType ==
  ASSUME NEW f \in Frames
  PROVE  NextIteration(f) \in Frames \cup {Idle}
<1>1. [f EXCEPT !.i = f.i + 1] \in Frames
  BY DEF Frames
<1> QED BY <1>1, LoopTopType DEF NextIteration

\* The follow-up of a packet type is a follow-up type.
LEMMA FollowUpOfType ==
  ASSUME NEW t \in Requests
  PROVE  FollowUpOf(t) \in FollowUps
  BY DEF FollowUpOf, Requests, FollowUps

\* sendto keeps the types, whatever stamp field the datagram carries.
LEMMA SendToType ==
  ASSUME SendTypeOK, NEW p \in Procs, frame[p] \in Frames,
         NEW t \in Types, NEW stamp \in TxIds \cup {Zero}, SendTo(p, t, stamp)
  PROVE  /\ wire' \in [Procs -> Seq(Packets)]
         /\ txno' \in [Procs -> Nat]
         /\ owed' \in [Procs -> Seq(Stamps)]
<1> DEFINE id == <<p, txno[p] + 1>>
           d == [type |-> t, seq |-> frame[p].seq + frame[p].i,
                 stamp |-> stamp, id |-> id, dst |-> frame[p].dst]
<1>1. id \in TxIds
  BY DEF SendTypeOK, TxIds
<1>2. d \in Packets
  <2> HIDE DEF id
  <2> QED BY <1>1 DEF Packets, Frames
<1>3. wire' = [wire EXCEPT ![p] = Append(@, d)]
  BY DEF SendTo
<1>4. wire' \in [Procs -> Seq(Packets)]
  <2> HIDE DEF d
  <2> QED BY <1>2, <1>3 DEF SendTypeOK
<1>5. txno' \in [Procs -> Nat]
  BY DEF SendTo, SendTypeOK
<1>6. PICK o \in StampOrders :
        owed' = [owed EXCEPT ![p] =
                   @ \o [k \in 1..Len(o) |-> [kind |-> o[k], id |-> id]]]
  BY DEF SendTo
<1>7. [k \in 1..Len(o) |-> [kind |-> o[k], id |-> id]] \in Seq(Stamps)
  BY <1>1, StampsOfDatagram, SendAssumption
<1>8. owed' \in [Procs -> Seq(Stamps)]
  <2> DEFINE ss == [k \in 1..Len(o) |-> [kind |-> o[k], id |-> id]]
  <2> ss \in Seq(Stamps) /\ owed' = [owed EXCEPT ![p] = @ \o ss]
    BY <1>6, <1>7
  <2> HIDE DEF ss
  <2> QED BY DEF SendTypeOK
<1> QED BY <1>4, <1>5, <1>8

\* Consuming a message leaves a queue of stamps, and the message is a stamp.
LEMMA ReadErrqueueType ==
  ASSUME SendTypeOK, NEW p \in Procs, ReadErrqueue(p)
  PROVE  errq' \in [Procs -> Seq(Stamps)] /\ Head(errq[p]) \in Stamps
  BY DEF ReadErrqueue, SendTypeOK

\* A frame stays a frame when only its program point moves.
LEMMA GotoType ==
  ASSUME SendTypeOK, NEW p \in Procs, frame[p] \in Frames, NEW pc \in Points, Goto(p, pc)
  PROVE  frame' \in [Procs -> Frames \cup {Idle}]
  BY DEF Goto, SendTypeOK, Frames

\* At a program point of the loop body the process is in a call.
LEMMA InCall ==
  ASSUME SendTypeOK, NEW p \in Procs, frame[p].pc # "idle"
  PROVE  frame[p] \in Frames
  BY DEF SendTypeOK, Idle

LEMMA SendStepType ==
  ASSUME SendTypeOK, NEW p \in Procs, SendStep(p)
  PROVE  SendTypeOK'
<1>1. CASE SendPacket(p)
  <2>1. frame[p] \in Frames
    BY <1>1, InCall DEF SendPacket
  <2>2. frame[p].type \in Types
    BY <2>1 DEF Frames, Types
  <2> QED BY <1>1, <2>1, <2>2, SendToType, GotoType DEF SendPacket, SendTypeOK, Points
<1>2. CASE ReadKernelStamp(p)
  <2>1. frame[p] \in Frames
    BY <1>2, InCall DEF ReadKernelStamp
  <2> QED BY <1>2, <2>1, ReadErrqueueType, GotoType DEF ReadKernelStamp, SendTypeOK, Points
<1>3. CASE SendFollowUp(p)
  <2>1. frame[p] \in Frames
    BY <1>3, InCall DEF SendFollowUp
  <2>2. FollowUpOf(frame[p].type) \in Types
    BY <2>1, FollowUpOfType DEF Frames, Types
  <2>3. errq' \in [Procs -> Seq(Stamps)] /\ Head(errq[p]) \in Stamps
    BY <1>3, ReadErrqueueType DEF SendFollowUp
  <2>4. NicStamp(Head(errq[p])) \in TxIds \cup {Zero}
    BY <2>3 DEF NicStamp, Stamps
  <2> QED BY <1>3, <2>1, <2>2, <2>3, <2>4, SendToType, GotoType
          DEF SendFollowUp, SendTypeOK, Points
<1>4. CASE DrainKernelStamp(p)
  <2>1. frame[p] \in Frames
    BY <1>4, InCall DEF DrainKernelStamp
  <2> QED BY <1>4, <2>1, ReadErrqueueType, GotoType DEF DrainKernelStamp, SendTypeOK, Points
<1>5. CASE EndIteration(p)
  <2>1. frame[p] \in Frames
    BY <1>5, InCall DEF EndIteration
  <2> QED BY <1>5, <2>1, NextIterationType, ReadErrqueueType DEF EndIteration, SendTypeOK
<1> QED BY <1>1, <1>2, <1>3, <1>4, <1>5 DEF SendStep

-----------------------------------------------------------------------------
(* The error queue *)

\* The stamps that datagram number k of p will have looped back, in order.
SwStamp(p, k)  == [kind |-> "sw", id |-> <<p, k>>]
NicStampOf(p, k) == [kind |-> "hw", id |-> <<p, k>>]

\* Both stamps of datagram k are outstanding: looped back or still owed.
BothOutstanding(p, k) ==
  \/ errq[p] = <<>> /\ owed[p] = <<SwStamp(p, k), NicStampOf(p, k)>>
  \/ errq[p] = <<SwStamp(p, k)>> /\ owed[p] = <<NicStampOf(p, k)>>
  \/ errq[p] = <<SwStamp(p, k), NicStampOf(p, k)>> /\ owed[p] = <<>>

\* The software stamp has been read, the NIC's has not.
NicOutstanding(p, k) ==
  \/ errq[p] = <<>> /\ owed[p] = <<NicStampOf(p, k)>>
  \/ errq[p] = <<NicStampOf(p, k)>> /\ owed[p] = <<>>

NoneOutstanding(p) == errq[p] = <<>> /\ owed[p] = <<>>

\* The strengthening: at each program point, exactly the unread stamps of the
\* datagram sent last are outstanding.
QueueInv(p) ==
  /\ frame[p].pc \in {"idle", "send"} => NoneOutstanding(p)
  /\ frame[p].pc \in {"kernel_ts", "drain_kernel"} => BothOutstanding(p, txno[p])
  /\ frame[p].pc \in {"nic_ts", "drain_nic"} => NicOutstanding(p, txno[p])

\* sendto with an empty queue leaves both stamps of the new datagram owed.
LEMMA SendToOutstanding ==
  ASSUME SendTypeOK, StampOrders = {SwThenHw}, NEW p \in Procs, NEW t, NEW stamp,
         SendTo(p, t, stamp), owed[p] = <<>>
  PROVE  /\ txno'[p] = txno[p] + 1
         /\ owed'[p] = <<SwStamp(p, txno'[p]), NicStampOf(p, txno'[p])>>
<1> DEFINE id == <<p, txno[p] + 1>>
<1>1. owed'[p] = <<>> \o [k \in 1..Len(SwThenHw) |-> [kind |-> SwThenHw[k], id |-> id]]
  BY DEF SendTo, SendTypeOK
<1>2. owed'[p] = <<[kind |-> "sw", id |-> id], [kind |-> "hw", id |-> id]>>
  <2> HIDE DEF id
  <2> QED BY <1>1, StampsInOrder
<1>3. txno'[p] = txno[p] + 1
  BY DEF SendTo, SendTypeOK
<1> QED BY <1>2, <1>3 DEF SwStamp, NicStampOf

\* The kernel moves a stamp from owed to the queue: still the same stamps.
LEMMA LoopStampQueue ==
  ASSUME SendTypeOK, NEW p \in Procs, LoopStamp(p), QueueInv(p)
  PROVE  QueueInv(p)'
<1> DEFINE k == txno[p]
           sw == SwStamp(p, k)
           nic == NicStampOf(p, k)
<1>1. /\ frame'[p] = frame[p] /\ txno'[p] = txno[p]
      /\ owed[p] # <<>>
      /\ errq'[p] = Append(errq[p], Head(owed[p])) /\ owed'[p] = Tail(owed[p])
  BY DEF LoopStamp, SendTypeOK
<1>2. BothOutstanding(p, k) => BothOutstanding(p, k)'
  <2> DEFINE Both(e, o) == \/ e = <<>> /\ o = <<sw, nic>>
                           \/ e = <<sw>> /\ o = <<nic>>
                           \/ e = <<sw, nic>> /\ o = <<>>
  <2>1. /\ Head(<<sw, nic>>) = sw /\ Tail(<<sw, nic>>) = <<nic>>
        /\ Head(<<nic>>) = nic /\ Tail(<<nic>>) = <<>>
    BY HeadTailShort
  <2>2. Append(<<>>, sw) = <<sw>> /\ Append(<<sw>>, nic) = <<sw, nic>>
    <3> HIDE DEF sw, nic
    <3> QED BY AppendShort
  <2>3. /\ BothOutstanding(p, k) <=> Both(errq[p], owed[p])
        /\ BothOutstanding(p, k)' <=> Both(errq'[p], owed'[p])
    BY <1>1 DEF BothOutstanding, SwStamp, NicStampOf
  <2> HIDE DEF sw, nic
  <2>4. Both(errq[p], owed[p]) => Both(errq'[p], owed'[p])
    BY <1>1, <2>1, <2>2
  <2> QED BY <2>3, <2>4
<1>3. NicOutstanding(p, k) => NicOutstanding(p, k)'
  <2> DEFINE One(e, o) == \/ e = <<>> /\ o = <<nic>>
                          \/ e = <<nic>> /\ o = <<>>
  <2>1. Head(<<nic>>) = nic /\ Tail(<<nic>>) = <<>> /\ Append(<<>>, nic) = <<nic>>
    BY HeadTailShort, AppendShort
  <2>2. /\ NicOutstanding(p, k) <=> One(errq[p], owed[p])
        /\ NicOutstanding(p, k)' <=> One(errq'[p], owed'[p])
    BY <1>1 DEF NicOutstanding, NicStampOf
  <2> HIDE DEF nic
  <2>3. One(errq[p], owed[p]) => One(errq'[p], owed'[p])
    BY <1>1, <2>1
  <2> QED BY <2>2, <2>3
<1>4. /\ BothOutstanding(p, txno[p])' = BothOutstanding(p, k)'
      /\ NicOutstanding(p, txno[p])' = NicOutstanding(p, k)'
  BY <1>1 DEF BothOutstanding, NicOutstanding, SwStamp, NicStampOf
<1> QED BY <1>1, <1>2, <1>3, <1>4 DEF QueueInv, NoneOutstanding

\* The two reads of an iteration take the two stamps in their order.
LEMMA ReadFirst ==
  ASSUME SendTypeOK, NEW p \in Procs, ReadErrqueue(p), UNCHANGED <<owed, txno>>,
         BothOutstanding(p, txno[p])
  PROVE  NicOutstanding(p, txno[p])'
  BY HeadTailShort DEF ReadErrqueue, SendTypeOK, BothOutstanding, NicOutstanding,
                       SwStamp, NicStampOf

LEMMA ReadSecond ==
  ASSUME SendTypeOK, NEW p \in Procs, ReadErrqueue(p), NicOutstanding(p, txno[p])
  PROVE  /\ Head(errq[p]) = NicStampOf(p, txno[p])
         /\ errq'[p] = <<>> /\ owed[p] = <<>>
  BY HeadTailShort DEF ReadErrqueue, SendTypeOK, NicOutstanding

LEMMA SendStepQueue ==
  ASSUME SendTypeOK, StampOrders = {SwThenHw}, NEW p \in Procs, SendStep(p), QueueInv(p)
  PROVE  QueueInv(p)'
<1>1. CASE SendPacket(p)
  <2>1. errq'[p] = <<>> /\ owed[p] = <<>>
    BY <1>1 DEF SendPacket, QueueInv, NoneOutstanding
  <2>2. frame'[p].pc = "kernel_ts"
    BY <1>1, InCall DEF SendPacket, Goto, SendTypeOK, Frames
  <2>3. owed'[p] = <<SwStamp(p, txno'[p]), NicStampOf(p, txno'[p])>>
    BY <1>1, <2>1, SendToOutstanding DEF SendPacket
  <2> QED BY <2>1, <2>2, <2>3 DEF QueueInv, BothOutstanding, SwStamp, NicStampOf
<1>2. CASE ReadKernelStamp(p)
  <2>1. frame'[p].pc = "nic_ts"
    BY <1>2, InCall DEF ReadKernelStamp, Goto, SendTypeOK, Frames
  <2>2. NicOutstanding(p, txno[p])'
    BY <1>2, ReadFirst DEF ReadKernelStamp, QueueInv
  <2> QED BY <2>1, <2>2 DEF QueueInv
<1>3. CASE SendFollowUp(p)
  <2>1. errq'[p] = <<>> /\ owed[p] = <<>>
    BY <1>3, ReadSecond DEF SendFollowUp, QueueInv
  <2>2. frame'[p].pc = "drain_kernel"
    BY <1>3, InCall DEF SendFollowUp, Goto, SendTypeOK, Frames
  <2>3. owed'[p] = <<SwStamp(p, txno'[p]), NicStampOf(p, txno'[p])>>
    BY <1>3, <2>1, SendToOutstanding DEF SendFollowUp
  <2> QED BY <2>1, <2>2, <2>3 DEF QueueInv, BothOutstanding, SwStamp, NicStampOf
<1>4. CASE DrainKernelStamp(p)
  <2>1. frame'[p].pc = "drain_nic"
    BY <1>4, InCall DEF DrainKernelStamp, Goto, SendTypeOK, Frames
  <2>2. NicOutstanding(p, txno[p])'
    BY <1>4, ReadFirst DEF DrainKernelStamp, QueueInv
  <2> QED BY <2>1, <2>2 DEF QueueInv
<1>5. CASE EndIteration(p)
  <2>1. errq'[p] = <<>> /\ owed'[p] = <<>>
    BY <1>5, ReadSecond DEF EndIteration, QueueInv
  <2>2. frame[p] \in Frames /\ frame'[p] = NextIteration(frame[p])
    BY <1>5, InCall DEF EndIteration, SendTypeOK
  <2>3. frame'[p].pc \in {"idle", "send"}
    BY <2>2 DEF NextIteration, LoopTop, Idle, Frames
  <2> QED BY <2>1, <2>3 DEF QueueInv, NoneOutstanding
<1> QED BY <1>1, <1>2, <1>3, <1>4, <1>5 DEF SendStep

-----------------------------------------------------------------------------
(* sendto failing, and the kernel *)

LEMMA SendErrorType ==
  ASSUME SendTypeOK, NEW p \in Procs, SendError(p)
  PROVE  SendTypeOK'
<1>1. frame[p] \in Frames
  BY InCall DEF SendError
<1>2. errq' \in [Procs -> Seq(Stamps)]
  BY ReadErrqueueType DEF SendError, SendTypeOK
<1> QED BY <1>1, <1>2, GotoType DEF SendError, SendTypeOK, Points

LEMMA LoopStampType ==
  ASSUME SendTypeOK, NEW p \in Procs, LoopStamp(p)
  PROVE  SendTypeOK'
  BY DEF LoopStamp, SendTypeOK

\* After a failed sendto no queue matters any more.
LEMMA SendErrorQueue ==
  ASSUME SendTypeOK, NEW p \in Procs, SendError(p)
  PROVE  QueueInv(p)' /\ frame'[p].pc = "exited"
<1>1. frame'[p].pc = "exited"
  BY InCall DEF SendError, Goto, SendTypeOK, Frames
<1> QED BY <1>1 DEF QueueInv

\* What a step of process p does to the part of another process q: nothing.
OthersUnchanged(p) ==
  \A q \in Procs \ {p} : /\ frame'[q] = frame[q] /\ errq'[q] = errq[q]
                         /\ owed'[q] = owed[q] /\ txno'[q] = txno[q]

LEMMA OthersKeepQueue ==
  ASSUME NEW p \in Procs, OthersUnchanged(p), NEW q \in Procs \ {p}, QueueInv(q)
  PROVE  QueueInv(q)'
  BY DEF OthersUnchanged, QueueInv, NoneOutstanding, BothOutstanding, NicOutstanding

LEMMA StepOthers ==
  ASSUME SendTypeOK, NEW p \in Procs,
         SendStep(p) \/ SendError(p) \/ LoopStamp(p)
  PROVE  OthersUnchanged(p)
  BY DEF OthersUnchanged, SendTypeOK, SendStep, SendPacket, SendTo, Goto,
         ReadKernelStamp, ReadErrqueue, SendFollowUp, DrainKernelStamp,
         EndIteration, SendError, LoopStamp

-----------------------------------------------------------------------------
(* What a step of the routine sends, and what it makes of the frame *)

\* A datagram that p hands to sendto.
Datagram(p, t, stamp) ==
  [type |-> t, seq |-> frame[p].seq + frame[p].i, stamp |-> stamp,
   id |-> <<p, txno[p] + 1>>, dst |-> frame[p].dst]

LEMMA SendToWire ==
  ASSUME SendTypeOK, NEW p \in Procs, frame[p] \in Frames,
         NEW t \in Types, NEW stamp \in TxIds \cup {Zero}, SendTo(p, t, stamp)
  PROVE  /\ Datagram(p, t, stamp) \in Packets
         /\ wire'[p] = Append(wire[p], Datagram(p, t, stamp))
         /\ txno'[p] = txno[p] + 1
<1>1. <<p, txno[p] + 1>> \in TxIds
  BY DEF SendTypeOK, TxIds
<1>2. Datagram(p, t, stamp) \in Packets
  BY <1>1 DEF Datagram, Packets, Frames
<1>3. wire'[p] = Append(wire[p], Datagram(p, t, stamp)) /\ txno'[p] = txno[p] + 1
  BY DEF SendTo, Datagram, SendTypeOK
<1> QED BY <1>2, <1>3

\* A follow-up type is not a packet type, so a packet needs no partner.
LEMMA RequestIsNoFollowUp == \A t \in Requests : t \in Types /\ t \notin FollowUps
  BY DEF Requests, FollowUps, Types

\* A step of the routine sends nothing, or one datagram, made from the frame.  A
\* follow-up carries a timestamp of a datagram of the same process.
Sends(p, d) ==
  /\ wire' = [wire EXCEPT ![p] = Append(@, d)]
  /\ frame[p] \in Frames
  /\ d.id \in TxIds /\ d.id[1] = p
  /\ d.seq = frame[p].seq + frame[p].i /\ d.dst = frame[p].dst
  /\ d.type \in {frame[p].type, FollowUpOf(frame[p].type)}
  /\ QueueInv(p) /\ d.type \in FollowUps => d.stamp \in TxIds /\ d.stamp[1] = p

LEMMA SendStepSends ==
  ASSUME SendTypeOK, NEW p \in Procs, SendStep(p)
  PROVE  wire' = wire \/ \E d \in Packets : Sends(p, d)
<1>0. <<p, txno[p] + 1>> \in TxIds
  BY DEF SendTypeOK, TxIds
<1>1. CASE SendPacket(p)
  <2> DEFINE d == Datagram(p, frame[p].type, Zero)
  <2>1. frame[p] \in Frames
    BY <1>1, InCall DEF SendPacket
  <2>2. frame[p].type \in Requests
    BY <2>1 DEF Frames
  <2>3. d \in Packets
    BY <1>1, <2>1, <2>2, SendToWire, RequestIsNoFollowUp DEF SendPacket
  <2>4. wire' = [wire EXCEPT ![p] = Append(@, d)]
    BY <1>1 DEF SendPacket, SendTo, Datagram
  <2>5. /\ d.type = frame[p].type /\ d.seq = frame[p].seq + frame[p].i
        /\ d.id = <<p, txno[p] + 1>> /\ d.dst = frame[p].dst
    BY DEF Datagram
  <2>6. d.type \notin FollowUps
    BY <2>2, <2>5, RequestIsNoFollowUp
  <2> HIDE DEF d
  <2>7. Sends(p, d)
    BY <1>0, <2>1, <2>4, <2>5, <2>6 DEF Sends
  <2> QED BY <2>3, <2>7
<1>2. CASE SendFollowUp(p)
  <2> DEFINE t == FollowUpOf(frame[p].type)
             stamp == NicStamp(Head(errq[p]))
             d == Datagram(p, t, stamp)
  <2>1. frame[p] \in Frames /\ frame[p].pc = "nic_ts"
    BY <1>2, InCall DEF SendFollowUp
  <2>2. t \in Types
    BY <2>1, FollowUpOfType DEF Frames, Types
  <2>3. Head(errq[p]) \in Stamps
    BY <1>2, ReadErrqueueType DEF SendFollowUp
  <2>4. stamp \in TxIds \cup {Zero}
    BY <2>3 DEF NicStamp, Stamps
  <2>5. d \in Packets
    BY <1>2, <2>1, <2>2, <2>4, SendToWire DEF SendFollowUp
  <2>6. wire' = [wire EXCEPT ![p] = Append(@, d)]
    BY <1>2 DEF SendFollowUp, SendTo, Datagram
  <2>7. /\ d.type = t /\ d.seq = frame[p].seq + frame[p].i
        /\ d.id = <<p, txno[p] + 1>> /\ d.stamp = stamp /\ d.dst = frame[p].dst
    BY DEF Datagram
  <2>8. QueueInv(p) => stamp \in TxIds /\ stamp[1] = p
    <3> SUFFICES ASSUME QueueInv(p)
                 PROVE  stamp \in TxIds /\ stamp[1] = p
      OBVIOUS
    <3>1. Head(errq[p]) = NicStampOf(p, txno[p])
      BY <1>2, <2>1, ReadSecond DEF SendFollowUp, QueueInv
    <3> QED BY <2>3, <3>1 DEF NicStamp, NicStampOf, Stamps
  <2> HIDE DEF d
  <2>9. Sends(p, d)
    BY <1>0, <2>1, <2>6, <2>7, <2>8 DEF Sends
  <2> QED BY <2>5, <2>9
<1> QED BY <1>1, <1>2 DEF SendStep, ReadKernelStamp, DrainKernelStamp, EndIteration

\* g is the frame f of the same call, perhaps an iteration later.
SameCall(f, g) ==
  /\ f \in Frames /\ g \in Frames
  /\ g.type = f.type /\ g.seq = f.seq /\ g.N = f.N /\ g.dst = f.dst
  /\ g.i = f.i \/ (g.i = f.i + 1 /\ g.i < g.N)

LEMMA SendStepFrame ==
  ASSUME SendTypeOK, NEW p \in Procs,
         SendStep(p) \/ SendError(p) \/ LoopStamp(p)
  PROVE  frame'[p] = Idle \/ frame'[p] = frame[p] \/ SameCall(frame[p], frame'[p])
<1>1. ASSUME NEW pc \in Points, Goto(p, pc), frame[p].pc # "idle"
      PROVE  SameCall(frame[p], frame'[p])
  <2>1. frame[p] \in Frames /\ frame'[p] = [frame[p] EXCEPT !.pc = pc]
    BY <1>1, InCall DEF Goto, SendTypeOK
  <2>2. ASSUME NEW f \in Frames
        PROVE  SameCall(f, [f EXCEPT !.pc = pc])
    <3> DEFINE g == [f EXCEPT !.pc = pc]
    <3>1. g \in Frames
      BY DEF Frames
    <3>2. g.type = f.type /\ g.seq = f.seq /\ g.N = f.N /\ g.dst = f.dst /\ g.i = f.i
      BY DEF Frames
    <3> HIDE DEF g
    <3>3. SameCall(f, g)
      BY <3>1, <3>2 DEF SameCall
    <3> QED BY <3>3 DEF g
  <2> QED BY <2>1, <2>2
<1>2. CASE EndIteration(p)
  <2>1. frame[p] \in Frames /\ frame'[p] = NextIteration(frame[p])
    BY <1>2, InCall DEF EndIteration, SendTypeOK
  <2>2. ASSUME NEW f \in Frames, NextIteration(f) # Idle
        PROVE  SameCall(f, NextIteration(f))
    <3>1. f.i + 1 < f.N /\ NextIteration(f) = [f EXCEPT !.i = f.i + 1, !.pc = "send"]
      BY <2>2 DEF NextIteration, LoopTop, Frames
    <3> DEFINE g == NextIteration(f)
    <3>2. g \in Frames
      BY <2>2, NextIterationType
    <3>3. /\ g.type = f.type /\ g.seq = f.seq /\ g.N = f.N /\ g.dst = f.dst
          /\ g.i = f.i + 1
      BY <3>1 DEF Frames
    <3> HIDE DEF g
    <3>4. SameCall(f, g)
      BY <3>1, <3>2, <3>3 DEF SameCall
    <3> QED BY <3>4 DEF g
  <2> QED BY <2>1, <2>2
<1>3. CASE SendStep(p) /\ ~EndIteration(p)
  <2>1. \E pc \in Points : Goto(p, pc) /\ frame[p].pc # "idle"
    BY <1>3 DEF SendStep, SendPacket, ReadKernelStamp, SendFollowUp, DrainKernelStamp, Points
  <2> QED BY <2>1, <1>1
<1>4. CASE SendError(p)
  BY <1>4, <1>1 DEF SendError, Points
<1>5. CASE LoopStamp(p)
  BY <1>5 DEF LoopStamp
<1> QED BY <1>2, <1>3, <1>4, <1>5
=============================================================================
