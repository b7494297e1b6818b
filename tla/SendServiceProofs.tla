------------------------- MODULE SendServiceProofs -------------------------
(***************************************************************************)
(* Theorems about send_udp_packets_timestamp, for any set of processes,    *)
(* any jobs and any number of calls.                                       *)
(***************************************************************************)
EXTENDS SendService, TimestampedSendProofs

-----------------------------------------------------------------------------
(* Types *)

LEMMA SendTypeCorrect == Spec => []SendTypeOK
<1>1. SendInit => SendTypeOK
  BY DEF SendInit, SendTypeOK
<1>2. SendTypeOK /\ [Next]_sendVars => SendTypeOK'
  <2> SUFFICES ASSUME SendTypeOK, [Next]_sendVars
               PROVE  SendTypeOK'
    OBVIOUS
  <2>1. ASSUME NEW p \in Procs, Invoke(p)
        PROVE  SendTypeOK'
    <3>1. PICK j \in Jobs : Call(p, j.type, j.N, j.seq, j.dst)
      BY <2>1 DEF Invoke
    <3>2. j.type \in Requests /\ j.N \in Nat /\ j.seq \in Nat /\ j.dst \in Dests
      BY JobsAssumption
    <3>4. frame' \in [Procs -> Frames \cup {Idle}]
      BY <3>1, <3>2, CallType
    <3> QED BY <2>1, <3>4 DEF Invoke, SendTypeOK
  <2>2. ASSUME NEW p \in Procs, SendStep(p)
        PROVE  SendTypeOK'
    BY <2>2, SendStepType
  <2>3. ASSUME NEW p \in Procs, SendError(p)
        PROVE  SendTypeOK'
    BY <2>3, SendErrorType
  <2>4. ASSUME NEW p \in Procs, LoopStamp(p)
        PROVE  SendTypeOK'
    BY <2>4, LoopStampType
  <2>5. CASE UNCHANGED sendVars
    BY <2>5 DEF sendVars, SendTypeOK
  <2> QED BY <2>1, <2>2, <2>3, <2>4, <2>5 DEF Next
<1> QED BY <1>1, <1>2, PTL DEF Spec

\* Type correctness, for every value of the constants.
THEOREM TypeCorrect == Spec => []TypeOK
  BY SendTypeCorrect DEF TypeOK

-----------------------------------------------------------------------------
(* The error queue *)

\* A call begins: the same.
LEMMA InvokeOthers ==
  ASSUME SendTypeOK, NEW p \in Procs, Invoke(p)
  PROVE  OthersUnchanged(p)
  BY DEF OthersUnchanged, SendTypeOK, Invoke, Call

QueueInvAll == \A p \in Procs : QueueInv(p)

LEMMA QueueInvariant ==
  ASSUME StampOrders = {SwThenHw}
  PROVE  Spec => []QueueInvAll
<1>1. SendInit => QueueInvAll
  <2> SUFFICES ASSUME SendInit, NEW p \in Procs
               PROVE  QueueInv(p)
    BY DEF QueueInvAll
  <2>1. frame[p].pc = "idle" /\ NoneOutstanding(p)
    BY DEF SendInit, NoneOutstanding, Idle
  <2> QED BY <2>1 DEF QueueInv
<1>2. SendTypeOK /\ QueueInvAll /\ [Next]_sendVars => QueueInvAll'
  <2> SUFFICES ASSUME SendTypeOK, QueueInvAll, [Next]_sendVars
               PROVE  QueueInvAll'
    OBVIOUS
  <2>1. ASSUME NEW p \in Procs,
               Invoke(p) \/ SendStep(p) \/ SendError(p) \/ LoopStamp(p)
        PROVE  QueueInvAll'
    <3>1. ASSUME NEW q \in Procs \ {p}
          PROVE  QueueInv(q)'
      BY <2>1, InvokeOthers, StepOthers, OthersKeepQueue DEF QueueInvAll
    <3>2. QueueInv(p)'
      <4>1. CASE Invoke(p)
        <5>1. /\ frame[p].pc = "idle" /\ frame'[p].pc \in {"idle", "send"}
              /\ errq' = errq /\ owed' = owed
          BY <4>1 DEF Invoke, Call, Idle, LoopTop, SendTypeOK
        <5> QED BY <5>1 DEF QueueInvAll, QueueInv, NoneOutstanding
      <4>2. CASE SendStep(p)
        BY <4>2, SendStepQueue DEF QueueInvAll
      <4>3. CASE SendError(p)
        <5>1. frame'[p].pc = "exited"
          BY <4>3, InCall DEF SendError, Goto, SendTypeOK, Frames
        <5> QED BY <5>1 DEF QueueInv
      <4>4. CASE LoopStamp(p)
        BY <4>4, LoopStampQueue DEF QueueInvAll
      <4> QED BY <2>1, <4>1, <4>2, <4>3, <4>4
    <3> QED BY <3>1, <3>2 DEF QueueInvAll
  <2>2. CASE UNCHANGED sendVars
    BY <2>2 DEF sendVars, QueueInvAll, QueueInv, NoneOutstanding,
                BothOutstanding, NicOutstanding
  <2> QED BY <2>1, <2>2 DEF Next
<1> QED BY <1>1, <1>2, SendTypeCorrect, PTL DEF Spec

\* Between two iterations and between two calls no stamp is outstanding
\* (util.c:159-164), if the kernel loops a datagram's software stamp first.
THEOREM ErrqueueIsFresh ==
  ASSUME StampOrders = {SwThenHw}
  PROVE  Spec => []FreshErrqueue
<1>1. QueueInvAll => FreshErrqueue
  BY DEF QueueInvAll, QueueInv, NoneOutstanding, FreshErrqueue, Idle
<1> QED BY <1>1, QueueInvariant, PTL

-----------------------------------------------------------------------------
(* The follow-ups *)

\* What holds of the datagrams w that a process p has sent: they are numbered
\* in order, and each follow-up belongs to the packet before it.
Numbered(p, w) == \A k \in 1..Len(w) : w[k].id = <<p, k>>

BelongsTo(followUp, packet) ==
  /\ followUp.type = FollowUpOf(packet.type)
  /\ followUp.seq = packet.seq
  /\ followUp.stamp = packet.id

Paired(w) == \A k \in 1..Len(w) :
               w[k].type \in FollowUps => k > 1 /\ BelongsTo(w[k], w[k - 1])

\* While the call waits for a packet's stamps, that packet is the last one sent.
AwaitsLast(f, w) ==
  f.pc \in {"kernel_ts", "nic_ts"} =>
    /\ Len(w) > 0
    /\ w[Len(w)].type = f.type
    /\ w[Len(w)].seq = f.seq + f.i

WireInv(p) ==
  /\ Len(wire[p]) = txno[p]
  /\ Numbered(p, wire[p])
  /\ Paired(wire[p])
  /\ AwaitsLast(frame[p], wire[p])

WireInvAll == \A p \in Procs : WireInv(p)

\* A packet, or a follow-up of the last packet, may be appended.
LEMMA AppendPaired ==
  ASSUME NEW p \in Procs, NEW w \in Seq(Packets), NEW d \in Packets,
         Numbered(p, w), Paired(w), d.id = <<p, Len(w) + 1>>,
         d.type \in FollowUps => Len(w) > 0 /\ BelongsTo(d, w[Len(w)])
  PROVE  Numbered(p, Append(w, d)) /\ Paired(Append(w, d))
<1> DEFINE v == Append(w, d)
<1>1. /\ Len(v) = Len(w) + 1 /\ Len(w) \in Nat
      /\ \A k \in 1..Len(w) : v[k] = w[k]
      /\ v[Len(w) + 1] = d
  OBVIOUS
<1> HIDE DEF v
<1>2. Numbered(p, v)
  BY <1>1 DEF Numbered
<1>3. Paired(v)
  <2> SUFFICES ASSUME NEW k \in 1..Len(v), v[k].type \in FollowUps
               PROVE  k > 1 /\ BelongsTo(v[k], v[k - 1])
    BY DEF Paired
  <2>1. CASE k \in 1..Len(w)
    <3>1. k > 1 /\ BelongsTo(w[k], w[k - 1])
      BY <2>1, <1>1 DEF Paired
    <3>2. v[k] = w[k] /\ v[k - 1] = w[k - 1]
      BY <2>1, <3>1, <1>1
    <3> QED BY <3>1, <3>2
  <2>2. CASE k = Len(w) + 1
    BY <2>2, <1>1
  <2> QED BY <2>1, <2>2, <1>1
<1> QED BY <1>2, <1>3 DEF v

LEMMA SendStepWire ==
  ASSUME SendTypeOK, NEW p \in Procs, SendStep(p), QueueInv(p), WireInv(p)
  PROVE  WireInv(p)'
<1>0. wire[p] \in Seq(Packets) /\ txno[p] \in Nat
  BY DEF SendTypeOK
<1>1. CASE SendPacket(p)
  <2> DEFINE d == Datagram(p, frame[p].type, Zero)
  <2>1. frame[p] \in Frames /\ frame'[p] = [frame[p] EXCEPT !.pc = "kernel_ts"]
    BY <1>1, InCall DEF SendPacket, Goto, SendTypeOK
  <2>2. frame[p].type \in Requests
    BY <2>1 DEF Frames
  <2>3. d \in Packets /\ wire'[p] = Append(wire[p], d) /\ txno'[p] = txno[p] + 1
    BY <1>1, <2>1, <2>2, SendToWire, RequestIsNoFollowUp DEF SendPacket
  <2>4. /\ d.type = frame[p].type /\ d.id = <<p, Len(wire[p]) + 1>>
        /\ d.seq = frame[p].seq + frame[p].i
    BY DEF Datagram, WireInv
  <2> HIDE DEF d
  <2>5. Numbered(p, wire'[p]) /\ Paired(wire'[p])
    BY <1>0, <2>2, <2>3, <2>4, AppendPaired, RequestIsNoFollowUp DEF WireInv
  <2>6. /\ Len(wire'[p]) = Len(wire[p]) + 1 /\ Len(wire'[p]) > 0
        /\ wire'[p][Len(wire'[p])] = d
    BY <1>0, <2>3
  <2>7. AwaitsLast(frame'[p], wire'[p])
    BY <2>1, <2>4, <2>6 DEF AwaitsLast, Frames
  <2> QED BY <2>3, <2>5, <2>6, <2>7 DEF WireInv, Numbered, Paired, AwaitsLast
<1>2. CASE ReadKernelStamp(p)
  <2>1. /\ frame[p] \in Frames /\ frame[p].pc = "kernel_ts"
        /\ frame'[p] = [frame[p] EXCEPT !.pc = "nic_ts"]
        /\ wire' = wire /\ txno' = txno
    BY <1>2, InCall DEF ReadKernelStamp, Goto, SendTypeOK
  <2>2. AwaitsLast(frame'[p], wire[p])
    BY <2>1 DEF WireInv, AwaitsLast, Frames
  <2> QED BY <2>1, <2>2 DEF WireInv, AwaitsLast
<1>3. CASE SendFollowUp(p)
  <2> DEFINE t == FollowUpOf(frame[p].type)
             stamp == NicStamp(Head(errq[p]))
             d == Datagram(p, t, stamp)
             last == wire[p][Len(wire[p])]
  <2>1. /\ frame[p] \in Frames /\ frame[p].pc = "nic_ts"
        /\ frame'[p] = [frame[p] EXCEPT !.pc = "drain_kernel"]
    BY <1>3, InCall DEF SendFollowUp, Goto, SendTypeOK
  <2>2. /\ Len(wire[p]) > 0 /\ last.type = frame[p].type
        /\ last.seq = frame[p].seq + frame[p].i
    BY <2>1 DEF WireInv, AwaitsLast
  <2>3. last.id = <<p, txno[p]>>
    BY <1>0, <2>2 DEF WireInv, Numbered
  <2>4. Head(errq[p]) = NicStampOf(p, txno[p])
    BY <1>3, <2>1, ReadSecond DEF SendFollowUp, QueueInv
  <2>5. stamp = last.id
    BY <2>3, <2>4 DEF NicStamp, NicStampOf
  <2>6. t \in Types /\ stamp \in TxIds
    <3>1. frame[p].type \in Requests
      BY <2>1 DEF Frames
    <3>2. t \in Types
      BY <3>1, FollowUpOfType DEF Types
    <3>3. txno[p] > 0
      BY <2>2 DEF WireInv
    <3> QED BY <1>0, <2>3, <2>5, <3>2, <3>3 DEF TxIds
  <2>7. d \in Packets /\ wire'[p] = Append(wire[p], d) /\ txno'[p] = txno[p] + 1
    BY <1>3, <2>1, <2>6, SendToWire DEF SendFollowUp
  <2>8. d.id = <<p, Len(wire[p]) + 1>> /\ BelongsTo(d, last)
    BY <2>2, <2>5 DEF Datagram, WireInv, BelongsTo
  <2> HIDE DEF d
  <2>9. Numbered(p, wire'[p]) /\ Paired(wire'[p])
    BY <1>0, <2>2, <2>7, <2>8, AppendPaired DEF WireInv
  <2>10. Len(wire'[p]) = Len(wire[p]) + 1
    BY <1>0, <2>7
  <2>11. AwaitsLast(frame'[p], wire'[p])
    BY <2>1 DEF AwaitsLast, Frames
  <2> QED BY <2>7, <2>9, <2>10, <2>11 DEF WireInv, Numbered, Paired, AwaitsLast
<1>4. CASE DrainKernelStamp(p)
  <2>1. frame'[p].pc = "drain_nic" /\ wire' = wire /\ txno' = txno
    BY <1>4, InCall DEF DrainKernelStamp, Goto, SendTypeOK, Frames
  <2> QED BY <2>1 DEF WireInv, AwaitsLast
<1>5. CASE EndIteration(p)
  <2>1. /\ frame[p] \in Frames /\ frame'[p] = NextIteration(frame[p])
        /\ wire' = wire /\ txno' = txno
    BY <1>5, InCall DEF EndIteration, SendTypeOK
  <2>2. frame'[p].pc \in {"idle", "send"}
    BY <2>1 DEF NextIteration, LoopTop, Idle, Frames
  <2> QED BY <2>1, <2>2 DEF WireInv, AwaitsLast
<1> QED BY <1>1, <1>2, <1>3, <1>4, <1>5 DEF SendStep

\* Only p sends in the name of p.
LEMMA OthersKeepWire ==
  ASSUME SendTypeOK, NEW p \in Procs,
         Invoke(p) \/ SendStep(p) \/ SendError(p) \/ LoopStamp(p),
         NEW q \in Procs \ {p}, WireInv(q)
  PROVE  WireInv(q)'
<1>1. frame'[q] = frame[q] /\ txno'[q] = txno[q]
  BY InvokeOthers, StepOthers DEF OthersUnchanged
<1>2. wire'[q] = wire[q]
  BY DEF SendTypeOK, Invoke, SendStep, SendPacket, SendTo, ReadKernelStamp, SendFollowUp,
         DrainKernelStamp, EndIteration, SendError, LoopStamp
<1> QED BY <1>1, <1>2 DEF WireInv

LEMMA WireInvariant ==
  ASSUME StampOrders = {SwThenHw}
  PROVE  Spec => []WireInvAll
<1>1. SendInit => WireInvAll
  <2> SUFFICES ASSUME SendInit, NEW p \in Procs
               PROVE  WireInv(p)
    BY DEF WireInvAll
  <2>1. frame[p].pc = "idle" /\ wire[p] = <<>> /\ txno[p] = 0
    BY DEF SendInit, Idle
  <2> QED BY <2>1 DEF WireInv, Numbered, Paired, AwaitsLast
<1>2. SendTypeOK /\ QueueInvAll /\ WireInvAll /\ [Next]_sendVars => WireInvAll'
  <2> SUFFICES ASSUME SendTypeOK, QueueInvAll, WireInvAll, [Next]_sendVars
               PROVE  WireInvAll'
    OBVIOUS
  <2>1. ASSUME NEW p \in Procs,
               Invoke(p) \/ SendStep(p) \/ SendError(p) \/ LoopStamp(p)
        PROVE  WireInvAll'
    <3>1. ASSUME NEW q \in Procs \ {p}
          PROVE  WireInv(q)'
      BY <2>1, OthersKeepWire DEF WireInvAll
    <3>2. WireInv(p)'
      <4>0. WireInv(p) /\ QueueInv(p)
        BY DEF WireInvAll, QueueInvAll
      <4>1. CASE Invoke(p)
        <5>1. frame'[p].pc \in {"idle", "send"} /\ wire' = wire /\ txno' = txno
          BY <4>1 DEF Invoke, Call, Idle, LoopTop, SendTypeOK
        <5> QED BY <4>0, <5>1 DEF WireInv, AwaitsLast
      <4>2. CASE SendStep(p)
        BY <4>0, <4>2, SendStepWire
      <4>3. CASE SendError(p)
        <5>1. frame'[p].pc = "exited" /\ wire' = wire /\ txno' = txno
          BY <4>3, InCall DEF SendError, Goto, SendTypeOK, Frames
        <5> QED BY <4>0, <5>1 DEF WireInv, AwaitsLast
      <4>4. CASE LoopStamp(p)
        BY <4>0, <4>4 DEF LoopStamp, WireInv
      <4> QED BY <2>1, <4>1, <4>2, <4>3, <4>4
    <3> QED BY <3>1, <3>2 DEF WireInvAll
  <2>2. CASE UNCHANGED sendVars
    BY <2>2 DEF sendVars, WireInvAll, WireInv
  <2> QED BY <2>1, <2>2 DEF Next
<1> QED BY <1>1, <1>2, SendTypeCorrect, QueueInvariant, PTL DEF Spec

\* Every follow-up carries the NIC timestamp of the packet before it
\* (util.c:129-156), if the kernel loops a datagram's software stamp first.
THEOREM FollowUpIsOwn ==
  ASSUME StampOrders = {SwThenHw}
  PROVE  Spec => []FollowUpCarriesOwnStamp
<1>1. WireInvAll => FollowUpCarriesOwnStamp
  BY DEF WireInvAll, WireInv, Paired, BelongsTo, FollowUpCarriesOwnStamp
<1> QED BY <1>1, WireInvariant, PTL

-----------------------------------------------------------------------------
(* The refinement *)

\* A call that is under way has an iteration to finish.
InLoop(f) == f.pc \in Points \ {"exited"} => f.i < f.N

InLoopAll == \A p \in Procs : InLoop(frame[p])

LEMMA LoopTopInLoop ==
  ASSUME NEW f \in Frames
  PROVE  /\ LoopTop(f) = Idle \/ LoopTop(f).pc = "send"
         /\ InLoop(LoopTop(f))
  BY DEF LoopTop, InLoop, Idle, Frames, Points

LEMMA InLoopInvariant == Spec => []InLoopAll
<1>1. SendInit => InLoopAll
  BY DEF SendInit, InLoopAll, InLoop, Idle, Points
<1>2. SendTypeOK /\ InLoopAll /\ [Next]_sendVars => InLoopAll'
  <2> SUFFICES ASSUME SendTypeOK, InLoopAll, [Next]_sendVars, NEW q \in Procs
               PROVE  InLoop(frame'[q])
    BY DEF InLoopAll, InLoop
  <2>0. InLoop(frame[q])
    BY DEF InLoopAll
  <2>1. CASE frame'[q] = frame[q]
    BY <2>0, <2>1
  <2>2. ASSUME NEW p \in Procs,
               Invoke(p) \/ SendStep(p) \/ SendError(p) \/ LoopStamp(p)
        PROVE  InLoop(frame'[q])
    <3>1. CASE p # q
      BY <2>1, <2>2, <3>1, InvokeOthers, StepOthers DEF OthersUnchanged
    <3>2. CASE p = q /\ Invoke(p)
      <4>1. PICK j \in Jobs : Call(p, j.type, j.N, j.seq, j.dst)
        BY <3>2 DEF Invoke
      <4> DEFINE f == [pc |-> "send", type |-> j.type, seq |-> j.seq, N |-> j.N, i |-> 0,
                       dst |-> j.dst]
      <4>2. f \in Frames
        BY JobsAssumption DEF Frames, Points
      <4>3. frame'[q] = LoopTop(f)
        BY <3>2, <4>1 DEF Call, SendTypeOK
      <4> HIDE DEF f
      <4> QED BY <4>2, <4>3, LoopTopInLoop
    <3>3. CASE p = q /\ ~Invoke(p) /\ ~EndIteration(p)
      <4>1. frame'[p] = Idle \/ frame'[p] = frame[p] \/ SameCall(frame[p], frame'[p])
        BY <2>2, <3>3, SendStepFrame
      <4>2. frame[p].pc # "idle" => frame[p].pc # "exited" \/ frame'[p] = frame[p]
        BY <2>2, <3>3 DEF SendStep, SendPacket, ReadKernelStamp, SendFollowUp,
                          DrainKernelStamp, SendError, LoopStamp
      <4>3. InLoop(Idle)
        BY DEF InLoop, Idle, Points
      <4>4. ASSUME SameCall(frame[p], frame'[p]), frame'[p] # frame[p]
            PROVE  InLoop(frame'[p])
        <5>1. frame[p] \in Frames /\ frame'[p] \in Frames /\ frame[p].pc \in Points \ {"exited"}
          BY <4>2, <4>4 DEF SameCall, Frames, Points
        <5>2. frame[p].i < frame[p].N
          BY <2>0, <3>3, <5>1 DEF InLoop
        <5> QED BY <4>4, <5>1, <5>2 DEF SameCall, InLoop, Frames
      <4> QED BY <2>0, <3>3, <4>1, <4>3, <4>4
    <3>4. CASE p = q /\ EndIteration(p)
      <4> DEFINE f == [frame[p] EXCEPT !.i = frame[p].i + 1]
      <4>1. frame[p] \in Frames /\ frame'[q] = NextIteration(frame[p])
        BY <3>4, InCall DEF EndIteration, SendTypeOK
      <4>2. f \in Frames /\ frame'[q] = LoopTop(f)
        BY <4>1 DEF Frames, NextIteration
      <4> HIDE DEF f
      <4> QED BY <4>2, LoopTopInLoop
    <3> QED BY <2>2, <3>1, <3>2, <3>3, <3>4
  <2> QED BY <2>1, <2>2 DEF Next, sendVars
<1> QED BY <1>1, <1>2, SendTypeCorrect, PTL DEF Spec

\* What the refinement mapping makes of a frame.
LEMMA JobOfFrame ==
  /\ JobOf(Idle) = Abstract!Free
  /\ \A f \in Frames : f.pc = "exited" => JobOf(f) = Abstract!Aborted
  /\ \A f \in Frames : f.pc # "exited" =>
       JobOf(f) = [state |-> IF f.pc \in {"kernel_ts", "nic_ts"} THEN "follow_up" ELSE "packet",
                   type |-> f.type, seq |-> f.seq + PairsSent(f), todo |-> f.N - PairsSent(f),
                   dst |-> f.dst]
<1>1. \A f \in Frames : f # Idle
  BY DEF Frames, Points, Idle
<1> QED BY <1>1 DEF JobOf, Abstract!Free, Abstract!Aborted

\* A step that changes the frame of p changes its job.
LEMMA JobStep ==
  ASSUME SendTypeOK, NEW p \in Procs, NEW g, frame' = [frame EXCEPT ![p] = g]
  PROVE  /\ jobBar[p] = JobOf(frame[p])
         /\ jobBar' = [jobBar EXCEPT ![p] = JobOf(g)]
<1>1. jobBar' = [q \in Procs |-> JobOf(frame'[q])]
  BY DEF jobBar, JobOf, PairsSent
<1>2. \A q \in Procs : frame'[q] = IF q = p THEN g ELSE frame[q]
  BY DEF SendTypeOK
<1>3. jobBar = [q \in Procs |-> JobOf(frame[q])]
  BY DEF jobBar
<1>4. jobBar' = [q \in Procs |-> IF q = p THEN JobOf(g) ELSE JobOf(frame[q])]
  <2>1. \A q \in Procs : JobOf(frame'[q]) = IF q = p THEN JobOf(g) ELSE JobOf(frame[q])
    BY <1>2 DEF JobOf, PairsSent
  <2> QED BY <1>1, <2>1
<1>5. [jobBar EXCEPT ![p] = JobOf(g)]
        = [q \in Procs |-> IF q = p THEN JobOf(g) ELSE JobOf(frame[q])]
  BY <1>3
<1> QED BY <1>3, <1>4, <1>5

LEMMA InvokeRefines ==
  ASSUME SendTypeOK, NEW p \in Procs, Invoke(p)
  PROVE  Abstract!Begin(p) \/ UNCHANGED <<jobBar, wire>>
<1>1. PICK j \in Jobs : Call(p, j.type, j.N, j.seq, j.dst)
  BY DEF Invoke
<1> DEFINE f == [pc |-> "send", type |-> j.type, seq |-> j.seq, N |-> j.N, i |-> 0,
                 dst |-> j.dst]
<1>2. f \in Frames /\ j.N \in Nat /\ j.seq \in Nat
  BY JobsAssumption DEF Frames, Points
<1>3. frame[p] = Idle /\ frame' = [frame EXCEPT ![p] = LoopTop(f)] /\ wire' = wire
  BY <1>1 DEF Call, Invoke
<1>4. jobBar[p] = Abstract!Free /\ jobBar' = [jobBar EXCEPT ![p] = JobOf(LoopTop(f))]
  BY <1>3, JobStep, JobOfFrame
<1>5. CASE j.N = 0
  <2>1. LoopTop(f) = Idle
    BY <1>5 DEF LoopTop
  <2> HIDE DEF f
  <2>2. jobBar' = jobBar
    BY <1>4, <2>1, JobOfFrame DEF jobBar
  <2> QED BY <1>3, <2>2
<1>6. CASE j.N > 0
  <2>1. LoopTop(f) = f
    BY <1>6 DEF LoopTop
  <2>2. JobOf(f) = [state |-> "packet", type |-> j.type, seq |-> j.seq, todo |-> j.N,
                    dst |-> j.dst]
    BY <1>2, JobOfFrame DEF PairsSent
  <2> HIDE DEF f
  <2> QED BY <1>3, <1>4, <1>6, <2>1, <2>2 DEF Abstract!Begin
<1> QED BY <1>2, <1>5, <1>6

\* The routine's step to another point of the same iteration.
LEMMA GotoJob ==
  ASSUME SendTypeOK, NEW p \in Procs, frame[p] \in Frames, NEW pc \in Points \ {"exited"},
         Goto(p, pc), frame[p].pc # "exited"
  PROVE  LET n == IF pc \in {"drain_kernel", "drain_nic"} THEN frame[p].i + 1 ELSE frame[p].i
         IN  jobBar' = [jobBar EXCEPT ![p] =
               [state |-> IF pc \in {"kernel_ts", "nic_ts"} THEN "follow_up" ELSE "packet",
                type |-> frame[p].type, seq |-> frame[p].seq + n, todo |-> frame[p].N - n,
                dst |-> frame[p].dst]]
<1> DEFINE g == [frame[p] EXCEPT !.pc = pc]
<1>1. /\ g \in Frames /\ g.pc = pc /\ g.type = frame[p].type /\ g.seq = frame[p].seq
      /\ g.N = frame[p].N /\ g.i = frame[p].i /\ g.dst = frame[p].dst
  BY DEF Frames
<1>2. frame' = [frame EXCEPT ![p] = g]
  BY DEF Goto
<1> HIDE DEF g
<1>3. jobBar' = [jobBar EXCEPT ![p] = JobOf(g)]
  BY <1>2, JobStep
<1> QED BY <1>1, <1>3, JobOfFrame DEF PairsSent

LEMMA SendStepRefines ==
  ASSUME SendTypeOK, NEW p \in Procs, SendStep(p), QueueInv(p), WireInv(p), InLoop(frame[p])
  PROVE  \/ Abstract!Packet(p) \/ Abstract!FollowUp(p) \/ Abstract!Return(p)
         \/ UNCHANGED <<jobBar, wire>>
<1> DEFINE f == frame[p]
<1>1. f \in Frames /\ f.pc \notin {"idle", "exited"}
  BY InCall DEF SendStep, SendPacket, ReadKernelStamp, SendFollowUp, DrainKernelStamp,
                EndIteration
<1>2. /\ f.seq \in Nat /\ f.i \in Nat /\ f.N \in Nat /\ f.type \in Requests /\ f.i < f.N
      /\ f.pc \in Points
  BY <1>1 DEF InLoop, Frames
<1>3. jobBar[p] = [state |-> IF f.pc \in {"kernel_ts", "nic_ts"} THEN "follow_up" ELSE "packet",
                   type |-> f.type, seq |-> f.seq + PairsSent(f), todo |-> f.N - PairsSent(f),
                   dst |-> f.dst]
  BY <1>1, JobOfFrame DEF jobBar
<1>4. jobBar = [q \in Procs |-> jobBar[q]]
  BY DEF jobBar
<1>5. CASE SendPacket(p)
  <2>1. f.pc = "send" /\ Goto(p, "kernel_ts") /\ SendTo(p, f.type, Zero)
    BY <1>5 DEF SendPacket
  <2>2. jobBar[p] = [state |-> "packet", type |-> f.type, seq |-> f.seq + f.i,
                     todo |-> f.N - f.i, dst |-> f.dst]
    BY <1>3, <2>1 DEF PairsSent
  <2>3. jobBar' = [jobBar EXCEPT ![p] = [state |-> "follow_up", type |-> f.type,
                     seq |-> f.seq + f.i, todo |-> f.N - f.i, dst |-> f.dst]]
    BY <1>1, <2>1, GotoJob DEF Points
  <2>4. wire' = [wire EXCEPT ![p] =
                   Append(@, [type |-> f.type, seq |-> f.seq + f.i, stamp |-> Zero,
                              id |-> <<p, Len(@) + 1>>, dst |-> f.dst])]
    BY <2>1 DEF SendTo, WireInv
  <2> HIDE DEF f
  <2>5. jobBar' = [jobBar EXCEPT ![p].state = "follow_up"]
    <3>1. [jobBar[p] EXCEPT !.state = "follow_up"]
            = [state |-> "follow_up", type |-> f.type, seq |-> f.seq + f.i, todo |-> f.N - f.i,
               dst |-> f.dst]
      BY <2>2
    <3>2. jobBar' = [jobBar EXCEPT ![p] = [jobBar[p] EXCEPT !.state = "follow_up"]]
      BY <2>3, <3>1
    <3> QED BY <3>2
  <2> QED BY <1>2, <2>2, <2>4, <2>5 DEF Abstract!Packet
<1>6. CASE ReadKernelStamp(p)
  <2>1. f.pc = "kernel_ts" /\ Goto(p, "nic_ts") /\ wire' = wire
    BY <1>6 DEF ReadKernelStamp
  <2>2. jobBar[p] = [state |-> "follow_up", type |-> f.type, seq |-> f.seq + f.i,
                     todo |-> f.N - f.i, dst |-> f.dst]
    BY <1>3, <2>1 DEF PairsSent
  <2>3. jobBar' = [jobBar EXCEPT ![p] = [state |-> "follow_up", type |-> f.type,
                     seq |-> f.seq + f.i, todo |-> f.N - f.i, dst |-> f.dst]]
    BY <1>1, <2>1, GotoJob DEF Points
  <2> HIDE DEF f
  <2> QED BY <1>4, <2>1, <2>2, <2>3
<1>7. CASE SendFollowUp(p)
  <2> DEFINE stamp == NicStamp(Head(errq[p]))
  <2>1. /\ f.pc = "nic_ts" /\ Goto(p, "drain_kernel") /\ SendTo(p, FollowUpOf(f.type), stamp)
    BY <1>7 DEF SendFollowUp
  <2>2. jobBar[p] = [state |-> "follow_up", type |-> f.type, seq |-> f.seq + f.i,
                     todo |-> f.N - f.i, dst |-> f.dst]
    BY <1>3, <2>1 DEF PairsSent
  <2>3. jobBar' = [jobBar EXCEPT ![p] = [state |-> "packet", type |-> f.type,
                     seq |-> f.seq + (f.i + 1), todo |-> f.N - (f.i + 1), dst |-> f.dst]]
    BY <1>1, <2>1, GotoJob DEF Points
  <2>4. stamp = wire[p][Len(wire[p])].id
    <3>1. Len(wire[p]) > 0 /\ Len(wire[p]) = txno[p] /\ Len(wire[p]) \in Nat
      BY <2>1 DEF WireInv, AwaitsLast, SendTypeOK
    <3>2. wire[p][Len(wire[p])].id = <<p, txno[p]>>
      BY <3>1 DEF WireInv, Numbered
    <3>3. Head(errq[p]) = NicStampOf(p, txno[p])
      BY <1>7, <2>1, ReadSecond DEF SendFollowUp, QueueInv
    <3> QED BY <3>2, <3>3 DEF NicStamp, NicStampOf
  <2>5. FollowUpOf(f.type) = Abstract!Partner(f.type)
    BY <1>2 DEF FollowUpOf, Abstract!Partner, Requests
  <2>6. wire' = [wire EXCEPT ![p] =
                   Append(@, [type |-> FollowUpOf(f.type), seq |-> f.seq + f.i, stamp |-> stamp,
                              id |-> <<p, Len(@) + 1>>, dst |-> f.dst])]
    BY <2>1 DEF SendTo, WireInv
  <2> HIDE DEF f, stamp
  <2>7. jobBar' = [jobBar EXCEPT ![p].state = "packet", ![p].seq = @ + 1, ![p].todo = @ - 1]
    <3>1. f.seq + (f.i + 1) = (f.seq + f.i) + 1 /\ f.N - (f.i + 1) = (f.N - f.i) - 1
      BY <1>2
    <3>2. [jobBar[p] EXCEPT !.state = "packet", !.seq = @ + 1, !.todo = @ - 1]
            = [state |-> "packet", type |-> f.type, seq |-> f.seq + (f.i + 1),
               todo |-> f.N - (f.i + 1), dst |-> f.dst]
      <4> DEFINE s == f.seq + f.i
                 n == f.N - f.i
      <4>1. jobBar[p] = [state |-> "follow_up", type |-> f.type, seq |-> s, todo |-> n,
                         dst |-> f.dst]
        BY <2>2
      <4>2. f.seq + (f.i + 1) = s + 1 /\ f.N - (f.i + 1) = n - 1
        BY <3>1
      <4> HIDE DEF s, n
      <4> DEFINE r1 == [jobBar[p] EXCEPT !.state = "packet"]
                 r2 == [r1 EXCEPT !.seq = s + 1]
                 r3 == [r2 EXCEPT !.todo = n - 1]
      <4>3. r1 = [state |-> "packet", type |-> f.type, seq |-> s, todo |-> n, dst |-> f.dst]
        BY <4>1
      <4> HIDE DEF r1
      <4>4. r2 = [state |-> "packet", type |-> f.type, seq |-> s + 1, todo |-> n, dst |-> f.dst]
        BY <4>3
      <4> HIDE DEF r2
      <4>5. r3 = [state |-> "packet", type |-> f.type, seq |-> s + 1, todo |-> n - 1,
                  dst |-> f.dst]
        BY <4>4
      <4>6. [jobBar[p] EXCEPT !.state = "packet", !.seq = @ + 1, !.todo = @ - 1] = r3
        <5>1. jobBar[p].seq = s /\ jobBar[p].todo = n
          BY <4>1
        <5>2. [jobBar[p] EXCEPT !.state = "packet", !.seq = s + 1, !.todo = n - 1] = r3
          BY <4>1 DEF r1, r2
        <5> QED BY <5>1, <5>2
      <4> HIDE DEF r3
      <4>7. s + 1 = f.seq + (f.i + 1) /\ n - 1 = f.N - (f.i + 1)
        BY <4>2
      <4> QED BY <4>5, <4>6, <4>7
    <3>3. jobBar' = [jobBar EXCEPT ![p] = [jobBar[p] EXCEPT !.state = "packet", !.seq = @ + 1,
                                                           !.todo = @ - 1]]
      BY <2>3, <3>2
    <3> QED BY <1>4, <3>3
  <2> QED BY <2>2, <2>4, <2>5, <2>6, <2>7 DEF Abstract!FollowUp
<1>8. CASE DrainKernelStamp(p)
  <2>1. f.pc = "drain_kernel" /\ Goto(p, "drain_nic") /\ wire' = wire
    BY <1>8 DEF DrainKernelStamp
  <2>2. jobBar[p] = [state |-> "packet", type |-> f.type, seq |-> f.seq + (f.i + 1),
                     todo |-> f.N - (f.i + 1), dst |-> f.dst]
    BY <1>3, <2>1 DEF PairsSent
  <2>3. jobBar' = [jobBar EXCEPT ![p] = [state |-> "packet", type |-> f.type,
                     seq |-> f.seq + (f.i + 1), todo |-> f.N - (f.i + 1), dst |-> f.dst]]
    BY <1>1, <2>1, GotoJob DEF Points
  <2> HIDE DEF f
  <2> QED BY <1>4, <2>1, <2>2, <2>3
<1>9. CASE EndIteration(p)
  <2> DEFINE g == [f EXCEPT !.i = f.i + 1]
  <2>1. /\ f.pc = "drain_nic" /\ wire' = wire
        /\ frame' = [frame EXCEPT ![p] = LoopTop(g)]
    BY <1>9 DEF EndIteration, NextIteration
  <2>2. jobBar[p] = [state |-> "packet", type |-> f.type, seq |-> f.seq + (f.i + 1),
                     todo |-> f.N - (f.i + 1), dst |-> f.dst]
    BY <1>3, <2>1 DEF PairsSent
  <2>3. jobBar' = [jobBar EXCEPT ![p] = JobOf(LoopTop(g))]
    BY <2>1, JobStep
  <2>4. /\ g \in Frames /\ g.i = f.i + 1 /\ g.N = f.N /\ g.seq = f.seq /\ g.type = f.type
        /\ g.dst = f.dst
    BY <1>1, <1>2 DEF Frames
  <2> HIDE DEF f, g
  <2>5. CASE f.i + 1 = f.N
    <3>1. LoopTop(g) = Idle
      BY <1>2, <2>4, <2>5 DEF LoopTop
    <3>2. jobBar' = [jobBar EXCEPT ![p] = Abstract!Free] /\ f.N - (f.i + 1) = 0
      BY <1>2, <2>3, <2>5, <3>1, JobOfFrame
    <3> QED BY <2>1, <2>2, <3>2 DEF Abstract!Return
  <2>6. CASE f.i + 1 # f.N
    <3> DEFINE h == LoopTop(g)
    <3>1. h = [g EXCEPT !.pc = "send"]
      BY <1>2, <2>4, <2>6 DEF LoopTop
    <3>2. /\ h \in Frames /\ h.pc = "send" /\ h.i = f.i + 1 /\ h.N = f.N /\ h.seq = f.seq
          /\ h.type = f.type /\ h.dst = f.dst
      BY <2>4, <3>1 DEF Frames, Points
    <3> HIDE DEF h
    <3>3. JobOf(h) = jobBar[p]
      BY <2>2, <3>2, JobOfFrame DEF PairsSent
    <3> QED BY <1>4, <2>1, <2>3, <3>3 DEF h
  <2> QED BY <2>5, <2>6
<1> QED BY <1>5, <1>6, <1>7, <1>8, <1>9 DEF SendStep

LEMMA SendErrorRefines ==
  ASSUME SendTypeOK, NEW p \in Procs, SendError(p)
  PROVE  Abstract!Abort(p)
<1> DEFINE g == [frame[p] EXCEPT !.pc = "exited"]
<1>1. frame[p] \in Frames /\ frame[p].pc \in {"send", "nic_ts"}
      /\ frame' = [frame EXCEPT ![p] = g] /\ wire' = wire
  BY InCall DEF SendError, Goto
<1>2. g \in Frames /\ g.pc = "exited"
  BY <1>1 DEF Frames, Points
<1> HIDE DEF g
<1>3. jobBar' = [jobBar EXCEPT ![p] = Abstract!Aborted]
  <2>1. JobOf(g) = Abstract!Aborted
    BY <1>2, JobOfFrame
  <2>2. jobBar' = [jobBar EXCEPT ![p] = JobOf(g)]
    BY <1>1, JobStep
  <2> QED BY <2>1, <2>2
<1>4. jobBar[p].state \in {"packet", "follow_up"}
  BY <1>1, JobOfFrame DEF jobBar
<1> QED BY <1>1, <1>3, <1>4 DEF Abstract!Abort

\* The routine implements PairedSend, for any callers and calls: what it sends
\* are pairs, a packet and at once its follow-up with the packet's own stamp,
\* as many as the caller asks for, in the order of their sequence numbers
\* (util.c:69, util.c:88-165), if the kernel loops the software stamp first.
THEOREM RoutineImplementsPairedSend ==
  ASSUME StampOrders = {SwThenHw}
  PROVE  Spec => ImplementsPairedSend
<1>1. SendInit => Abstract!Init
  <2> SUFFICES ASSUME SendInit PROVE Abstract!Init
    OBVIOUS
  <2>1. \A p \in Procs : jobBar[p] = Abstract!Free
    BY JobOfFrame DEF SendInit, jobBar
  <2>2. jobBar = [p \in Procs |-> Abstract!Free]
    BY <2>1 DEF jobBar
  <2> QED BY <2>2 DEF SendInit, Abstract!Init
<1>2. SendTypeOK /\ QueueInvAll /\ WireInvAll /\ InLoopAll /\ [Next]_sendVars
        => [Abstract!Next]_<<jobBar, wire>>
  <2> SUFFICES ASSUME SendTypeOK, QueueInvAll, WireInvAll, InLoopAll, [Next]_sendVars
               PROVE  Abstract!Next \/ UNCHANGED <<jobBar, wire>>
    OBVIOUS
  <2>1. ASSUME NEW p \in Procs, Invoke(p)
        PROVE  Abstract!Next \/ UNCHANGED <<jobBar, wire>>
    BY <2>1, InvokeRefines DEF Abstract!Next
  <2>2. ASSUME NEW p \in Procs, SendStep(p)
        PROVE  Abstract!Next \/ UNCHANGED <<jobBar, wire>>
    BY <2>2, SendStepRefines DEF QueueInvAll, WireInvAll, InLoopAll, Abstract!Next
  <2>3. ASSUME NEW p \in Procs, SendError(p)
        PROVE  Abstract!Next
    BY <2>3, SendErrorRefines DEF Abstract!Next
  <2>4. CASE UNCHANGED <<frame, wire>>
    BY <2>4 DEF jobBar, JobOf, PairsSent
  <2> QED BY <2>1, <2>2, <2>3, <2>4 DEF Next, LoopStamp, sendVars
<1> QED BY <1>1, <1>2, SendTypeCorrect, QueueInvariant, WireInvariant, InLoopInvariant, PTL
        DEF Spec, ImplementsPairedSend, Abstract!Spec
=============================================================================
