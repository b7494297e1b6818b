---------------------------- MODULE OrderProofs ----------------------------
(***************************************************************************)
(* Theorems about a measurement whose messages arrive in the order in      *)
(* which they were sent: over UDP with one run of either program and a     *)
(* network that loses only what nobody is left to read, or over TCP with   *)
(* any number of runs.  The n-th datagram of a program then has the number *)
(* n asks for, and its reader has counted all of those before it.          *)
(***************************************************************************)
EXTENDS MdelayProofs, MdelayStream

-----------------------------------------------------------------------------
(* What arrives in the order in which it was sent *)

\* How many datagrams of p have left the queue at its front.
Taken(p) == txno[p] - Len(wire[p])

\* d is the n-th that p sent: each packet has an odd number, and the follow-up
\* behind it, which carries the packet's stamp, the next one.
SentAs(d, p, n) ==
  IF d.type \in FollowUps THEN n = 2 * d.seq + 2 /\ d.stamp = <<p, n - 1>>
                          ELSE n = 2 * d.seq + 1 /\ d.id = <<p, n>>

\* Those still in the queue are the last that p sent, without a gap.
Numbered(p) ==
  /\ Len(wire[p]) <= txno[p]
  /\ \A j \in 1..Len(wire[p]) : SentAs(wire[p][j], p, Taken(p) + j)

\* The call has sent what its sequence number says.
InTurn(p) ==
  /\ frame[p].pc = "send" => txno[p] = 2 * CurrentSeq(p)
  /\ frame[p].pc \in {"kernel_ts", "nic_ts"} => txno[p] = 2 * CurrentSeq(p) + 1
  /\ frame[p].pc \in {"drain_kernel", "drain_nic"} => txno[p] = 2 * CurrentSeq(p) + 2

\* A slave has answered what it has counted, or is about to.
AnswersInTurn(s) ==
  /\ main[s] = "recv" => frame[s] = Idle
  /\ main[s] \in {"recv", "reply"} /\ frame[s] = Idle => txno[s] = 2 * total[s]
  /\ main[s] = "reply" /\ frame[s] # Idle =>
       frame[s].N = 1 /\ frame[s].i = 0 /\ frame[s].seq + 1 = total[s]

\* The identity of p's packet of number k.
Packet(p, k) == <<p, 2 * k + 1>>

\* q has that packet's stamp in its row k, or one of a later message of p if q
\* is one of those in L, which may read several at once.
Near(L, q, p, k, x) ==
  \/ x = Packet(p, k)
  \/ q \in L /\ \E j \in Nat : j > 2 * k /\ x = <<p, j>>

\* The first n messages of p are those of t measurements, and perhaps the packet
\* of the next.
UpTo(L, q, p, n, t, table) ==
  \/ n = 2 * t
  \/ n = 2 * t + 1 /\ t \in 0..Size(q) - 1 /\ Near(L, q, p, t, table[t].recv)

\* The first t rows of the table are measurements of p's packets.
Measured(L, q, p, t, table) ==
  \A k \in 0..Size(q) - 1 :
    k < t => table[k].sent = Packet(p, k) /\ Near(L, q, p, k, table[k].recv)

\* As long as it receives, q has read everything that p sent, in order.
Follows(q, p) ==
  /\ main[q] \in {"recv", "reply"} => UpTo({}, q, p, Taken(p), total[q], rows[q])
  /\ Measured({}, q, p, total[q], rows[q])

\* Nothing has happened to p yet.
AtRest(p) == txno[p] = 0 /\ wire[p] = <<>> /\ frame[p] = Idle /\ total[p] = 0

-----------------------------------------------------------------------------
(* The sender's side *)

LEMMA TakenType ==
  ASSUME SendTypeOK, NEW p \in Procs, Numbered(p)
  PROVE  txno[p] \in Nat /\ Len(wire[p]) \in Nat /\ Taken(p) \in Nat
         /\ Taken(p) + Len(wire[p]) = txno[p]
<1>1. txno[p] \in Nat /\ Len(wire[p]) \in Nat
  BY DEF SendTypeOK
<1> QED BY <1>1 DEF Numbered, Taken

\* The next one leaves the queue.
LEMMA TakeNext ==
  ASSUME SendTypeOK, NEW p \in Procs, Numbered(p), wire[p] # <<>>,
         wire'[p] = Tail(wire[p]), txno'[p] = txno[p]
  PROVE  /\ Numbered(p)' /\ Taken(p)' = Taken(p) + 1
         /\ SentAs(Head(wire[p]), p, Taken(p) + 1)
<1>1. /\ wire[p] \in Seq(Packets) /\ Len(wire[p]) \in Nat /\ Len(wire[p]) > 0
      /\ Head(wire[p]) = wire[p][1]
      /\ Len(Tail(wire[p])) = Len(wire[p]) - 1
      /\ \A j \in 1..Len(wire[p]) - 1 : Tail(wire[p])[j] = wire[p][j + 1]
  BY DEF SendTypeOK
<1>2. Taken(p)' = Taken(p) + 1
  BY <1>1, TakenType DEF Taken
<1>3. SentAs(Head(wire[p]), p, Taken(p) + 1)
  BY <1>1 DEF Numbered
<1>4. ASSUME NEW j \in 1..Len(wire[p]) - 1
      PROVE  SentAs(wire'[p][j], p, Taken(p)' + j)
  <2>1. j + 1 \in 1..Len(wire[p]) /\ Taken(p)' + j = Taken(p) + (j + 1)
    BY <1>1, <1>2, TakenType
  <2> QED BY <1>1, <2>1 DEF Numbered
<1>5. Len(wire'[p]) <= txno'[p] /\ Len(wire'[p]) = Len(wire[p]) - 1
  BY <1>1, TakenType DEF Numbered
<1> QED BY <1>2, <1>3, <1>4, <1>5 DEF Numbered, SentAs

\* One is added behind the others.
LEMMA AddNext ==
  ASSUME SendTypeOK, NEW p \in Procs, Numbered(p), NEW d \in Packets,
         wire'[p] = Append(wire[p], d), txno'[p] = txno[p] + 1,
         SentAs(d, p, txno[p] + 1)
  PROVE  Numbered(p)' /\ Taken(p)' = Taken(p)
<1>1. /\ wire[p] \in Seq(Packets) /\ Len(wire[p]) \in Nat
      /\ Len(wire'[p]) = Len(wire[p]) + 1
      /\ \A j \in 1..Len(wire[p]) : wire'[p][j] = wire[p][j]
      /\ wire'[p][Len(wire[p]) + 1] = d
  BY DEF SendTypeOK
<1>2. Taken(p)' = Taken(p)
  BY <1>1, TakenType DEF Taken
<1>3. Len(wire'[p]) <= txno'[p]
  BY <1>1, TakenType DEF Numbered
<1>4. ASSUME NEW j \in 1..Len(wire[p]) + 1
      PROVE  SentAs(wire'[p][j], p, Taken(p) + j)
  <2>1. CASE j \in 1..Len(wire[p])
    BY <1>1, <2>1 DEF Numbered
  <2>2. CASE j = Len(wire[p]) + 1
    <3>1. Taken(p) + j = txno[p] + 1
      BY <1>1, <2>2, TakenType
    <3> QED BY <1>1, <2>2, <3>1
  <2> QED BY <1>1, <2>1, <2>2
<1> QED BY <1>1, <1>2, <1>3, <1>4 DEF Numbered, SentAs

\* A step of the routine sends the next one, if any, and stays in turn.
LEMMA StepInTurn ==
  ASSUME SendTypeOK, NEW p \in Procs, SendStep(p), QueueInv(p), Numbered(p), InTurn(p)
  PROVE  Numbered(p)' /\ InTurn(p)' /\ Taken(p)' = Taken(p)
<1>0. /\ frame[p] \in Frames /\ CurrentSeq(p) \in Nat /\ txno \in [Procs -> Nat]
      /\ wire \in [Procs -> Seq(Packets)]
  BY StepSends DEF SendTypeOK, CurrentSeq, Frames
<1>1. ASSUME wire' = wire, txno' = txno
      PROVE  Numbered(p)' /\ Taken(p)' = Taken(p)
  <2>1. wire'[p] = wire[p] /\ txno'[p] = txno[p]
    BY <1>1
  <2> QED BY <2>1 DEF Numbered, Taken, SentAs
<1>2. ASSUME NEW d \in Packets, SendPacket(p),
             wire' = [wire EXCEPT ![p] = Append(@, d)], d.seq = CurrentSeq(p),
             d.type \notin FollowUps, StampOf(d) = <<p, txno[p] + 1>>
      PROVE  Numbered(p)' /\ Taken(p)' = Taken(p) /\ txno'[p] = txno[p] + 1
  <2>1. txno'[p] = txno[p] + 1 /\ frame[p].pc = "send"
    BY <1>0, <1>2 DEF SendPacket, SendTo
  <2>2. SentAs(d, p, txno[p] + 1)
    BY <1>2, <2>1 DEF SentAs, StampOf, InTurn
  <2>3. wire'[p] = Append(wire[p], d)
    BY <1>0, <1>2
  <2> QED BY <2>1, <2>2, <2>3, AddNext
<1>3. ASSUME NEW d \in Packets, SendFollowUp(p),
             wire' = [wire EXCEPT ![p] = Append(@, d)], d.seq = CurrentSeq(p),
             d.type \in FollowUps, StampOf(d) = <<p, txno[p]>>
      PROVE  Numbered(p)' /\ Taken(p)' = Taken(p) /\ txno'[p] = txno[p] + 1
  <2>1. txno'[p] = txno[p] + 1 /\ frame[p].pc = "nic_ts"
    BY <1>0, <1>3 DEF SendFollowUp, SendTo
  <2>2. txno[p] + 1 = 2 * d.seq + 2
    BY <1>0, <1>3, <2>1 DEF InTurn
  <2>3. (txno[p] + 1) - 1 = txno[p]
    BY <1>0
  <2>4. SentAs(d, p, txno[p] + 1)
    BY <1>3, <2>2, <2>3 DEF SentAs, StampOf
  <2>5. wire'[p] = Append(wire[p], d)
    BY <1>0, <1>3
  <2> QED BY <2>1, <2>4, <2>5, AddNext
<1>4. \/ SendPacket(p) \/ SendFollowUp(p)
      \/ UNCHANGED <<wire, txno>> /\ ~SendPacket(p) /\ ~SendFollowUp(p)
  BY <1>0 DEF SendStep, SendPacket, SendFollowUp, ReadKernelStamp, DrainKernelStamp, EndIteration
<1>5. Numbered(p)' /\ Taken(p)' = Taken(p)
  <2>1. CASE SendPacket(p)
    <3>1. ~SendFollowUp(p) /\ wire' # wire
      <4>1. wire'[p] # wire[p]
        <5>1. \E e : wire'[p] = Append(wire[p], e)
          BY <1>0, <2>1 DEF SendPacket, SendTo
        <5> QED BY <1>0, <5>1
      <4> QED BY <2>1, <4>1 DEF SendPacket, SendFollowUp
    <3> QED BY <1>2, <3>1, StepSends
  <2>2. CASE SendFollowUp(p)
    <3>1. ~SendPacket(p) /\ wire' # wire
      <4>1. wire'[p] # wire[p]
        <5>1. \E e : wire'[p] = Append(wire[p], e)
          BY <1>0, <2>2 DEF SendFollowUp, SendTo
        <5> QED BY <1>0, <5>1
      <4> QED BY <2>2, <4>1 DEF SendPacket, SendFollowUp
    <3> QED BY <1>3, <3>1, StepSends
  <2>3. CASE UNCHANGED <<wire, txno>>
    BY <1>1, <2>3
  <2> QED BY <1>4, <2>1, <2>2, <2>3
<1>6. txno'[p] = IF SendPacket(p) \/ SendFollowUp(p) THEN txno[p] + 1 ELSE txno[p]
  BY <1>0, <1>4 DEF SendPacket, SendFollowUp, SendTo
<1>7. InTurn(p)'
  <2>1. /\ SendPacket(p) => frame[p].pc = "send"
        /\ SendFollowUp(p) => frame[p].pc = "nic_ts"
    BY DEF SendPacket, SendFollowUp
  <2>2. CASE /\ SendPacket(p) /\ frame[p].pc = "send" /\ frame'[p].pc = "kernel_ts"
             /\ CurrentSeq(p)' = CurrentSeq(p) /\ txno'[p] = txno[p] + 1
    BY <1>0, <2>2 DEF InTurn
  <2>3. CASE /\ frame[p].pc = "kernel_ts" /\ frame'[p].pc = "nic_ts"
             /\ CurrentSeq(p)' = CurrentSeq(p) /\ txno'[p] = txno[p]
    BY <1>0, <2>3 DEF InTurn
  <2>4. CASE /\ SendFollowUp(p) /\ frame[p].pc = "nic_ts" /\ frame'[p].pc = "drain_kernel"
             /\ CurrentSeq(p)' = CurrentSeq(p)
    BY <1>0, <1>6, <2>4 DEF InTurn
  <2>5. CASE /\ frame[p].pc = "drain_kernel" /\ frame'[p].pc = "drain_nic"
             /\ CurrentSeq(p)' = CurrentSeq(p)
    BY <1>0, <1>6, <2>1, <2>5 DEF InTurn
  <2>6. CASE frame'[p] = Idle
    BY <2>6 DEF InTurn, Idle
  <2>7. CASE /\ frame[p].pc = "drain_nic" /\ frame'[p].pc = "send"
             /\ CurrentSeq(p)' = CurrentSeq(p) + 1 /\ frame[p].i + 1 < frame[p].N
    BY <1>0, <1>6, <2>1, <2>7 DEF InTurn
  <2> QED BY <2>2, <2>3, <2>4, <2>5, <2>6, <2>7, SendStepPoint
<1> QED BY <1>5, <1>7

\* A slave whose call takes a step still answers in turn.
LEMMA StepAnswers ==
  ASSUME SendTypeOK, NEW s \in Procs, SendStep(s), InTurn(s), AnswersInTurn(s),
         UNCHANGED <<main, total>>
  PROVE  AnswersInTurn(s)'
<1>0. /\ frame[s] \in Frames /\ frame[s] # Idle /\ txno \in [Procs -> Nat]
      /\ frame \in [Procs -> Frames \cup {Idle}]
  BY InCall DEF SendTypeOK, SendStep, SendPacket, ReadKernelStamp, SendFollowUp,
                DrainKernelStamp, EndIteration, Frames, Idle
<1>1. main[s] # "recv"
  BY <1>0 DEF AnswersInTurn
<1>2. SUFFICES ASSUME main[s] = "reply"
               PROVE  /\ frame'[s] = Idle => txno'[s] = 2 * total[s]
                      /\ frame'[s] # Idle => /\ frame'[s].N = 1 /\ frame'[s].i = 0
                                             /\ frame'[s].seq + 1 = total[s]
  BY <1>1 DEF AnswersInTurn
<1>3. frame[s].N = 1 /\ frame[s].i = 0 /\ frame[s].seq + 1 = total[s]
  BY <1>0, <1>2 DEF AnswersInTurn
<1>4. CASE \E pc \in Points : Goto(s, pc)
  <2>1. PICK pc \in Points : frame'[s] = [frame[s] EXCEPT !.pc = pc]
    BY <1>0, <1>4 DEF Goto
  <2>2. frame'[s] # Idle /\ frame'[s].N = 1 /\ frame'[s].i = 0 /\ frame'[s].seq = frame[s].seq
    BY <1>0, <1>3, <2>1 DEF Frames, Idle
  <2> QED BY <1>3, <2>2
<1>5. CASE EndIteration(s)
  <2>1. frame[s].pc = "drain_nic" /\ frame'[s] = NextIteration(frame[s]) /\ txno' = txno
    BY <1>0, <1>5 DEF EndIteration
  <2>2. frame'[s] = Idle
    BY <1>0, <1>3, <2>1 DEF NextIteration, LoopTop, Frames
  <2>3. txno[s] = 2 * CurrentSeq(s) + 2 /\ CurrentSeq(s) = frame[s].seq /\ frame[s].seq \in Nat
    BY <1>0, <1>3, <2>1 DEF InTurn, CurrentSeq, Frames
  <2>4. txno[s] = 2 * total[s]
    BY <1>3, <2>3
  <2> QED BY <2>1, <2>2, <2>4
<1>6. EndIteration(s) \/ \E pc \in Points : Goto(s, pc)
  BY DEF SendStep, SendPacket, ReadKernelStamp, SendFollowUp, DrainKernelStamp, Points
<1> QED BY <1>4, <1>5, <1>6

-----------------------------------------------------------------------------
(* The receiver's side *)

\* A packet is stored, a follow-up is stored and counted, or q ends.
LEMMA ReceptionOutcomes ==
  ASSUME TypeOK, RxStamps \subseteq {"hw", "none"},
         NEW q \in Procs, NEW p \in Procs, NEW x \in TxIds, Taking(q, p, x)
  PROVE  LET d == Head(wire[p])
         IN  \/ main'[q] \in {"failed", "undefined"} /\ UNCHANGED <<rows, total, frame>>
             \/ /\ d.type \notin FollowUps /\ d.seq \in 0..Size(q) - 1
                /\ rows' = [rows EXCEPT ![q][d.seq].recv = x]
                /\ main'[q] \in {"recv", "store"} /\ UNCHANGED <<total, frame>>
             \/ /\ d.type \in FollowUps /\ d.seq \in 0..Size(q) - 1
                /\ rows' = [rows EXCEPT ![q][d.seq].sent = d.stamp]
                /\ total' = [total EXCEPT ![q] = @ + 1]
                /\ \/ q \in Masters /\ main'[q] \in {"recv", "store"} /\ UNCHANGED frame
                   \/ /\ q \in Slaves /\ main'[q] = "reply"
                      /\ Call(q, "DELAY_RESP", 1, d.seq, ReplyAddress(q, p))
<1> DEFINE d == Head(wire[p])
<1>0. main \in [Procs -> Mains] /\ rows[q] \in [0..Size(q) - 1 -> Rows]
  BY DEF TypeOK, MainTypeOK
<1>1. InTable(q, d) => d.seq \in 0..Size(q) - 1
  BY <1>0 DEF InTable, Row
<1>2. \A t : LoopTest(q, t) => main'[q] \in {"recv", "store"}
  BY <1>0 DEF LoopTest
<1>3. \A how : Stop(q, how) => main'[q] = how /\ UNCHANGED <<rows, total>>
  BY <1>0 DEF Stop
<1>4. \A rx \in RxStamps : /\ rx # "none" => RxStamp(x, rx) = x
                           /\ Mishap(rx) \in {"failed", "undefined"}
  BY DEF RxStamp, Mishap
<1>5. ASSUME NEW rx \in RxStamps, RespStamped(q, p, rx, x) \/ ReqStamped(q, p, rx, x)
      PROVE  \/ main'[q] \in {"failed", "undefined"} /\ UNCHANGED <<rows, total, frame>>
             \/ /\ d.type \notin FollowUps /\ d.seq \in 0..Size(q) - 1
                /\ rows' = [rows EXCEPT ![q][d.seq].recv = x]
                /\ main'[q] \in {"recv", "store"} /\ UNCHANGED <<total, frame>>
  <2>1. d.type \notin FollowUps /\ UNCHANGED frame
    BY <1>5 DEF RespStamped, ReqStamped, Receive, FollowUps
  <2>2. CASE rx # "none" /\ InTable(q, d)
    <3>1. /\ rows' = [rows EXCEPT ![q][d.seq].recv = RxStamp(x, rx)]
          /\ LoopTest(q, total[q]) /\ UNCHANGED total
      BY <1>5, <2>2 DEF RespStamped, ReqStamped, Row
    <3> QED BY <1>1, <1>2, <1>4, <2>1, <2>2, <3>1
  <2>3. CASE ~(rx # "none" /\ InTable(q, d))
    <3>1. Stop(q, Mishap(rx))
      BY <1>5, <2>3 DEF RespStamped, ReqStamped
    <3> QED BY <1>3, <1>4, <2>1, <3>1
  <2> QED BY <2>2, <2>3
<1>6. CASE q \in Masters /\ RecvRespFollowUp(q, p)
  <2>1. d.type \in FollowUps /\ UNCHANGED frame
    BY <1>6 DEF RecvRespFollowUp, Receive, FollowUps
  <2>2. CASE InTable(q, d)
    <3>1. /\ rows' = [rows EXCEPT ![q][d.seq].sent = d.stamp]
          /\ total' = [total EXCEPT ![q] = @ + 1] /\ LoopTest(q, total[q] + 1)
      BY <1>6, <2>2 DEF RecvRespFollowUp, Row
    <3> QED BY <1>1, <1>2, <1>6, <2>1, <2>2, <3>1
  <2>3. CASE ~InTable(q, d)
    <3>1. Stop(q, "undefined")
      BY <1>6, <2>3 DEF RecvRespFollowUp
    <3> QED BY <1>3, <2>1, <3>1
  <2> QED BY <2>2, <2>3
<1>7. CASE q \in Slaves /\ RecvReqFollowUp(q, p)
  <2>1. d.type \in FollowUps
    BY <1>7 DEF RecvReqFollowUp, Receive, FollowUps
  <2>2. CASE InTable(q, d)
    <3>1. /\ rows' = [rows EXCEPT ![q][d.seq].sent = d.stamp]
          /\ total' = [total EXCEPT ![q] = @ + 1]
          /\ main' = [main EXCEPT ![q] = "reply"]
          /\ Call(q, "DELAY_RESP", 1, d.seq, ReplyAddress(q, p))
      BY <1>7, <2>2 DEF RecvReqFollowUp, Row
    <3>2. main'[q] = "reply"
      BY <1>0, <3>1
    <3> QED BY <1>1, <1>7, <2>1, <2>2, <3>1, <3>2
  <2>3. CASE ~InTable(q, d)
    <3>1. Stop(q, "undefined") /\ UNCHANGED frame
      BY <1>7, <2>3 DEF RecvReqFollowUp
    <3> QED BY <1>3, <3>1
  <2> QED BY <2>2, <2>3
<1>8. CASE RecvUnknown(q, p)
  BY <1>3, <1>8 DEF RecvUnknown
<1> QED BY <1>5, <1>6, <1>7, <1>8 DEF Taking

\* What q receives is the next that p sent, and belongs to the row that q has
\* come to; with a stamp near enough to its own it stays so.
LEMMA ReceptionInOrder ==
  ASSUME TypeOK, RxStamps \subseteq {"hw", "none"}, NEW q \in Procs, NEW p \in Procs \ {q},
         NEW x \in TxIds, Taking(q, p, x), Numbered(p), NEW L, NEW M,
         UpTo(L, q, p, Taken(p), total[q], rows[q]),
         Measured(L, q, p, total[q], rows[q]),
         Head(wire[p]).type \notin FollowUps => Near(M, q, p, Head(wire[p]).seq, x)
  PROVE  /\ Numbered(p)' /\ Taken(p)' = Taken(p) + 1
         /\ main'[q] \in {"recv", "reply"} => UpTo(M, q, p, Taken(p)', total'[q], rows'[q])
         /\ Measured(L, q, p, total'[q], rows'[q])
         /\ main'[q] = "reply" => Head(wire[p]).seq = total[q]
<1> DEFINE d == Head(wire[p])
<1>0. /\ SendTypeOK /\ total[q] \in Nat /\ total \in [Procs -> Nat]
      /\ rows[q] \in [0..Size(q) - 1 -> Rows]
      /\ main[q] = "recv" /\ d \in Packets /\ d.seq \in Nat
      /\ wire[p] # <<>> /\ wire'[p] = Tail(wire[p]) /\ txno'[p] = txno[p]
  <2>1. PICK type \in Types : Receive(p, q, type)
    BY TakingReceives
  <2>2. /\ wire[p] # <<>> /\ d \in Packets /\ wire' = [wire EXCEPT ![p] = Tail(@)]
        /\ main[q] = "recv"
    BY <2>1, ReceiveTakes DEF TypeOK, Receive
  <2>3. txno' = txno
    BY ReceptionReceives DEF Reception
  <2> QED BY <2>2, <2>3 DEF TypeOK, SendTypeOK, MainTypeOK, Packets
<1>1. Numbered(p)' /\ Taken(p)' = Taken(p) + 1 /\ SentAs(d, p, Taken(p) + 1)
  BY <1>0, TakeNext
<1>2. UpTo(L, q, p, Taken(p), total[q], rows[q])
  OBVIOUS
<1>3. Taken(p) \in Nat /\ Size(q) \in Nat
  BY <1>0, TakenType, SizeType
<1> DEFINE Ends == main'[q] \in {"failed", "undefined"} /\ UNCHANGED <<rows, total>>
           TakesPacket == /\ d.type \notin FollowUps /\ d.seq \in 0..Size(q) - 1
                          /\ rows' = [rows EXCEPT ![q][d.seq].recv = x]
                          /\ main'[q] \in {"recv", "store"} /\ UNCHANGED total
           TakesFollowUp == /\ d.type \in FollowUps /\ d.seq \in 0..Size(q) - 1
                            /\ rows' = [rows EXCEPT ![q][d.seq].sent = d.stamp]
                            /\ total' = [total EXCEPT ![q] = @ + 1]
           Goal == /\ main'[q] \in {"recv", "reply"} =>
                         UpTo(M, q, p, Taken(p)', total'[q], rows'[q])
                   /\ Measured(L, q, p, total'[q], rows'[q])
<1>7. Ends \/ TakesPacket \/ TakesFollowUp
  BY ReceptionOutcomes
<1>8. main'[q] = "reply" => TakesFollowUp
  BY ReceptionOutcomes
<1>9. d.type \notin FollowUps => Near(M, q, p, d.seq, x)
  OBVIOUS
<1> HIDE DEF d
<1>4. ASSUME Ends
      PROVE  Goal
  <2>1. main'[q] \notin {"recv", "reply"} /\ total'[q] = total[q] /\ rows'[q] = rows[q]
    BY <1>4
  <2> QED BY <2>1
<1>5. ASSUME TakesPacket
      PROVE  Goal
  <2>1. Taken(p) = 2 * d.seq
    <3>1. Taken(p) + 1 = 2 * d.seq + 1
      BY <1>1, <1>5 DEF SentAs
    <3> QED BY <1>0, <1>3, <3>1
  <2>2. d.seq = total[q]
    BY <1>0, <1>2, <2>1 DEF UpTo
  <2>3. /\ \A j \in (0..Size(q) - 1) \ {d.seq} : rows'[q][j] = rows[q][j]
        /\ rows'[q][d.seq].recv = x
    <3>1. d.seq \in 0..Size(q) - 1 /\ rows' = [rows EXCEPT ![q][d.seq].recv = x]
      BY <1>5
    <3> HIDE DEF TakesPacket, TakesFollowUp
    <3>2. /\ \A r \in Procs \ {q} : rows'[r] = rows[r]
          /\ \A j \in (0..Size(q) - 1) \ {d.seq} : rows'[q][j] = rows[q][j]
          /\ rows'[q][d.seq].recv = x /\ rows'[q][d.seq].sent = rows[q][d.seq].sent
      BY <3>1, WriteField
    <3> QED BY <3>2
  <2>4. UpTo(M, q, p, Taken(p)', total'[q], rows'[q])
    BY <1>0, <1>1, <1>3, <1>5, <1>9, <2>1, <2>2, <2>3 DEF UpTo
  <2>5. ASSUME NEW k \in 0..Size(q) - 1, k < total[q]
        PROVE  rows'[q][k] = rows[q][k]
    <3>1. k # d.seq
      BY <1>0, <1>3, <2>2, <2>5
    <3> QED BY <2>3, <2>5, <3>1
  <2>6. total'[q] = total[q]
    BY <1>5
  <2>7. Measured(L, q, p, total'[q], rows'[q])
    BY <2>5, <2>6 DEF Measured
  <2> QED BY <2>4, <2>7
<1>6. ASSUME TakesFollowUp
      PROVE  Goal /\ d.seq = total[q]
  <2>1. Taken(p) = 2 * d.seq + 1 /\ d.stamp = <<p, Taken(p)>>
    <3>1. Taken(p) + 1 = 2 * d.seq + 2 /\ d.stamp = <<p, (Taken(p) + 1) - 1>>
      BY <1>1, <1>6 DEF SentAs
    <3> QED BY <1>0, <1>3, <3>1
  <2>2. d.seq = total[q] /\ Near(L, q, p, d.seq, rows[q][d.seq].recv)
    BY <1>0, <1>2, <2>1 DEF UpTo
  <2>3. d.stamp = Packet(p, d.seq)
    BY <2>1 DEF Packet
  <2>4. /\ \A j \in (0..Size(q) - 1) \ {d.seq} : rows'[q][j] = rows[q][j]
        /\ rows'[q][d.seq].sent = d.stamp /\ rows'[q][d.seq].recv = rows[q][d.seq].recv
    <3>1. d.seq \in 0..Size(q) - 1 /\ rows' = [rows EXCEPT ![q][d.seq].sent = d.stamp]
      BY <1>6
    <3> HIDE DEF TakesPacket, TakesFollowUp
    <3>2. /\ \A r \in Procs \ {q} : rows'[r] = rows[r]
          /\ \A j \in (0..Size(q) - 1) \ {d.seq} : rows'[q][j] = rows[q][j]
          /\ rows'[q][d.seq].sent = d.stamp /\ rows'[q][d.seq].recv = rows[q][d.seq].recv
      BY <3>1, WriteField
    <3> QED BY <3>2
  <2>5. total'[q] = total[q] + 1
    BY <1>0, <1>6
  <2>6. UpTo(M, q, p, Taken(p)', total'[q], rows'[q])
    BY <1>0, <1>1, <2>1, <2>2, <2>5 DEF UpTo
  <2>8. ASSUME NEW k \in 0..Size(q) - 1, k < total'[q]
        PROVE  rows'[q][k].sent = Packet(p, k) /\ Near(L, q, p, k, rows'[q][k].recv)
    <3>1. CASE k = d.seq
      BY <2>2, <2>3, <2>4, <3>1
    <3>2. CASE k # d.seq
      <4>1. k < total[q]
        BY <1>0, <1>3, <2>2, <2>5, <2>8, <3>2
      <4> QED BY <2>4, <2>8, <3>2, <4>1 DEF Measured
    <3> QED BY <3>1, <3>2
  <2> QED BY <2>2, <2>6, <2>8 DEF Measured
<1>10. Goal /\ (main'[q] = "reply" => d.seq = total[q])
  <2> HIDE DEF Ends, TakesPacket, TakesFollowUp, Goal
  <2> QED BY <1>4, <1>5, <1>6, <1>7, <1>8
<1> QED BY <1>1, <1>10 DEF d

\* A slave that has received a follow-up is about to answer it.
LEMMA ReceptionAnswers ==
  ASSUME TypeOK, RxStamps \subseteq {"hw", "none"}, NEW q \in Procs, NEW p \in Procs \ {q},
         NEW x \in TxIds, Taking(q, p, x), Numbered(p), NEW L, NEW M,
         UpTo(L, q, p, Taken(p), total[q], rows[q]),
         Measured(L, q, p, total[q], rows[q]),
         Head(wire[p]).type \notin FollowUps => Near(M, q, p, Head(wire[p]).seq, x),
         InTurn(q), q \in Slaves => AnswersInTurn(q)
  PROVE  InTurn(q)' /\ (q \in Slaves => AnswersInTurn(q)')
<1> DEFINE d == Head(wire[p])
<1>0. /\ txno' = txno /\ main[q] = "recv" /\ total \in [Procs -> Nat] /\ d.seq \in Nat
      /\ txno[q] \in Nat /\ frame \in [Procs -> Frames \cup {Idle}]
  <2>1. PICK type \in Types : Receive(p, q, type)
    BY TakingReceives
  <2>2. d \in Packets /\ main[q] = "recv"
    BY <2>1, ReceiveTakes DEF TypeOK, Receive
  <2> QED BY <2>2, ReceptionReceives DEF Reception, TypeOK, SendTypeOK, MainTypeOK, Packets
<1>1. CASE UNCHANGED frame /\ (q \in Slaves => main'[q] # "reply" /\ UNCHANGED total)
  <2>1. InTurn(q)'
    BY <1>0, <1>1 DEF InTurn, CurrentSeq
  <2>2. CASE q \in Slaves
    <3>1. frame[q] = Idle /\ txno[q] = 2 * total[q]
      BY <1>0, <2>2 DEF AnswersInTurn
    <3> QED BY <1>0, <1>1, <2>1, <2>2, <3>1 DEF AnswersInTurn
  <2> QED BY <2>1, <2>2
<1>2. CASE /\ q \in Slaves /\ main'[q] = "reply"
           /\ total' = [total EXCEPT ![q] = @ + 1]
           /\ Call(q, "DELAY_RESP", 1, d.seq, ReplyAddress(q, p))
  <2>1. d.seq = total[q] /\ txno[q] = 2 * total[q] /\ total'[q] = total[q] + 1
    BY <1>0, <1>2, ReceptionInOrder DEF AnswersInTurn
  <2>2. frame'[q] = [pc |-> "send", type |-> "DELAY_RESP", seq |-> d.seq, N |-> 1,
                     i |-> 0, dst |-> ReplyAddress(q, p)]
    BY <1>0, <1>2 DEF Call, LoopTop
  <2>3. /\ frame'[q] # Idle /\ frame'[q].pc = "send" /\ frame'[q].N = 1
        /\ frame'[q].i = 0 /\ frame'[q].seq = d.seq
    BY <2>2 DEF Idle
  <2>4. CurrentSeq(q)' = d.seq
    BY <1>0, <2>3 DEF CurrentSeq
  <2>5. InTurn(q)'
    BY <1>0, <2>1, <2>3, <2>4 DEF InTurn
  <2>6. AnswersInTurn(q)'
    BY <1>0, <1>2, <2>1, <2>3 DEF AnswersInTurn
  <2> QED BY <2>5, <2>6
<1>3. q \in Masters => q \notin Slaves
  BY MdelayAssumption
<1> QED BY <1>1, <1>2, <1>3, ReceptionOutcomes

\* What is stored are delays, or no less for those in L.
LEMMA StoreReal ==
  ASSUME TypeOK, NEW p \in Procs, NEW q \in Procs, Store(p), NEW L,
         Measured(L, p, q, total[p], rows[p])
  PROVE  \/ results'[p] = results[p]
         \/ /\ NoneTooShort(results'[p].rows)
            /\ p \notin L => RealDelays(results'[p].rows)
<1>0. /\ total[p] \in Nat /\ Size(p) \in Nat /\ results \in [Procs -> [file : Files, rows : Seq(Rows)]]
  BY SizeType DEF TypeOK, MainTypeOK
<1>1. CASE results' = results
  BY <1>1
<1>2. CASE total[p] <= Size(p)
  <2> DEFINE stored == StoredRows(p)
  <2>1. results'[p].rows = stored
    BY <1>0, <1>2 DEF Store
  <2>2. Len(stored) = total[p]
    BY <1>0 DEF StoredRows
  <2>3. ASSUME NEW i \in 1..total[p]
        PROVE  stored[i].sent = Packet(q, i - 1) /\ Near(L, p, q, i - 1, stored[i].recv)
    <3>1. i - 1 \in 0..Size(p) - 1 /\ i - 1 < total[p]
      BY <1>0, <1>2
    <3> QED BY <3>1 DEF StoredRows, Measured
  <2> HIDE DEF stored
  <2>4. ASSUME NEW i \in 1..total[p]
        PROVE  LET sent == stored[i].sent  recv == stored[i].recv
               IN  /\ sent # Zero /\ recv # Zero /\ recv[1] = sent[1] /\ recv[2] >= sent[2]
                   /\ p \notin L => recv = sent
    <3>1. i - 1 \in Nat /\ Packet(q, i - 1) \in TxIds
      BY <1>0 DEF Packet, TxIds
    <3>2. stored[i].sent = Packet(q, i - 1) /\ Near(L, p, q, i - 1, stored[i].recv)
      BY <2>3
    <3>3. CASE stored[i].recv = Packet(q, i - 1)
      BY <3>1, <3>2, <3>3, ZeroIsNoStamp DEF StampIsNotZero, Packet
    <3>4. ASSUME p \in L, NEW j \in Nat, j > 2 * (i - 1), stored[i].recv = <<q, j>>
          PROVE  LET sent == stored[i].sent  recv == stored[i].recv
                 IN  sent # Zero /\ recv # Zero /\ recv[1] = sent[1] /\ recv[2] >= sent[2]
      <4>1. <<q, j>> \in TxIds
        BY <3>1, <3>4 DEF TxIds
      <4> QED BY <3>1, <3>2, <3>4, <4>1, ZeroIsNoStamp DEF StampIsNotZero, Packet
    <3> QED BY <3>2, <3>3, <3>4 DEF Near
  <2>5. ASSUME NEW i \in 1..total[p], NEW j \in 1..total[p], i # j
        PROVE  stored[i].sent # stored[j].sent
    <3>1. Packet(q, i - 1) # Packet(q, j - 1)
      BY <1>0, <2>5 DEF Packet
    <3> QED BY <2>3, <3>1
  <2>6. NoneTooShort(stored)
    BY <2>2, <2>4, <2>5 DEF NoneTooShort
  <2>7. p \notin L => RealDelays(stored)
    BY <2>2, <2>4, <2>5 DEF RealDelays
  <2> QED BY <2>1, <2>6, <2>7
<1> QED BY <1>1, <1>2 DEF Store

\* What neither sends nor receives disturbs nothing.
LEMMA QuietSender ==
  ASSUME NEW p \in Procs, UNCHANGED <<frame[p], txno[p], wire[p]>>
  PROVE  /\ Numbered(p) => Numbered(p)'
         /\ InTurn(p) => InTurn(p)'
         /\ Taken(p)' = Taken(p)
<1>1. Numbered(p) => Numbered(p)'
  BY DEF Numbered, Taken, SentAs
<1>2. InTurn(p) => InTurn(p)'
  BY DEF InTurn, CurrentSeq
<1> QED BY <1>1, <1>2 DEF Taken

LEMMA QuietReceiver ==
  ASSUME NEW q \in Procs, NEW p \in Procs, Follows(q, p), UNCHANGED <<rows[q], total[q]>>,
         \/ Taken(p)' = Taken(p) /\ main'[q] = main[q]
         \/ main'[q] \notin {"recv", "reply"}
         \/ Taken(p)' = Taken(p) /\ main[q] \in {"recv", "reply"}
  PROVE  Follows(q, p)'
  BY DEF Follows

\* The beginning.
LEMMA AtRestOrder ==
  ASSUME NEW p \in Procs, AtRest(p)
  PROVE  Numbered(p) /\ InTurn(p) /\ AnswersInTurn(p) /\ Taken(p) = 0
<1>1. txno[p] = 0 /\ Len(wire[p]) = 0 /\ frame[p] = Idle /\ total[p] = 0
  BY DEF AtRest
<1> QED BY <1>1 DEF Numbered, InTurn, AnswersInTurn, Taken, Idle

LEMMA AtRestFollows ==
  ASSUME NEW q \in Procs, NEW p \in Procs, total[q] = 0, AtRest(p)
  PROVE  Follows(q, p)
<1>1. total[q] = 0 /\ Taken(p) = 0
  BY AtRestOrder
<1> QED BY <1>1, SizeType DEF Follows, UpTo, Measured

-----------------------------------------------------------------------------
(* One master and one slave on a network that delivers in order *)

OneSlave == \A s1, s2 \in Slaves : s1 = s2

\* The slave has the address that the master is given, and is started first.
InSequence ==
  /\ OneMaster /\ Masters # {} /\ OneSlave /\ Slaves # {}
  /\ SlaveFirst /\ \A h \in Hosts, s \in Slaves : SlaveAddresses \subseteq {h[s]}
  /\ Faults \subseteq {"crash", "cut"} /\ RxStamps \subseteq {"hw", "none"}
  /\ StampOrders = {SwThenHw}

\* The requests are addressed to s, which replies to r.
PacketsTo(address) == {d \in Packets : d.dst = address}

Talk(r, s) ==
  /\ wire[r] \in Seq(PacketsTo(host[s]))
  /\ frame[r] # Idle => frame[r].dst = host[s]
  /\ total[s] > 0 => remote[s] = host[r]

\* They have different addresses, and start one after the other.
Begins(r, s) ==
  /\ main[r] = "down" => AtRest(r) /\ AtRest(s)
  /\ main[s] = "down" => main[r] = "down"
  /\ main[r] # "down" => host[r] # host[s]

PairInv ==
  /\ host \in Hosts
  /\ \A r \in Masters, s \in Slaves : Talk(r, s) /\ Begins(r, s)

InTurnInv ==
  \A p \in Procs : /\ Numbered(p) /\ InTurn(p) /\ (p \in Slaves => AnswersInTurn(p))
                   /\ \A q \in Procs \ {p} : Follows(q, p)

\* The inductive invariant, with those that say that what a program sends is
\* for the other one.
OrderInv == TypeOK /\ ProvenanceInv /\ ClientInv /\ PairInv /\ InTurnInv

\* What is on its way is for the other of the two.
LEMMA ForTheOther ==
  ASSUME OrderInv, InSequence, NEW p \in Procs, wire[p] # <<>>,
         NEW q \in Procs, q # p
  PROVE  /\ Head(wire[p]).dst = host[q] /\ host[p] # host[q]
<1> USE DEF OrderInv
<1> DEFINE d == Head(wire[p])
<1>0. wire[p] \in Seq(Packets) /\ ~AtRest(p)
  BY DEF TypeOK, SendTypeOK, AtRest
<1>1. CASE p \in Masters
  <2>1. q \in Slaves
    BY <1>1, MdelayAssumption DEF InSequence, OneMaster
  <2>2. Talk(p, q) /\ Begins(p, q)
    BY <1>1, <2>1 DEF PairInv
  <2>3. d \in PacketsTo(host[q])
    BY <1>0, <2>2 DEF Talk
  <2> QED BY <1>0, <2>2, <2>3 DEF Begins, PacketsTo
<1>2. CASE p \in Slaves
  <2>1. q \in Masters
    BY <1>2, MdelayAssumption DEF InSequence, OneSlave
  <2>2. Talk(q, p) /\ Begins(q, p)
    BY <1>2, <2>1 DEF PairInv
  <2>3. d \in Addressed(p)
    BY <1>0 DEF ClientInv
  <2>4. remote[p] = d.dst /\ total[p] > 0
    BY <1>2, <2>3 DEF Addressed, Serves
  <2> QED BY <1>0, <2>2, <2>4 DEF Talk, Begins
<1> QED BY <1>1, <1>2, MdelayAssumption

\* Neither receives what it has sent.
LEMMA FromTheOther ==
  ASSUME OrderInv, InSequence, NEW q \in Procs, NEW p \in Procs, Reception(q, p)
  PROVE  q # p
<1>1. PICK o \in Procs : o # p
  BY MdelayAssumption DEF InSequence
<1>2. wire[p] # <<>> /\ Head(wire[p]).dst = host[q]
  BY ReceptionReceives DEF Receive
<1> QED BY <1>1, <1>2, ForTheOther

\* How a program starts, and that it does not go back to where it was then.
LEMMA StartSteps ==
  ASSUME TypeOK, NEW p \in Procs,
         [Next]_vars \/ \E q \in Procs, x \in Procs : Reception(q, x)
  PROVE  /\ main'[p] = "down" => main[p] = "down"
         /\ main[p] = "down" =>
              \/ main'[p] = "down"
              \/ main'[p] = "recv" /\ p \in Masters /\ StartMaster(p)
              \/ main'[p] = "recv" /\ p \in Slaves /\ StartSlave(p)
<1> DEFINE Goal == \/ main'[p] = main[p]
                   \/ main[p] # "down" /\ main'[p] # "down"
                   \/ main'[p] = "recv" /\ p \in Masters /\ StartMaster(p)
                   \/ main'[p] = "recv" /\ p \in Slaves /\ StartSlave(p)
<1>0. main \in [Procs -> Mains] /\ Masters \subseteq Procs /\ Slaves \subseteq Procs
  BY MdelayAssumption DEF TypeOK, MainTypeOK
<1>1. ASSUME NEW q \in Procs \ {p}, NEW x \in Procs,
             \/ q \in Masters /\ StartMaster(q)
             \/ q \in Slaves /\ (StartSlave(q) \/ EndReply(q))
             \/ Reception(q, x)
             \/ Store(q) \/ Crash(q)
             \/ ThreadStep(q)
      PROVE  Goal
  BY <1>1, MainOthers
<1>2. CASE p \in Masters /\ StartMaster(p)
  BY <1>0, <1>2 DEF StartMaster, Start
<1>3. CASE p \in Slaves /\ StartSlave(p)
  BY <1>0, <1>3 DEF StartSlave, Start
<1>4. CASE p \in Slaves /\ EndReply(p)
  BY <1>0, <1>4 DEF EndReply, LoopTest
<1>5. ASSUME NEW x \in Procs, Reception(p, x)
      PROVE  Goal
  <2>1. main[p] = "recv"
    BY <1>5, ReceptionReceives DEF Receive
  <2>2. \A rx : Mishap(rx) # "down"
    BY DEF Mishap
  <2>0. PICK s \in TxIds : Taking(p, x, s)
    BY <1>5 DEF Reception
  <2>3. main'[p] # "down"
    BY <1>0, <2>0, <2>2 DEF Taking, RespStamped, RecvRespFollowUp, RecvUnknown, ReqStamped,
                            RecvReqFollowUp, Stop, LoopTest
  <2> QED BY <2>1, <2>3
<1>6. CASE Store(p) \/ Crash(p)
  BY <1>0, <1>6 DEF Store, Crash, Alive
<1>7. CASE ThreadStep(p)
  BY <1>0, <1>7, ThreadStepMain DEF TypeOK, Alive
<1>8. CASE NetworkStep \/ UNCHANGED vars
  BY <1>8, NetworkRelays DEF TypeOK, mainVars, vars
<1>9. Goal
  BY <1>0, <1>1, <1>2, <1>3, <1>4, <1>5, <1>6, <1>7, <1>8, NextCases
<1> QED BY <1>9

LEMMA TalkStep ==
  ASSUME OrderInv, InSequence, [Next]_vars, NEW r \in Masters, NEW s \in Slaves
  PROVE  Talk(r, s)'
<1> USE DEF OrderInv
<1>0. /\ Talk(r, s) /\ host \in Hosts /\ host' = host /\ r \in Procs /\ s \in Procs
      /\ frame \in [Procs -> Frames \cup {Idle}]
  BY HostsStay, MdelayAssumption DEF PairInv, TypeOK, SendTypeOK
<1>1. wire'[r] \in Seq(PacketsTo(host[s]))
  <2>1. wire[r] \in Seq(PacketsTo(host[s]))
    BY <1>0 DEF Talk
  <2>2. CASE Relayed(r)
    BY <1>0, <2>1, <2>2, RelayedSeq
  <2>3. ASSUME NEW p \in Procs, NEW d \in Packets, Sends(p, d)
        PROVE  wire'[r] \in Seq(PacketsTo(host[s]))
    <3>1. wire'[r] = IF r = p THEN Append(wire[r], d) ELSE wire[r]
      BY <1>0, <2>3 DEF Sends, TypeOK, SendTypeOK
    <3>2. CASE r = p
      <4>1. frame[r] \in Frames /\ d.dst = frame[r].dst
        BY <2>3, <3>2 DEF Sends
      <4>2. frame[r] # Idle
        BY <4>1 DEF Frames, Idle
      <4>3. d \in PacketsTo(host[s])
        BY <1>0, <4>1, <4>2 DEF Talk, PacketsTo
      <4> HIDE DEF PacketsTo
      <4> QED BY <2>1, <3>1, <3>2, <4>3
    <3> QED BY <2>1, <3>1, <3>2
  <2> QED BY <1>0, <2>2, <2>3, WireSteps
<1>2. frame'[r] # Idle => frame'[r].dst = host[s]
  <2>1. CASE frame'[r] = frame[r]
    BY <1>0, <2>1 DEF Talk
  <2>2. CASE SameCall(frame[r], frame'[r])
    BY <1>0, <2>2 DEF Talk, SameCall, Frames, Idle
  <2>3. CASE StartMaster(r)
    <3>1. PICK slave_ip \in SlaveAddresses : Call(r, "DELAY_REQ", N, 0, slave_ip)
      BY <2>3 DEF StartMaster
    <3>2. slave_ip = host[s]
      BY <1>0, <3>1 DEF InSequence
    <3>3. frame'[r] = Idle \/ frame'[r].dst = slave_ip
      BY <1>0, <3>1 DEF Call, LoopTop
    <3> QED BY <3>2, <3>3
  <2>4. ASSUME SendStep(r) \/ SendError(r)
        PROVE  frame'[r] \in {frame[r], Idle} \/ SameCall(frame[r], frame'[r])
    BY <1>0, <2>4, SendStepFrame DEF TypeOK
  <2>5. r \notin Slaves
    BY MdelayAssumption
  <2>6. \/ frame'[r] \in {frame[r], Idle}
        \/ SameCall(frame[r], frame'[r])
        \/ StartMaster(r)
    <3>1. CASE \E dst \in Dests : Call(r, "DELAY_REQ", N, 0, dst)
      <4>1. frame[r] = Idle
        BY <3>1 DEF Call
      <4>2. SendStep(r) => frame[r] # Idle
        BY InCall DEF Frames, Idle, TypeOK, SendStep, SendPacket, ReadKernelStamp,
                      SendFollowUp, DrainKernelStamp, EndIteration
      <4>3. frame'[r].pc = "exited" => FALSE
        <5>1. frame'[r] = Idle \/ frame'[r].pc = "send"
          BY <1>0, <3>1 DEF Call, LoopTop
        <5> QED BY <5>1 DEF Idle
      <4> QED BY <1>0, <2>5, <4>1, <4>2, <4>3, CallSteps
    <3> QED BY <1>0, <2>5, <3>1, FrameSteps
  <2> QED BY <2>1, <2>2, <2>3, <2>6
<1>3. total'[s] > 0 => remote'[s] = host[r]
  <2>0. /\ total \in [Procs -> Nat] /\ remote \in [Slaves -> Dests \cup {Zero}]
        /\ total[s] > 0 => remote[s] = host[r]
    BY <1>0 DEF TypeOK, MainTypeOK, Talk
  <2>1. CASE total'[s] = total[s]
    <3>1. CASE total[s] > 0
      <4>1. Serves(s, host[r])
        BY <2>0, <3>1 DEF Serves
      <4> DEFINE h == host[r]
      <4>2. Serves(s, h)
        BY <4>1
      <4> HIDE DEF h
      <4>3. WillServe(s, h)
        BY <4>2, ServesForEver
      <4> QED BY <4>3 DEF WillServe, h
    <3> QED BY <2>0, <2>1, <3>1
  <2>2. ASSUME NEW q \in Procs, NEW p \in Procs, Reception(q, p), total'[s] # total[s]
        PROVE  remote'[s] = host[r]
    <3>1. q = s
      BY <1>0, <2>2, MainOthers
    <3>2. p = r
      BY <1>0, <2>2, <3>1, FromTheOther, MdelayAssumption DEF InSequence, OneMaster, OneSlave
    <3>3. remote' = [remote EXCEPT ![s] = ReplyAddress(s, r)]
      <4>1. s \notin Masters
        BY MdelayAssumption
      <4> QED BY <2>2, <3>1, <3>2, <4>1 DEF Reception, Taking, ReqStamped, RecvReqFollowUp, RecvUnknown, Stop
    <3>4. ReplyAddress(s, r) = host[r]
      <4>1. total[s] \in Nat
        BY <1>0, <2>0
      <4> QED BY <2>0, <4>1 DEF ReplyAddress
    <3> QED BY <2>0, <3>3, <3>4
  <2>3. \A q \in Procs : StartMaster(q) \/ StartSlave(q) \/ EndReply(q) \/ Store(q) \/ Crash(q)
                           => total' = total
    BY DEF StartMaster, StartSlave, Start, EndReply, Store, Crash
  <2>4. \A q \in Procs : ThreadStep(q) => total' = total
    BY ThreadStepMain DEF TypeOK
  <2>5. NetworkStep \/ UNCHANGED vars => total' = total
    BY NetworkRelays DEF TypeOK, vars, mainVars
  <2> QED BY <2>1, <2>2, <2>3, <2>4, <2>5, NextCases, MdelayAssumption
<1> QED BY <1>0, <1>1, <1>2, <1>3 DEF Talk, PacketsTo

\* What has not begun stays so until it starts.
LEMMA RestStays ==
  ASSUME OrderInv, [Next]_vars, \A q \in Procs : wire[q] = <<>>, NEW p \in Procs, AtRest(p)
  PROVE  AtRest(p)' \/ (p \in Masters /\ StartMaster(p))
<1> USE DEF OrderInv
<1>1. /\ \A q \in Procs, x \in Procs : ~Reception(q, x)
      /\ \A x \in Procs : ~Replies(p, x)
  BY ReceptionReceives DEF Receive, Replies, RecvReqFollowUp
<1>2. ~SendStep(p) /\ ~SendError(p)
  BY DEF AtRest, Idle, SendStep, SendPacket, ReadKernelStamp, SendFollowUp,
         DrainKernelStamp, EndIteration, SendError
<1>3. wire'[p] = <<>>
  <2>1. ~\E d \in Packets : Adds(p, d)
    BY <1>2 DEF Adds, SendStep
  <2>2. Len(wire[p]) = 0 /\ Len(wire[p]) - 1 = -1
    OBVIOUS
  <2> QED BY <2>1, <2>2, WireOfSteps DEF Relayed
<1>4. total'[p] = total[p]
  <2>1. \A q \in Procs : StartMaster(q) \/ StartSlave(q) \/ EndReply(q) \/ Store(q) \/ Crash(q)
                           => total' = total
    BY DEF StartMaster, StartSlave, Start, EndReply, Store, Crash
  <2>2. \A q \in Procs : ThreadStep(q) => total' = total
    BY ThreadStepMain DEF TypeOK
  <2>3. NetworkStep \/ UNCHANGED vars => total' = total
    BY NetworkRelays DEF TypeOK, vars, mainVars
  <2> QED BY <1>1, <2>1, <2>2, <2>3, NextCases, MdelayAssumption
<1>5. CASE frame'[p] = frame[p] /\ txno'[p] = txno[p]
  BY <1>3, <1>4, <1>5 DEF AtRest
<1>6. CASE frame'[p].pc = "exited"
  <2>1. \A q \in Procs : StartSlave(q) \/ EndReply(q) \/ Store(q) \/ Crash(q) => frame' = frame
    BY DEF StartSlave, EndReply, Store, Crash, sendVars
  <2>2. \A q \in Procs : ThreadStep(q) => frame'[p] = frame[p]
    <3>1. ASSUME NEW q \in Procs, ThreadStep(q)
          PROVE  frame'[p] = frame[p]
      <4>1. SendStep(q) \/ LoopStamp(q) \/ SendError(q)
        BY <3>1, ThreadStepMain DEF TypeOK
      <4>2. CASE q # p
        BY <4>1, <4>2, StepOthers DEF OthersUnchanged, TypeOK
      <4>3. CASE q = p
        BY <1>2, <4>1, <4>3 DEF LoopStamp
      <4> QED BY <4>2, <4>3
    <3> QED BY <3>1
  <2>3. NetworkStep \/ UNCHANGED vars => frame' = frame
    BY NetworkRelays DEF TypeOK, vars, sendVars
  <2>4. \A q \in Masters : StartMaster(q) => q = p \/ frame'[p] = frame[p]
    BY MdelayAssumption DEF StartMaster, Call, TypeOK, SendTypeOK
  <2>5. frame'[p] # frame[p]
    BY <1>6 DEF AtRest, Idle
  <2> QED BY <1>1, <2>1, <2>2, <2>3, <2>4, <2>5, NextCases, MdelayAssumption
<1> QED BY <1>1, <1>2, <1>5, <1>6, CallSteps

LEMMA BeginsStep ==
  ASSUME OrderInv, InSequence, [Next]_vars, NEW r \in Masters, NEW s \in Slaves
  PROVE  Begins(r, s)'
<1> USE DEF OrderInv
<1>0. /\ Begins(r, s) /\ host' = host /\ r \in Procs /\ s \in Procs /\ Procs = {r, s}
      /\ main \in [Procs -> Mains] /\ r \notin Slaves /\ s \notin Masters
  <2>1. Procs = {r, s}
    BY MdelayAssumption DEF InSequence, OneMaster, OneSlave
  <2> QED BY <2>1, HostsStay, MdelayAssumption DEF PairInv, TypeOK, MainTypeOK
<1>1. CASE StartMaster(r)
  <2>1. main'[r] = "recv" /\ main[r] = "down" /\ \A q \in Procs : host[q] = host[r] => ~Alive(q)
    BY <1>0, <1>1 DEF StartMaster, Start
  <2>2. main[s] = "recv"
    BY <1>1 DEF StartMaster, InSequence, OneSlave
  <2>3. main'[s] # "down" /\ host[r] # host[s]
    BY <1>0, <2>1, <2>2, StartSteps DEF Alive
  <2> QED BY <1>0, <2>1, <2>3 DEF Begins
<1>2. CASE ~StartMaster(r)
  <2>1. main'[r] = "down" => main[r] = "down" /\ AtRest(r)' /\ AtRest(s)'
    <3> SUFFICES ASSUME main'[r] = "down"
                 PROVE  main[r] = "down" /\ AtRest(r)' /\ AtRest(s)'
      OBVIOUS
    <3>1. main[r] = "down"
      BY <1>0, StartSteps
    <3>2. AtRest(r) /\ AtRest(s)
      BY <1>0, <3>1 DEF Begins
    <3>3. \A q \in Procs : wire[q] = <<>>
      BY <1>0, <3>2 DEF AtRest
    <3> QED BY <1>0, <1>2, <3>1, <3>2, <3>3, RestStays
  <2>2. main'[s] = "down" => main'[r] = "down"
    <3> SUFFICES ASSUME main'[s] = "down"
                 PROVE  main'[r] = "down"
      OBVIOUS
    <3>1. main[r] = "down"
      BY <1>0, StartSteps DEF Begins
    <3> QED BY <1>0, <1>2, <3>1, StartSteps
  <2>3. main'[r] # "down" => host'[r] # host'[s]
    <3>1. main'[r] # "down" => main[r] # "down"
      BY <1>0, <1>2, StartSteps
    <3> QED BY <1>0, <3>1 DEF Begins
  <2> QED BY <2>1, <2>2, <2>3 DEF Begins
<1> QED BY <1>1, <1>2

LEMMA PairStep ==
  ASSUME OrderInv, InSequence, [Next]_vars
  PROVE  PairInv'
<1>1. host' = host
  BY HostsStay DEF OrderInv
<1> QED BY <1>1, TalkStep, BeginsStep DEF PairInv, OrderInv

\* A step that neither sends nor receives.
LEMMA QuietStep ==
  ASSUME InTurnInv, UNCHANGED <<frame, txno, wire, rows, total>>,
         \A p \in Procs : \/ main'[p] = main[p]
                          \/ main'[p] \notin {"recv", "reply"}
                          \/ main[p] = "reply" /\ frame[p] = Idle /\ main'[p] # "reply"
  PROVE  InTurnInv'
<1>1. ASSUME NEW p \in Procs
      PROVE  Numbered(p)' /\ InTurn(p)' /\ Taken(p)' = Taken(p)
  <2>1. UNCHANGED <<frame[p], txno[p], wire[p]>>
    OBVIOUS
  <2> QED BY <2>1, QuietSender DEF InTurnInv
<1>2. ASSUME NEW p \in Procs, p \in Slaves
      PROVE  AnswersInTurn(p)'
  BY <1>2 DEF InTurnInv, AnswersInTurn
<1>3. ASSUME NEW p \in Procs, NEW q \in Procs \ {p}
      PROVE  Follows(q, p)'
  <2>1. UNCHANGED <<rows[q], total[q]>> /\ Follows(q, p) /\ Taken(p)' = Taken(p)
    BY <1>1, <1>3 DEF InTurnInv
  <2> QED BY <2>1, QuietReceiver
<1> QED BY <1>1, <1>2, <1>3 DEF InTurnInv

LEMMA StartInTurn ==
  ASSUME OrderInv, InSequence, NEW p \in Procs,
         (p \in Masters /\ StartMaster(p)) \/ (p \in Slaves /\ StartSlave(p))
  PROVE  InTurnInv'
<1> USE DEF OrderInv
<1>0. /\ main \in [Procs -> Mains] /\ frame \in [Procs -> Frames \cup {Idle}]
      /\ main' = [main EXCEPT ![p] = "recv"] /\ UNCHANGED <<txno, wire, rows, total>>
      /\ main[p] = "down"
  BY DEF StartMaster, StartSlave, Start, sendVars, TypeOK, MainTypeOK, SendTypeOK
<1>1. \A q \in Procs : AtRest(q)
  <2>1. PICK r \in Masters, s \in Slaves : Procs = {r, s}
    BY MdelayAssumption DEF InSequence, OneMaster, OneSlave
  <2>2. Begins(r, s)
    BY DEF PairInv
  <2>3. main[r] = "down"
    BY <1>0, <2>1, <2>2 DEF Begins
  <2> QED BY <2>1, <2>2, <2>3 DEF Begins
<1>2. \A q \in Procs : txno[q] = 0 /\ wire[q] = <<>> /\ frame[q] = Idle /\ total[q] = 0
  BY <1>1 DEF AtRest
<1>3. ASSUME NEW q \in Procs
      PROVE  \/ frame'[q] = Idle
             \/ q \in Masters /\ frame'[q].pc = "send" /\ CurrentSeq(q)' = 0
  <2>1. CASE p \in Slaves /\ StartSlave(p)
    BY <1>2, <2>1 DEF StartSlave, sendVars
  <2>2. CASE p \in Masters /\ StartMaster(p)
    <3>1. PICK dst : Call(p, "DELAY_REQ", N, 0, dst)
      BY <2>2 DEF StartMaster
    <3>2. CASE q # p
      BY <1>0, <1>2, <3>1, <3>2 DEF Call
    <3>3. CASE q = p
      <4> DEFINE f == [pc |-> "send", type |-> "DELAY_REQ", seq |-> 0, N |-> N, i |-> 0, dst |-> dst]
      <4>1. frame'[q] = LoopTop(f)
        BY <1>0, <3>1, <3>3 DEF Call
      <4>2. frame'[q] = Idle \/ frame'[q] = [f EXCEPT !.pc = "send"]
        BY <4>1 DEF LoopTop
      <4>3. CASE frame'[q] = [f EXCEPT !.pc = "send"]
        <5>1. frame'[q].pc = "send" /\ frame'[q].seq = 0 /\ frame'[q].i = 0
          BY <4>3
        <5> QED BY <2>2, <3>3, <5>1 DEF CurrentSeq
      <4> QED BY <4>2, <4>3
    <3> QED BY <3>2, <3>3
  <2> QED BY <2>1, <2>2
<1>4. ASSUME NEW q \in Procs
      PROVE  Numbered(q)' /\ InTurn(q)' /\ (q \in Slaves => AnswersInTurn(q)')
  <2>1. txno'[q] = 0 /\ wire'[q] = <<>> /\ total'[q] = 0
    BY <1>0, <1>2
  <2>2. Numbered(q)'
    <3>1. Len(wire'[q]) = 0
      BY <2>1
    <3> QED BY <2>1, <3>1 DEF Numbered
  <2>3. InTurn(q)'
    BY <1>3, <2>1 DEF InTurn, Idle
  <2>4. q \in Slaves => frame'[q] = Idle
    BY <1>3, MdelayAssumption
  <2> QED BY <2>1, <2>2, <2>3, <2>4 DEF AnswersInTurn
<1>5. ASSUME NEW q \in Procs, NEW x \in Procs \ {q}
      PROVE  Follows(x, q)'
  <2>1. total'[x] = 0 /\ txno'[q] = 0 /\ Len(wire'[q]) = 0
    BY <1>0, <1>2
  <2>2. Taken(q)' = 0
    BY <2>1 DEF Taken
  <2> QED BY <2>1, <2>2, SizeType DEF Follows, UpTo, Measured
<1> QED BY <1>4, <1>5 DEF InTurnInv

\* The routine: p sends, or fails.
LEMMA ThreadInTurn ==
  ASSUME OrderInv, NEW p \in Procs, ThreadStep(p)
  PROVE  InTurnInv'
<1> USE DEF OrderInv
<1>0. /\ main \in [Procs -> Mains] /\ Alive(p) /\ UNCHANGED <<rows, total>>
      /\ main' = main \/ main' = [main EXCEPT ![p] = "failed"]
  BY ThreadStepMain DEF TypeOK, MainTypeOK
<1>1. CASE LoopStamp(p)
  <2>1. UNCHANGED <<frame, txno, wire, rows, total>>
    BY <1>0, <1>1 DEF LoopStamp
  <2>2. \A q \in Procs : main'[q] = main[q] \/ main'[q] \notin {"recv", "reply"}
    BY <1>0
  <2> QED BY <2>1, <2>2, QuietStep
<1>2. SendStep(p) \/ SendError(p) => \A q \in Procs \ {p} : wire'[q] = wire[q]
  BY DEF TypeOK, SendTypeOK, SendStep, SendError, SendPacket, SendFollowUp, SendTo,
         ReadKernelStamp, DrainKernelStamp, EndIteration
<1>3. CASE SendStep(p) \/ SendError(p)
  <2>1. ASSUME NEW q \in Procs, q # p
        PROVE  UNCHANGED <<frame[q], txno[q], wire[q]>>
    BY <1>2, <1>3, <2>1, StepOthers DEF OthersUnchanged, TypeOK
  <2>2. Numbered(p)' /\ InTurn(p)' /\ Taken(p)' = Taken(p)
    <3>1. CASE SendStep(p)
      BY <3>1, StepInTurn DEF TypeOK, ProvenanceInv, InTurnInv
    <3>2. CASE SendError(p)
      <4>1. txno' = txno /\ wire' = wire /\ frame'[p].pc = "exited"
        BY <3>2, InCall DEF SendError, Goto, TypeOK, SendTypeOK, Frames
      <4>2. Numbered(p)' /\ Taken(p)' = Taken(p)
        <5>1. txno'[p] = txno[p] /\ wire'[p] = wire[p]
          BY <4>1
        <5> QED BY <5>1 DEF Numbered, Taken, SentAs, InTurnInv
      <4> QED BY <4>1, <4>2 DEF InTurn
    <3> QED BY <1>3, <3>1, <3>2
  <2>3. ASSUME NEW q \in Procs
        PROVE  Numbered(q)' /\ InTurn(q)' /\ Taken(q)' = Taken(q)
    BY <2>1, <2>2, QuietSender DEF InTurnInv
  <2>4. ASSUME NEW q \in Procs, q \in Slaves
        PROVE  AnswersInTurn(q)'
    <3>1. CASE q # p
      <4>1. main'[q] = main[q] /\ UNCHANGED <<frame[q], txno[q], total[q]>>
        BY <1>0, <2>1, <3>1
      <4> QED BY <2>4, <4>1 DEF InTurnInv, AnswersInTurn
    <3>2. CASE q = p /\ SendStep(p) /\ main' = main
      BY <1>0, <2>4, <3>2, StepAnswers DEF TypeOK, InTurnInv
    <3>3. CASE q = p /\ main' = [main EXCEPT ![p] = "failed"]
      BY <1>0, <3>3 DEF AnswersInTurn
    <3>4. SendError(p) => main' = [main EXCEPT ![p] = "failed"] \/ SendStep(p) \/ LoopStamp(p)
      BY DEF ThreadStep, Thread, Kernel, ThreadFails
    <3>5. CASE q = p /\ LoopStamp(p) /\ main' = main
      BY <2>4, <3>5, <1>0 DEF LoopStamp, InTurnInv, AnswersInTurn
    <3> QED BY <1>0, <1>3, <3>1, <3>2, <3>3, <3>4, <3>5
  <2>5. ASSUME NEW x \in Procs, NEW q \in Procs \ {x}
        PROVE  Follows(q, x)'
    <3>1. UNCHANGED <<rows[q], total[q]>> /\ Follows(q, x) /\ Taken(x)' = Taken(x)
      BY <1>0, <2>3, <2>5 DEF InTurnInv
    <3>2. main'[q] = main[q] \/ main'[q] \notin {"recv", "reply"}
      BY <1>0
    <3> QED BY <3>1, <3>2, QuietReceiver
  <2> QED BY <2>3, <2>4, <2>5 DEF InTurnInv
<1> QED BY <1>1, <1>3, ThreadStepMain DEF TypeOK

\* A reception, by q of what p sent.
LEMMA ReceptionInTurn ==
  ASSUME OrderInv, InSequence, NEW q \in Procs, NEW p \in Procs,
         OwnReception(q, p), Reception(q, p)
  PROVE  InTurnInv'
<1> USE DEF OrderInv
<1>0. q # p /\ RxStamps \subseteq {"hw", "none"}
  BY FromTheOther DEF InSequence
<1>1. Procs = {p, q}
  BY <1>0, MdelayAssumption DEF InSequence, OneMaster, OneSlave
<1>2. /\ Numbered(p) /\ InTurn(p) /\ Follows(q, p) /\ Numbered(q) /\ InTurn(q) /\ Follows(p, q)
      /\ q \in Slaves => AnswersInTurn(q)
      /\ p \in Slaves => AnswersInTurn(p)
  BY <1>0 DEF InTurnInv
<1> DEFINE d == Head(wire[p])
<1>9. /\ d.id \in TxIds /\ Taking(q, p, d.id)
      /\ UpTo({}, q, p, Taken(p), total[q], rows[q])
      /\ Measured({}, q, p, total[q], rows[q])
      /\ d.type \notin FollowUps => Near({}, q, p, d.seq, d.id)
  <2>1. d \in Packets /\ wire[p] # <<>> /\ main[q] = "recv"
    BY ReceptionReceives, ReceiveTakes DEF TypeOK, Receive
  <2>2. SentAs(d, p, Taken(p) + 1) /\ Taken(p) \in Nat
    BY <1>2, <2>1, TakenType DEF TypeOK, SendTypeOK, Numbered
  <2>3. d.type \notin FollowUps => d.id = Packet(p, d.seq)
    BY <2>1, <2>2 DEF SentAs, Packet, Packets
  <2> QED BY <1>2, <2>1, <2>3 DEF OwnReception, Packets, Follows, Near
<1> HIDE DEF d
<1>3. Numbered(p)' /\ Follows(q, p)'
  BY <1>0, <1>2, <1>9, ReceptionInOrder DEF Follows, d
<1>4. InTurn(q)' /\ (q \in Slaves => AnswersInTurn(q)')
  BY <1>0, <1>2, <1>9, ReceptionAnswers DEF d
<1>5. /\ main'[p] = main[p] /\ total'[p] = total[p] /\ txno' = txno /\ frame'[p] = frame[p]
      /\ wire'[q] = wire[q] /\ rows'[p] = rows[p]
  <2>1. main'[p] = main[p] /\ total'[p] = total[p]
    BY <1>0, MainOthers
  <2>2. txno' = txno
    BY ReceptionReceives
  <2>3. frame'[p] = frame[p]
    BY <1>0, ReceptionFrame DEF Call, TypeOK, SendTypeOK
  <2>4. wire'[q] = wire[q]
    BY <1>0, ReceptionReceives, ReceiveTakes DEF TypeOK, SendTypeOK
  <2>5. rows'[p] = rows[p]
    BY <1>0 DEF TypeOK, MainTypeOK, Reception, Taking, RespStamped, ReqStamped, RecvRespFollowUp,
                RecvReqFollowUp, RecvUnknown, Stop
  <2> QED BY <2>1, <2>2, <2>3, <2>4, <2>5
<1>6. InTurn(p)' /\ (p \in Slaves => AnswersInTurn(p)')
  BY <1>2, <1>5 DEF InTurn, CurrentSeq, AnswersInTurn
<1>7. Numbered(q)' /\ Taken(q)' = Taken(q)
  <2>1. wire'[q] = wire[q] /\ txno'[q] = txno[q]
    BY <1>5
  <2> QED BY <1>2, <2>1 DEF Numbered, Taken, SentAs
<1>8. Follows(p, q)'
  BY <1>2, <1>5, <1>7, QuietReceiver
<1> QED BY <1>1, <1>3, <1>4, <1>6, <1>7, <1>8 DEF InTurnInv

\* What the network does not deliver, nobody waits for.
LEMMA NetworkInTurn ==
  ASSUME OrderInv, InSequence, NetworkStep
  PROVE  InTurnInv'
<1> USE DEF OrderInv
<1>1. PICK p \in Procs : Unread(p)
  BY DEF NetworkStep, InSequence, Lose, Duplicate, Swap, Fault
<1>2. /\ UNCHANGED <<frame, txno, main, rows, total>> /\ wire[p] # <<>>
      /\ wire'[p] = Tail(wire[p]) /\ \A q \in Procs \ {p} : wire'[q] = wire[q]
  BY <1>1 DEF Unread, mainVars, TypeOK, SendTypeOK
<1>3. ASSUME NEW q \in Procs, q # p
      PROVE  Numbered(q)' /\ Taken(q)' = Taken(q)
  <2>1. wire'[q] = wire[q] /\ txno'[q] = txno[q]
    BY <1>2, <1>3
  <2> QED BY <2>1 DEF Numbered, Taken, SentAs, InTurnInv
<1>4. Numbered(p)'
  BY <1>2, TakeNext DEF TypeOK, InTurnInv
<1>5. ASSUME NEW q \in Procs
      PROVE  InTurn(q)' /\ (q \in Slaves => AnswersInTurn(q)')
  BY <1>2 DEF InTurn, CurrentSeq, AnswersInTurn, InTurnInv
<1>6. ASSUME NEW x \in Procs, NEW q \in Procs \ {x}
      PROVE  Follows(q, x)'
  <2>1. UNCHANGED <<rows[q], total[q]>> /\ Follows(q, x) /\ main'[q] = main[q]
    BY <1>2 DEF InTurnInv
  <2>2. CASE x # p
    BY <1>3, <2>1, <2>2, QuietReceiver
  <2>3. CASE x = p
    <3>1. Head(wire[p]).dst = host[q]
      BY <1>2, <2>3, ForTheOther
    <3>2. main[q] \notin {"recv", "reply"}
      BY <1>1, <3>1 DEF Unread
    <3> QED BY <2>1, <3>2, QuietReceiver
  <2> QED BY <2>2, <2>3
<1> QED BY <1>3, <1>4, <1>5, <1>6 DEF InTurnInv

LEMMA InTurnStep ==
  ASSUME OrderInv, InSequence, [Next]_vars
  PROVE  InTurnInv'
<1> USE DEF OrderInv
<1>0. main \in [Procs -> Mains] /\ Masters \subseteq Procs /\ Slaves \subseteq Procs
  BY MdelayAssumption DEF TypeOK, MainTypeOK
<1>1. CASE UNCHANGED vars
  <2>1. UNCHANGED <<frame, txno, wire, rows, total, main>>
    BY <1>1 DEF vars, sendVars, mainVars
  <2> QED BY <2>1, QuietStep
<1>2. ASSUME NEW p \in Procs, (p \in Slaves /\ EndReply(p)) \/ Store(p) \/ Crash(p)
      PROVE  InTurnInv'
  <2>1. UNCHANGED <<frame, txno, wire, rows, total>>
    BY <1>2 DEF EndReply, Store, Crash, sendVars
  <2>2. \A q \in Procs : \/ main'[q] = main[q]
                         \/ main'[q] \notin {"recv", "reply"}
                         \/ main[q] = "reply" /\ frame[q] = Idle /\ main'[q] # "reply"
    BY <1>0, <1>2 DEF EndReply, LoopTest, Store, Crash
  <2> QED BY <2>1, <2>2, QuietStep
<1> QED BY <1>0, <1>1, <1>2, StartInTurn, ThreadInTurn, ReceptionInTurn, NetworkInTurn, NextCases

\* Each program reads what the other sends, and all of it, in order.
LEMMA OrderInvariant ==
  ASSUME InSequence
  PROVE  Spec => []OrderInv
<1>0. StampOrders = {SwThenHw}
  BY DEF InSequence
<1>1. Init => PairInv /\ InTurnInv
  <2> SUFFICES ASSUME Init
               PROVE  PairInv /\ InTurnInv
    OBVIOUS
  <2>1. \A p \in Procs : AtRest(p) /\ main[p] = "down"
    BY DEF Init, SendInit, AtRest
  <2>2. PairInv
    <3>1. host \in Hosts
      BY DEF Init
    <3>2. ASSUME NEW r \in Masters, NEW s \in Slaves
          PROVE  Talk(r, s) /\ Begins(r, s)
      <4>1. r \in Procs /\ s \in Procs
        BY MdelayAssumption
      <4>2. wire[r] = <<>> /\ frame[r] = Idle /\ total[s] = 0
        BY <2>1, <4>1 DEF AtRest
      <4>3. wire[r] \in Seq(PacketsTo(host[s]))
        BY <4>2
      <4> QED BY <2>1, <4>1, <4>2, <4>3 DEF Talk, Begins
    <3> QED BY <3>1, <3>2 DEF PairInv
  <2>3. InTurnInv
    <3>1. \A p \in Procs : Numbered(p) /\ InTurn(p) /\ AnswersInTurn(p)
      BY <2>1, AtRestOrder
    <3>2. \A p \in Procs, q \in Procs : Follows(q, p)
      <4>1. \A q \in Procs : total[q] = 0
        BY <2>1 DEF AtRest
      <4> QED BY <2>1, <4>1, AtRestFollows
    <3> QED BY <3>1, <3>2 DEF InTurnInv
  <2> QED BY <2>2, <2>3
<1>2. TypeOK /\ ProvenanceInv /\ ClientInv /\ PairInv /\ InTurnInv /\ [Next]_vars
        => (PairInv /\ InTurnInv)'
  BY PairStep, InTurnStep DEF OrderInv
<1> QED BY <1>0, <1>1, <1>2, TypeCorrect, ProvenanceInvariant, ClientInvariant, PTL DEF Spec, OrderInv

\* Every number that a program stores is the delay of one datagram, and no two
\* are of the same, however many measurements there are: if the network
\* delivers in order and loses nothing that somebody reads (util.c:170-177,
\* master.c:143-173, slave.c:127-162).
THEOREM StoredAreReal ==
  ASSUME InSequence
  PROVE  Spec => []StoredDelaysAreReal
<1>1. Init => StoredDelaysAreReal
  <2> SUFFICES ASSUME Init, NEW p \in Procs
               PROVE  RealDelays(results[p].rows)
    BY DEF StoredDelaysAreReal
  <2>1. results[p].rows = <<>> /\ Len(<<>>) = 0
    BY DEF Init, NoFile
  <2> QED BY <2>1 DEF RealDelays
<1>2. ASSUME OrderInv, StoredDelaysAreReal, [Next]_vars
      PROVE  StoredDelaysAreReal'
  <2> SUFFICES ASSUME NEW p \in Procs
               PROVE  RealDelays(results'[p].rows)
    BY DEF StoredDelaysAreReal, RealDelays
  <2>0. RealDelays(results[p].rows) /\ results \in [Procs -> [file : Files, rows : Seq(Rows)]]
    BY <1>2 DEF StoredDelaysAreReal, OrderInv, TypeOK, MainTypeOK
  <2>1. CASE results'[p] = results[p]
    BY <2>0, <2>1
  <2>2. CASE Store(p)
    <3>1. PICK q \in Procs : q # p
      BY MdelayAssumption DEF InSequence
    <3>2. Follows(p, q)
      BY <1>2, <3>1 DEF OrderInv, InTurnInv
    <3>3. Measured({}, p, q, total[p], rows[p])
      BY <3>2 DEF Follows
    <3>4. results'[p] = results[p] \/ RealDelays(results'[p].rows)
      BY <1>2, <2>2, <3>3, StoreReal DEF OrderInv
    <3> QED BY <2>0, <3>4
  <2>3. ASSUME NEW x \in Procs, Store(x), x # p
        PROVE  results'[p] = results[p]
    BY <2>0, <2>3 DEF Store
  <2>4. \A x \in Procs : StartMaster(x) \/ StartSlave(x) \/ EndReply(x) \/ Crash(x)
                           => results' = results
    BY DEF StartMaster, StartSlave, Start, EndReply, Crash
  <2>5. \A x \in Procs : ThreadStep(x) => results' = results
    BY <1>2, ThreadStepMain DEF OrderInv, TypeOK
  <2>6. \A x \in Procs, q \in Procs : Reception(x, q) => results' = results
    BY ReceptionReceives
  <2>7. NetworkStep \/ UNCHANGED vars => results' = results
    BY <1>2, NetworkRelays DEF OrderInv, TypeOK, vars, mainVars
  <2>8. TypeOK
    BY <1>2 DEF OrderInv
  <2> QED BY <1>2, <2>1, <2>2, <2>3, <2>4, <2>5, <2>6, <2>7, <2>8, NextCases, MdelayAssumption
<1> QED BY <1>1, <1>2, OrderInvariant, PTL DEF Spec

-----------------------------------------------------------------------------
(* The measurement over TCP *)

\* No recvmsg of p has failed.
Sound(p) == reset[p] # "seen"

\* Who talks to whom: a program that has no peer has done nothing.
PeerOf(p) ==
  /\ peer[p] \in Procs =>
       /\ peer[peer[p]] = p /\ main[p] # "down"
       /\ p \in Masters <=> peer[p] \in Slaves
       /\ p \in Slaves => remote[p] \in Dests
  /\ peer[p] \notin Procs => AtRest(p) /\ main[p] \in {"down", "failed"}

PeerInv ==
  /\ peer \in [Procs -> Procs \cup {Nobody, Anybody}]
  /\ \A p \in Procs : PeerOf(p)

\* How far the bytes of p have come.
BytesInOrder(p) == 0 <= got[p] /\ got[p] <= arrived[p] /\ arrived[p] <= Sent(p)

StreamTypeInv ==
  /\ TypeOK /\ RemoteKnown /\ PeerInv
  /\ arrived \in [Procs -> Nat] /\ got \in [Procs -> Nat]
  /\ \A p \in Procs : BytesInOrder(p)
  /\ reset \in [Procs -> {"no", "pending", "seen"}]

\* A read ends where a message of a master ends, or where one was cut; behind
\* such an end there is only one more read.
CutInv(r) ==
  /\ arrived[r] % 900 \in Cuts \cup {0}
  /\ \/ got[r] = 900 * Begun(r)
     \/ \E c \in Cuts : got[r] = 900 * (Begun(r) - 1) + c
     \/ /\ \A q \in Procs : peer[q] = r => Ended(q)
        /\ Aligned(r) \/ got[r] % 900 \in Cuts

\* Who may have another stamp than its own in the row of the message of p read
\* last: a slave, or anybody who has read beyond it.
Astray(p) == IF Aligned(p) THEN Slaves ELSE Procs

\* As long as it receives, q has read every message that p sent, in order, and
\* the stamps of those that it has counted are right, or for a slave too late.
Heeds(q, p) ==
  /\ main[q] \in {"recv", "reply"} => UpTo(Astray(p), q, p, Taken(p), total[q], rows[q])
  /\ Measured(Slaves, q, p, total[q], rows[q])

\* It has sent what its numbers say, and read its peer's messages in order.
InStep(p) ==
  /\ InTurn(p) /\ (p \in Slaves => AnswersInTurn(p))
  /\ \A q \in Procs : peer[p] = q => Heeds(p, q)

\* What holds after a failed recvmsg too, and what only before one.
StreamOrder(p) == Numbered(p) /\ QueueInv(p) /\ (Sound(p) => InStep(p))

StreamOrderInv == \A p \in Procs : StreamOrder(p)
CutsInv == \A r \in Masters : CutInv(r)

-----------------------------------------------------------------------------
(* Types *)

\* The steps that are steps of Mdelay too.
Shared(p) ==
  \/ Store(p) \/ (p \in Slaves /\ EndReply(p)) \/ Kernel(p) \/ Crash(p)
  \/ Thread(p) /\ (reset[p] = "no" \/ ~AtSendto(p))

LEMMA SharedIsNext ==
  ASSUME NEW p \in Procs, Shared(p)
  PROVE  Next
  BY MdelayAssumption DEF Shared, Next, MasterStep, SlaveStep

LEMMA ReadBytes ==
  ASSUME arrived \in [Procs -> Nat], got \in [Procs -> Nat], NEW q \in Procs, NEW p \in Procs,
         Reads(q, p), got[p] <= arrived[p]
  PROVE  /\ got[p] < got'[p] /\ got'[p] <= arrived[p]
         /\ got'[p] = got[p] + 900 \/ (got'[p] = arrived[p] /\ got'[p] <= got[p] + 900)
         /\ got' \in [Procs -> Nat] /\ arrived' = arrived
         /\ \A x \in Procs \ {p} : got'[x] = got[x]
<1> DEFINE n == IF Waiting(p) < 900 THEN Waiting(p) ELSE 900
<1>1. got' = [got EXCEPT ![p] = @ + n] /\ Waiting(p) > 0 /\ arrived' = arrived
  BY DEF Reads, ReadLength
<1>2. Waiting(p) = arrived[p] - got[p] /\ arrived[p] \in Nat /\ got[p] \in Nat
  BY DEF Waiting
<1>3. n \in Nat /\ n > 0 /\ n <= arrived[p] - got[p] /\ n <= 900
      /\ (n = 900 \/ n = arrived[p] - got[p])
  BY <1>1, <1>2
<1>4. got'[p] = got[p] + n /\ got' \in [Procs -> Nat]
      /\ \A x \in Procs \ {p} : got'[x] = got[x]
  <2> HIDE DEF n
  <2> QED BY <1>1, <1>2, <1>3
<1> HIDE DEF n
<1> QED BY <1>1, <1>2, <1>3, <1>4

\* How many messages the first g bytes of p belong to.
LEMMA MessagesOf ==
  ASSUME NEW p \in Procs, NEW b \in Int, NEW g \in Nat \ {0}, b * Length(p) < g
  PROVE  /\ Messages(p, g) \in Nat /\ Messages(p, g) > b /\ Messages(p, g) > 0
         /\ g = (b + 1) * Length(p) => Messages(p, g) = b + 1
<1>1. CASE Length(p) = 900
  BY <1>1 DEF Messages
<1>2. CASE Length(p) = 890
  BY <1>2 DEF Messages
<1> QED BY <1>1, <1>2 DEF Length

\* A message is taken with a stamp that is no older than its own; if what is
\* read ends where a message of 890 bytes ends, with its own.
LEMMA ReadTakes ==
  ASSUME StreamTypeInv, NEW q \in Procs, NEW p \in Procs, ReadMessage(q, p)
  PROVE  \E x \in TxIds :
           /\ Taking(q, p, x)
           /\ Head(wire[p]).type \notin FollowUps =>
                \E j \in Nat : /\ j > Taken(p) /\ x = <<p, j>>
                               /\ (Aligned(p)' /\ p \notin Masters) => j = Taken(p) + 1
<1> USE DEF StreamTypeInv
<1> DEFINE d == Head(wire[p])
<1>0. /\ arrived \in [Procs -> Nat] /\ got \in [Procs -> Nat] /\ BytesInOrder(p)
      /\ Reads(q, p) /\ Aligned(p) /\ txno[p] \in Nat /\ wire[p] \in Seq(Packets)
      /\ Taken(p) = Begun(p) /\ Taken(p) \in Int
  BY DEF ReadMessage, TypeOK, SendTypeOK, Taken, Begun
<1>1. CASE \/ q \in Masters /\ RecvRespFollowUp(q, p)
           \/ q \in Slaves /\ RecvReqFollowUp(q, p)
  <2>1. d.type \in FollowUps
    BY <1>1 DEF RecvRespFollowUp, RecvReqFollowUp, Receive, FollowUps
  <2>2. <<p, 1>> \in TxIds
    BY DEF TxIds
  <2>3. Taking(q, p, <<p, 1>>)
    BY <1>1 DEF Taking
  <2> QED BY <2>1, <2>2, <2>3
<1>2. ASSUME NEW rx \in RxStamps, NEW x \in SegmentStamps(p),
             \/ q \in Masters /\ RespStamped(q, p, rx, x)
             \/ q \in Slaves /\ ReqStamped(q, p, rx, x)
      PROVE  \E y \in TxIds :
               /\ Taking(q, p, y)
               /\ \E j \in Nat : /\ j > Taken(p) /\ y = <<p, j>>
                                 /\ (Aligned(p)' /\ p \notin Masters) => j = Taken(p) + 1
  <2>1. PICK j \in Messages(p, got'[p])..Messages(p, arrived[p]) : x = <<p, j>>
    BY <1>2 DEF SegmentStamps
  <2>2. /\ got[p] < got'[p] /\ got'[p] <= arrived[p]
        /\ got'[p] = got[p] + 900 \/ (got'[p] = arrived[p] /\ got'[p] <= got[p] + 900)
        /\ got[p] \in Nat /\ got'[p] \in Nat /\ arrived[p] \in Nat
    BY <1>0, ReadBytes DEF BytesInOrder
  <2>3. got[p] = Taken(p) * Length(p)
    BY <1>0 DEF Aligned
  <2>4. j \in Int /\ j > Taken(p) /\ j > 0
    <3>1. Messages(p, got'[p]) \in Nat /\ Messages(p, got'[p]) > Taken(p) /\ Messages(p, got'[p]) > 0
      <4>1. got'[p] \in Nat \ {0} /\ Taken(p) * Length(p) < got'[p]
        BY <2>2, <2>3
      <4> QED BY <1>0, <4>1, MessagesOf
    <3> QED BY <1>0, <2>1, <3>1
  <2>5. ASSUME Aligned(p)', p \notin Masters
        PROVE  j = Taken(p) + 1
    <3>1. Begun(p)' = Taken(p) + 1
      <4>1. PICK type \in Types : Receive(p, q, type)
        BY <1>2 DEF RespStamped, ReqStamped, Types, Requests
      <4>2. wire[p] # <<>> /\ wire'[p] = Tail(wire[p])
        BY <4>1, ReceiveTakes DEF TypeOK, SendTypeOK
      <4>3. txno' = txno
        BY <1>2 DEF RespStamped, ReqStamped
      <4>4. Len(wire'[p]) = Len(wire[p]) - 1 /\ Len(wire[p]) \in Nat
        BY <1>0, <4>2
      <4> QED BY <1>0, <4>3, <4>4 DEF Begun, Taken
    <3>2. got'[p] = (Taken(p) + 1) * 890 /\ got[p] = Taken(p) * 890
      BY <2>3, <2>5, <3>1 DEF Aligned, Length
    <3>3. got'[p] = arrived[p]
      BY <1>0, <2>2, <3>2
    <3>4. j = Messages(p, got'[p])
      <4>1. Messages(p, got'[p]) \in Nat
        <5>1. got'[p] \in Nat \ {0} /\ Taken(p) * Length(p) < got'[p]
          BY <2>2, <2>3
        <5> QED BY <1>0, <5>1, MessagesOf
      <4> QED BY <2>1, <3>3, <4>1
    <3>5. Messages(p, got'[p]) = Taken(p) + 1
      <4>1. got'[p] \in Nat \ {0} /\ Taken(p) * Length(p) < got'[p]
        BY <2>2, <2>3
      <4>2. got'[p] = (Taken(p) + 1) * Length(p)
        BY <2>5, <3>2 DEF Length
      <4> QED BY <1>0, <4>1, <4>2, MessagesOf
    <3> QED BY <3>4, <3>5
  <2>6. x \in TxIds
    BY <2>1, <2>4 DEF TxIds
  <2>7. Taking(q, p, x)
    BY <1>2 DEF Taking
  <2>8. j \in Nat
    BY <2>4
  <2> QED BY <2>1, <2>4, <2>5, <2>6, <2>7, <2>8
<1> QED BY <1>1, <1>2 DEF ReadMessage

LEMMA ReadIsReception ==
  ASSUME StreamTypeInv, NEW q \in Procs, NEW p \in Procs, ReadMessage(q, p)
  PROVE  Reception(q, p)
  BY ReadTakes DEF Reception

\* q leaves its loop, for whatever reason, without a message.
Departs(q) ==
  /\ \E how \in {"failed", "undefined", "store"} : main' = [main EXCEPT ![q] = how]
  /\ assigned' \in {assigned, [assigned EXCEPT ![q] = TRUE]}
  /\ UNCHANGED <<host, sendVars, rows, total, remote, results, faults, peer, arrived>>

LEMMA ReadingDeparts ==
  ASSUME NEW q \in Procs, NEW p \in Procs,
         ReadSkewed(q, p) \/ ReadEof(q, p) \/ ReadErrorAnything(q, p)
  PROVE  Departs(q)
  BY DEF ReadSkewed, Reads, ReadEof, ReadErrorAnything, ReadError, Stop, Departs, streamVars,
         sendVars

LEMMA EndingDeparts ==
  ASSUME NEW q \in Procs, ConnectRefused(q) \/ Killed(q)
  PROVE  Departs(q) /\ UNCHANGED streamVars
  BY DEF ConnectRefused, Killed, Stop, Departs, streamVars

LEMMA StreamCases ==
  ASSUME StreamNext
  PROVE  \/ \E s \in Slaves : Listen(s)
         \/ \E r \in Masters : Connect(r) \/ ConnectRefused(r)
         \/ \E p \in Procs : Deliver(p) \/ Cut(p) \/ Reset(p) \/ Killed(p)
         \/ \E q, p \in Procs : \/ ReadMessage(q, p) \/ ReadErrorAgain(q, p)
                                \/ ReadSkewed(q, p) \/ ReadEof(q, p) \/ ReadErrorAnything(q, p)
         \/ \E p \in Procs : Shared(p) /\ UNCHANGED streamVars
<1>1. ASSUME NEW q \in Procs, MainThread(q)
      PROVE  \/ \E p \in Procs : \/ ReadMessage(q, p) \/ ReadErrorAgain(q, p)
                                 \/ ReadSkewed(q, p) \/ ReadEof(q, p) \/ ReadErrorAnything(q, p)
             \/ Shared(q) /\ UNCHANGED streamVars
  BY <1>1 DEF MainThread, Shared
<1>2. ASSUME NEW p \in Procs,
             \/ SendThread(p)
             \/ Kernel(p) /\ UNCHANGED streamVars
             \/ Crash(p) /\ UNCHANGED streamVars
      PROVE  Shared(p) /\ UNCHANGED streamVars
  BY <1>2 DEF SendThread, Shared
<1>3. ASSUME NEW p \in Procs, ProcessStep(p)
      PROVE  \/ Deliver(p) \/ Reset(p) \/ Killed(p)
             \/ \E r \in Procs : \/ ReadMessage(p, r) \/ ReadErrorAgain(p, r) \/ ReadSkewed(p, r)
                                 \/ ReadEof(p, r) \/ ReadErrorAnything(p, r)
             \/ Shared(p) /\ UNCHANGED streamVars
  <2>1. CASE MainThread(p)
    BY <1>1, <2>1
  <2>2. CASE ~MainThread(p)
    BY <1>2, <1>3, <2>2 DEF ProcessStep
  <2> QED BY <2>1, <2>2
<1>4. ASSUME NEW p \in Procs, ProcessStep(p) \/ Cut(p) \/ (Crash(p) /\ UNCHANGED streamVars)
      PROVE  \/ Deliver(p) \/ Cut(p) \/ Reset(p) \/ Killed(p)
             \/ \E r \in Procs : \/ ReadMessage(p, r) \/ ReadErrorAgain(p, r) \/ ReadSkewed(p, r)
                                 \/ ReadEof(p, r) \/ ReadErrorAnything(p, r)
             \/ Shared(p) /\ UNCHANGED streamVars
  <2>1. CASE ProcessStep(p)
    BY <1>3, <2>1
  <2>2. CASE Cut(p)
    BY <2>2
  <2>3. CASE Crash(p) /\ UNCHANGED streamVars
    BY <1>2, <2>3
  <2> QED BY <1>4, <2>1, <2>2, <2>3
<1>5. CASE \E s \in Slaves : Listen(s)
  BY <1>5
<1>6. CASE \E r \in Masters : Connect(r) \/ ConnectRefused(r)
  BY <1>6
<1>7. CASE \E p \in Procs : ProcessStep(p) \/ Cut(p) \/ (Crash(p) /\ UNCHANGED streamVars)
  <2>1. PICK p \in Procs : ProcessStep(p) \/ Cut(p) \/ (Crash(p) /\ UNCHANGED streamVars)
    BY <1>7
  <2> QED BY <1>4, <2>1
<1> QED BY <1>5, <1>6, <1>7 DEF StreamNext

LEMMA StreamTypeStep ==
  ASSUME StreamTypeInv, [StreamNext]_allVars
  PROVE  TypeOK' /\ RemoteKnown'
<1> USE DEF StreamTypeInv
<1>1. [Next]_vars => TypeOK' /\ RemoteKnown'
  BY NextType
<1> USE DEF TypeOK
<1>0. /\ main \in [Procs -> Mains] /\ assigned \in [Procs -> BOOLEAN] /\ faults \in Nat
      /\ Masters \subseteq Procs /\ Slaves \subseteq Procs
      /\ remote \in [Slaves -> Dests \cup {Zero}] /\ total \in [Procs -> Nat]
      /\ host \in [Procs -> Dests]
  BY MdelayAssumption DEF MainTypeOK
<1>2. ASSUME NEW q \in Procs, Departs(q)
      PROVE  TypeOK' /\ RemoteKnown'
  <2>1. main' \in [Procs -> Mains] /\ assigned' \in [Procs -> BOOLEAN]
    BY <1>0, <1>2 DEF Departs, Mains
  <2>2. SendTypeOK'
    BY <1>2 DEF Departs, SendTypeOK, sendVars
  <2> QED BY <1>2, <2>1, <2>2 DEF Departs, MainTypeOK, RemoteKnown, Size
<1>3. ASSUME NEW p \in Procs, Cut(p)
      PROVE  TypeOK' /\ RemoteKnown'
  <2>1. faults' \in Nat
    BY <1>0, <1>3 DEF Cut, Fault
  <2>2. SendTypeOK' /\ RemoteKnown'
    BY <1>3 DEF Cut, SendTypeOK, sendVars, mainVars, RemoteKnown
  <2> QED BY <1>3, <2>1, <2>2 DEF Cut, MainTypeOK, mainVars, Size
<1>4. ASSUME NEW r \in Masters, Connect(r)
      PROVE  TypeOK' /\ RemoteKnown'
  <2>1. PICK slave_ip \in SlaveAddresses, s \in Slaves :
          /\ main' = [main EXCEPT ![r] = "recv", ![s] = "recv"]
          /\ remote' = [remote EXCEPT ![s] = host[r]]
          /\ Call(r, "DELAY_REQ", N, 0, slave_ip)
    BY <1>4 DEF Connect
  <2>2. main' \in [Procs -> Mains] /\ remote' \in [Slaves -> Dests \cup {Zero}]
    BY <1>0, <2>1 DEF Mains
  <2>3. UNCHANGED <<host, owed, errq, wire, txno, rows, total, assigned, results, faults>>
    BY <1>4 DEF Connect
  <2>4. frame' \in [Procs -> Frames \cup {Idle}]
    <3>1. slave_ip \in Dests /\ N \in Nat /\ "DELAY_REQ" \in Requests
      BY MdelayAssumption DEF Requests
    <3> QED BY <1>0, <2>1, <3>1, CallType
  <2>5. SendTypeOK'
    BY <2>3, <2>4 DEF SendTypeOK
  <2>6. MainTypeOK'
    BY <2>2, <2>3 DEF MainTypeOK, Size
  <2>7. RemoteKnown'
    BY <1>0, <2>1, <2>3 DEF RemoteKnown
  <2> QED BY <2>5, <2>6, <2>7
<1>5. ASSUME NEW q \in Procs, NEW p \in Procs, ReadErrorAgain(q, p)
      PROVE  TypeOK' /\ RemoteKnown'
  <2>1. /\ UNCHANGED <<host, owed, errq, wire, txno, rows, remote, results, faults>>
        /\ peer[q] = p /\ main[q] = "recv" /\ Begun(p) > 0
    BY <1>5 DEF ReadErrorAgain, ReadError
  <2>2. /\ main' \in [Procs -> Mains] /\ assigned' \in [Procs -> BOOLEAN]
        /\ \/ UNCHANGED <<frame, total>>
           \/ total' = [total EXCEPT ![q] = @ + 1] /\ q \in Masters /\ UNCHANGED frame
           \/ /\ total' = [total EXCEPT ![q] = @ + 1] /\ q \notin Masters
              /\ Begun(p) % 2 # 1
              /\ Call(q, "DELAY_RESP", 1, Begun(p) \div 2 - 1, remote[q])
    <3>1. \A t : LoopTest(q, t) => main' \in [Procs -> Mains] /\ assigned' \in [Procs -> BOOLEAN]
      BY LoopTestType
    <3>2. CASE Begun(p) % 2 = 1
      BY <1>5, <3>1, <3>2 DEF ReadErrorAgain
    <3>3. CASE Begun(p) % 2 # 1 /\ q \in Masters
      BY <1>5, <3>1, <3>3 DEF ReadErrorAgain
    <3>4. CASE Begun(p) % 2 # 1 /\ q \notin Masters
      <4>1. main' = [main EXCEPT ![q] = "reply"] /\ assigned' = assigned
        BY <1>5, <3>4 DEF ReadErrorAgain
      <4>2. main' \in [Procs -> Mains]
        BY <1>0, <4>1 DEF Mains
      <4> QED BY <1>0, <1>5, <3>4, <4>1, <4>2 DEF ReadErrorAgain
    <3> QED BY <3>2, <3>3, <3>4
  <2>3. total' \in [Procs -> Nat]
    BY <1>0, <2>2
  <2>4. frame' \in [Procs -> Frames \cup {Idle}]
    <3>1. CASE UNCHANGED frame
      BY <3>1 DEF SendTypeOK
    <3>2. CASE /\ q \notin Masters /\ Begun(p) % 2 # 1
               /\ Call(q, "DELAY_RESP", 1, Begun(p) \div 2 - 1, remote[q])
      <4>1. remote[q] \in Dests
        BY <1>0, <2>1, <3>2, MdelayAssumption DEF PeerInv, PeerOf
      <4>2. Begun(p) \in Int
        BY DEF Begun, SendTypeOK
      <4>3. Begun(p) \div 2 - 1 \in Nat
        BY <2>1, <3>2, <4>2
      <4> QED BY <3>2, <4>1, <4>3, CallType DEF Requests
    <3> QED BY <2>2, <3>1, <3>2
  <2>5. SendTypeOK'
    BY <2>1, <2>4 DEF SendTypeOK
  <2>6. MainTypeOK'
    BY <2>1, <2>2, <2>3 DEF MainTypeOK, Size
  <2>7. RemoteKnown'
    <3>1. ASSUME NEW s \in Slaves, total'[s] > 0
          PROVE  remote'[s] \in Dests
      <4>1. CASE s = q
        BY <1>0, <2>1, <4>1 DEF PeerInv, PeerOf
      <4>2. CASE s # q
        <5>1. total'[s] = total[s]
          BY <1>0, <2>2, <4>2
        <5> QED BY <2>1, <3>1, <5>1 DEF RemoteKnown
      <4> QED BY <4>1, <4>2
    <3> QED BY <3>1 DEF RemoteKnown
  <2> QED BY <2>5, <2>6, <2>7
<1>6. ASSUME NEW p \in Procs, Deliver(p) \/ Reset(p) \/ (p \in Slaves /\ Listen(p))
      PROVE  UNCHANGED vars
  BY <1>6 DEF Deliver, Reset, Listen
<1>7. UNCHANGED allVars => UNCHANGED vars
  BY DEF allVars
<1>8. ASSUME NEW q \in Procs, NEW p \in Procs, ReadMessage(q, p)
      PROVE  TypeOK' /\ RemoteKnown'
  BY <1>8, ReadIsReception, ReceptionMain, ReceptionSend
<1> HIDE DEF StreamTypeInv, TypeOK
<1> QED BY <1>0, <1>1, <1>2, <1>3, <1>4, <1>5, <1>6, <1>7, <1>8, StreamCases, SharedIsNext,
           ReadingDeparts, EndingDeparts

\* The step is none of x's.
Uninvolved(x) ==
  /\ main'[x] = main[x] /\ total'[x] = total[x] /\ rows'[x] = rows[x]
  /\ frame'[x] = frame[x] /\ txno'[x] = txno[x] /\ wire'[x] = wire[x]
  /\ owed'[x] = owed[x] /\ errq'[x] = errq[x]

LEMMA ReceptionOthers ==
  ASSUME TypeOK, NEW q \in Procs, NEW p \in Procs, Reception(q, p)
  PROVE  /\ \A x \in Procs \ {q} : /\ main'[x] = main[x] /\ total'[x] = total[x]
                                   /\ rows'[x] = rows[x] /\ frame'[x] = frame[x]
         /\ \A x \in Procs \ {p} : wire'[x] = wire[x]
         /\ UNCHANGED <<txno, owed, errq, results>>
<1>1. ASSUME NEW x \in Procs \ {q}
      PROVE  main'[x] = main[x] /\ total'[x] = total[x]
  BY <1>1, MainOthers
<1>2. ASSUME NEW x \in Procs \ {q}
      PROVE  frame'[x] = frame[x]
  BY <1>2, ReceptionFrame DEF Call, TypeOK, SendTypeOK
<1>3. ASSUME NEW x \in Procs \ {q}
      PROVE  rows'[x] = rows[x]
  BY <1>3 DEF TypeOK, MainTypeOK, Reception, Taking, RespStamped, ReqStamped, RecvRespFollowUp,
              RecvReqFollowUp, RecvUnknown, Stop
<1>4. ASSUME NEW x \in Procs \ {p}
      PROVE  wire'[x] = wire[x]
  BY <1>4, ReceptionReceives, ReceiveTakes DEF TypeOK, SendTypeOK
<1> QED BY <1>1, <1>2, <1>3, <1>4, ReceptionReceives

LEMMA SharedOthers ==
  ASSUME TypeOK, NEW q \in Procs, Shared(q), NEW x \in Procs \ {q}
  PROVE  Uninvolved(x)
<1>1. main'[x] = main[x] /\ total'[x] = total[x]
  BY MainOthers DEF Shared, ThreadStep
<1>2. rows' = rows
  BY DEF Shared, Store, EndReply, Kernel, Crash, Thread, mainVars
<1>3. CASE Store(q) \/ EndReply(q) \/ Crash(q)
  BY <1>1, <1>2, <1>3 DEF Store, EndReply, Crash, sendVars, Uninvolved
<1>4. CASE Kernel(q) \/ Thread(q)
  <2>1. SendStep(q) \/ LoopStamp(q)
    BY <1>4 DEF Kernel, Thread
  <2>2. wire'[x] = wire[x]
    BY <2>1 DEF TypeOK, SendTypeOK, SendStep, SendPacket, SendFollowUp, SendTo, LoopStamp,
                ReadKernelStamp, DrainKernelStamp, EndIteration
  <2> QED BY <1>1, <1>2, <2>1, <2>2, StepOthers DEF OthersUnchanged, Uninvolved, TypeOK
<1> QED BY <1>3, <1>4 DEF Shared

LEMMA AgainOthers ==
  ASSUME TypeOK, NEW q \in Procs, NEW p \in Procs, ReadErrorAgain(q, p), NEW x \in Procs \ {q}
  PROVE  Uninvolved(x)
<1>1. UNCHANGED <<rows, txno, wire, owed, errq>>
  BY DEF ReadErrorAgain, ReadError
<1>2. /\ main \in [Procs -> Mains] /\ total \in [Procs -> Nat]
      /\ frame \in [Procs -> Frames \cup {Idle}]
  BY DEF TypeOK, MainTypeOK, SendTypeOK
<1>3. main'[x] = main[x] /\ total'[x] = total[x] /\ frame'[x] = frame[x]
  BY <1>2 DEF ReadErrorAgain, LoopTest, Call
<1> QED BY <1>1, <1>3 DEF Uninvolved

\* The two ends of a connection are different programs.
LEMMA PeersDiffer ==
  ASSUME PeerInv, NEW q \in Procs, peer[q] \in Procs
  PROVE  peer[q] # q /\ peer[peer[q]] = q
  BY MdelayAssumption DEF PeerInv, PeerOf

LEMMA PeersKept ==
  ASSUME PeerInv, peer' = peer,
         \A p \in Procs : peer[p] \in Procs =>
            main'[p] # "down" /\ (p \in Slaves => remote'[p] \in Dests),
         \A p \in Procs : peer[p] \notin Procs => AtRest(p)' /\ main'[p] \in {"down", "failed"}
  PROVE  PeerInv'
  BY DEF PeerInv, PeerOf

LEMMA PeerStep ==
  ASSUME StreamTypeInv, TypeOK, RemoteKnown, PeerInv, [StreamNext]_allVars
  PROVE  PeerInv'
<1>0. /\ main \in [Procs -> Mains] /\ total \in [Procs -> Nat] /\ Masters \subseteq Procs
      /\ Slaves \subseteq Procs /\ Masters \cap Slaves = {} /\ host \in [Procs -> Dests]
      /\ remote \in [Slaves -> Dests \cup {Zero}] /\ frame \in [Procs -> Frames \cup {Idle}]
      /\ peer \in [Procs -> Procs \cup {Nobody, Anybody}]
      /\ Nobody \notin Procs /\ Anybody \notin Procs
  BY MdelayAssumption, StreamAssumption DEF TypeOK, MainTypeOK, SendTypeOK, PeerInv
<1>1. ASSUME NEW s \in Slaves, Listen(s)
      PROVE  PeerInv'
  <2>1. /\ peer[s] = Nobody /\ peer' = [peer EXCEPT ![s] = Anybody]
        /\ UNCHANGED <<main, txno, wire, frame, total, remote>> /\ main[s] = "down"
    BY <1>1 DEF Listen, vars, mainVars, sendVars
  <2>2. ASSUME NEW p \in Procs
        PROVE  PeerOf(p)'
    <3>1. CASE p = s
      <4>1. peer'[p] = Anybody /\ PeerOf(p)
        BY <1>0, <2>1, <3>1 DEF PeerInv
      <4> QED BY <1>0, <2>1, <3>1, <4>1 DEF PeerOf, AtRest
    <3>2. CASE p # s
      <4>1. peer'[p] = peer[p] /\ PeerOf(p)
        BY <1>0, <2>1, <3>2 DEF PeerInv
      <4>2. peer[p] \in Procs => peer[p] # s
        BY <1>0, <2>1, <4>1 DEF PeerOf
      <4>3. peer[p] \in Procs => peer'[peer[p]] = p
        BY <1>0, <2>1, <4>1, <4>2 DEF PeerOf
      <4> QED BY <2>1, <4>1, <4>3 DEF PeerOf, AtRest
    <3> QED BY <3>1, <3>2
  <2>3. peer' \in [Procs -> Procs \cup {Nobody, Anybody}]
    BY <1>0, <2>1
  <2> QED BY <2>2, <2>3 DEF PeerInv
<1>2. ASSUME NEW r \in Masters, Connect(r)
      PROVE  PeerInv'
  <2>1. PICK slave_ip \in SlaveAddresses, s \in Slaves :
          /\ peer[s] = Anybody /\ peer' = [peer EXCEPT ![r] = s, ![s] = r]
          /\ main' = [main EXCEPT ![r] = "recv", ![s] = "recv"]
          /\ remote' = [remote EXCEPT ![s] = host[r]]
          /\ Call(r, "DELAY_REQ", N, 0, slave_ip)
    BY <1>2 DEF Connect
  <2>2. /\ main[r] = "down" /\ UNCHANGED <<txno, wire, total>>
        /\ \A x \in Procs \ {r} : frame'[x] = frame[x]
    BY <1>0, <1>2, <2>1 DEF Connect, Call
  <2>3. peer[r] \notin Procs /\ peer[s] \notin Procs /\ r # s
    BY <1>0, <2>1, <2>2 DEF PeerInv, PeerOf
  <2>4. /\ peer'[r] = s /\ peer'[s] = r /\ \A x \in Procs \ {r, s} : peer'[x] = peer[x]
        /\ main'[r] = "recv" /\ main'[s] = "recv"
        /\ \A x \in Procs \ {r, s} : main'[x] = main[x]
        /\ remote'[s] \in Dests /\ \A x \in Slaves \ {s} : remote'[x] = remote[x]
    BY <1>0, <2>1, <2>3
  <2>5. ASSUME NEW p \in Procs
        PROVE  PeerOf(p)'
    <3>1. CASE p = r
      BY <1>0, <2>3, <2>4, <3>1 DEF PeerOf
    <3>2. CASE p = s
      BY <1>0, <2>3, <2>4, <3>2 DEF PeerOf
    <3>3. CASE p \notin {r, s}
      <4>1. peer'[p] = peer[p] /\ PeerOf(p) /\ main'[p] = main[p]
        BY <2>4, <3>3 DEF PeerInv
      <4>2. peer[p] \in Procs => peer[p] \notin {r, s}
        BY <2>3, <4>1 DEF PeerOf
      <4>3. peer[p] \in Procs => peer'[peer[p]] = p
        BY <2>4, <4>1, <4>2 DEF PeerOf
      <4>4. p \in Slaves => remote'[p] = remote[p]
        BY <2>4, <3>3
      <4>5. AtRest(p) => AtRest(p)'
        BY <2>2, <3>3 DEF AtRest
      <4> QED BY <4>1, <4>3, <4>4, <4>5 DEF PeerOf
    <3> QED BY <3>1, <3>2, <3>3
  <2>6. peer' \in [Procs -> Procs \cup {Nobody, Anybody}]
    BY <1>0, <2>1
  <2> QED BY <2>5, <2>6 DEF PeerInv
<1> DEFINE Kept(p) == /\ peer[p] \in Procs =>
                           main'[p] # "down" /\ (p \in Slaves => remote'[p] \in Dests)
                      /\ peer[p] \notin Procs =>
                           AtRest(p)' /\ main'[p] \in {"down", "failed"}
<1>3. ASSUME NEW p \in Procs, Uninvolved(p), p \in Slaves => remote'[p] = remote[p]
      PROVE  Kept(p)
  BY <1>3 DEF PeerInv, PeerOf, Uninvolved, AtRest
<1>4. ASSUME NEW r \in Masters, ConnectRefused(r), NEW p \in Procs
      PROVE  Kept(p)
  <2>1. UNCHANGED <<txno, wire, frame, total, remote>> /\ main' = [main EXCEPT ![r] = "failed"]
    BY <1>4 DEF ConnectRefused, Stop, sendVars
  <2>2. main'[p] \in {main[p], "failed"}
    BY <1>0, <2>1
  <2> QED BY <2>1, <2>2 DEF PeerInv, PeerOf, AtRest
<1>5. ASSUME NEW q \in Procs, Departs(q), peer[q] \in Procs, NEW p \in Procs
      PROVE  Kept(p)
  <2>1. /\ UNCHANGED <<txno, wire, frame, total, remote>>
        /\ \E how \in {"failed", "undefined", "store"} : main' = [main EXCEPT ![q] = how]
    BY <1>5 DEF Departs, sendVars
  <2>2. main'[p] = main[p] \/ (p = q /\ main'[p] # "down")
    BY <1>0, <2>1
  <2> QED BY <1>5, <2>1, <2>2 DEF PeerInv, PeerOf, AtRest
<1>6. ASSUME NEW q \in Procs, Alive(q)
      PROVE  peer[q] \in Procs
  BY <1>6 DEF PeerInv, PeerOf, Alive
<1>7. ASSUME NEW q \in Procs, NEW x \in Procs, ReadMessage(q, x), NEW p \in Procs
      PROVE  Kept(p)
  <2>1. Reception(q, x) /\ peer[q] = x
    BY <1>7, ReadIsReception DEF ReadMessage, Reads
  <2>2. q # x /\ peer[x] = q
    BY <2>1, PeersDiffer
  <2>3. CASE peer[p] \in Procs
    <3>1. main'[p] # "down"
      BY <2>1, <2>3, StartSteps DEF PeerInv, PeerOf
    <3>2. CASE p \in Slaves
      <4>1. remote[p] \in Dests
        BY <2>3, <3>2 DEF PeerInv, PeerOf
      <4>2. remote' = remote \/ (q \in Slaves /\ remote' = [remote EXCEPT ![q] = ReplyAddress(q, x)])
        BY <1>7 DEF ReadMessage, ReqStamped, RecvReqFollowUp, RespStamped, RecvRespFollowUp
      <4>3. p = q => ReplyAddress(p, x) \in Dests
        BY <1>0, <4>1 DEF ReplyAddress
      <4>4. remote'[p] \in {remote[p], ReplyAddress(p, x)} /\ (p # q => remote'[p] = remote[p])
        BY <1>0, <3>2, <4>2
      <4>5. remote'[p] \in Dests
        BY <4>1, <4>3, <4>4
      <4> QED BY <2>3, <3>1, <4>5
    <3> QED BY <2>3, <3>1, <3>2
  <2>4. CASE peer[p] \notin Procs
    <3>1. p # q /\ p # x
      BY <2>1, <2>2, <2>4
    <3>2. AtRest(p)' /\ main'[p] = main[p]
      BY <2>1, <2>4, <3>1, ReceptionOthers DEF PeerInv, PeerOf, AtRest
    <3> QED BY <2>4, <3>2 DEF PeerInv, PeerOf
  <2> QED BY <2>3, <2>4
<1>8. ASSUME NEW q \in Procs, NEW x \in Procs, ReadErrorAgain(q, x), NEW p \in Procs
      PROVE  Kept(p)
  <2>1. peer[q] = x /\ remote' = remote
    BY <1>8 DEF ReadErrorAgain, ReadError
  <2>2. CASE p # q
    BY <1>3, <1>8, <2>1, <2>2, AgainOthers
  <2>3. CASE p = q
    <3>1. main'[q] \in {"recv", "store", "reply"}
      BY <1>0, <1>8 DEF ReadErrorAgain, LoopTest
    <3> QED BY <2>1, <2>3, <3>1 DEF PeerInv, PeerOf
  <2> QED BY <2>2, <2>3
<1>9. ASSUME NEW q \in Procs, Shared(q), NEW p \in Procs
      PROVE  Kept(p)
  <2>1. remote' = remote /\ peer[q] \in Procs
    BY <1>6, <1>9 DEF Shared, Store, EndReply, Kernel, Crash, Thread, mainVars, Alive
  <2>2. CASE p # q
    BY <1>3, <1>9, <2>1, <2>2, SharedOthers
  <2>3. CASE p = q
    <3>1. main'[q] # "down"
      BY <1>9, <2>1, SharedIsNext, StartSteps DEF PeerInv, PeerOf
    <3> QED BY <2>1, <2>3, <3>1 DEF PeerInv, PeerOf
  <2> QED BY <2>2, <2>3
<1>10. ASSUME UNCHANGED <<main, txno, wire, frame, total, remote>>, NEW p \in Procs
       PROVE  Kept(p)
  BY <1>10 DEF PeerInv, PeerOf, AtRest
<1>11. \/ \E s \in Slaves : Listen(s)
       \/ \E r \in Masters : Connect(r)
       \/ peer' = peer /\ \A p \in Procs : Kept(p)
  <2> HIDE DEF Kept
  <2>1. \A r \in Masters : ConnectRefused(r) => peer' = peer
    BY DEF ConnectRefused, streamVars
  <2>2. ASSUME NEW p \in Procs, Deliver(p) \/ Cut(p) \/ Reset(p) \/ UNCHANGED allVars
        PROVE  UNCHANGED <<main, txno, wire, frame, total, remote, peer>>
    BY <2>2 DEF Deliver, Cut, Reset, vars, mainVars, sendVars, allVars, streamVars
  <2>3. ASSUME NEW q \in Procs, Killed(q)
        PROVE  Departs(q) /\ peer[q] \in Procs /\ peer' = peer
    BY <1>6, <2>3, EndingDeparts DEF Killed, streamVars
  <2>4. ASSUME NEW q \in Procs, NEW p \in Procs,
               ReadSkewed(q, p) \/ ReadEof(q, p) \/ ReadErrorAnything(q, p)
        PROVE  Departs(q) /\ peer[q] \in Procs /\ peer' = peer
    <3>1. peer[q] = p
      BY <2>4 DEF ReadSkewed, Reads, ReadEof, ReadErrorAnything, ReadError
    <3> QED BY <2>4, <3>1, ReadingDeparts DEF Departs
  <2>5. \A q, p \in Procs : ReadMessage(q, p) \/ ReadErrorAgain(q, p) => peer' = peer
    BY DEF ReadMessage, Reads, ReadErrorAgain, ReadError
  <2>6. UNCHANGED streamVars => peer' = peer
    BY DEF streamVars
  <2>7. UNCHANGED allVars => UNCHANGED <<main, txno, wire, frame, total, remote, peer>>
    BY DEF allVars, streamVars, vars, mainVars, sendVars
  <2>8. CASE StreamNext
    BY <1>4, <1>5, <1>7, <1>8, <1>9, <1>10, <2>1, <2>2, <2>3, <2>4, <2>5, <2>6, <2>8, StreamCases
  <2> QED BY <1>10, <2>7, <2>8
<1> QED BY <1>1, <1>2, <1>11, PeersKept

\* How much p sends does not shrink, and no step but a delivery or a read, by
\* its peer, moves its bytes.
LEMMA TxnoGrows ==
  ASSUME StreamTypeInv, StreamNext, NEW p \in Procs
  PROVE  txno'[p] \in {txno[p], txno[p] + 1}
<1>1. ASSUME UNCHANGED sendVars \/ UNCHANGED vars \/ UNCHANGED <<txno>>
      PROVE  txno' = txno
  BY <1>1 DEF sendVars, vars
<1>2. \A s \in Slaves : Listen(s) => txno' = txno
  BY DEF Listen, vars, sendVars
<1>3. \A r \in Masters : Connect(r) \/ ConnectRefused(r) => txno' = txno
  BY DEF Connect, ConnectRefused, sendVars
<1>4. \A q \in Procs : Deliver(q) \/ Cut(q) \/ Reset(q) \/ Killed(q) => txno' = txno
  BY DEF Deliver, Cut, Reset, Killed, vars, sendVars
<1>5. \A q, x \in Procs : ReadErrorAgain(q, x) => txno' = txno
  BY DEF ReadErrorAgain, ReadError
<1>6. \A q, x \in Procs : ReadSkewed(q, x) \/ ReadEof(q, x) \/ ReadErrorAnything(q, x) => txno' = txno
  BY DEF ReadSkewed, ReadEof, ReadErrorAnything, ReadError, sendVars
<1>7. \A q, x \in Procs : ReadMessage(q, x) => txno' = txno
  BY ReadIsReception, ReceptionReceives
<1>8. ASSUME NEW q \in Procs, Shared(q)
      PROVE  txno'[p] \in {txno[p], txno[p] + 1}
  <2>1. txno' = txno \/ txno' = [txno EXCEPT ![q] = @ + 1]
    BY <1>8 DEF Shared, Store, EndReply, Kernel, Crash, Thread, sendVars, LoopStamp, SendStep,
                SendPacket, SendFollowUp, SendTo, ReadKernelStamp, DrainKernelStamp, EndIteration
  <2> QED BY <2>1 DEF StreamTypeInv, TypeOK, SendTypeOK
<1> QED BY <1>2, <1>3, <1>4, <1>5, <1>6, <1>7, <1>8, StreamCases

LEMMA BytesMove ==
  ASSUME TypeOK, StreamNext
  PROVE  \/ \E p \in Procs : Deliver(p) \/ Cut(p)
         \/ \E q \in Procs, p \in Procs : Reads(q, p)
         \/ UNCHANGED <<arrived, got>>
<1>1. \A s \in Slaves : Listen(s) => UNCHANGED <<arrived, got>>
  BY DEF Listen
<1>2. \A r \in Masters : Connect(r) \/ ConnectRefused(r) => UNCHANGED <<arrived, got>>
  BY DEF Connect, ConnectRefused, streamVars
<1>3. \A p \in Procs : Reset(p) \/ Killed(p) => UNCHANGED <<arrived, got>>
  BY DEF Reset, Killed, streamVars
<1>4. \A q, p \in Procs : ReadEof(q, p) \/ ReadErrorAnything(q, p) \/ ReadErrorAgain(q, p)
                            => UNCHANGED <<arrived, got>>
  BY DEF ReadEof, ReadErrorAnything, ReadErrorAgain, ReadError, streamVars
<1>5. \A q, p \in Procs : ReadMessage(q, p) \/ ReadSkewed(q, p) => Reads(q, p)
  BY DEF ReadMessage, ReadSkewed
<1>6. UNCHANGED streamVars => UNCHANGED <<arrived, got>>
  BY DEF streamVars
<1> QED BY <1>1, <1>2, <1>3, <1>4, <1>5, <1>6, StreamCases

\* A delivery or a read, in figures.
LEMMA DeliverBytes ==
  ASSUME arrived \in [Procs -> Nat], NEW p \in Procs, txno[p] \in Nat,
         Deliver(p) \/ Cut(p)
  PROVE  /\ arrived[p] < arrived'[p] /\ arrived'[p] <= Sent(p)
         /\ arrived' \in [Procs -> Nat] /\ got' = got
         /\ \A x \in Procs \ {p} : arrived'[x] = arrived[x]
         /\ \/ arrived'[p] % Length(p) = 0
            \/ arrived[p] % Length(p) = 0 /\ arrived'[p] - arrived[p] \in Cuts
<1> DEFINE a == arrived[p]
<1>0. a \in Nat /\ a < Sent(p) /\ got' = got
  BY DEF Deliver, Cut
<1>1. CASE Deliver(p)
  <2>1. arrived' = [arrived EXCEPT ![p] = (a \div Length(p) + 1) * Length(p)]
    BY <1>1 DEF Deliver
  <2> DEFINE b == (a \div Length(p) + 1) * Length(p)
  <2>2. b \in Nat /\ a < b /\ b <= Sent(p) /\ b % Length(p) = 0
    <3>1. CASE p \in Masters
      <4>1. b = (a \div 900 + 1) * 900 /\ Sent(p) = txno[p] * 900 /\ Length(p) = 900
        BY <3>1 DEF Length, Sent
      <4> QED BY <1>0, <4>1
    <3>2. CASE p \notin Masters
      <4>1. b = (a \div 890 + 1) * 890 /\ Sent(p) = txno[p] * 890 /\ Length(p) = 890
        BY <3>2 DEF Length, Sent
      <4> QED BY <1>0, <4>1
    <3> QED BY <3>1, <3>2
  <2> QED BY <1>0, <2>1, <2>2
<1>2. CASE Cut(p)
  <2>1. PICK c \in Cuts : arrived' = [arrived EXCEPT ![p] = @ + c]
    BY <1>2 DEF Cut
  <2>2. c \in 40..885 /\ a % Length(p) = 0
    BY <1>2, StreamAssumption DEF Cut
  <2>3. a < a + c /\ a + c <= Sent(p) /\ a + c \in Nat
    <3>1. CASE p \in Masters
      <4>1. a % 900 = 0 /\ a < txno[p] * 900 /\ Sent(p) = txno[p] * 900
        BY <1>0, <2>2, <3>1 DEF Length, Sent
      <4> QED BY <1>0, <2>2, <4>1
    <3>2. CASE p \notin Masters
      <4>1. a % 890 = 0 /\ a < txno[p] * 890 /\ Sent(p) = txno[p] * 890
        BY <1>0, <2>2, <3>2 DEF Length, Sent
      <4> QED BY <1>0, <2>2, <4>1
    <3> QED BY <3>1, <3>2
  <2>4. (a + c) - a = c
    BY <1>0, <2>2
  <2> QED BY <1>0, <2>1, <2>2, <2>3, <2>4
<1> QED BY <1>1, <1>2

LEMMA BytesStep ==
  ASSUME StreamTypeInv, [StreamNext]_allVars
  PROVE  /\ arrived' \in [Procs -> Nat] /\ got' \in [Procs -> Nat]
         /\ \A p \in Procs : BytesInOrder(p)'
<1> USE DEF StreamTypeInv
<1>0. txno \in [Procs -> Nat]
  BY DEF TypeOK, SendTypeOK
<1>1. ASSUME NEW p \in Procs, arrived'[p] = arrived[p] \/ arrived'[p] <= Sent(p),
             arrived'[p] \in Nat, txno'[p] \in {txno[p], txno[p] + 1}
      PROVE  arrived'[p] <= Sent(p)'
  <2>1. arrived'[p] <= Sent(p) /\ txno[p] \in Nat
    BY <1>0, <1>1 DEF BytesInOrder
  <2>2. CASE p \in Masters
    BY <1>1, <2>1, <2>2 DEF Sent, Length
  <2>3. CASE p \notin Masters
    BY <1>1, <2>1, <2>3 DEF Sent, Length
  <2> QED BY <2>2, <2>3
<1>2. ASSUME NEW p \in Procs
      PROVE  txno'[p] \in {txno[p], txno[p] + 1}
  BY TxnoGrows DEF allVars, vars, sendVars
<1>3. CASE UNCHANGED <<arrived, got>>
  <2>1. ASSUME NEW p \in Procs
        PROVE  BytesInOrder(p)'
    <3>1. arrived'[p] <= Sent(p)'
      BY <1>1, <1>2, <1>3
    <3> QED BY <1>3, <3>1 DEF BytesInOrder
  <2> QED BY <1>3, <2>1
<1>4. ASSUME NEW x \in Procs, Deliver(x) \/ Cut(x)
      PROVE  /\ arrived' \in [Procs -> Nat] /\ got' \in [Procs -> Nat]
             /\ \A p \in Procs : BytesInOrder(p)'
  <2>1. /\ arrived[x] < arrived'[x] /\ arrived'[x] <= Sent(x)
        /\ arrived' \in [Procs -> Nat] /\ got' = got
        /\ \A p \in Procs \ {x} : arrived'[p] = arrived[p]
    BY <1>0, <1>4, DeliverBytes
  <2>2. ASSUME NEW p \in Procs
        PROVE  BytesInOrder(p)'
    <3>1. arrived'[p] <= Sent(p)'
      BY <1>1, <1>2, <2>1
    <3>2. arrived[p] <= arrived'[p]
      BY <2>1
    <3>3. /\ 0 <= got[p] /\ got[p] <= arrived[p] /\ got'[p] = got[p]
          /\ got[p] \in Nat /\ arrived[p] \in Nat /\ arrived'[p] \in Nat
      BY <2>1 DEF BytesInOrder
    <3>4. 0 <= got'[p] /\ got'[p] <= arrived'[p]
      BY <3>2, <3>3
    <3> QED BY <3>1, <3>4 DEF BytesInOrder
  <2> QED BY <2>1, <2>2
<1>5. ASSUME NEW q \in Procs, NEW x \in Procs, Reads(q, x)
      PROVE  /\ arrived' \in [Procs -> Nat] /\ got' \in [Procs -> Nat]
             /\ \A p \in Procs : BytesInOrder(p)'
  <2>1. /\ got'[x] <= arrived[x] /\ got' \in [Procs -> Nat] /\ arrived' = arrived
        /\ \A p \in Procs \ {x} : got'[p] = got[p]
    BY <1>5, ReadBytes DEF BytesInOrder
  <2>2. ASSUME NEW p \in Procs
        PROVE  BytesInOrder(p)'
    <3>1. arrived'[p] <= Sent(p)'
      BY <1>1, <1>2, <2>1
    <3>2. got'[p] <= arrived'[p] /\ 0 <= got'[p]
      <4>1. CASE p = x
        BY <2>1, <4>1
      <4>2. CASE p # x
        BY <2>1, <4>2 DEF BytesInOrder
      <4> QED BY <4>1, <4>2
    <3> QED BY <3>1, <3>2 DEF BytesInOrder
  <2> QED BY <2>1, <2>2
<1> QED BY <1>3, <1>4, <1>5, BytesMove DEF allVars, streamVars

LEMMA ResetStep ==
  ASSUME reset \in [Procs -> {"no", "pending", "seen"}], [StreamNext]_allVars
  PROVE  reset' \in [Procs -> {"no", "pending", "seen"}]
<1>1. \A s \in Slaves : Listen(s) => reset' = reset
  BY DEF Listen
<1>2. \A r \in Masters : Connect(r) \/ ConnectRefused(r) => reset' = reset
  BY DEF Connect, ConnectRefused, streamVars
<1>3. \A p \in Procs : /\ Deliver(p) \/ Cut(p) \/ Killed(p) => reset' = reset
                       /\ Reset(p) => reset' = [reset EXCEPT ![p] = "pending"]
  BY DEF Deliver, Cut, Reset, Killed, streamVars
<1>4. \A q, p \in Procs :
        /\ ReadMessage(q, p) \/ ReadSkewed(q, p) \/ ReadEof(q, p) => reset' = reset
        /\ ReadErrorAnything(q, p) \/ ReadErrorAgain(q, p) => reset' = [reset EXCEPT ![q] = "seen"]
  BY DEF ReadMessage, ReadSkewed, Reads, ReadEof, ReadErrorAnything, ReadErrorAgain, ReadError,
         streamVars
<1>5. UNCHANGED streamVars \/ UNCHANGED allVars => reset' = reset
  BY DEF streamVars, allVars
<1> QED BY <1>1, <1>2, <1>3, <1>4, <1>5, StreamCases

LEMMA StreamTypeInvariant == StreamSpec => []StreamTypeInv
<1>1. StreamInit => StreamTypeInv
  <2> SUFFICES ASSUME StreamInit
               PROVE  StreamTypeInv
    OBVIOUS
  <2>1. TypeOK /\ RemoteKnown
    BY InitType DEF StreamInit
  <2>2. /\ peer = [p \in Procs |-> Nobody]
        /\ arrived = [p \in Procs |-> 0] /\ got = [p \in Procs |-> 0]
        /\ reset = [p \in Procs |-> "no"]
    BY DEF StreamInit
  <2>3. PeerInv
    <3>1. \A p \in Procs : AtRest(p) /\ main[p] = "down"
      BY DEF StreamInit, Init, SendInit, AtRest
    <3> QED BY <2>2, <3>1, StreamAssumption DEF PeerInv, PeerOf
  <2>4. \A p \in Procs : BytesInOrder(p)
    <3>1. \A p \in Procs : txno[p] = 0
      BY DEF StreamInit, Init, SendInit
    <3>2. ASSUME NEW p \in Procs
          PROVE  Sent(p) = 0
      <4>1. Length(p) \in Nat
        BY DEF Length
      <4> QED BY <3>1, <4>1 DEF Sent
    <3>3. \A p \in Procs : arrived[p] = 0 /\ got[p] = 0
      BY <2>2
    <3>4. ASSUME NEW p \in Procs
          PROVE  BytesInOrder(p)
      <4>1. Sent(p) = 0 /\ arrived[p] = 0 /\ got[p] = 0
        BY <3>2, <3>3
      <4> QED BY <4>1 DEF BytesInOrder
    <3> QED BY <3>4
  <2> QED BY <2>1, <2>2, <2>3, <2>4 DEF StreamTypeInv
<1>2. StreamTypeInv /\ [StreamNext]_allVars => StreamTypeInv'
  <2> SUFFICES ASSUME StreamTypeInv, [StreamNext]_allVars
               PROVE  StreamTypeInv'
    OBVIOUS
  <2>1. TypeOK' /\ RemoteKnown'
    BY StreamTypeStep
  <2>2. PeerInv'
    BY PeerStep DEF StreamTypeInv
  <2>3. /\ arrived' \in [Procs -> Nat] /\ got' \in [Procs -> Nat]
        /\ \A p \in Procs : BytesInOrder(p)'
    BY BytesStep
  <2>4. reset' \in [Procs -> {"no", "pending", "seen"}]
    BY ResetStep DEF StreamTypeInv
  <2> QED BY <2>1, <2>2, <2>3, <2>4 DEF StreamTypeInv
<1> QED BY <1>1, <1>2, PTL DEF StreamSpec

\* The types of the stream's state, and that no program reads bytes that have
\* not arrived, and none arrive that were not sent (master.c:121,
\* slave.c:110).
THEOREM StreamTypes == StreamSpec => []StreamTypeOK
<1>1. StreamTypeInv => StreamTypeOK
  BY DEF StreamTypeInv, StreamTypeOK, PeerInv, BytesInOrder
<1> QED BY <1>1, StreamTypeInvariant, PTL

-----------------------------------------------------------------------------
(* What the two ends of a connection store *)

\* How the main thread goes on when it neither sends nor receives.
MainGoesOn(p) ==
  \/ main'[p] = main[p]
  \/ main'[p] \notin {"recv", "reply"}
  \/ main[p] = "reply" /\ frame[p] = Idle /\ main'[p] # "reply"

\* A step that takes no message of p from q leaves q's rows as good as they are,
\* and no byte either if q goes on.
LEMMA HeedsKept ==
  ASSUME NEW q \in Procs, NEW p \in Procs, Heeds(q, p), MainGoesOn(q),
         UNCHANGED <<rows[q], total[q]>>, Taken(p)' = Taken(p),
         got'[p] = got[p] \/ main'[q] \notin {"recv", "reply"}
  PROVE  Heeds(q, p)'
<1>1. got'[p] = got[p] => Astray(p)' = Astray(p)
  BY DEF Astray, Aligned, Begun, Taken, Length
<1> QED BY <1>1 DEF Heeds, MainGoesOn

\* A step that is none of p's leaves it in step with its peer, if it takes no
\* message from p's peer.
LEMMA InStepKept ==
  ASSUME NEW p \in Procs, InStep(p), MainGoesOn(p),
         UNCHANGED <<frame[p], txno[p], rows[p], total[p]>>,
         \A q \in Procs : peer'[p] = q =>
            /\ peer[p] = q /\ Taken(q)' = Taken(q)
            /\ got'[q] = got[q] \/ main'[p] \notin {"recv", "reply"}
  PROVE  InStep(p)'
<1>1. InTurn(p)'
  BY DEF InStep, InTurn, CurrentSeq
<1>2. p \in Slaves => AnswersInTurn(p)'
  BY DEF InStep, AnswersInTurn, MainGoesOn
<1>3. ASSUME NEW q \in Procs, peer'[p] = q
      PROVE  Heeds(p, q)'
  <2>1. Heeds(p, q) /\ Taken(q)' = Taken(q)
    BY <1>3 DEF InStep
  <2> QED BY <1>3, <2>1, HeedsKept
<1> QED BY <1>1, <1>2, <1>3 DEF InStep

LEMMA NumberedKept ==
  ASSUME NEW p \in Procs, UNCHANGED <<txno[p], wire[p]>>
  PROVE  /\ Numbered(p) => Numbered(p)'
         /\ Taken(p)' = Taken(p)
  BY DEF Numbered, Taken, SentAs

LEMMA QueueKept ==
  ASSUME NEW p \in Procs, QueueInv(p), UNCHANGED <<txno[p], owed[p], errq[p]>>,
         frame'[p] = frame[p] \/ (frame[p] = Idle /\ frame'[p].pc \in {"send", "idle"})
  PROVE  QueueInv(p)'
  BY DEF QueueInv, NoneOutstanding, BothOutstanding, NicOutstanding, SwStamp, NicStampOf, Idle

LEMMA OrderOf ==
  ASSUME NEW p \in Procs
  PROVE  StreamOrder(p) <=> Numbered(p) /\ QueueInv(p) /\ (Sound(p) => InStep(p))
  BY DEF StreamOrder

LEMMA OrderOfNext ==
  ASSUME NEW p \in Procs
  PROVE  StreamOrder(p)' <=> Numbered(p)' /\ QueueInv(p)' /\ (Sound(p)' => InStep(p)')
  BY DEF StreamOrder

\* A step that is none of x's, and takes nothing from its peer.
LEMMA OthersInOrder ==
  ASSUME NEW x \in Procs, StreamOrder(x), Uninvolved(x), Sound(x)' => Sound(x),
         got' = got, \A y \in Procs : peer'[x] = y => peer[x] = y /\ Taken(y)' = Taken(y)
  PROVE  StreamOrder(x)'
<1>1. Numbered(x)' /\ QueueInv(x)'
  BY NumberedKept, QueueKept, OrderOf DEF Uninvolved
<1>2. Sound(x)' => InStep(x)'
  BY OrderOf, InStepKept DEF Uninvolved, MainGoesOn
<1> QED BY <1>1, <1>2, OrderOfNext

LEMMA StreamQuiet ==
  ASSUME StreamOrderInv, UNCHANGED <<sendVars, rows, total>>,
         \A x \in Procs : MainGoesOn(x) /\ (Sound(x)' => Sound(x)),
         \A x \in Procs, y \in Procs : peer'[x] = y =>
            peer[x] = y /\ (got'[y] = got[y] \/ main'[x] \notin {"recv", "reply"})
  PROVE  StreamOrderInv'
<1>1. UNCHANGED <<frame, txno, wire, owed, errq>>
  BY DEF sendVars
<1>2. ASSUME NEW x \in Procs
      PROVE  Numbered(x)' /\ QueueInv(x)' /\ Taken(x)' = Taken(x)
  <2>1. Numbered(x) /\ QueueInv(x)
    BY OrderOf DEF StreamOrderInv
  <2> QED BY <1>1, <2>1, NumberedKept, QueueKept
<1>3. ASSUME NEW x \in Procs, Sound(x)'
      PROVE  InStep(x)'
  <2>1. InStep(x)
    BY <1>3, OrderOf DEF StreamOrderInv
  <2> QED BY <1>1, <1>2, <2>1, InStepKept
<1> QED BY <1>2, <1>3, OrderOfNext DEF StreamOrderInv

\* A connection: each has done nothing so far, and the master begins.
LEMMA ConnectInOrder ==
  ASSUME StreamTypeInv, StreamOrderInv, NEW r \in Masters, Connect(r)
  PROVE  StreamOrderInv'
<1> USE DEF StreamTypeInv
<1>0. /\ main \in [Procs -> Mains] /\ frame \in [Procs -> Frames \cup {Idle}]
      /\ r \in Procs /\ Slaves \subseteq Procs /\ r \notin Slaves
      /\ peer \in [Procs -> Procs \cup {Nobody, Anybody}] /\ Anybody \notin Procs
  BY MdelayAssumption, StreamAssumption DEF TypeOK, MainTypeOK, SendTypeOK, PeerInv
<1>1. PICK slave_ip \in SlaveAddresses, s \in Slaves :
        /\ peer[s] = Anybody /\ peer' = [peer EXCEPT ![r] = s, ![s] = r]
        /\ main' = [main EXCEPT ![r] = "recv", ![s] = "recv"]
        /\ Call(r, "DELAY_REQ", N, 0, slave_ip)
  BY DEF Connect
<1>2. /\ main[r] = "down" /\ UNCHANGED <<txno, wire, total, rows, owed, errq, reset, got>>
      /\ \A x \in Procs \ {r} : frame'[x] = frame[x]
  BY <1>0, <1>1 DEF Connect, Call
<1>3. peer[r] \notin Procs /\ peer[s] \notin Procs /\ r # s /\ s \in Procs
  BY <1>0, <1>1, <1>2 DEF PeerInv, PeerOf
<1>4. AtRest(r) /\ AtRest(s)
  BY <1>0, <1>3 DEF PeerInv, PeerOf
<1>5. frame'[r] = Idle \/ (frame'[r].pc = "send" /\ CurrentSeq(r)' = 0)
  <2> DEFINE f == [pc |-> "send", type |-> "DELAY_REQ", seq |-> 0, N |-> N, i |-> 0, dst |-> slave_ip]
  <2>1. frame'[r] = LoopTop(f)
    BY <1>0, <1>1 DEF Call
  <2>2. frame'[r] = Idle \/ frame'[r] = [f EXCEPT !.pc = "send"]
    BY <2>1 DEF LoopTop
  <2>3. CASE frame'[r] = [f EXCEPT !.pc = "send"]
    <3>1. frame'[r].pc = "send" /\ frame'[r].seq = 0 /\ frame'[r].i = 0
      BY <2>3
    <3> QED BY <3>1 DEF CurrentSeq
  <2> QED BY <2>2, <2>3
<1>6. ASSUME NEW x \in Procs
      PROVE  Numbered(x)' /\ QueueInv(x)' /\ Taken(x)' = Taken(x)
  <2>1. Numbered(x) /\ QueueInv(x)
    BY OrderOf DEF StreamOrderInv
  <2>2. frame'[x] = frame[x] \/ (frame[x] = Idle /\ frame'[x].pc \in {"send", "idle"})
    BY <1>2, <1>4, <1>5 DEF AtRest, Idle
  <2>3. UNCHANGED <<txno[x], owed[x], errq[x], wire[x]>>
    BY <1>2
  <2> QED BY <2>1, <2>2, <2>3, NumberedKept, QueueKept
<1>7. ASSUME NEW x \in Procs \ {r, s}, Sound(x)'
      PROVE  InStep(x)'
  <2>1. InStep(x)
    BY <1>2, <1>7, OrderOf DEF StreamOrderInv, Sound
  <2>2. main'[x] = main[x] /\ peer'[x] = peer[x]
    BY <1>0, <1>1, <1>3
  <2> QED BY <1>2, <1>6, <2>1, <2>2, InStepKept DEF MainGoesOn
<1>8. ASSUME NEW x \in {r, s}
      PROVE  InStep(x)'
  <2>1. /\ txno'[x] = 0 /\ total'[x] = 0
        /\ \A y \in {r, s} : Taken(y)' = 0
    <3>1. Taken(r) = 0 /\ Taken(s) = 0
      BY <1>0, <1>3, <1>4, AtRestOrder
    <3> QED BY <1>0, <1>2, <1>3, <1>4, <1>6, <3>1 DEF AtRest
  <2>2. InTurn(x)'
    <3>1. frame'[x] = Idle \/ (frame'[x].pc = "send" /\ CurrentSeq(x)' = 0)
      BY <1>2, <1>3, <1>4, <1>5 DEF AtRest
    <3> QED BY <2>1, <3>1 DEF InTurn, Idle
  <2>3. x \in Slaves => AnswersInTurn(x)'
    <3>1. x \in Slaves => frame'[x] = Idle
      BY <1>0, <1>2, <1>3, <1>4 DEF AtRest
    <3> QED BY <2>1, <3>1 DEF AnswersInTurn
  <2>4. ASSUME NEW q \in Procs, peer'[x] = q
        PROVE  Heeds(x, q)'
    <3>1. q \in {r, s}
      BY <1>0, <1>1, <1>3, <2>4
    <3>2. Taken(q)' = 0 /\ total'[x] = 0
      BY <2>1, <3>1
    <3>3. Size(x) \in Nat
      BY <1>0, <1>3, SizeType
    <3> QED BY <3>2, <3>3 DEF Heeds, UpTo, Measured
  <2> QED BY <2>2, <2>3, <2>4 DEF InStep
<1> QED BY <1>6, <1>7, <1>8, OrderOfNext DEF StreamOrderInv

\* A message is read: the next that the peer sent.
LEMMA ReadInOrder ==
  ASSUME StreamTypeInv, StreamOrderInv, StampOrders = {SwThenHw}, RxStamps \subseteq {"hw", "none"},
         NEW q \in Procs, NEW p \in Procs, ReadMessage(q, p)
  PROVE  StreamOrderInv'
<1> USE DEF StreamTypeInv
<1>0. /\ Reception(q, p) /\ peer[q] = p /\ peer' = peer /\ reset' = reset
      /\ q # p /\ peer[p] = q
  BY ReadIsReception, PeersDiffer DEF ReadMessage, Reads
<1>7. \A x \in Procs \ {p} : got'[x] = got[x]
  BY ReadBytes DEF ReadMessage, BytesInOrder
<1>1. /\ \A x \in Procs \ {q} : /\ main'[x] = main[x] /\ total'[x] = total[x]
                                /\ rows'[x] = rows[x] /\ frame'[x] = frame[x]
      /\ \A x \in Procs \ {p} : wire'[x] = wire[x]
      /\ UNCHANGED <<txno, owed, errq>>
  BY <1>0, ReceptionOthers
<1>2. ASSUME NEW x \in Procs, x # p
      PROVE  Numbered(x)' /\ Taken(x)' = Taken(x)
  <2>1. Numbered(x) /\ UNCHANGED <<txno[x], wire[x]>>
    BY <1>1, <1>2, OrderOf DEF StreamOrderInv
  <2> QED BY <2>1, NumberedKept
<1>3. Numbered(p)'
  <2>1. wire[p] # <<>> /\ wire'[p] = Tail(wire[p]) /\ txno'[p] = txno[p]
    BY <1>0, <1>1, ReceptionReceives, ReceiveTakes DEF TypeOK, SendTypeOK
  <2> QED BY <2>1, TakeNext, OrderOf DEF TypeOK, StreamOrderInv
<1>4. ASSUME NEW x \in Procs
      PROVE  QueueInv(x)'
  BY <1>0, QueueStep, OrderOf DEF StreamOrderInv
<1>5. ASSUME Sound(q)'
      PROVE  InStep(q)'
  <2> DEFINE d == Head(wire[p])
             M == IF Aligned(p)' THEN Slaves ELSE Procs
  <2> HIDE DEF M
  <2>1. Numbered(p) /\ InTurn(q) /\ (q \in Slaves => AnswersInTurn(q)) /\ Heeds(q, p)
    BY <1>0, <1>5, OrderOf DEF StreamOrderInv, Sound, InStep
  <2>4. PICK x \in TxIds :
          /\ Taking(q, p, x)
          /\ d.type \notin FollowUps =>
               \E j \in Nat : /\ j > Taken(p) /\ x = <<p, j>>
                              /\ (Aligned(p)' /\ p \notin Masters) => j = Taken(p) + 1
    BY ReadTakes
  <2>5. /\ Aligned(p)
        /\ UpTo(Slaves, q, p, Taken(p), total[q], rows[q])
        /\ Measured(Slaves, q, p, total[q], rows[q])
    BY <2>1 DEF ReadMessage, Reads, Heeds, Astray
  <2>6. ASSUME d.type \notin FollowUps
        PROVE  Near(M, q, p, d.seq, x)
    <3>1. Taken(p) + 1 = 2 * d.seq + 1 /\ d.seq \in Nat /\ Taken(p) \in Nat
      <4>1. d \in Packets /\ wire[p] # <<>>
        BY <1>0, ReceptionReceives, ReceiveTakes DEF TypeOK
      <4>2. SentAs(d, p, Taken(p) + 1) /\ Taken(p) \in Nat
        BY <2>1, <4>1, TakenType DEF TypeOK, SendTypeOK, Numbered
      <4> QED BY <2>6, <4>1, <4>2 DEF SentAs, Packets
    <3>2. PICK j \in Nat : /\ j > Taken(p) /\ x = <<p, j>>
                           /\ (Aligned(p)' /\ p \notin Masters) => j = Taken(p) + 1
      BY <2>4, <2>6
    <3>3. CASE q \in M
      <4>1. j > 2 * d.seq
        BY <3>1, <3>2
      <4> QED BY <3>2, <3>3, <4>1 DEF Near
    <3>4. CASE q \notin M
      <4>1. Aligned(p)' /\ q \notin Slaves
        BY <3>4 DEF M
      <4>2. q \in Masters /\ peer[q] = p /\ PeerOf(q)
        BY <1>0, <4>1, MdelayAssumption DEF PeerInv
      <4>3. p \notin Masters
        BY <4>2, MdelayAssumption DEF PeerOf
      <4>4. x = Packet(p, d.seq)
        BY <3>1, <3>2, <4>1, <4>3 DEF Packet
      <4> QED BY <4>4 DEF Near
    <3> QED BY <3>3, <3>4
  <2>2. InTurn(q)' /\ (q \in Slaves => AnswersInTurn(q)')
    <3> QED BY <1>0, <2>1, <2>4, <2>5, <2>6, ReceptionAnswers
  <2>3. Heeds(q, p)'
    <3>1. /\ main'[q] \in {"recv", "reply"} => UpTo(M, q, p, Taken(p)', total'[q], rows'[q])
          /\ Measured(Slaves, q, p, total'[q], rows'[q])
      <4> QED BY <1>0, <2>1, <2>4, <2>5, <2>6, ReceptionInOrder
    <3> QED BY <3>1 DEF Heeds, Astray, M
  <2> QED BY <1>0, <2>2, <2>3 DEF InStep
<1>6. ASSUME NEW x \in Procs, x # q, Sound(x)'
      PROVE  InStep(x)'
  <2>1. InStep(x)
    BY <1>0, <1>6, OrderOf DEF StreamOrderInv, Sound
  <2>2. \A y \in Procs : peer'[x] = y => peer[x] = y /\ Taken(y)' = Taken(y) /\ got'[y] = got[y]
    <3>1. ASSUME NEW y \in Procs, peer'[x] = y
          PROVE  peer[x] = y /\ y # p
      BY <1>0, <1>6, <3>1, PeersDiffer
    <3> QED BY <1>2, <1>7, <3>1
  <2> QED BY <1>1, <1>6, <2>1, <2>2, InStepKept DEF MainGoesOn
<1> QED BY <1>2, <1>3, <1>4, <1>5, <1>6, OrderOfNext DEF StreamOrderInv

\* A recvmsg of q fails: from here on nothing is said of its order.
LEMMA AgainInOrder ==
  ASSUME StreamTypeInv, StreamOrderInv, NEW q \in Procs, NEW p \in Procs, ReadErrorAgain(q, p)
  PROVE  StreamOrderInv'
<1> USE DEF StreamTypeInv
<1>0. /\ UNCHANGED <<txno, wire, owed, errq, peer, got>> /\ reset' = [reset EXCEPT ![q] = "seen"]
      /\ frame \in [Procs -> Frames \cup {Idle}] /\ reset \in [Procs -> {"no", "pending", "seen"}]
  BY DEF ReadErrorAgain, ReadError, TypeOK, SendTypeOK
<1>1. \A y \in Procs : Taken(y)' = Taken(y)
  BY <1>0 DEF Taken
<1>2. ASSUME NEW x \in Procs, x # q
      PROVE  StreamOrder(x)'
  <2>1. Sound(x)' => Sound(x)
    BY <1>0, <1>2 DEF Sound
  <2>2. Uninvolved(x)
    BY <1>2, AgainOthers
  <2>3. StreamOrder(x)
    BY DEF StreamOrderInv
  <2> QED BY <1>0, <1>1, <2>1, <2>2, <2>3, OthersInOrder
<1>3. StreamOrder(q)'
  <2>1. Numbered(q) /\ QueueInv(q)
    BY OrderOf DEF StreamOrderInv
  <2>2. UNCHANGED <<txno[q], wire[q], owed[q], errq[q]>>
    BY <1>0
  <2>3. frame'[q] = frame[q] \/ (frame[q] = Idle /\ frame'[q].pc \in {"send", "idle"})
    <3>1. UNCHANGED frame \/ \E k : Call(q, "DELAY_RESP", 1, k, remote[q])
      BY DEF ReadErrorAgain
    <3>2. ASSUME NEW k, Call(q, "DELAY_RESP", 1, k, remote[q])
          PROVE  frame[q] = Idle /\ frame'[q].pc \in {"send", "idle"}
      <4> DEFINE f == [pc |-> "send", type |-> "DELAY_RESP", seq |-> k, N |-> 1, i |-> 0, dst |-> remote[q]]
      <4>1. frame[q] = Idle /\ frame'[q] = LoopTop(f)
        BY <1>0, <3>2 DEF Call
      <4>2. frame'[q] = Idle \/ frame'[q] = [f EXCEPT !.pc = "send"]
        BY <4>1 DEF LoopTop
      <4>3. [f EXCEPT !.pc = "send"].pc = "send" /\ Idle.pc = "idle"
        BY DEF Idle
      <4> QED BY <4>1, <4>2, <4>3
    <3> QED BY <3>1, <3>2
  <2>4. ~Sound(q)'
    BY <1>0 DEF Sound
  <2> QED BY <2>1, <2>2, <2>3, <2>4, NumberedKept, QueueKept, OrderOfNext
<1> QED BY <1>2, <1>3 DEF StreamOrderInv

\* The sending routine and the kernel.
LEMMA RoutineInOrder ==
  ASSUME StreamTypeInv, StreamOrderInv, StampOrders = {SwThenHw}, UNCHANGED streamVars,
         NEW q \in Procs,
         Kernel(q) \/ (Thread(q) /\ (reset[q] = "no" \/ ~AtSendto(q)))
  PROVE  StreamOrderInv'
<1> USE DEF StreamTypeInv
<1>0. /\ Shared(q) /\ Next /\ UNCHANGED <<peer, got, reset, main, total, rows>>
      /\ SendStep(q) \/ LoopStamp(q)
      /\ reset \in [Procs -> {"no", "pending", "seen"}]
  BY SharedIsNext DEF Shared, Kernel, Thread, streamVars, mainVars
<1>1. QueueInv(q)'
  BY <1>0, QueueStep, OrderOf DEF StreamOrderInv
<1>2. Numbered(q) /\ QueueInv(q) /\ (Sound(q) => InStep(q))
  BY OrderOf DEF StreamOrderInv
<1>3. /\ Numbered(q)' /\ Taken(q)' = Taken(q)
      /\ Sound(q) => InTurn(q)' /\ (q \in Slaves => AnswersInTurn(q)')
  <2>1. CASE LoopStamp(q)
    <3>1. UNCHANGED <<frame[q], txno[q], wire[q], main[q], total[q]>>
      BY <1>0, <2>1 DEF LoopStamp
    <3>2. Numbered(q)' /\ Taken(q)' = Taken(q)
      BY <1>2, <3>1, NumberedKept
    <3>3. Sound(q) => InTurn(q)' /\ (q \in Slaves => AnswersInTurn(q)')
      BY <1>2, <3>1 DEF InStep, InTurn, CurrentSeq, AnswersInTurn
    <3> QED BY <3>2, <3>3
  <2>2. CASE SendStep(q) /\ Sound(q)
    <3>1. Numbered(q)' /\ InTurn(q)' /\ Taken(q)' = Taken(q)
      BY <1>2, <2>2, StepInTurn DEF InStep, TypeOK
    <3>2. q \in Slaves => AnswersInTurn(q)'
      BY <1>0, <1>2, <2>2, StepAnswers DEF InStep, TypeOK
    <3> QED BY <3>1, <3>2
  <2>3. CASE SendStep(q) /\ ~Sound(q) /\ ~LoopStamp(q)
    <3>1. ~AtSendto(q)
      BY <2>3 DEF Sound, Kernel
    <3>2. ~SendPacket(q) /\ ~SendFollowUp(q)
      BY <3>1 DEF AtSendto, SendPacket, SendFollowUp, ReadErrqueue
    <3>3. UNCHANGED <<txno, wire>>
      BY <2>3, <3>2 DEF SendStep, ReadKernelStamp, DrainKernelStamp, EndIteration
    <3>4. UNCHANGED <<txno[q], wire[q]>>
      BY <3>3
    <3> QED BY <1>2, <2>3, <3>4, NumberedKept
  <2> QED BY <1>0, <2>1, <2>2, <2>3
<1>4. \A y \in Procs : Taken(y)' = Taken(y)
  <2>1. ASSUME NEW y \in Procs, y # q
        PROVE  Taken(y)' = Taken(y)
    <3>1. UNCHANGED <<txno[y], wire[y]>>
      BY <1>0, <2>1, SharedOthers DEF Uninvolved
    <3> QED BY <3>1, NumberedKept
  <2> QED BY <1>3, <2>1
<1>5. ASSUME NEW x \in Procs, x # q
      PROVE  StreamOrder(x)'
  <2>1. Uninvolved(x)
    BY <1>0, <1>5, SharedOthers
  <2>2. StreamOrder(x) /\ (Sound(x)' => Sound(x))
    BY <1>0 DEF StreamOrderInv, Sound
  <2> QED BY <1>0, <1>4, <2>1, <2>2, OthersInOrder
<1>6. Sound(q)' => InStep(q)'
  <2>1. ASSUME NEW y \in Procs, peer[q] = y, Sound(q)
        PROVE  Heeds(q, y)'
    <3>1. /\ Heeds(q, y) /\ Taken(y)' = Taken(y) /\ got'[y] = got[y] /\ MainGoesOn(q)
          /\ UNCHANGED <<rows[q], total[q]>>
      BY <1>0, <1>2, <1>4, <2>1 DEF InStep, MainGoesOn
    <3> QED BY <3>1, HeedsKept
  <2>2. Sound(q)' => Sound(q)
    BY <1>0 DEF Sound
  <2> QED BY <1>0, <1>3, <2>1, <2>2 DEF InStep
<1>7. StreamOrder(q)'
  BY <1>1, <1>3, <1>6, OrderOfNext
<1> QED BY <1>5, <1>7 DEF StreamOrderInv

\* recvmsg fails once, and a program does not recover from it.
LEMMA SoundBefore ==
  ASSUME StreamTypeInv, [StreamNext]_allVars, NEW p \in Procs, Sound(p)'
  PROVE  Sound(p)
<1>0. reset \in [Procs -> {"no", "pending", "seen"}]
  BY DEF StreamTypeInv
<1>1. \A s \in Slaves : Listen(s) => reset' = reset
  BY DEF Listen
<1>2. \A r \in Masters : Connect(r) \/ ConnectRefused(r) => reset' = reset
  BY DEF Connect, ConnectRefused, streamVars
<1>3. \A x \in Procs : /\ Deliver(x) \/ Cut(x) \/ Killed(x) => reset' = reset
                       /\ Reset(x) => reset[x] = "no" /\ reset' = [reset EXCEPT ![x] = "pending"]
  BY DEF Deliver, Cut, Reset, Killed, streamVars
<1>4. \A q, x \in Procs :
        /\ ReadMessage(q, x) \/ ReadSkewed(q, x) \/ ReadEof(q, x) => reset' = reset
        /\ ReadErrorAnything(q, x) \/ ReadErrorAgain(q, x) => reset' = [reset EXCEPT ![q] = "seen"]
  BY DEF ReadMessage, ReadSkewed, Reads, ReadEof, ReadErrorAnything, ReadErrorAgain, ReadError,
         streamVars
<1>5. UNCHANGED streamVars \/ UNCHANGED allVars => reset' = reset
  BY DEF streamVars, allVars
<1> QED BY <1>0, <1>1, <1>2, <1>3, <1>4, <1>5, StreamCases DEF Sound

LEMMA DepartsInOrder ==
  ASSUME StreamTypeInv, StreamOrderInv, [StreamNext]_allVars, NEW q \in Procs, Departs(q),
         \A y \in Procs : got'[y] = got[y] \/ peer[q] = y
  PROVE  StreamOrderInv'
<1>1. \A x \in Procs : MainGoesOn(x)
  BY DEF Departs, MainGoesOn, StreamTypeInv, TypeOK, MainTypeOK
<1>2. UNCHANGED <<sendVars, rows, total, peer>>
  BY DEF Departs
<1>3. main'[q] \notin {"recv", "reply"}
  BY DEF Departs, StreamTypeInv, TypeOK, MainTypeOK
<1>4. \A x \in Procs, y \in Procs : peer[x] = y /\ peer[q] = y => x = q
  BY PeersDiffer DEF StreamTypeInv
<1> QED BY <1>1, <1>2, <1>3, <1>4, SoundBefore, StreamQuiet

LEMMA StreamOrderStep ==
  ASSUME StreamTypeInv, StreamOrderInv, StampOrders = {SwThenHw}, RxStamps \subseteq {"hw", "none"},
         [StreamNext]_allVars
  PROVE  StreamOrderInv'
<1>0. /\ main \in [Procs -> Mains] /\ Masters \subseteq Procs /\ Slaves \subseteq Procs
      /\ peer \in [Procs -> Procs \cup {Nobody, Anybody}] /\ Anybody \notin Procs
  BY MdelayAssumption, StreamAssumption DEF StreamTypeInv, TypeOK, MainTypeOK, PeerInv
<1>1. ASSUME UNCHANGED vars, got' = got,
             \A x \in Procs, y \in Procs : peer'[x] = y => peer[x] = y
      PROVE  StreamOrderInv'
  <2>1. UNCHANGED <<sendVars, rows, total, main>>
    BY <1>1 DEF vars, mainVars
  <2>2. \A x \in Procs : MainGoesOn(x)
    BY <2>1 DEF MainGoesOn
  <2> QED BY <1>1, <2>1, <2>2, SoundBefore, StreamQuiet
<1>2. ASSUME NEW s \in Slaves, Listen(s)
      PROVE  StreamOrderInv'
  <2>1. UNCHANGED vars /\ peer' = [peer EXCEPT ![s] = Anybody] /\ got' = got
    BY <1>2 DEF Listen
  <2> QED BY <1>0, <1>1, <2>1
<1>3. ASSUME NEW p \in Procs, Deliver(p) \/ Reset(p)
      PROVE  StreamOrderInv'
  <2>1. UNCHANGED vars /\ peer' = peer /\ got' = got
    BY <1>3 DEF Deliver, Reset
  <2> QED BY <1>1, <2>1
<1>4. ASSUME NEW p \in Procs, Cut(p)
      PROVE  StreamOrderInv'
  <2>1. UNCHANGED <<sendVars, rows, total, main, peer, got>>
    BY <1>4 DEF Cut, mainVars
  <2>2. \A x \in Procs : MainGoesOn(x)
    BY <2>1 DEF MainGoesOn
  <2> QED BY <2>1, <2>2, SoundBefore, StreamQuiet
<1>5. ASSUME NEW p \in Procs, Shared(p), UNCHANGED streamVars
      PROVE  StreamOrderInv'
  <2>1. CASE Store(p) \/ EndReply(p) \/ Crash(p)
    <3>1. UNCHANGED <<sendVars, rows, total, peer, got>>
      BY <1>5, <2>1 DEF Store, EndReply, Crash, streamVars
    <3>2. \A x \in Procs : MainGoesOn(x)
      BY <1>0, <2>1 DEF Store, EndReply, LoopTest, Crash, MainGoesOn
    <3> QED BY <3>1, <3>2, SoundBefore, StreamQuiet
  <2>2. CASE Kernel(p) \/ (Thread(p) /\ (reset[p] = "no" \/ ~AtSendto(p)))
    BY <1>5, <2>2, RoutineInOrder
  <2> QED BY <1>5, <2>1, <2>2 DEF Shared
<1>6. UNCHANGED allVars => UNCHANGED vars /\ peer' = peer /\ got' = got
  BY DEF allVars, streamVars
<1>7. ASSUME NEW q \in Procs, NEW p \in Procs,
             \/ ReadMessage(q, p) \/ ReadErrorAgain(q, p)
             \/ ReadSkewed(q, p) \/ ReadEof(q, p) \/ ReadErrorAnything(q, p)
      PROVE  StreamOrderInv'
  <2>1. CASE ReadMessage(q, p) \/ ReadErrorAgain(q, p)
    BY <2>1, ReadInOrder, AgainInOrder
  <2>2. CASE ReadSkewed(q, p) \/ ReadEof(q, p) \/ ReadErrorAnything(q, p)
    <3>1. Departs(q)
      BY <2>2, ReadingDeparts
    <3>2. \A y \in Procs : got'[y] = got[y] \/ peer[q] = y
      <4>1. CASE ReadSkewed(q, p)
        BY <4>1, ReadBytes DEF ReadSkewed, Reads, StreamTypeInv, BytesInOrder
      <4>2. CASE ReadEof(q, p) \/ ReadErrorAnything(q, p)
        BY <4>2 DEF ReadEof, ReadErrorAnything, ReadError, streamVars
      <4> QED BY <2>2, <4>1, <4>2
    <3> QED BY <3>1, <3>2, DepartsInOrder
  <2> QED BY <1>7, <2>1, <2>2
<1>8. ASSUME NEW q \in Procs, ConnectRefused(q) \/ Killed(q)
      PROVE  StreamOrderInv'
  <2>1. Departs(q) /\ got' = got
    BY <1>8, EndingDeparts DEF streamVars
  <2> QED BY <2>1, DepartsInOrder
<1>9. ASSUME NEW r \in Masters, Connect(r)
      PROVE  StreamOrderInv'
  BY <1>9, ConnectInOrder
<1> QED BY <1>0, <1>1, <1>2, <1>3, <1>4, <1>5, <1>6, <1>7, <1>8, <1>9, StreamCases

LEMMA StreamOrderInvariant ==
  ASSUME StampOrders = {SwThenHw}, RxStamps \subseteq {"hw", "none"}
  PROVE  StreamSpec => []StreamOrderInv
<1>1. StreamInit => StreamOrderInv
  <2> SUFFICES ASSUME StreamInit, NEW p \in Procs
               PROVE  StreamOrder(p)
    BY DEF StreamOrderInv
  <2>1. \A x \in Procs : AtRest(x)
    BY DEF StreamInit, Init, SendInit, AtRest
  <2>2. frame[p] = Idle /\ owed[p] = <<>> /\ errq[p] = <<>> /\ total[p] = 0
    BY DEF StreamInit, Init, SendInit
  <2>3. QueueInv(p)
    BY <2>2 DEF QueueInv, NoneOutstanding, Idle
  <2>4. InStep(p)
    <3>1. ASSUME NEW q \in Procs
          PROVE  Heeds(p, q)
      <4>1. total[p] = 0 /\ Taken(q) = 0
        BY <2>1, <2>2, AtRestOrder
      <4> QED BY <4>1, SizeType DEF Heeds, UpTo, Measured
    <3> QED BY <2>1, <3>1, AtRestOrder DEF InStep
  <2> QED BY <2>1, <2>3, <2>4, AtRestOrder, OrderOf
<1>2. StreamTypeInv /\ StreamOrderInv /\ [StreamNext]_allVars => StreamOrderInv'
  BY StreamOrderStep
<1> QED BY <1>1, <1>2, StreamTypeInvariant, PTL DEF StreamSpec

LEMMA ResultsStay ==
  ASSUME StreamTypeInv, [StreamNext]_allVars, NEW p \in Procs
  PROVE  results'[p] = results[p] \/ Store(p)
<1>1. \A s \in Slaves : Listen(s) => results' = results
  BY DEF Listen, vars, mainVars
<1>2. \A r \in Masters : Connect(r) => results' = results
  BY DEF Connect
<1>3. \A x \in Procs : Departs(x) \/ Deliver(x) \/ Cut(x) \/ Reset(x) => results' = results
  BY DEF Departs, Deliver, Cut, Reset, vars, mainVars
<1>4. \A q, x \in Procs : ReadMessage(q, x) => results' = results
  BY ReadIsReception, ReceptionReceives
<1>5. \A q, x \in Procs : ReadErrorAgain(q, x) => UNCHANGED <<results>>
  BY DEF ReadErrorAgain, ReadError, LoopTest, Call
<1>6. ASSUME NEW q \in Procs, Shared(q)
      PROVE  results'[p] = results[p] \/ Store(p)
  <2>1. results' = results \/ Store(q)
    BY <1>6 DEF Shared, EndReply, Kernel, Crash, Thread, mainVars
  <2>2. Store(q) /\ q # p => results'[p] = results[p]
    BY DEF Store, StreamTypeInv, TypeOK, MainTypeOK
  <2> QED BY <2>1, <2>2
<1>7. UNCHANGED allVars => results' = results
  BY DEF allVars, vars, mainVars
<1> QED BY <1>1, <1>2, <1>3, <1>4, <1>5, <1>6, <1>7, StreamCases, ReadingDeparts, EndingDeparts,
           MdelayAssumption

\* Over TCP, whatever is cut, crashes, or is reset, and with any number of
\* masters and slaves: unless a recvmsg of it has failed, every number that a
\* master stores is the delay of one message, none that a slave stores is less
\* than that of the message it is for, and no two are for the same, although
\* recvmsg may give the slave the stamp of a later segment (master.c:147-158,
\* slave.c:125-155, util.c:170-177).
THEOREM StoredUnlessResetIsReal ==
  ASSUME StampOrders = {SwThenHw}, RxStamps \subseteq {"hw", "none"}
  PROVE  StreamSpec => []StoredUnlessReset
<1>1. StreamInit => StoredUnlessReset
  <2> SUFFICES ASSUME StreamInit, NEW p \in Procs
               PROVE  NoneTooShort(results[p].rows) /\ RealDelays(results[p].rows)
    BY DEF StoredUnlessReset
  <2>1. results[p].rows = <<>> /\ Len(<<>>) = 0
    BY DEF StreamInit, Init, NoFile
  <2> QED BY <2>1 DEF RealDelays, NoneTooShort
<1>2. StreamTypeInv /\ StreamOrderInv /\ StoredUnlessReset /\ [StreamNext]_allVars
        => StoredUnlessReset'
  <2> SUFFICES ASSUME StreamTypeInv, StreamOrderInv, StoredUnlessReset, [StreamNext]_allVars,
                      NEW p \in Procs, reset'[p] # "seen"
               PROVE  /\ NoneTooShort(results'[p].rows)
                      /\ p \in Masters => RealDelays(results'[p].rows)
    BY DEF StoredUnlessReset, RealDelays, NoneTooShort
  <2>1. Sound(p)
    <3>1. Sound(p)'
      BY DEF Sound
    <3> QED BY <3>1, SoundBefore
  <2>2. NoneTooShort(results[p].rows) /\ (p \in Masters => RealDelays(results[p].rows))
    BY <2>1 DEF StoredUnlessReset, Sound
  <2>3. CASE results'[p] = results[p]
    BY <2>2, <2>3
  <2>4. CASE Store(p)
    <3>1. main[p] = "store"
      BY <2>4 DEF Store
    <3>2. PICK q \in Procs : peer[p] = q
      BY <3>1 DEF StreamTypeInv, PeerInv, PeerOf
    <3>3. Measured(Slaves, p, q, total[p], rows[p])
      BY <2>1, <3>2, OrderOf DEF StreamOrderInv, InStep, Heeds
    <3>4. \/ results'[p] = results[p]
          \/ /\ NoneTooShort(results'[p].rows)
             /\ p \notin Slaves => RealDelays(results'[p].rows)
      BY <2>4, <3>3, StoreReal DEF StreamTypeInv
    <3>5. p \in Masters => p \notin Slaves
      BY MdelayAssumption
    <3> QED BY <2>2, <3>4, <3>5
  <2> QED BY <2>3, <2>4, ResultsStay
<1> QED BY <1>1, <1>2, StreamTypeInvariant, StreamOrderInvariant, PTL DEF StreamSpec

-----------------------------------------------------------------------------
(* Where the reads of a master's bytes end *)

\* Only what is read has begun to be read.
LEMMA BegunStays ==
  ASSUME StreamTypeInv, [StreamNext]_allVars, NEW r \in Procs,
         \A q \in Procs : ~ReadMessage(q, r)
  PROVE  Begun(r)' = Begun(r)
<1>0. txno \in [Procs -> Nat] /\ wire \in [Procs -> Seq(Packets)] /\ TypeOK
  BY DEF StreamTypeInv, TypeOK, SendTypeOK
<1>1. ASSUME txno'[r] = txno[r], wire'[r] = wire[r]
      PROVE  Begun(r)' = Begun(r)
  BY <1>1 DEF Begun
<1>2. ASSUME UNCHANGED sendVars \/ UNCHANGED vars \/ UNCHANGED allVars
      PROVE  Begun(r)' = Begun(r)
  BY <1>1, <1>2 DEF sendVars, vars, allVars
<1>3. \A s \in Slaves : Listen(s) => UNCHANGED vars
  BY DEF Listen
<1>4. ASSUME NEW m \in Masters, Connect(m)
      PROVE  Begun(r)' = Begun(r)
  BY <1>1, <1>4 DEF Connect
<1>5. \A x \in Procs : /\ Deliver(x) \/ Reset(x) => UNCHANGED vars
                       /\ Cut(x) \/ Departs(x) => UNCHANGED sendVars
  BY DEF Deliver, Cut, Reset, Departs
<1>6. ASSUME NEW q \in Procs, NEW x \in Procs, ReadErrorAgain(q, x)
      PROVE  Begun(r)' = Begun(r)
  BY <1>1, <1>6 DEF ReadErrorAgain, ReadError
<1>7. ASSUME NEW q \in Procs, NEW x \in Procs, ReadMessage(q, x), x # r
      PROVE  Begun(r)' = Begun(r)
  BY <1>0, <1>1, <1>7, ReadIsReception, ReceptionOthers
<1>8. ASSUME NEW q \in Procs, Shared(q)
      PROVE  Begun(r)' = Begun(r)
  <2>1. CASE q # r
    BY <1>0, <1>1, <1>8, <2>1, SharedOthers DEF Uninvolved
  <2>2. CASE q = r /\ (SendPacket(r) \/ SendFollowUp(r))
    <3>1. PICK d : wire' = [wire EXCEPT ![r] = Append(@, d)] /\ txno' = [txno EXCEPT ![r] = @ + 1]
      BY <2>2 DEF SendPacket, SendFollowUp, SendTo
    <3>2. wire'[r] = Append(wire[r], d) /\ txno'[r] = txno[r] + 1 /\ txno[r] \in Nat
      BY <1>0, <3>1
    <3>3. Len(Append(wire[r], d)) = Len(wire[r]) + 1 /\ Len(wire[r]) \in Nat
      BY <1>0
    <3> QED BY <3>2, <3>3 DEF Begun
  <2>3. CASE q = r /\ ~SendPacket(r) /\ ~SendFollowUp(r)
    BY <1>1, <1>8, <2>3 DEF Shared, Store, EndReply, Kernel, LoopStamp, Crash, Thread, SendStep,
                            ReadKernelStamp, DrainKernelStamp, EndIteration, sendVars
  <2> QED BY <2>1, <2>2, <2>3
<1> QED BY <1>2, <1>3, <1>4, <1>5, <1>6, <1>7, <1>8, StreamCases, ReadingDeparts, EndingDeparts,
           MdelayAssumption

\* A program that had a peer and has ended does nothing any more.
LEMMA EndedStays ==
  ASSUME StreamTypeInv, [StreamNext]_allVars, NEW q \in Procs, Ended(q), peer[q] \in Procs
  PROVE  Ended(q)'
<1>0. /\ main \in [Procs -> Mains] /\ TypeOK /\ main[q] \notin {"recv", "reply", "store", "down"}
      /\ Anybody \notin Procs
  BY StreamAssumption DEF StreamTypeInv, TypeOK, MainTypeOK, Ended
<1>1. CASE main'[q] = main[q]
  BY <1>1 DEF Ended
<1>2. \A s \in Slaves : Listen(s) => main' = main
  BY DEF Listen, vars, mainVars
<1>3. ASSUME NEW r \in Masters, Connect(r)
      PROVE  main'[q] = main[q]
  <2>1. PICK s \in Slaves : /\ main' = [main EXCEPT ![r] = "recv", ![s] = "recv"]
                            /\ peer[s] = Anybody /\ main[r] = "down"
    BY <1>3 DEF Connect
  <2> QED BY <1>0, <2>1
<1>4. \A x \in Procs : Deliver(x) \/ Cut(x) \/ Reset(x) \/ UNCHANGED allVars => main' = main
  BY DEF Deliver, Cut, Reset, vars, mainVars, allVars
<1>5. ASSUME NEW x \in Procs, Departs(x), x # q
      PROVE  main'[q] = main[q]
  BY <1>0, <1>5 DEF Departs
<1>6. \A x \in Procs : ConnectRefused(x) \/ Killed(x) => x # q
  BY <1>0 DEF ConnectRefused, Killed, Alive
<1>7. \A x \in Procs, y \in Procs :
        ReadSkewed(x, y) \/ ReadEof(x, y) \/ ReadErrorAnything(x, y) \/ ReadErrorAgain(x, y)
          \/ ReadMessage(x, y) => x # q
  BY <1>0 DEF ReadSkewed, Reads, ReadEof, ReadErrorAnything, ReadErrorAgain, ReadError, ReadMessage
<1>8. \A x \in Procs : Shared(x) => x # q
  BY <1>0 DEF Shared, Store, EndReply, Kernel, Crash, Thread, Alive
<1>9. main'[q] = main[q]
  <2>1. \A x \in Procs, y \in Procs : ReadMessage(x, y) \/ ReadErrorAgain(x, y) => main'[q] = main[q]
    BY <1>0, <1>7, ReadIsReception, ReceptionOthers, AgainOthers DEF Uninvolved
  <2>2. \A x \in Procs : Shared(x) => main'[q] = main[q]
    BY <1>0, <1>8, SharedOthers DEF Uninvolved
  <2>3. \A x \in Procs : ConnectRefused(x) \/ Killed(x) => main'[q] = main[q]
    BY <1>5, <1>6, EndingDeparts
  <2>4. \A x \in Procs, y \in Procs :
          ReadSkewed(x, y) \/ ReadEof(x, y) \/ ReadErrorAnything(x, y) => main'[q] = main[q]
    BY <1>5, <1>7, ReadingDeparts
  <2>5. UNCHANGED allVars => main' = main
    BY DEF allVars, vars, mainVars
  <2> QED BY <1>2, <1>3, <1>4, <2>1, <2>2, <2>3, <2>4, <2>5, StreamCases, MdelayAssumption
<1> QED BY <1>1, <1>9

\* The peers of a master: if it has one now that it did not have, it has not
\* sent anything.
LEMMA PeersOfMaster ==
  ASSUME StreamTypeInv, [StreamNext]_allVars, NEW r \in Masters, NEW q \in Procs, peer'[q] = r
  PROVE  peer[q] = r \/ (AtRest(r) /\ Connect(r))
<1>0. /\ peer \in [Procs -> Procs \cup {Nobody, Anybody}] /\ Anybody \notin Procs
      /\ Masters \subseteq Procs /\ Masters \cap Slaves = {}
  BY MdelayAssumption, StreamAssumption DEF StreamTypeInv, PeerInv
<1>1. ASSUME NEW m \in Masters, Connect(m)
      PROVE  peer[q] = r \/ (AtRest(r) /\ m = r)
  <2>1. PICK s \in Slaves : peer' = [peer EXCEPT ![m] = s, ![s] = m] /\ main[m] = "down"
    BY <1>1 DEF Connect
  <2>2. CASE m = r
    <3>1. peer[r] \notin Procs
      BY <1>0, <2>1, <2>2 DEF StreamTypeInv, PeerInv, PeerOf
    <3> QED BY <1>0, <2>2, <3>1 DEF StreamTypeInv, PeerInv, PeerOf
  <2>3. CASE m # r
    BY <1>0, <2>1, <2>3
  <2> QED BY <2>2, <2>3
<1>2. ASSUME NEW s \in Slaves, Listen(s)
      PROVE  peer[q] = r
  BY <1>0, <1>2 DEF Listen
<1>3. \A x \in Procs : Deliver(x) \/ Cut(x) \/ Reset(x) \/ Departs(x) => peer' = peer
  BY DEF Deliver, Cut, Reset, Departs
<1>4. \A x, y \in Procs : ReadMessage(x, y) \/ ReadErrorAgain(x, y) => peer' = peer
  BY DEF ReadMessage, Reads, ReadErrorAgain, ReadError
<1>5. UNCHANGED streamVars \/ UNCHANGED allVars => peer' = peer
  BY DEF streamVars, allVars
<1> QED BY <1>0, <1>1, <1>2, <1>3, <1>4, <1>5, StreamCases, ReadingDeparts, EndingDeparts

LEMMA ArrivedCut ==
  ASSUME StreamTypeInv, [StreamNext]_allVars, NEW r \in Masters, arrived[r] % 900 \in Cuts \cup {0}
  PROVE  arrived'[r] % 900 \in Cuts \cup {0}
<1>0. /\ r \in Procs /\ Length(r) = 900 /\ txno \in [Procs -> Nat]
      /\ arrived \in [Procs -> Nat] /\ got \in [Procs -> Nat]
  BY MdelayAssumption DEF Length, StreamTypeInv, TypeOK, SendTypeOK
<1>1. CASE arrived'[r] = arrived[r]
  BY <1>1
<1>2. ASSUME NEW p \in Procs, Deliver(p) \/ Cut(p)
      PROVE  arrived'[r] % 900 \in Cuts \cup {0}
  <2>1. CASE p # r
    BY <1>0, <1>1, <1>2, <2>1, DeliverBytes
  <2>2. CASE p = r
    <3>1. \/ arrived'[r] % 900 = 0
          \/ arrived[r] % 900 = 0 /\ arrived'[r] - arrived[r] \in Cuts
      BY <1>0, <1>2, <2>2, DeliverBytes
    <3>2. CASE arrived[r] % 900 = 0 /\ arrived'[r] - arrived[r] \in Cuts
      <4>1. PICK c \in Cuts : arrived'[r] - arrived[r] = c
        BY <3>2
      <4>2. arrived'[r] \in Nat /\ arrived[r] \in Nat /\ c \in 40..885
        BY <1>0, <1>2, DeliverBytes, StreamAssumption
      <4>3. arrived'[r] % 900 = c
        BY <3>2, <4>1, <4>2
      <4> QED BY <4>3
    <3> QED BY <3>1, <3>2
  <2> QED BY <2>1, <2>2
<1>3. \A q, p \in Procs : Reads(q, p) => arrived' = arrived
  BY DEF Reads
<1> QED BY <1>0, <1>1, <1>2, <1>3, BytesMove DEF StreamTypeInv, allVars, streamVars

\* A read of bytes that begin where a message begins.
LEMMA AlignedRead ==
  ASSUME StreamTypeInv, NEW r \in Masters, NEW q \in Procs, ReadMessage(q, r),
         arrived[r] % 900 \in Cuts \cup {0}
  PROVE  \/ got'[r] = 900 * Begun(r)'
         \/ \E c \in Cuts : got'[r] = 900 * (Begun(r)' - 1) + c
<1> USE DEF StreamTypeInv
<1>0. /\ r \in Procs /\ Length(r) = 900 /\ txno[r] \in Nat /\ wire[r] \in Seq(Packets)
      /\ arrived \in [Procs -> Nat] /\ got \in [Procs -> Nat]
  BY MdelayAssumption DEF Length, TypeOK, SendTypeOK
<1>1. Begun(r)' = Begun(r) + 1 /\ Begun(r) \in Int
  <2>1. wire[r] # <<>> /\ wire'[r] = Tail(wire[r]) /\ txno' = txno
    <3>1. Reception(q, r)
      BY <1>0, ReadIsReception
    <3> QED BY <1>0, <3>1, ReceptionReceives, ReceiveTakes DEF TypeOK, SendTypeOK
  <2>2. Len(wire'[r]) = Len(wire[r]) - 1 /\ Len(wire[r]) \in Nat
    BY <1>0, <2>1
  <2> QED BY <1>0, <2>1, <2>2 DEF Begun
<1>2. got[r] = 900 * Begun(r)
  BY <1>0, <1>1 DEF ReadMessage, Aligned
<1>3. /\ got[r] < got'[r] /\ got'[r] \in Nat /\ got[r] \in Nat /\ arrived[r] \in Nat
      /\ got'[r] = got[r] + 900 \/ (got'[r] = arrived[r] /\ got'[r] <= got[r] + 900)
  BY <1>0, ReadBytes DEF ReadMessage, BytesInOrder
<1>4. CASE got'[r] = got[r] + 900
  BY <1>1, <1>2, <1>3, <1>4
<1>5. CASE arrived[r] % 900 = 0 /\ got'[r] = arrived[r] /\ got'[r] <= got[r] + 900
  <2>1. got'[r] = got[r] + 900
    BY <1>1, <1>2, <1>3, <1>5
  <2> QED BY <1>4, <2>1
<1>6. CASE arrived[r] % 900 \in Cuts /\ got'[r] = arrived[r] /\ got'[r] <= got[r] + 900
  <2>1. PICK c \in Cuts : arrived[r] % 900 = c
    BY <1>6
  <2>2. c \in 40..885
    BY StreamAssumption
  <2>3. got'[r] = 900 * Begun(r) + c
    BY <1>1, <1>2, <1>3, <1>6, <2>1, <2>2
  <2>4. 900 * ((Begun(r) + 1) - 1) + c = 900 * Begun(r) + c
    BY <1>1, <2>2
  <2> QED BY <1>1, <2>3, <2>4
<1> QED BY <1>3, <1>4, <1>5, <1>6

\* A read of bytes that begin elsewhere.
LEMMA SkewedRead ==
  ASSUME StreamTypeInv, NEW r \in Masters, NEW q \in Procs, ReadSkewed(q, r), CutInv(r)
  PROVE  got'[r] = 900 * Begun(r) \/ got'[r] % 900 \in Cuts
<1> USE DEF StreamTypeInv
<1>0. /\ r \in Procs /\ Length(r) = 900 /\ txno[r] \in Nat /\ wire[r] \in Seq(Packets)
      /\ arrived \in [Procs -> Nat] /\ got \in [Procs -> Nat]
  BY MdelayAssumption DEF Length, TypeOK, SendTypeOK
<1>1. Begun(r) \in Int
  BY <1>0 DEF Begun
<1>2. PICK c \in Cuts : got[r] = 900 * (Begun(r) - 1) + c
  <2>1. peer[q] = r /\ main[q] = "recv" /\ ~Aligned(r)
    BY DEF ReadSkewed, Reads
  <2>2. got[r] # 900 * Begun(r)
    BY <1>0, <1>1, <2>1 DEF Aligned
  <2>3. ~Ended(q)
    BY <2>1 DEF Ended
  <2> QED BY <2>1, <2>2, <2>3 DEF CutInv
<1>3. c \in 40..885
  BY StreamAssumption
<1>4. /\ got[r] < got'[r] /\ got'[r] \in Nat /\ got[r] \in Nat /\ arrived[r] \in Nat
      /\ got'[r] = got[r] + 900 \/ (got'[r] = arrived[r] /\ got'[r] <= got[r] + 900)
  BY <1>0, ReadBytes DEF ReadSkewed, BytesInOrder
<1>5. CASE got'[r] = got[r] + 900
  <2>1. got'[r] % 900 = c
    BY <1>1, <1>2, <1>3, <1>4, <1>5
  <2> QED BY <2>1
<1>6. CASE arrived[r] % 900 \in Cuts /\ got'[r] = arrived[r]
  BY <1>6
<1>7. CASE arrived[r] % 900 = 0 /\ got'[r] = arrived[r] /\ got'[r] <= got[r] + 900
  <2>1. got'[r] = 900 * Begun(r)
    BY <1>1, <1>2, <1>3, <1>4, <1>7
  <2> QED BY <2>1
<1> QED BY <1>4, <1>5, <1>6, <1>7 DEF CutInv

LEMMA CutStep ==
  ASSUME StreamTypeInv, [StreamNext]_allVars, NEW r \in Masters, CutInv(r)
  PROVE  CutInv(r)'
<1> USE DEF StreamTypeInv
<1>0. /\ r \in Procs /\ Length(r) = 900 /\ arrived \in [Procs -> Nat] /\ got \in [Procs -> Nat]
  BY MdelayAssumption DEF Length
<1>1. arrived'[r] % 900 \in Cuts \cup {0}
  BY ArrivedCut DEF CutInv
<1>2. ASSUME NEW q \in Procs, ReadMessage(q, r)
      PROVE  CutInv(r)'
  BY <1>1, <1>2, AlignedRead DEF CutInv
<1>3. ASSUME NEW q \in Procs, ReadSkewed(q, r)
      PROVE  CutInv(r)'
  <2>1. Begun(r)' = Begun(r)
    BY <1>0, <1>3, BegunStays DEF ReadMessage, ReadSkewed
  <2>2. got'[r] = 900 * Begun(r) \/ got'[r] % 900 \in Cuts
    BY <1>3, SkewedRead
  <2>3. ASSUME NEW x \in Procs, peer'[x] = r
        PROVE  Ended(x)'
    <3>1. peer[q] = r /\ peer[x] = r /\ main' = [main EXCEPT ![q] = "failed"]
      BY <1>3, <2>3 DEF ReadSkewed, Reads, Stop
    <3>2. x = q
      BY <1>0, <3>1, PeersDiffer
    <3> QED BY <3>1, <3>2 DEF TypeOK, MainTypeOK, Ended
  <2> QED BY <1>1, <2>1, <2>2, <2>3 DEF CutInv
<1>4. CASE \A q \in Procs : ~ReadMessage(q, r) /\ ~ReadSkewed(q, r)
  <2>1. Begun(r)' = Begun(r)
    BY <1>0, <1>4, BegunStays
  <2>2. got'[r] = got[r]
    <3>1. ASSUME NEW p \in Procs, Deliver(p) \/ Cut(p)
          PROVE  got' = got
      BY <3>1 DEF Deliver, Cut
    <3>2. ASSUME NEW q \in Procs, NEW p \in Procs, ReadMessage(q, p) \/ ReadSkewed(q, p)
          PROVE  got'[r] = got[r]
      <4>1. Reads(q, p) /\ p # r
        BY <1>4, <3>2 DEF ReadMessage, ReadSkewed
      <4> QED BY <1>0, <4>1, ReadBytes DEF BytesInOrder
    <3>3. \A s \in Slaves : Listen(s) => got' = got
      BY DEF Listen
    <3>4. \A m \in Masters : Connect(m) \/ ConnectRefused(m) => got' = got
      BY DEF Connect, ConnectRefused, streamVars
    <3>5. \A p \in Procs : Reset(p) \/ Killed(p) => got' = got
      BY DEF Reset, Killed, streamVars
    <3>6. \A q, p \in Procs : ReadEof(q, p) \/ ReadErrorAnything(q, p) \/ ReadErrorAgain(q, p)
                                => got' = got
      BY DEF ReadEof, ReadErrorAnything, ReadErrorAgain, ReadError, streamVars
    <3>7. UNCHANGED streamVars \/ UNCHANGED allVars => got' = got
      BY DEF streamVars, allVars
    <3> QED BY <3>1, <3>2, <3>3, <3>4, <3>5, <3>6, <3>7, StreamCases
  <2>3. CASE got[r] = 900 * Begun(r) \/ \E c \in Cuts : got[r] = 900 * (Begun(r) - 1) + c
    BY <1>1, <2>1, <2>2, <2>3 DEF CutInv
  <2>4. CASE AtRest(r)
    <3>1. txno[r] = 0 /\ Len(wire[r]) = 0
      BY <2>4 DEF AtRest
    <3>2. Begun(r) = 0 /\ Sent(r) = 0
      BY <1>0, <3>1 DEF Begun, Sent
    <3>3. got[r] = 0
      <4>1. BytesInOrder(r) /\ got[r] \in Nat /\ arrived[r] \in Nat
        BY <1>0
      <4> QED BY <3>2, <4>1 DEF BytesInOrder
    <3> QED BY <2>3, <3>2, <3>3
  <2>5. CASE ~AtRest(r) /\ /\ \A q \in Procs : peer[q] = r => Ended(q)
                           /\ Aligned(r) \/ got[r] % 900 \in Cuts
    <3>1. ASSUME NEW q \in Procs, peer'[q] = r
          PROVE  Ended(q)'
      <4>1. peer[q] = r
        BY <2>5, <3>1, PeersOfMaster
      <4> QED BY <1>0, <2>5, <4>1, EndedStays
    <3>2. Aligned(r)' \/ got'[r] % 900 \in Cuts
      BY <2>1, <2>2, <2>5 DEF Aligned, Length
    <3> QED BY <1>1, <3>1, <3>2 DEF CutInv
  <2> QED BY <2>3, <2>4, <2>5 DEF CutInv
<1> QED BY <1>2, <1>3, <1>4

\* The slave loses track of a master's messages only behind one of which a
\* segment held a part: reads of 900 bytes and messages of 900 bytes do not
\* come apart by themselves, however many arrive at once (master.c:121,
\* slave.c:115-125).
THEOREM RequestsAligned == StreamSpec => []RequestsStayAligned
<1>1. StreamInit => CutsInv
  <2> SUFFICES ASSUME StreamInit, NEW r \in Masters
               PROVE  CutInv(r)
    BY DEF CutsInv
  <2>1. arrived[r] = 0 /\ got[r] = 0
    BY MdelayAssumption DEF StreamInit
  <2>2. txno[r] = 0 /\ Len(wire[r]) = 0
    BY MdelayAssumption DEF StreamInit, Init, SendInit
  <2>3. Begun(r) = 0
    BY <2>2 DEF Begun
  <2>4. 0 % 900 = 0
    OBVIOUS
  <2> QED BY <2>1, <2>3, <2>4 DEF CutInv
<1>2. StreamTypeInv /\ CutsInv /\ [StreamNext]_allVars => CutsInv'
  <2> SUFFICES ASSUME StreamTypeInv, CutsInv, [StreamNext]_allVars, NEW r \in Masters
               PROVE  CutInv(r)'
    BY DEF CutsInv
  <2> QED BY CutStep DEF CutsInv
<1>3. StreamTypeInv /\ CutsInv => RequestsStayAligned
  <2> SUFFICES ASSUME StreamTypeInv, CutsInv, NEW r \in Masters
               PROVE  Aligned(r) \/ got[r] % Length(r) \in Cuts
    BY DEF RequestsStayAligned
  <2>0. CutInv(r) /\ Length(r) = 900 /\ Begun(r) \in Int
    BY MdelayAssumption DEF CutsInv, Length, Begun, StreamTypeInv, TypeOK, SendTypeOK
  <2>1. CASE got[r] = 900 * Begun(r)
    BY <2>0, <2>1 DEF Aligned
  <2>2. ASSUME NEW c \in Cuts, got[r] = 900 * (Begun(r) - 1) + c
        PROVE  got[r] % 900 = c
    <3>1. c \in 40..885
      BY StreamAssumption
    <3> QED BY <2>0, <2>2, <3>1
  <2> QED BY <2>0, <2>1, <2>2 DEF CutInv
<1> QED BY <1>1, <1>2, <1>3, StreamTypeInvariant, PTL DEF StreamSpec
=============================================================================
