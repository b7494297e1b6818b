---------------------------- MODULE MdelayProofs ----------------------------
(***************************************************************************)
(* Theorems about the measurement over UDP, for any number of runs of the  *)
(* two programs, any number of measurements and any number of faults.      *)
(* Those on which stamps meet in a row of a table, and the refinement of   *)
(* DelayMeasurement, are about one run of the master on a network that     *)
(* loses and reorders but does not duplicate.                              *)
(***************************************************************************)
EXTENDS Mdelay, TimestampedSendProofs, QueueFacts, FiniteSets, FiniteSetTheorems

-----------------------------------------------------------------------------
(* The network *)

\* A step after which wire[q], for each q, holds datagrams of the same kind.
Relayed(q) ==
  \/ wire'[q] = wire[q]
  \/ wire[q] # <<>> /\ wire'[q] = Tail(wire[q])
  \/ \E k \in 1..Len(wire[q]) : wire'[q] = RemoveAt(wire[q], k)
  \/ "dup" \in Faults /\ \E k \in 1..Len(wire[q]) : wire'[q] = InsertAt(wire[q], k, wire[q][k])
  \/ \E k \in 1..Len(wire[q]) - 1 :
       wire'[q] = InsertAt(RemoveAt(wire[q], k), k + 1, wire[q][k])

LEMMA RelayedSeq ==
  ASSUME NEW S, NEW q, wire[q] \in Seq(S), Relayed(q)
  PROVE  wire'[q] \in Seq(S)
  BY NetworkSeq DEF Relayed

\* What a receiver takes, it takes from the front.
LEMMA ReceiveTakes ==
  ASSUME SendTypeOK, NEW p \in Procs, NEW q \in Procs, NEW type, Receive(p, q, type)
  PROVE  /\ \A r \in Procs : Relayed(r)
         /\ wire' = [wire EXCEPT ![p] = Tail(@)]
         /\ wire[p] # <<>> /\ Head(wire[p]) \in Packets /\ Head(wire[p]).type = type
<1>1. wire[p] # <<>> /\ wire' = [wire EXCEPT ![p] = Tail(@)]
  BY DEF Receive
<1>2. Head(wire[p]) \in Packets
  BY <1>1 DEF SendTypeOK
<1>3. \A r \in Procs : Relayed(r)
  BY <1>1 DEF SendTypeOK, Relayed
<1> QED BY <1>1, <1>2, <1>3 DEF Receive

\* The faults, and the loss of what nobody reads.
NetworkStep == \E p \in Procs : Unread(p) \/ Lose(p) \/ Duplicate(p) \/ Swap(p)

LEMMA NetworkRelays ==
  ASSUME SendTypeOK, NetworkStep
  PROVE  /\ \A r \in Procs : Relayed(r)
         /\ wire' = [r \in Procs |-> wire'[r]]
         /\ UNCHANGED <<frame, owed, errq, txno, mainVars>>
<1>1. PICK p \in Procs : Unread(p) \/ Lose(p) \/ Duplicate(p) \/ Swap(p)
  BY DEF NetworkStep
<1>2. CASE Unread(p)
  BY <1>2 DEF Unread, Relayed, SendTypeOK
<1>3. CASE Lose(p)
  BY <1>3 DEF Lose, Relayed, SendTypeOK
<1>4. CASE Duplicate(p)
  BY <1>4 DEF Duplicate, Fault, Relayed, SendTypeOK
<1>5. CASE Swap(p)
  BY <1>5 DEF Swap, Relayed, SendTypeOK
<1> QED BY <1>1, <1>2, <1>3, <1>4, <1>5

-----------------------------------------------------------------------------
(* Types of the routine's part *)

\* A reception with stamp x, by either program and in any of its cases.
Taking(q, p, x) ==
  \/ q \in Masters /\ \/ \E rx \in RxStamps : RespStamped(q, p, rx, x)
                      \/ RecvRespFollowUp(q, p)
                      \/ RecvUnknown(q, p)
  \/ q \in Slaves /\ \/ \E rx \in RxStamps : ReqStamped(q, p, rx, x)
                     \/ RecvReqFollowUp(q, p)
                     \/ RecvUnknown(q, p)

\* With any stamp, and with the datagram's own.
Reception(q, p) == \E x \in TxIds : Taking(q, p, x)
OwnReception(q, p) == Taking(q, p, Head(wire[p]).id)

ThreadStep(p) == Thread(p) \/ Kernel(p) \/ ThreadFails(p)

LEMMA TakingReceives ==
  ASSUME NEW q \in Procs, NEW p \in Procs, NEW x, Taking(q, p, x)
  PROVE  \E type \in Types : Receive(p, q, type)
  BY DEF Taking, RespStamped, RecvRespFollowUp, RecvUnknown, ReqStamped,
         RecvReqFollowUp, Types, Requests, FollowUps

LEMMA OwnIsReception ==
  ASSUME TypeOK, NEW q \in Procs, NEW p \in Procs, OwnReception(q, p)
  PROVE  Reception(q, p)
<1>1. Head(wire[p]) \in Packets
  BY TakingReceives, ReceiveTakes DEF OwnReception, TypeOK
<1> QED BY <1>1 DEF OwnReception, Reception, Packets

\* The steps of Next, grouped by what they do.
LEMMA NextCases ==
  ASSUME TypeOK, Next
  PROVE  \/ \E r \in Masters : StartMaster(r)
         \/ \E s \in Slaves : StartSlave(s) \/ EndReply(s)
         \/ \E q \in Procs, p \in Procs : OwnReception(q, p) /\ Reception(q, p)
         \/ \E p \in Procs : Store(p) \/ Crash(p)
         \/ \E p \in Procs : ThreadStep(p)
         \/ NetworkStep
<1>1. ASSUME NEW r \in Masters, MasterStep(r)
      PROVE  Store(r) \/ \E p \in Procs : OwnReception(r, p)
  BY <1>1 DEF MasterStep, OwnReception, Taking, RecvResp
<1>2. ASSUME NEW s \in Slaves, SlaveStep(s)
      PROVE  Store(s) \/ EndReply(s) \/ \E p \in Procs : OwnReception(s, p)
  BY <1>2 DEF SlaveStep, OwnReception, Taking, RecvReq
<1> QED BY <1>1, <1>2, OwnIsReception, MdelayAssumption DEF Next, ThreadStep, NetworkStep

LEMMA ReceptionReceives ==
  ASSUME NEW q \in Procs, NEW p \in Procs, Reception(q, p)
  PROVE  /\ \E type \in Types : Receive(p, q, type)
         /\ UNCHANGED <<host, owed, errq, txno, results, faults>>
  BY DEF Reception, Taking, RespStamped, RecvRespFollowUp, RecvUnknown, ReqStamped,
         RecvReqFollowUp, Types, Requests, FollowUps

\* The only reception that touches the frame is that of a follow-up by a slave
\* that has a row for it: it starts the reply.
LEMMA ReceptionFrame ==
  ASSUME NEW q \in Procs, NEW p \in Procs, Reception(q, p)
  PROVE  \/ UNCHANGED frame
         \/ /\ q \in Slaves /\ RecvReqFollowUp(q, p)
            /\ InTable(q, Head(wire[p]))
            /\ Call(q, "DELAY_RESP", 1, Head(wire[p]).seq, ReplyAddress(q, p))
  BY DEF Reception, Taking, RespStamped, RecvRespFollowUp, RecvUnknown, ReqStamped, RecvReqFollowUp

LEMMA ReplyAddressType ==
  ASSUME MainTypeOK, NEW s \in Slaves, NEW p \in Procs
  PROVE  ReplyAddress(s, p) \in Dests \cup {Zero}
  BY MdelayAssumption DEF MainTypeOK, ReplyAddress

\* Once a slave has counted, it knows an address.
RemoteKnown == \A s \in Slaves : total[s] > 0 => remote[s] \in Dests

-----------------------------------------------------------------------------
(* Types of main's part *)

RowsOK ==
  /\ rows = [p \in Procs |-> rows[p]]
  /\ \A p \in Procs : rows[p] \in [0..Size(p) - 1 -> Rows]

LEMMA SizeType ==
  ASSUME NEW p \in Procs
  PROVE  Size(p) \in Nat /\ Limit(p) \in Nat
  BY MdelayAssumption DEF Size, Limit

\* A stamp stored in a row of the table is all that a reception writes there.
LEMMA RowWrite ==
  ASSUME RowsOK, NEW q \in Procs, NEW k \in DOMAIN rows[q], NEW stamp \in StampOrZero,
         \/ rows' = [rows EXCEPT ![q][k].recv = stamp]
         \/ rows' = [rows EXCEPT ![q][k].sent = stamp]
  PROVE  RowsOK'
<1>1. rows[q][k] \in Rows /\ k \in 0..Size(q) - 1
  BY DEF RowsOK
<1>2. PICK row \in Rows : rows' = [rows EXCEPT ![q] = [rows[q] EXCEPT ![k] = row]]
  <2>1. CASE rows' = [rows EXCEPT ![q][k].recv = stamp]
    <3>1. [rows[q][k] EXCEPT !.recv = stamp] \in Rows
      BY <1>1 DEF Rows
    <3>2. rows' = [rows EXCEPT ![q] = [rows[q] EXCEPT ![k] = [rows[q][k] EXCEPT !.recv = stamp]]]
      BY <2>1
    <3> QED BY <3>1, <3>2
  <2>2. CASE rows' = [rows EXCEPT ![q][k].sent = stamp]
    <3>1. [rows[q][k] EXCEPT !.sent = stamp] \in Rows
      BY <1>1 DEF Rows
    <3>2. rows' = [rows EXCEPT ![q] = [rows[q] EXCEPT ![k] = [rows[q][k] EXCEPT !.sent = stamp]]]
      BY <2>2
    <3> QED BY <3>1, <3>2
  <2> QED BY <2>1, <2>2
<1> DEFINE table == [rows[q] EXCEPT ![k] = row]
<1>3. table \in [0..Size(q) - 1 -> Rows]
  BY <1>1 DEF RowsOK
<1> HIDE DEF table
<1>4. rows' = [rows EXCEPT ![q] = table]
  BY <1>2 DEF table
<1>5. \A p \in Procs : rows'[p] = IF p = q THEN table ELSE rows[p]
  BY <1>4 DEF RowsOK
<1>6. rows' = [p \in Procs |-> rows'[p]]
  BY <1>4 DEF RowsOK
<1> QED BY <1>3, <1>5, <1>6 DEF RowsOK, Size

LEMMA LoopTestType ==
  ASSUME MainTypeOK, NEW q \in Procs, NEW t, LoopTest(q, t)
  PROVE  main' \in [Procs -> Mains] /\ assigned' \in [Procs -> BOOLEAN]
  BY DEF LoopTest, MainTypeOK, Mains

LEMMA StopType ==
  ASSUME MainTypeOK, NEW q \in Procs, NEW how \in Mains, Stop(q, how)
  PROVE  main' \in [Procs -> Mains] /\ UNCHANGED <<rows, total, assigned>>
  BY DEF Stop, MainTypeOK

\* A reception leaves well-typed tables, counts and control.
LEMMA ReceptionMain ==
  ASSUME SendTypeOK, MainTypeOK, NEW q \in Procs, NEW p \in Procs, Reception(q, p)
  PROVE  MainTypeOK'
<1> DEFINE d == Head(wire[p])
<1>1. d \in Packets
  BY ReceptionReceives, ReceiveTakes
<1>2. d.stamp \in StampOrZero /\ \A x \in TxIds : \A rx : RxStamp(x, rx) \in StampOrZero
  BY <1>1 DEF Packets, StampOrZero, RxStamp
<1>3. \A rx : Mishap(rx) \in Mains
  BY DEF Mishap, Mains
<1>4. RowsOK /\ (RowsOK' => MainTypeOK' \/ ~(/\ main' \in [Procs -> Mains]
                                           /\ total' \in [Procs -> Nat]
                                           /\ assigned' \in [Procs -> BOOLEAN]
                                           /\ remote' \in [Slaves -> Dests \cup {Zero}]
                                           /\ UNCHANGED <<host, results, faults>>))
  BY DEF RowsOK, MainTypeOK, Size
<1>5. UNCHANGED <<host, results, faults>>
  BY ReceptionReceives
<1>6. UNCHANGED rows => RowsOK'
  BY <1>4 DEF RowsOK, Size
<1>7. remote' \in [Slaves -> Dests \cup {Zero}]
  <2>1. \/ remote' = remote
        \/ q \in Slaves /\ remote' = [remote EXCEPT ![q] = ReplyAddress(q, p)]
    BY DEF Reception, Taking, RespStamped, RecvRespFollowUp, RecvUnknown, ReqStamped,
           RecvReqFollowUp
  <2>2. remote \in [Slaves -> Dests \cup {Zero}]
    BY DEF MainTypeOK
  <2>3. q \in Slaves => ReplyAddress(q, p) \in Dests \cup {Zero}
    BY ReplyAddressType
  <2> QED BY <2>1, <2>2, <2>3
<1>8. total' \in [Procs -> Nat]
  <2>1. total' = total \/ total' = [total EXCEPT ![q] = @ + 1]
    BY DEF Reception, Taking, RespStamped, RecvRespFollowUp, RecvUnknown, ReqStamped,
           RecvReqFollowUp, Stop
  <2>2. total \in [Procs -> Nat]
    BY DEF MainTypeOK
  <2> QED BY <2>1, <2>2
<1>9. CASE RecvUnknown(q, p)
  BY <1>4, <1>5, <1>6, <1>7, <1>8, <1>9, StopType DEF RecvUnknown, MainTypeOK, Mains
<1>10. ASSUME NEW rx \in RxStamps, NEW x \in TxIds,
              RespStamped(q, p, rx, x) \/ ReqStamped(q, p, rx, x)
       PROVE  MainTypeOK'
  <2>1. CASE rx # "none" /\ InTable(q, d)
    <3>1. LoopTest(q, total[q]) /\ rows' = [rows EXCEPT ![q][Row(q, d)].recv = RxStamp(x, rx)]
      BY <1>10, <2>1 DEF RespStamped, ReqStamped
    <3>2. RowsOK'
      BY <1>2, <1>4, <2>1, <3>1, RowWrite DEF InTable
    <3> QED BY <1>4, <1>5, <1>7, <1>8, <3>1, <3>2, LoopTestType
  <2>2. CASE ~(rx # "none" /\ InTable(q, d))
    <3>1. Stop(q, Mishap(rx))
      BY <1>10, <2>2 DEF RespStamped, ReqStamped
    <3> QED BY <1>3, <1>4, <1>5, <1>6, <1>7, <1>8, <3>1, StopType DEF MainTypeOK
  <2> QED BY <2>1, <2>2
<1>11. CASE RecvRespFollowUp(q, p) \/ RecvReqFollowUp(q, p)
  <2>1. CASE InTable(q, d)
    <3>1. rows' = [rows EXCEPT ![q][Row(q, d)].sent = d.stamp]
      BY <1>11, <2>1 DEF RecvRespFollowUp, RecvReqFollowUp
    <3>2. RowsOK'
      BY <1>2, <1>4, <2>1, <3>1, RowWrite DEF InTable
    <3>3. main' \in [Procs -> Mains] /\ assigned' \in [Procs -> BOOLEAN]
      <4>1. \/ LoopTest(q, total[q] + 1)
            \/ main' = [main EXCEPT ![q] = "reply"] /\ UNCHANGED assigned
        BY <1>11, <2>1 DEF RecvRespFollowUp, RecvReqFollowUp
      <4> QED BY <4>1, LoopTestType DEF MainTypeOK, Mains
    <3> QED BY <1>4, <1>5, <1>7, <1>8, <3>2, <3>3
  <2>2. CASE ~InTable(q, d)
    <3>1. Stop(q, "undefined")
      BY <1>11, <2>2 DEF RecvRespFollowUp, RecvReqFollowUp
    <3> QED BY <1>4, <1>5, <1>6, <1>7, <1>8, <3>1, StopType DEF MainTypeOK, Mains
  <2> QED BY <2>1, <2>2
<1> QED BY <1>9, <1>10, <1>11 DEF Reception, Taking

\* A reception moves the network and, in a slave, the frame: to a call with
\* typed arguments, since the slave knows whom to answer.
LEMMA ReceptionSend ==
  ASSUME TypeOK, RemoteKnown, NEW q \in Procs, NEW p \in Procs, Reception(q, p)
  PROVE  SendTypeOK' /\ RemoteKnown'
<1> USE DEF TypeOK
<1> DEFINE d == Head(wire[p])
<1>1. PICK type \in Types : Receive(p, q, type)
  BY ReceptionReceives
<1>2. d \in Packets /\ wire' = [wire EXCEPT ![p] = Tail(@)] /\ \A r \in Procs : Relayed(r)
  BY <1>1, ReceiveTakes
<1>3. wire' \in [Procs -> Seq(Packets)]
  <2>1. wire \in [Procs -> Seq(Packets)] /\ wire[p] # <<>>
    BY <1>1, ReceiveTakes DEF SendTypeOK
  <2>2. Tail(wire[p]) \in Seq(Packets)
    BY <2>1
  <2> QED BY <1>2, <2>1, <2>2
<1>4. ASSUME q \in Slaves
      PROVE  ReplyAddress(q, p) \in Dests
  <2>1. host[p] \in Dests
    BY DEF MainTypeOK
  <2>2. total[q] \in Nat
    BY DEF MainTypeOK
  <2> QED BY <1>4, <2>1, <2>2 DEF ReplyAddress, RemoteKnown
<1>5. frame' \in [Procs -> Frames \cup {Idle}]
  <2>1. CASE UNCHANGED frame
    BY <2>1 DEF SendTypeOK
  <2>2. CASE ~UNCHANGED frame
    <3>1. q \in Slaves /\ Call(q, "DELAY_RESP", 1, d.seq, ReplyAddress(q, p))
      BY <2>2, ReceptionFrame
    <3>2. d.seq \in Nat
      BY <1>2 DEF Packets
    <3> QED BY <1>4, <3>1, <3>2, CallType DEF Requests
  <2> QED BY <2>1, <2>2
<1>6. UNCHANGED <<owed, errq, txno>>
  BY ReceptionReceives
<1>7. SendTypeOK'
  BY <1>3, <1>5, <1>6 DEF SendTypeOK
<1>8. ASSUME NEW s \in Slaves, total'[s] > 0
      PROVE  remote'[s] \in Dests
  <2>1. /\ total \in [Procs -> Nat] /\ remote \in [Slaves -> Dests \cup {Zero}]
        /\ s \in Procs
    BY MdelayAssumption DEF MainTypeOK
  <2>2. CASE s # q \/ q \in Masters
    <3>1. remote'[s] = remote[s]
      BY <2>1, <2>2, MdelayAssumption
         DEF Reception, Taking, RespStamped, RecvRespFollowUp, RecvUnknown, ReqStamped,
             RecvReqFollowUp
    <3>2. total'[s] = total[s]
      <4>1. total' = total \/ total' = [total EXCEPT ![q] = @ + 1]
        BY DEF Reception, Taking, RespStamped, RecvRespFollowUp, RecvUnknown, ReqStamped,
               RecvReqFollowUp, Stop
      <4>2. s # q
        BY <2>2, MdelayAssumption
      <4> QED BY <2>1, <4>1, <4>2
    <3> QED BY <1>8, <3>1, <3>2 DEF RemoteKnown
  <2>3. CASE s = q /\ q \notin Masters
    <3>1. \/ remote' = [remote EXCEPT ![q] = ReplyAddress(q, p)]
          \/ remote' = remote /\ total' = total
      BY <2>3 DEF Reception, Taking, ReqStamped, RecvReqFollowUp, RecvUnknown, Stop
    <3> QED BY <1>4, <1>8, <2>1, <2>3, <3>1 DEF RemoteKnown
  <2> QED BY <2>2, <2>3
<1>9. RemoteKnown'
  BY <1>8 DEF RemoteKnown
<1> QED BY <1>7, <1>9

\* A step of the sending routine leaves main's part, unless it ends the program.
LEMMA ThreadStepMain ==
  ASSUME MainTypeOK, NEW p \in Procs, ThreadStep(p)
  PROVE  /\ SendStep(p) \/ LoopStamp(p) \/ SendError(p)
         /\ Alive(p)
         /\ main' = main \/ main' = [main EXCEPT ![p] = "failed"]
         /\ UNCHANGED <<host, rows, total, assigned, remote, results, faults>>
  BY DEF ThreadStep, Thread, Kernel, ThreadFails, mainVars

\* The stored rows are rows of the table.
LEMMA StoredRowsType ==
  ASSUME MainTypeOK, NEW p \in Procs, total[p] <= Size(p)
  PROVE  StoredRows(p) \in Seq(Rows)
<1>1. total[p] \in Nat /\ Size(p) \in Nat /\ rows[p] \in [0..Size(p) - 1 -> Rows]
  BY SizeType DEF MainTypeOK
<1>2. \A i \in 1..total[p] : rows[p][i - 1] \in Rows
  BY <1>1
<1> QED BY <1>1, <1>2 DEF StoredRows

LEMMA InitType ==
  ASSUME Init
  PROVE  TypeOK /\ RemoteKnown
<1>1. SendTypeOK
  BY DEF Init, SendInit, SendTypeOK
<1>2. RowsOK
  <2>1. EmptyRow \in Rows
    BY DEF EmptyRow, Rows, StampOrZero
  <2> QED BY <2>1 DEF Init, RowsOK, Size
<1>3. NoFile \in [file : Files, rows : Seq(Rows)]
  BY DEF NoFile, Files
<1>4. MainTypeOK
  BY <1>2, <1>3, MdelayAssumption DEF Init, MainTypeOK, RowsOK, Mains
<1>5. RemoteKnown
  BY MdelayAssumption DEF Init, RemoteKnown
<1> QED BY <1>1, <1>4, <1>5 DEF TypeOK

LEMMA NextType ==
  ASSUME TypeOK, RemoteKnown, [Next]_vars
  PROVE  TypeOK' /\ RemoteKnown'
<1> USE DEF TypeOK
<1> DEFINE MainSame == UNCHANGED <<host, rows, total, assigned, remote>>
<1>1. ASSUME main' \in [Procs -> Mains], MainSame, faults' \in Nat,
             results' \in [Procs -> [file : Files, rows : Seq(Rows)]]
      PROVE  MainTypeOK' /\ RemoteKnown'
  BY <1>1 DEF MainTypeOK, RemoteKnown, Size
<1>2. CASE UNCHANGED vars
  <2>1. SendTypeOK'
    BY <1>2 DEF SendTypeOK, vars, sendVars
  <2>2. main' \in [Procs -> Mains] /\ MainSame /\ faults' \in Nat
        /\ results' \in [Procs -> [file : Files, rows : Seq(Rows)]]
    BY <1>2 DEF MainTypeOK, vars, mainVars
  <2> QED BY <1>1, <2>1, <2>2
<1>3. ASSUME NEW r \in Masters, StartMaster(r)
      PROVE  TypeOK' /\ RemoteKnown'
  <2>1. PICK slave_ip \in SlaveAddresses : Call(r, "DELAY_REQ", N, 0, slave_ip)
    BY <1>3 DEF StartMaster
  <2>2. frame' \in [Procs -> Frames \cup {Idle}]
    BY <2>1, CallType, MdelayAssumption DEF Requests
  <2>3. SendTypeOK'
    BY <1>3, <2>2 DEF StartMaster, SendTypeOK
  <2>4. main' \in [Procs -> Mains] /\ MainSame /\ UNCHANGED <<results, faults>>
    BY <1>3 DEF StartMaster, Start, MainTypeOK, Mains
  <2> QED BY <1>1, <2>3, <2>4 DEF MainTypeOK
<1>4. ASSUME NEW s \in Slaves, StartSlave(s) \/ EndReply(s)
      PROVE  TypeOK' /\ RemoteKnown'
  <2>1. SendTypeOK'
    BY <1>4 DEF StartSlave, EndReply, SendTypeOK, sendVars
  <2>2. s \in Procs
    BY MdelayAssumption
  <2>3. CASE StartSlave(s)
    <3>1. main' \in [Procs -> Mains] /\ MainSame /\ UNCHANGED <<results, faults>>
      BY <2>3 DEF StartSlave, Start, MainTypeOK, Mains
    <3> QED BY <1>1, <2>1, <3>1 DEF MainTypeOK
  <2>4. CASE EndReply(s)
    <3>1. main' \in [Procs -> Mains] /\ assigned' \in [Procs -> BOOLEAN]
      BY <2>2, <2>4, LoopTestType DEF EndReply
    <3> QED BY <2>1, <2>4, <3>1 DEF EndReply, MainTypeOK, RemoteKnown, Size
  <2> QED BY <1>4, <2>3, <2>4
<1>5. ASSUME NEW q \in Procs, NEW p \in Procs, Reception(q, p)
      PROVE  TypeOK' /\ RemoteKnown'
  BY <1>5, ReceptionMain, ReceptionSend
<1>6. ASSUME NEW p \in Procs, Store(p) \/ Crash(p)
      PROVE  TypeOK' /\ RemoteKnown'
  <2>1. SendTypeOK'
    BY <1>6 DEF Store, Crash, SendTypeOK, sendVars
  <2>2. MainSame /\ main' \in [Procs -> Mains] /\ faults' \in Nat
    <3>1. main \in [Procs -> Mains] /\ faults \in Nat
      BY DEF MainTypeOK
    <3>2. \/ main' = [main EXCEPT ![p] = "done"]
          \/ main' = [main EXCEPT ![p] = "undefined"]
          \/ main' = [main EXCEPT ![p] = "failed"]
      BY <1>6 DEF Store, Crash
    <3>3. faults' = faults \/ faults' = faults + 1
      BY <1>6 DEF Store, Crash, Fault
    <3>4. MainSame
      BY <1>6 DEF Store, Crash
    <3> QED BY <3>1, <3>2, <3>3, <3>4 DEF Mains
  <2>3. results' \in [Procs -> [file : Files, rows : Seq(Rows)]]
    <3>1. results \in [Procs -> [file : Files, rows : Seq(Rows)]]
      BY DEF MainTypeOK
    <3>2. ASSUME total[p] <= Size(p)
          PROVE  [file |-> FileName(p), rows |-> StoredRows(p)] \in [file : Files, rows : Seq(Rows)]
      BY <3>2, StoredRowsType DEF FileName, Files
    <3> HIDE DEF TypeOK
    <3> QED BY <1>6, <3>1, <3>2 DEF Store, Crash
  <2> QED BY <1>1, <2>1, <2>2, <2>3
<1>7. ASSUME NEW p \in Procs, ThreadStep(p)
      PROVE  TypeOK' /\ RemoteKnown'
  <2>1. SendTypeOK'
    BY <1>7, ThreadStepMain, SendStepType, LoopStampType, SendErrorType
  <2>2. /\ main' = main \/ main' = [main EXCEPT ![p] = "failed"]
        /\ MainSame /\ UNCHANGED <<results, faults>>
    BY <1>7, ThreadStepMain
  <2>3. main' \in [Procs -> Mains]
    BY <2>2 DEF MainTypeOK, Mains
  <2> QED BY <1>1, <2>1, <2>2, <2>3 DEF MainTypeOK
<1>8. CASE NetworkStep
  <2>1. /\ \A r \in Procs : Relayed(r)
        /\ wire' = [r \in Procs |-> wire'[r]]
        /\ UNCHANGED <<frame, owed, errq, txno, mainVars>>
    BY <1>8, NetworkRelays
  <2>2. \A r \in Procs : wire'[r] \in Seq(Packets)
    BY <2>1, RelayedSeq DEF SendTypeOK
  <2>3. SendTypeOK'
    BY <2>1, <2>2 DEF SendTypeOK
  <2>4. faults' \in Nat
    BY <1>8 DEF NetworkStep, Unread, Lose, Duplicate, Swap, Fault, MainTypeOK
  <2> QED BY <1>1, <2>1, <2>3, <2>4 DEF MainTypeOK, mainVars
<1> QED BY <1>2, <1>3, <1>4, <1>5, <1>6, <1>7, <1>8, NextCases

\* Every variable keeps its type; in particular a slave that replies has an
\* address to reply to (slave.c:145-148).
THEOREM TypeCorrect == Spec => []TypeOK
<1>1. Init => TypeOK /\ RemoteKnown
  BY InitType
<1>2. TypeOK /\ RemoteKnown /\ [Next]_vars => (TypeOK /\ RemoteKnown)'
  BY NextType
<1> QED BY <1>1, <1>2, PTL DEF Spec

-----------------------------------------------------------------------------
(* What a step does to the network and to the calls *)

LEMMA WireSteps ==
  ASSUME TypeOK, [Next]_vars
  PROVE  \/ \A q \in Procs : Relayed(q)
         \/ \E p \in Procs, d \in Packets : Alive(p) /\ SendStep(p) /\ Sends(p, d)
<1> USE DEF TypeOK
<1>1. wire' = wire => \A q \in Procs : Relayed(q)
  BY DEF Relayed
<1>2. CASE UNCHANGED vars
  BY <1>1, <1>2 DEF vars, sendVars
<1>3. ASSUME NEW r \in Masters, StartMaster(r)
      PROVE  wire' = wire
  BY <1>3 DEF StartMaster
<1>4. ASSUME NEW s \in Slaves, StartSlave(s) \/ EndReply(s)
      PROVE  wire' = wire
  BY <1>4 DEF StartSlave, EndReply, sendVars
<1>5. ASSUME NEW q \in Procs, NEW p \in Procs, Reception(q, p)
      PROVE  \A r \in Procs : Relayed(r)
  BY <1>5, ReceptionReceives, ReceiveTakes
<1>6. ASSUME NEW p \in Procs, Store(p) \/ Crash(p)
      PROVE  wire' = wire
  BY <1>6 DEF Store, Crash, sendVars
<1>7. ASSUME NEW p \in Procs, ThreadStep(p)
      PROVE  wire' = wire \/ \E d \in Packets : Alive(p) /\ SendStep(p) /\ Sends(p, d)
  <2>1. Alive(p) /\ (SendStep(p) \/ LoopStamp(p) \/ SendError(p))
    BY <1>7, ThreadStepMain
  <2>2. LoopStamp(p) \/ SendError(p) => wire' = wire
    BY DEF LoopStamp, SendError
  <2> QED BY <2>1, <2>2, SendStepSends
<1> QED BY <1>1, <1>2, <1>3, <1>4, <1>5, <1>6, <1>7, NextCases, NetworkRelays

\* The follow-up of a request, counted by a slave that replies to it.
Replies(s, p) ==
  /\ RecvReqFollowUp(s, p)
  /\ InTable(s, Head(wire[p]))
  /\ Call(s, "DELAY_RESP", 1, Head(wire[p]).seq, ReplyAddress(s, p))

LEMMA FrameSteps ==
  ASSUME TypeOK, [Next]_vars, NEW p \in Procs
  PROVE  \/ frame'[p] \in {frame[p], Idle}
         \/ SameCall(frame[p], frame'[p])
         \/ p \in Masters /\ \E dst \in Dests : Call(p, "DELAY_REQ", N, 0, dst)
         \/ p \in Slaves /\ \E q \in Procs : Replies(p, q)
<1> USE DEF TypeOK
<1> DEFINE Goal == \/ frame'[p] \in {frame[p], Idle}
                   \/ SameCall(frame[p], frame'[p])
                   \/ p \in Masters /\ \E dst \in Dests : Call(p, "DELAY_REQ", N, 0, dst)
                   \/ p \in Slaves /\ \E q \in Procs : Replies(p, q)
<1>0. frame \in [Procs -> Frames \cup {Idle}]
  BY DEF SendTypeOK
<1>1. UNCHANGED frame => Goal
  OBVIOUS
<1>2. CASE UNCHANGED vars
  BY <1>1, <1>2 DEF vars, sendVars
<1>3. ASSUME NEW r \in Masters, StartMaster(r)
      PROVE  Goal
  <2>1. \E dst \in Dests : Call(r, "DELAY_REQ", N, 0, dst)
    BY <1>3, MdelayAssumption DEF StartMaster
  <2>2. CASE r = p
    BY <2>1, <2>2, <1>3
  <2>3. CASE r # p
    <3>1. frame'[p] = frame[p]
      BY <2>1, <2>3, <1>0 DEF Call
    <3> QED BY <3>1
  <2> QED BY <2>2, <2>3
<1>4. ASSUME NEW s \in Slaves, StartSlave(s) \/ EndReply(s)
      PROVE  UNCHANGED frame
  BY <1>4 DEF StartSlave, EndReply, sendVars
<1>5. ASSUME NEW q \in Procs, NEW r \in Procs, Reception(q, r)
      PROVE  Goal
  <2>1. UNCHANGED frame \/ (q \in Slaves /\ Replies(q, r))
    BY <1>5, ReceptionFrame DEF Replies
  <2>2. CASE UNCHANGED frame
    BY <2>2, <1>1
  <2>3. CASE q = p /\ q \in Slaves /\ Replies(q, r)
    BY <2>3
  <2>4. CASE q # p /\ Replies(q, r)
    <3>1. frame'[p] = frame[p]
      BY <2>4, <1>0 DEF Replies, Call
    <3> QED BY <3>1
  <2> QED BY <2>1, <2>2, <2>3, <2>4
<1>6. ASSUME NEW q \in Procs, Store(q) \/ Crash(q)
      PROVE  UNCHANGED frame
  BY <1>6 DEF Store, Crash, sendVars
<1>7. ASSUME NEW q \in Procs, ThreadStep(q)
      PROVE  Goal
  <2>1. SendStep(q) \/ SendError(q) \/ LoopStamp(q)
    BY <1>7, ThreadStepMain
  <2>2. CASE q = p
    BY <2>1, <2>2, SendStepFrame
  <2>3. CASE q # p
    <3>1. frame'[p] = frame[p]
      BY <2>1, <2>3, StepOthers DEF OthersUnchanged
    <3> QED BY <3>1
  <2> QED BY <2>2, <2>3
<1> HIDE DEF Goal
<1>8. NetworkStep => UNCHANGED frame
  BY NetworkRelays
<1>9. Next => Goal
  BY <1>1, <1>3, <1>4, <1>5, <1>6, <1>7, <1>8, NextCases
<1> QED BY <1>2, <1>9 DEF Goal

-----------------------------------------------------------------------------
(* The tables *)

\* The tables have a row for each packet that a master sends.
RowsSuffice == N <= SlaveN /\ N <= MasterRows

\* The inductive invariant: no sequence number from N on is on its way or about
\* to be sent, and a process that can still receive has counted less than it
\* was asked for.
Numberable == {d \in Packets : d.seq < N}

CallBounded(f) == f # Idle => f.i < f.N /\ f.seq + f.N <= N

CountBounded(p) ==
  /\ total[p] <= Limit(p)
  /\ main[p] \in {"down", "recv"} => total[p] < Limit(p) \/ total[p] = 0
  /\ main[p] # "undefined"

NumbersInv ==
  \A p \in Procs : wire[p] \in Seq(Numberable) /\ CallBounded(frame[p])

CountsInv == \A p \in Procs : CountBounded(p)

BoundsInv == NumbersInv /\ CountsInv

LEMMA BoundedWireStep ==
  ASSUME TypeOK, NumbersInv, [Next]_vars, NEW q \in Procs
  PROVE  wire'[q] \in Seq(Numberable)
<1>1. wire[q] \in Seq(Numberable)
  BY DEF NumbersInv
<1>2. CASE Relayed(q)
  BY <1>1, <1>2, RelayedSeq
<1>3. ASSUME NEW p \in Procs, NEW d \in Packets, Sends(p, d)
      PROVE  wire'[q] \in Seq(Numberable)
  <2>1. frame[p] \in Frames /\ d.seq = frame[p].seq + frame[p].i
    BY <1>3 DEF Sends
  <2>2. frame[p] # Idle /\ CallBounded(frame[p])
    BY <2>1 DEF NumbersInv, Frames, Idle
  <2>3. d.seq < N
    BY <2>1, <2>2, MdelayAssumption DEF CallBounded, Frames
  <2>4. d \in Numberable
    BY <2>3 DEF Numberable
  <2>5. wire'[q] = IF q = p THEN Append(wire[q], d) ELSE wire[q]
    BY <1>3 DEF Sends, TypeOK, SendTypeOK
  <2> QED BY <1>1, <2>4, <2>5
<1> QED BY <1>2, <1>3, WireSteps

LEMMA CallIsBounded ==
  ASSUME TypeOK, NEW p \in Procs, NEW type, NEW n \in Nat, NEW seq \in Nat, NEW dst,
         Call(p, type, n, seq, dst), seq + n <= N
  PROVE  CallBounded(frame'[p])
<1> DEFINE f == [pc |-> "send", type |-> type, seq |-> seq, N |-> n, i |-> 0, dst |-> dst]
<1>1. frame'[p] = LoopTop(f)
  BY DEF Call, TypeOK, SendTypeOK
<1>2. f.i = 0 /\ f.N = n /\ f.seq = seq /\ [f EXCEPT !.pc = "send"] = f
  OBVIOUS
<1> HIDE DEF f
<1> QED BY <1>1, <1>2 DEF LoopTop, CallBounded

LEMMA BoundedFrameStep ==
  ASSUME TypeOK, NumbersInv, [Next]_vars, NEW p \in Procs
  PROVE  CallBounded(frame'[p])
<1>1. CallBounded(frame[p])
  BY DEF NumbersInv
<1>2. CASE frame'[p] \in {frame[p], Idle}
  BY <1>1, <1>2 DEF CallBounded
<1>3. CASE SameCall(frame[p], frame'[p])
  <2>1. frame[p] # Idle
    BY <1>3 DEF SameCall, Frames, Idle
  <2> QED BY <1>1, <1>3, <2>1 DEF SameCall, CallBounded
<1>4. CASE \E dst \in Dests : Call(p, "DELAY_REQ", N, 0, dst)
  BY <1>4, CallIsBounded, MdelayAssumption
<1>5. ASSUME NEW q \in Procs, Replies(p, q)
      PROVE  CallBounded(frame'[p])
  <2> DEFINE d == Head(wire[q])
  <2>1. wire[q] # <<>>
    BY <1>5 DEF Replies, RecvReqFollowUp, Receive
  <2>2. d \in Numberable
    BY <2>1 DEF NumbersInv
  <2>3. d.seq \in Nat /\ d.seq + 1 <= N
    BY <2>2, MdelayAssumption DEF Numberable, Packets
  <2> QED BY <1>5, <2>3, CallIsBounded DEF Replies
<1> QED BY <1>2, <1>3, <1>4, <1>5, FrameSteps

LEMMA RowsSufficeSize ==
  ASSUME RowsSuffice, NEW p \in Procs
  PROVE  N <= Limit(p) /\ Limit(p) <= Size(p) /\ N <= Size(p)
  BY MdelayAssumption DEF RowsSuffice, Limit, Size

\* The test of the receive loop lets a process receive again only if it still
\* wants a measurement.
LEMMA LoopTestBounded ==
  ASSUME TypeOK, NEW q \in Procs, NEW t \in Nat, t <= Limit(q), LoopTest(q, t), total'[q] = t
  PROVE  CountBounded(q)'
<1>1. main'[q] = "store" \/ (main'[q] = "recv" /\ t < Limit(q))
  BY DEF LoopTest, TypeOK, MainTypeOK
<1> QED BY <1>1 DEF CountBounded, Limit

\* What arrives has a row, and is received while something is still wanted.
LEMMA ReceptionBounded ==
  ASSUME TypeOK, RowsSuffice, BoundsInv, NEW q \in Procs, NEW p \in Procs, Reception(q, p)
  PROVE  CountBounded(q)'
<1> DEFINE d == Head(wire[p])
<1>1. wire[p] # <<>> /\ main[q] = "recv"
  BY ReceptionReceives DEF Receive
<1>2. d \in Numberable
  BY <1>1 DEF BoundsInv, NumbersInv
<1>3. d.seq \in Nat /\ d.seq < N
  BY <1>2 DEF Numberable, Packets
<1>4. Size(q) \in Nat /\ Limit(q) \in Nat /\ N \in Nat /\ N <= Size(q) /\ N <= Limit(q)
  BY SizeType, RowsSufficeSize, MdelayAssumption
<1>5. total[q] \in Nat /\ total \in [Procs -> Nat] /\ main \in [Procs -> Mains]
      /\ rows[q] \in [0..Size(q) - 1 -> Rows]
  BY DEF TypeOK, MainTypeOK
<1>6. InTable(q, d)
  BY <1>3, <1>4, <1>5 DEF InTable, Row
<1>7. total[q] < Limit(q)
  <2>1. total[q] < Limit(q) \/ total[q] = 0
    BY <1>1 DEF BoundsInv, CountsInv, CountBounded
  <2> QED BY <2>1, <1>3, <1>4
<1>8. ASSUME NEW how \in {"failed", "reply"}, main'[q] = how,
             total'[q] \in {total[q], total[q] + 1}
      PROVE  CountBounded(q)'
  BY <1>4, <1>5, <1>7, <1>8 DEF CountBounded, Limit
<1>9. ASSUME NEW rx \in RxStamps, NEW x \in TxIds,
             RespStamped(q, p, rx, x) \/ ReqStamped(q, p, rx, x)
      PROVE  CountBounded(q)'
  <2>1. CASE rx # "none"
    <3>1. LoopTest(q, total[q]) /\ total' = total
      BY <1>6, <1>9, <2>1 DEF RespStamped, ReqStamped
    <3> QED BY <1>5, <1>7, <1>4, <3>1, LoopTestBounded
  <2>2. CASE rx = "none"
    <3>1. Stop(q, "failed")
      BY <1>9, <2>2 DEF RespStamped, ReqStamped, Mishap
    <3>2. main'[q] = "failed" /\ total'[q] = total[q]
      BY <1>5, <3>1 DEF Stop
    <3> QED BY <3>2, <1>8
  <2> QED BY <2>1, <2>2
<1>10. CASE RecvRespFollowUp(q, p)
  <2>1. LoopTest(q, total[q] + 1) /\ total' = [total EXCEPT ![q] = @ + 1]
    BY <1>6, <1>10 DEF RecvRespFollowUp
  <2>2. total'[q] = total[q] + 1 /\ total[q] + 1 \in Nat /\ total[q] + 1 <= Limit(q)
    BY <1>4, <1>5, <1>7, <2>1
  <2> QED BY <2>1, <2>2, LoopTestBounded
<1>11. CASE RecvReqFollowUp(q, p)
  <2>1. main' = [main EXCEPT ![q] = "reply"] /\ total' = [total EXCEPT ![q] = @ + 1]
    BY <1>6, <1>11 DEF RecvReqFollowUp
  <2>2. main'[q] = "reply" /\ total'[q] = total[q] + 1
    BY <1>5, <2>1
  <2> QED BY <1>8, <2>2
<1>12. CASE RecvUnknown(q, p)
  <2>1. main'[q] = "failed" /\ total'[q] = total[q]
    BY <1>5, <1>12 DEF RecvUnknown, Stop
  <2> QED BY <1>8, <2>1
<1> QED BY <1>9, <1>10, <1>11, <1>12 DEF Reception, Taking

\* A step of one process leaves main's part of the others.
LEMMA MainOthers ==
  ASSUME TypeOK, NEW p \in Procs, NEW q \in Procs \ {p}, NEW x \in Procs,
         \/ p \in Masters /\ StartMaster(p)
         \/ p \in Slaves /\ (StartSlave(p) \/ EndReply(p))
         \/ Reception(p, x)
         \/ Store(p) \/ Crash(p)
         \/ ThreadStep(p)
  PROVE  main'[q] = main[q] /\ total'[q] = total[q]
<1>1. main \in [Procs -> Mains] /\ total \in [Procs -> Nat]
  BY DEF TypeOK, MainTypeOK
<1>2. total' = total \/ total' = [total EXCEPT ![p] = @ + 1]
  BY DEF StartMaster, StartSlave, Start, EndReply, Reception, Taking, RespStamped, RecvRespFollowUp,
         RecvUnknown, ReqStamped, RecvReqFollowUp, Stop, Store, Crash, ThreadStep,
         Thread, Kernel, ThreadFails, mainVars
<1>3. main' = main \/ \E how : main' = [main EXCEPT ![p] = how]
  BY DEF StartMaster, StartSlave, Start, EndReply, Reception, Taking, RespStamped, RecvRespFollowUp,
         RecvUnknown, ReqStamped, RecvReqFollowUp, Stop, Store, Crash, ThreadStep,
         Thread, Kernel, ThreadFails, mainVars, LoopTest
<1> QED BY <1>1, <1>2, <1>3

LEMMA BoundedCountStep ==
  ASSUME TypeOK, RowsSuffice, BoundsInv, [Next]_vars, NEW q \in Procs
  PROVE  CountBounded(q)'
<1>1. CountBounded(q)
  BY DEF BoundsInv, CountsInv
<1>2. main'[q] = main[q] /\ total'[q] = total[q] => CountBounded(q)'
  BY <1>1 DEF CountBounded, Limit
<1>3. CASE UNCHANGED vars
  BY <1>2, <1>3 DEF vars, mainVars
<1>4. main \in [Procs -> Mains] /\ total \in [Procs -> Nat] /\ total[q] \in Nat
  BY DEF TypeOK, MainTypeOK
<1>5. CASE NetworkStep
  BY <1>2, <1>5, NetworkRelays DEF TypeOK, mainVars
<1>6. ASSUME NEW p \in Procs \ {q}, NEW x \in Procs,
             \/ p \in Masters /\ StartMaster(p)
             \/ p \in Slaves /\ (StartSlave(p) \/ EndReply(p))
             \/ Reception(p, x) \/ Store(p) \/ Crash(p) \/ ThreadStep(p)
      PROVE  CountBounded(q)'
  BY <1>2, <1>6, MainOthers
<1>7. ASSUME NEW x \in Procs, Reception(q, x)
      PROVE  CountBounded(q)'
  BY <1>7, ReceptionBounded
<1>8. CASE (q \in Masters /\ StartMaster(q)) \/ (q \in Slaves /\ StartSlave(q))
  <2>1. main[q] = "down" /\ main'[q] = "recv" /\ total' = total
    BY <1>4, <1>8 DEF StartMaster, StartSlave, Start
  <2> QED BY <1>1, <2>1 DEF CountBounded, Limit
<1>9. CASE q \in Slaves /\ EndReply(q)
  <2>1. LoopTest(q, total[q]) /\ total' = total
    BY <1>9 DEF EndReply
  <2>2. total[q] <= Limit(q)
    BY <1>1 DEF CountBounded
  <2> QED BY <1>4, <2>1, <2>2, LoopTestBounded
<1>10. CASE Store(q)
  <2>1. total[q] <= Size(q)
    BY <1>1, <1>4, RowsSufficeSize, SizeType, MdelayAssumption DEF CountBounded
  <2>2. main'[q] = "done" /\ total' = total
    BY <1>4, <1>10, <2>1 DEF Store
  <2> QED BY <1>1, <2>2 DEF CountBounded, Limit
<1>11. CASE Crash(q)
  <2>1. main'[q] = "failed" /\ total' = total
    BY <1>4, <1>11 DEF Crash
  <2> QED BY <1>1, <2>1 DEF CountBounded, Limit
<1>12. CASE ThreadStep(q)
  <2>1. main'[q] \in {main[q], "failed"} /\ total' = total
    BY <1>4, <1>12, ThreadStepMain DEF TypeOK
  <2> QED BY <1>1, <2>1 DEF CountBounded, Limit
<1>13. Masters \subseteq Procs /\ Slaves \subseteq Procs
  BY MdelayAssumption
<1> QED BY <1>3, <1>5, <1>6, <1>7, <1>8, <1>9, <1>10, <1>11, <1>12, <1>13, NextCases

LEMMA NumbersInvariant == Spec => []NumbersInv
<1>1. Init => NumbersInv
  <2> SUFFICES ASSUME Init, NEW p \in Procs
               PROVE  wire[p] \in Seq(Numberable) /\ CallBounded(frame[p])
    BY DEF NumbersInv
  <2>1. wire[p] = <<>> /\ frame[p] = Idle
    BY DEF Init, SendInit
  <2> QED BY <2>1 DEF CallBounded
<1>2. TypeOK /\ NumbersInv /\ [Next]_vars => NumbersInv'
  <2> SUFFICES ASSUME TypeOK, NumbersInv, [Next]_vars, NEW p \in Procs
               PROVE  wire'[p] \in Seq(Numberable) /\ CallBounded(frame'[p])
    BY DEF NumbersInv
  <2> QED BY BoundedWireStep, BoundedFrameStep
<1> QED BY <1>1, <1>2, TypeCorrect, PTL DEF Spec

\* No table is accessed out of bounds (master.c:158-163, slave.c:150-155,
\* util.c:174), whatever is lost, duplicated, reordered or restarted, if the
\* tables have a row for each packet that a master sends.
THEOREM TablesSuffice ==
  ASSUME RowsSuffice
  PROVE  Spec => []InBounds
<1>1. Init => CountsInv
  <2> SUFFICES ASSUME Init, NEW p \in Procs
               PROVE  CountBounded(p)
    BY DEF CountsInv
  <2>1. main[p] = "down" /\ total[p] = 0
    BY DEF Init
  <2> QED BY <2>1, SizeType DEF CountBounded
<1>2. TypeOK /\ NumbersInv /\ CountsInv /\ [Next]_vars => CountsInv'
  BY BoundedCountStep DEF BoundsInv, CountsInv
<1>3. CountsInv => InBounds
  BY DEF CountsInv, CountBounded, InBounds
<1> QED BY <1>1, <1>2, <1>3, TypeCorrect, NumbersInvariant, PTL DEF Spec

-----------------------------------------------------------------------------
(* Where the stamps of a row come from *)

\* A step that leaves every table, or one that stores in the table of p what
\* the datagram that has come from q carries: its reception stamp or, if it is
\* a follow-up, the stamp in it.
Stores(p, q) ==
  LET d == Head(wire[q])
  IN  /\ wire[q] # <<>> /\ d.type \in Handled(p) /\ d.dst = host[p]
      /\ wire' = [wire EXCEPT ![q] = Tail(@)]
      /\ \A r \in Procs \ {p} : rows'[r] = rows[r]
      /\ \A k \in 0..Size(p) - 1 :
           \/ rows'[p][k] = rows[p][k]
           \/ /\ k = d.seq /\ d.type \in Requests
              /\ rows'[p][k].recv \in {d.id, Zero} /\ rows'[p][k].sent = rows[p][k].sent
           \/ /\ k = d.seq /\ d.type \in FollowUps
              /\ rows'[p][k].recv = rows[p][k].recv /\ rows'[p][k].sent = d.stamp

LEMMA WriteField ==
  ASSUME TypeOK, NEW p \in Procs, NEW k \in 0..Size(p) - 1, NEW x
  PROVE  /\ rows' = [rows EXCEPT ![p][k].recv = x] =>
              /\ \A r \in Procs \ {p} : rows'[r] = rows[r]
              /\ \A j \in (0..Size(p) - 1) \ {k} : rows'[p][j] = rows[p][j]
              /\ rows'[p][k].recv = x /\ rows'[p][k].sent = rows[p][k].sent
         /\ rows' = [rows EXCEPT ![p][k].sent = x] =>
              /\ \A r \in Procs \ {p} : rows'[r] = rows[r]
              /\ \A j \in (0..Size(p) - 1) \ {k} : rows'[p][j] = rows[p][j]
              /\ rows'[p][k].sent = x /\ rows'[p][k].recv = rows[p][k].recv
<1>1. /\ rows = [r \in Procs |-> rows[r]]
      /\ rows[p] \in [0..Size(p) - 1 -> Rows]
      /\ rows[p][k] \in Rows
  BY DEF TypeOK, MainTypeOK
<1>2. ASSUME rows' = [rows EXCEPT ![p][k].recv = x]
      PROVE  /\ \A r \in Procs \ {p} : rows'[r] = rows[r]
             /\ \A j \in (0..Size(p) - 1) \ {k} : rows'[p][j] = rows[p][j]
             /\ rows'[p][k] = [rows[p][k] EXCEPT !.recv = x]
  BY <1>1, <1>2
<1>3. ASSUME rows' = [rows EXCEPT ![p][k].sent = x]
      PROVE  /\ \A r \in Procs \ {p} : rows'[r] = rows[r]
             /\ \A j \in (0..Size(p) - 1) \ {k} : rows'[p][j] = rows[p][j]
             /\ rows'[p][k] = [rows[p][k] EXCEPT !.sent = x]
  BY <1>1, <1>3
<1> QED BY <1>1, <1>2, <1>3 DEF Rows

LEMMA RowSteps ==
  ASSUME TypeOK, [Next]_vars
  PROVE  rows' = rows \/ \E p \in Procs, q \in Procs : Stores(p, q)
<1>1. ASSUME NEW p \in Procs, NEW q \in Procs, OwnReception(p, q), Reception(p, q)
      PROVE  rows' = rows \/ Stores(p, q)
  <2> DEFINE d == Head(wire[q])
  <2>1. wire[q] # <<>>
    BY <1>1, ReceptionReceives DEF Receive
  <2>2. rows[p] \in [0..Size(p) - 1 -> Rows]
    BY DEF TypeOK, MainTypeOK
  <2>3. InTable(p, d) => d.seq \in 0..Size(p) - 1
    BY <2>2 DEF InTable, Row
  <2>4. ASSUME NEW rx \in RxStamps,
               \/ p \in Masters /\ RespStamped(p, q, rx, d.id)
               \/ p \in Slaves /\ ReqStamped(p, q, rx, d.id)
        PROVE  rows' = rows \/ Stores(p, q)
    <3>1. /\ d.type \in Handled(p) /\ d.type \in Requests /\ d.dst = host[p]
          /\ wire' = [wire EXCEPT ![q] = Tail(@)]
      BY <2>4, MdelayAssumption DEF RespStamped, ReqStamped, Receive, Handled, Requests
    <3>2. \/ rows' = rows
          \/ InTable(p, d) /\ rows' = [rows EXCEPT ![p][d.seq].recv = RxStamp(d.id, rx)]
      BY <2>4 DEF RespStamped, ReqStamped, Stop, Row
    <3>3. RxStamp(d.id, rx) \in {d.id, Zero}
      BY DEF RxStamp
    <3>4. ASSUME d.seq \in 0..Size(p) - 1,
                 rows' = [rows EXCEPT ![p][d.seq].recv = RxStamp(d.id, rx)]
          PROVE  Stores(p, q)
      <4>1. /\ \A r \in Procs \ {p} : rows'[r] = rows[r]
            /\ \A j \in (0..Size(p) - 1) \ {d.seq} : rows'[p][j] = rows[p][j]
            /\ rows'[p][d.seq].recv = RxStamp(d.id, rx)
            /\ rows'[p][d.seq].sent = rows[p][d.seq].sent
        BY <3>4, WriteField
      <4> QED BY <2>1, <3>1, <3>3, <4>1 DEF Stores
    <3> QED BY <2>3, <3>2, <3>4
  <2>5. ASSUME \/ p \in Masters /\ RecvRespFollowUp(p, q)
               \/ p \in Slaves /\ RecvReqFollowUp(p, q)
        PROVE  rows' = rows \/ Stores(p, q)
    <3>1. /\ d.type \in Handled(p) /\ d.type \in FollowUps /\ d.dst = host[p]
          /\ wire' = [wire EXCEPT ![q] = Tail(@)]
      BY <2>5, MdelayAssumption
         DEF RecvRespFollowUp, RecvReqFollowUp, Receive, Handled, FollowUps
    <3>2. \/ rows' = rows
          \/ InTable(p, d) /\ rows' = [rows EXCEPT ![p][d.seq].sent = d.stamp]
      BY <2>5 DEF RecvRespFollowUp, RecvReqFollowUp, Stop, Row
    <3>3. ASSUME d.seq \in 0..Size(p) - 1,
                 rows' = [rows EXCEPT ![p][d.seq].sent = d.stamp]
          PROVE  Stores(p, q)
      <4>1. /\ \A r \in Procs \ {p} : rows'[r] = rows[r]
            /\ \A j \in (0..Size(p) - 1) \ {d.seq} : rows'[p][j] = rows[p][j]
            /\ rows'[p][d.seq].sent = d.stamp
            /\ rows'[p][d.seq].recv = rows[p][d.seq].recv
        BY <3>3, WriteField
      <4> QED BY <2>1, <3>1, <4>1 DEF Stores
    <3> QED BY <2>3, <3>2, <3>3
  <2>6. RecvUnknown(p, q) => rows' = rows
    BY DEF RecvUnknown, Stop
  <2> QED BY <1>1, <2>4, <2>5, <2>6 DEF OwnReception, Taking
<1>2. ASSUME NEW p \in Procs,
             StartMaster(p) \/ StartSlave(p) \/ EndReply(p) \/ Store(p) \/ Crash(p)
      PROVE  rows' = rows
  BY <1>2 DEF StartMaster, StartSlave, Start, EndReply, Store, Crash
<1>3. ASSUME NEW p \in Procs, ThreadStep(p)
      PROVE  rows' = rows
  BY <1>3, ThreadStepMain DEF TypeOK
<1>4. NetworkStep \/ UNCHANGED vars => rows' = rows
  BY NetworkRelays DEF TypeOK, vars, mainVars
<1> QED BY <1>1, <1>2, <1>3, <1>4, NextCases, MdelayAssumption

\* The rows that p has counted: those with the stamp of a follow-up.
Counted(p) == {k \in 0..Size(p) - 1 : rows[p][k].sent # Zero}

\* The datagrams that p may have on the network: a slave answers only what it
\* has counted, and a follow-up carries a stamp of its sender.
Sendable(p) ==
  {d \in Packets : /\ d.id[1] = p
                   /\ d.type \in FollowUps => d.stamp \in TxIds /\ d.stamp[1] = p
                   /\ p \in Slaves => d.type \notin Handled(p) /\ d.seq \in Counted(p)
                   /\ p \in Masters => d.type \notin Handled(p)}

\* The calls that p may be in.
CallFrom(p) ==
  frame[p] # Idle =>
    /\ p \in Masters => frame[p].type = "DELAY_REQ"
    /\ p \in Slaves => /\ frame[p].type = "DELAY_RESP"
                       /\ frame[p].N = 1 /\ frame[p].i = 0
                       /\ frame[p].seq \in Counted(p)

\* The stamps that p may have stored in its row k.
Source(p, k) ==
  IF p \in Slaves THEN Masters ELSE {s \in Slaves : k \in Counted(s)}

RowsFrom(p) ==
  \A k \in 0..Size(p) - 1 :
    /\ rows[p][k].recv # Zero => rows[p][k].recv[1] \in Source(p, k)
    /\ rows[p][k].sent # Zero => rows[p][k].sent[1] \in Source(p, k)

\* The inductive invariant.
ProvenanceInv ==
  \A p \in Procs : /\ QueueInv(p)
                   /\ wire[p] \in Seq(Sendable(p))
                   /\ CallFrom(p)
                   /\ RowsFrom(p)

StampIsNotZero == \A stamp \in TxIds : stamp # Zero

LEMMA ZeroIsNoStamp == StampIsNotZero
  BY SendAssumption DEF StampIsNotZero, TxIds

\* What has come from q to p was sent by the other program.
LEMMA HeadFromOther ==
  ASSUME TypeOK, ProvenanceInv, NEW p \in Procs, NEW q \in Procs, wire[q] # <<>>,
         Head(wire[q]).type \in Handled(p)
  PROVE  LET d == Head(wire[q])
         IN  /\ d.id \in TxIds /\ d.id[1] = q
             /\ d.type \in FollowUps => d.stamp \in TxIds /\ d.stamp[1] = q
             /\ q \in Source(p, d.seq)
<1> DEFINE d == Head(wire[q])
<1>1. d \in Sendable(q)
  BY DEF ProvenanceInv
<1>2. d.id \in TxIds
  BY <1>1 DEF Sendable, Packets
<1>3. p \in Masters /\ p \notin Slaves => q \in Slaves
  BY <1>1, MdelayAssumption DEF Sendable, Handled
<1>4. p \in Slaves => q \in Masters
  BY <1>1, MdelayAssumption DEF Sendable, Handled
<1>5. p \in Masters => q \in Slaves /\ d.seq \in Counted(q)
  BY <1>1, <1>3, MdelayAssumption DEF Sendable
<1> HIDE DEF d
<1>6. q \in Source(p, d.seq)
  BY <1>4, <1>5, MdelayAssumption DEF Source
<1> QED BY <1>1, <1>2, <1>6 DEF d, Sendable

\* What a slave has counted stays counted.
LEMMA CountedGrows ==
  ASSUME TypeOK, ProvenanceInv, [Next]_vars, NEW p \in Procs
  PROVE  Counted(p) \subseteq Counted(p)'
<1>1. CASE rows' = rows
  BY <1>1 DEF Counted, Size
<1>2. ASSUME NEW r \in Procs, NEW q \in Procs, Stores(r, q)
      PROVE  Counted(p) \subseteq Counted(p)'
  <2> SUFFICES ASSUME NEW k \in 0..Size(p) - 1, rows[p][k].sent # Zero
               PROVE  rows'[p][k].sent # Zero
    BY DEF Counted, Size
  <2>1. CASE p # r
    BY <1>2, <2>1 DEF Stores
  <2>2. CASE p = r
    <3> DEFINE d == Head(wire[q])
    <3>1. wire[q] # <<>> /\ d.type \in Handled(p)
      BY <1>2, <2>2 DEF Stores
    <3>2. d.type \in FollowUps => d.stamp # Zero
      BY <3>1, HeadFromOther, ZeroIsNoStamp DEF StampIsNotZero
    <3>3. \/ rows'[p][k].sent = rows[p][k].sent
          \/ d.type \in FollowUps /\ rows'[p][k].sent = d.stamp
      BY <1>2, <2>2 DEF Stores
    <3> QED BY <3>2, <3>3
  <2> QED BY <2>1, <2>2
<1> QED BY <1>1, <1>2, RowSteps

LEMMA SourceGrows ==
  ASSUME TypeOK, ProvenanceInv, [Next]_vars, NEW p, NEW k
  PROVE  Source(p, k) \subseteq Source(p, k)'
  BY CountedGrows, MdelayAssumption DEF Source

LEMMA RowsFromStep ==
  ASSUME TypeOK, ProvenanceInv, [Next]_vars, NEW p \in Procs
  PROVE  RowsFrom(p)'
<1> SUFFICES ASSUME NEW k \in 0..Size(p) - 1
             PROVE  /\ rows'[p][k].recv # Zero => rows'[p][k].recv[1] \in Source(p, k)
                    /\ rows'[p][k].sent # Zero => rows'[p][k].sent[1] \in Source(p, k)
  BY SourceGrows DEF RowsFrom, Size
<1>1. /\ rows[p][k].recv # Zero => rows[p][k].recv[1] \in Source(p, k)
      /\ rows[p][k].sent # Zero => rows[p][k].sent[1] \in Source(p, k)
  BY DEF ProvenanceInv, RowsFrom
<1>2. CASE rows' = rows
  BY <1>1, <1>2
<1>3. ASSUME NEW r \in Procs, NEW q \in Procs, Stores(r, q)
      PROVE  /\ rows'[p][k].recv # Zero => rows'[p][k].recv[1] \in Source(p, k)
             /\ rows'[p][k].sent # Zero => rows'[p][k].sent[1] \in Source(p, k)
  <2>1. CASE p # r
    <3>1. rows'[p] = rows[p]
      BY <1>3, <2>1 DEF Stores
    <3> QED BY <1>1, <3>1
  <2>2. CASE p = r
    <3> DEFINE d == Head(wire[q])
    <3>1. wire[q] # <<>> /\ d.type \in Handled(p)
      BY <1>3, <2>2 DEF Stores
    <3>2. /\ d.id[1] = q /\ q \in Source(p, d.seq)
          /\ d.type \in FollowUps => d.stamp[1] = q
      BY <3>1, HeadFromOther
    <3>3. \/ rows'[p][k] = rows[p][k]
          \/ /\ k = d.seq
             /\ rows'[p][k].recv \in {d.id, Zero} /\ rows'[p][k].sent = rows[p][k].sent
          \/ /\ k = d.seq /\ d.type \in FollowUps
             /\ rows'[p][k].recv = rows[p][k].recv /\ rows'[p][k].sent = d.stamp
      BY <1>3, <2>2 DEF Stores
    <3> HIDE DEF d
    <3> QED BY <1>1, <3>2, <3>3
  <2> QED BY <2>1, <2>2
<1> QED BY <1>2, <1>3, RowSteps

LEMMA WireFromStep ==
  ASSUME TypeOK, ProvenanceInv, [Next]_vars, NEW q \in Procs
  PROVE  wire'[q] \in Seq(Sendable(q)')
<1>1. wire[q] \in Seq(Sendable(q))
  BY DEF ProvenanceInv
<1>2. Sendable(q) \subseteq Sendable(q)'
  BY CountedGrows DEF Sendable
<1>3. wire'[q] \in Seq(Sendable(q)) => wire'[q] \in Seq(Sendable(q)')
  BY <1>2
<1>4. CASE Relayed(q)
  BY <1>1, <1>3, <1>4, RelayedSeq
<1>5. ASSUME NEW p \in Procs, NEW d \in Packets, Sends(p, d)
      PROVE  wire'[q] \in Seq(Sendable(q))
  <2>1. /\ frame[p] \in Frames /\ d.id[1] = p
        /\ d.seq = frame[p].seq + frame[p].i
        /\ d.type \in {frame[p].type, FollowUpOf(frame[p].type)}
        /\ d.type \in FollowUps => d.stamp \in TxIds /\ d.stamp[1] = p
    BY <1>5 DEF Sends, ProvenanceInv
  <2>2. frame[p] # Idle /\ CallFrom(p)
    BY <2>1 DEF ProvenanceInv, Frames, Idle
  <2>3. p \in Masters => d.type \notin Handled(p)
    BY <2>1, <2>2, MdelayAssumption DEF CallFrom, FollowUpOf, Handled
  <2>4. p \in Slaves => d.type \notin Handled(p) /\ d.seq \in Counted(p)
    <3> SUFFICES ASSUME p \in Slaves
                 PROVE  d.type \notin Handled(p) /\ d.seq \in Counted(p)
      OBVIOUS
    <3>1. frame[p].type = "DELAY_RESP" /\ frame[p].i = 0 /\ frame[p].seq \in Counted(p)
      BY <2>2 DEF CallFrom
    <3>2. d.seq = frame[p].seq
      BY <2>1, <3>1 DEF Frames
    <3> QED BY <2>1, <3>1, <3>2, MdelayAssumption DEF FollowUpOf, Handled
  <2>5. d \in Sendable(p)
    BY <2>1, <2>3, <2>4 DEF Sendable
  <2>6. wire'[q] = IF q = p THEN Append(wire[q], d) ELSE wire[q]
    BY <1>5 DEF Sends, TypeOK, SendTypeOK
  <2> QED BY <1>1, <2>5, <2>6
<1> QED BY <1>3, <1>4, <1>5, WireSteps

\* A call begins with the frame of its arguments, or it is over at once.
LEMMA CallFrame ==
  ASSUME TypeOK, NEW p \in Procs, NEW type, NEW n, NEW seq, NEW dst, Call(p, type, n, seq, dst)
  PROVE  \/ frame'[p] = Idle
         \/ /\ frame'[p].type = type /\ frame'[p].N = n /\ frame'[p].seq = seq
            /\ frame'[p].i = 0 /\ frame'[p].pc = "send" /\ frame'[p].dst = dst
  BY DEF Call, LoopTop, TypeOK, SendTypeOK

LEMMA CallFromStep ==
  ASSUME TypeOK, ProvenanceInv, [Next]_vars, NEW p \in Procs
  PROVE  CallFrom(p)'
<1>0. CallFrom(p) /\ Counted(p) \subseteq Counted(p)'
  BY CountedGrows DEF ProvenanceInv
<1>1. CASE frame'[p] \in {frame[p], Idle}
  BY <1>0, <1>1 DEF CallFrom
<1>2. CASE SameCall(frame[p], frame'[p])
  <2>1. frame[p] # Idle
    BY <1>2 DEF SameCall, Frames, Idle
  <2>2. p \in Slaves => frame'[p].i = 0
    BY <1>0, <1>2, <2>1 DEF SameCall, CallFrom
  <2> QED BY <1>0, <1>2, <2>1, <2>2 DEF SameCall, CallFrom
<1>3. ASSUME p \in Masters, NEW dst \in Dests, Call(p, "DELAY_REQ", N, 0, dst)
      PROVE  CallFrom(p)'
  BY <1>3, CallFrame, MdelayAssumption DEF CallFrom
<1>4. ASSUME p \in Slaves, NEW q \in Procs, Replies(p, q)
      PROVE  CallFrom(p)'
  <2> DEFINE d == Head(wire[q])
  <2>1. /\ frame'[p] # Idle => /\ frame'[p].type = "DELAY_RESP" /\ frame'[p].N = 1
                               /\ frame'[p].seq = d.seq /\ frame'[p].i = 0
    BY <1>4, CallFrame DEF Replies
  <2>2. wire[q] # <<>> /\ d.type = "DELAY_REQ_FOLLOW_UP"
        /\ d.seq \in 0..Size(p) - 1
        /\ rows' = [rows EXCEPT ![p][d.seq].sent = d.stamp]
    BY <1>4 DEF Replies, RecvReqFollowUp, Receive, InTable, Row, TypeOK, MainTypeOK
  <2>3. d.stamp # Zero
    <3>1. d.type \in Handled(p) /\ d.type \in FollowUps
      BY <1>4, <2>2, MdelayAssumption DEF FollowUps, Handled
    <3>2. d.stamp \in TxIds
      BY <2>2, <3>1, HeadFromOther
    <3> QED BY <3>2, ZeroIsNoStamp DEF StampIsNotZero
  <2> HIDE DEF d
  <2>4. rows'[p][d.seq].sent = d.stamp
    <3>1. /\ \A r \in Procs \ {p} : rows'[r] = rows[r]
          /\ \A j \in (0..Size(p) - 1) \ {d.seq} : rows'[p][j] = rows[p][j]
          /\ rows'[p][d.seq].sent = d.stamp /\ rows'[p][d.seq].recv = rows[p][d.seq].recv
      BY <2>2, WriteField, ZenonT(30)
    <3> QED BY <3>1
  <2>5. d.seq \in Counted(p)'
    BY <2>2, <2>3, <2>4 DEF Counted, Size
  <2> QED BY <1>4, <2>1, <2>5, MdelayAssumption DEF CallFrom
<1> QED BY <1>1, <1>2, <1>3, <1>4, FrameSteps

LEMMA QueueStep ==
  ASSUME TypeOK, StampOrders = {SwThenHw}, NEW p \in Procs, QueueInv(p),
         [Next]_vars \/ \E q \in Procs, x \in Procs : Reception(q, x)
  PROVE  QueueInv(p)'
<1> USE DEF TypeOK
<1>0. QueueInv(p)
  OBVIOUS
<1>1. UNCHANGED <<owed, errq, txno>> /\ UNCHANGED frame => QueueInv(p)'
  BY <1>0 DEF QueueInv, NoneOutstanding, BothOutstanding, NicOutstanding
<1>2. ASSUME NEW q \in Procs, NEW type, NEW n, NEW seq, NEW dst, Call(q, type, n, seq, dst),
             UNCHANGED <<owed, errq, txno>>
      PROVE  QueueInv(p)'
  <2>1. CASE p # q
    <3>1. frame'[p] = frame[p]
      BY <1>2, <2>1 DEF Call, SendTypeOK
    <3> QED BY <1>0, <1>2, <3>1 DEF QueueInv, NoneOutstanding, BothOutstanding, NicOutstanding
  <2>2. CASE p = q
    <3>1. frame[p] = Idle
      BY <1>2, <2>2 DEF Call
    <3>2. frame'[p] = Idle \/ frame'[p].pc = "send"
      BY <1>2, <2>2, CallFrame
    <3>3. frame[p].pc = "idle" /\ frame'[p].pc \in {"idle", "send"}
      BY <3>1, <3>2 DEF Idle
    <3> QED BY <1>0, <1>2, <3>3 DEF QueueInv, NoneOutstanding
  <2> QED BY <2>1, <2>2
<1>3. ASSUME NEW r \in Masters, StartMaster(r)
      PROVE  QueueInv(p)'
  BY <1>2, <1>3, MdelayAssumption DEF StartMaster
<1>4. ASSUME NEW s \in Slaves, StartSlave(s) \/ EndReply(s)
      PROVE  QueueInv(p)'
  BY <1>1, <1>4 DEF StartSlave, EndReply, sendVars
<1>5. ASSUME NEW q \in Procs, NEW x \in Procs, Reception(q, x)
      PROVE  QueueInv(p)'
  <2>1. UNCHANGED <<owed, errq, txno>>
    BY <1>5, ReceptionReceives
  <2> QED BY <1>1, <1>2, <1>5, <2>1, ReceptionFrame
<1>6. ASSUME NEW q \in Procs, Store(q) \/ Crash(q)
      PROVE  QueueInv(p)'
  BY <1>1, <1>6 DEF Store, Crash, sendVars
<1>7. ASSUME NEW q \in Procs, ThreadStep(q)
      PROVE  QueueInv(p)'
  <2>1. SendStep(q) \/ LoopStamp(q) \/ SendError(q)
    BY <1>7, ThreadStepMain
  <2>2. CASE p = q
    BY <1>0, <2>1, <2>2, SendStepQueue, LoopStampQueue, SendErrorQueue
  <2>3. CASE p # q
    BY <1>0, <2>1, <2>3, StepOthers, OthersKeepQueue
  <2> QED BY <2>2, <2>3
<1>8. NetworkStep \/ UNCHANGED vars => QueueInv(p)'
  BY <1>1, NetworkRelays DEF vars, sendVars
<1> QED BY <1>3, <1>4, <1>5, <1>6, <1>7, <1>8, NextCases

LEMMA ProvenanceInvariant ==
  ASSUME StampOrders = {SwThenHw}
  PROVE  Spec => []ProvenanceInv
<1>1. Init => ProvenanceInv
  <2> SUFFICES ASSUME Init, NEW p \in Procs
               PROVE  /\ QueueInv(p) /\ wire[p] \in Seq(Sendable(p))
                      /\ CallFrom(p) /\ RowsFrom(p)
    BY DEF ProvenanceInv
  <2>1. wire[p] = <<>> /\ errq[p] = <<>> /\ owed[p] = <<>> /\ frame[p] = Idle
    BY DEF Init, SendInit
  <2>2. \A k \in 0..Size(p) - 1 : rows[p][k] = EmptyRow
    BY DEF Init
  <2> QED BY <2>1, <2>2 DEF QueueInv, NoneOutstanding, Idle, CallFrom, RowsFrom, EmptyRow
<1>2. TypeOK /\ ProvenanceInv /\ [Next]_vars => ProvenanceInv'
  BY QueueStep, WireFromStep, CallFromStep, RowsFromStep DEF ProvenanceInv
<1> QED BY <1>1, <1>2, TypeCorrect, PTL DEF Spec

\* Whatever is lost, duplicated, reordered or restarted, a slave's row holds
\* stamps of a master, and a master's row k those of a slave that has counted
\* k: no reply is older than the request it answers (slave.c:152-156).
THEOREM RowsAreAnswers ==
  ASSUME StampOrders = {SwThenHw}
  PROVE  Spec => []Provenance
<1>1. TypeOK /\ ProvenanceInv => Provenance
  <2> SUFFICES ASSUME TypeOK, ProvenanceInv, NEW p \in Procs, NEW k \in 0..Size(p) - 1,
                      NEW stamp \in {rows[p][k].recv, rows[p][k].sent}, stamp # Zero
               PROVE  IF p \in Slaves THEN stamp[1] \in Masters
                      ELSE stamp[1] \in Slaves /\ rows[stamp[1]][k].sent # Zero
    BY DEF Provenance
  <2>1. stamp[1] \in Source(p, k)
    BY DEF ProvenanceInv, RowsFrom
  <2> QED BY <2>1 DEF Source, Counted
<1> QED BY <1>1, ProvenanceInvariant, TypeCorrect, PTL

-----------------------------------------------------------------------------
(* Whom a slave answers *)

\* The slave has counted, and answers this address.
Serves(s, dst) == total[s] > 0 /\ remote[s] = dst

\* So it does after the step.
WillServe(s, dst) == total'[s] > 0 /\ remote'[s] = dst

\* The datagrams that p may have on the network: a slave's are for the address
\* that it answers.
Addressed(p) == {d \in Packets : d.id[1] = p /\ (p \in Slaves => Serves(p, d.dst))}

AnswersClient(p) == p \in Slaves /\ frame[p] # Idle => Serves(p, frame[p].dst)

\* A master has stamps only of slaves that answer its address.
IsClient(p) ==
  \A k \in 0..Size(p) - 1 :
    rows[p][k].recv # Zero /\ rows[p][k].recv[1] \in Slaves
      => Serves(rows[p][k].recv[1], host[p])

\* The inductive invariant.
ClientInv ==
  \A p \in Procs : /\ wire[p] \in Seq(Addressed(p))
                   /\ AnswersClient(p)
                   /\ p \in Masters => IsClient(p)

\* Once a slave has counted, it answers the same address for ever.
LEMMA ServesForEver ==
  ASSUME TypeOK, [Next]_vars, NEW s \in Slaves, NEW STATE dst, Serves(s, dst)
  PROVE  WillServe(s, dst)
<1>0. /\ total \in [Procs -> Nat] /\ remote \in [Slaves -> Dests \cup {Zero}]
      /\ s \in Procs
  BY MdelayAssumption DEF TypeOK, MainTypeOK
<1>1. UNCHANGED <<total, remote>> => WillServe(s, dst)
  BY DEF Serves, WillServe
<1>2. ASSUME NEW q \in Procs, NEW p \in Procs, Reception(q, p)
      PROVE  WillServe(s, dst)
  <2>1. total' = total \/ total' = [total EXCEPT ![q] = @ + 1]
    BY <1>2 DEF Reception, Taking, RespStamped, RecvRespFollowUp, RecvUnknown, ReqStamped,
                RecvReqFollowUp, Stop
  <2>2. \/ remote' = remote
        \/ q \in Slaves /\ remote' = [remote EXCEPT ![q] = ReplyAddress(q, p)]
    BY <1>2 DEF Reception, Taking, RespStamped, RecvRespFollowUp, RecvUnknown, ReqStamped,
                RecvReqFollowUp
  <2>3. total[s] # 0 /\ remote[s] = dst
    BY <1>0 DEF Serves
  <2>4. total'[s] > 0
    BY <1>0, <2>1 DEF Serves
  <2>5. remote'[s] = dst
    BY <1>0, <2>2, <2>3 DEF ReplyAddress
  <2> QED BY <2>4, <2>5 DEF WillServe
<1>3. ASSUME NEW p \in Procs,
             StartMaster(p) \/ StartSlave(p) \/ EndReply(p) \/ Store(p) \/ Crash(p)
      PROVE  UNCHANGED <<total, remote>>
  BY <1>3 DEF StartMaster, StartSlave, Start, EndReply, Store, Crash
<1>4. ASSUME NEW p \in Procs, ThreadStep(p)
      PROVE  UNCHANGED <<total, remote>>
  BY <1>4, ThreadStepMain DEF TypeOK
<1>5. NetworkStep \/ UNCHANGED vars => UNCHANGED <<total, remote>>
  BY NetworkRelays DEF TypeOK, vars, mainVars
<1> QED BY <1>1, <1>2, <1>3, <1>4, <1>5, NextCases, MdelayAssumption

LEMMA HostsStay ==
  ASSUME TypeOK, [Next]_vars
  PROVE  host' = host
<1>1. ASSUME NEW q \in Procs, NEW p \in Procs, Reception(q, p)
      PROVE  host' = host
  BY <1>1, ReceptionReceives
<1>2. ASSUME NEW p \in Procs,
             StartMaster(p) \/ StartSlave(p) \/ EndReply(p) \/ Store(p) \/ Crash(p)
      PROVE  host' = host
  BY <1>2 DEF StartMaster, StartSlave, Start, EndReply, Store, Crash
<1>3. ASSUME NEW p \in Procs, ThreadStep(p)
      PROVE  host' = host
  BY <1>3, ThreadStepMain DEF TypeOK
<1>4. NetworkStep \/ UNCHANGED vars => host' = host
  BY NetworkRelays DEF TypeOK, vars, mainVars
<1> QED BY <1>1, <1>2, <1>3, <1>4, NextCases, MdelayAssumption

LEMMA AddressedGrows ==
  ASSUME TypeOK, [Next]_vars, NEW p \in Procs
  PROVE  Addressed(p) \subseteq Addressed(p)'
<1> SUFFICES ASSUME p \in Slaves, NEW d \in Packets, Serves(p, d.dst)
             PROVE  WillServe(p, d.dst)
  BY DEF Addressed, Serves, WillServe
<1> DEFINE dst == d.dst
<1>1. Serves(p, dst)
  OBVIOUS
<1> HIDE DEF dst
<1>2. WillServe(p, dst)
  BY <1>1, ServesForEver
<1> QED BY <1>2 DEF dst

LEMMA AddressedStep ==
  ASSUME TypeOK, ClientInv, [Next]_vars, NEW q \in Procs
  PROVE  wire'[q] \in Seq(Addressed(q)')
<1>1. wire[q] \in Seq(Addressed(q))
  BY DEF ClientInv
<1>2. wire'[q] \in Seq(Addressed(q)) => wire'[q] \in Seq(Addressed(q)')
  BY AddressedGrows
<1>3. CASE Relayed(q)
  BY <1>1, <1>2, <1>3, RelayedSeq
<1>4. ASSUME NEW p \in Procs, NEW d \in Packets, Sends(p, d)
      PROVE  wire'[q] \in Seq(Addressed(q))
  <2>1. frame[p] \in Frames /\ d.id[1] = p /\ d.dst = frame[p].dst
    BY <1>4 DEF Sends
  <2>2. p \in Slaves => Serves(p, d.dst)
    BY <2>1 DEF ClientInv, AnswersClient, Frames, Idle
  <2>3. d \in Addressed(p)
    BY <2>1, <2>2 DEF Addressed
  <2>4. wire'[q] = IF q = p THEN Append(wire[q], d) ELSE wire[q]
    BY <1>4 DEF Sends, TypeOK, SendTypeOK
  <2> QED BY <1>1, <2>3, <2>4
<1> QED BY <1>2, <1>3, <1>4, WireSteps

LEMMA AnswersStep ==
  ASSUME TypeOK, ClientInv, [Next]_vars, NEW p \in Procs
  PROVE  AnswersClient(p)'
<1> SUFFICES ASSUME p \in Slaves, frame'[p] # Idle
             PROVE  WillServe(p, frame'[p].dst)
  BY DEF AnswersClient, Serves, WillServe
<1>1. frame[p] # Idle => Serves(p, frame[p].dst)
  BY DEF ClientInv, AnswersClient
<1>2. frame[p] # Idle => WillServe(p, frame[p].dst)
  BY <1>1, ServesForEver
<1>3. CASE frame'[p] = frame[p] \/ SameCall(frame[p], frame'[p])
  BY <1>2, <1>3 DEF SameCall, Frames, Idle
<1>4. ASSUME NEW q \in Procs, Replies(p, q)
      PROVE  WillServe(p, frame'[p].dst)
  <2>1. frame'[p].dst = ReplyAddress(p, q)
    BY <1>4, CallFrame DEF Replies
  <2>2. /\ total' = [total EXCEPT ![p] = @ + 1]
        /\ remote' = [remote EXCEPT ![p] = ReplyAddress(p, q)]
    BY <1>4 DEF Replies, RecvReqFollowUp
  <2>3. total'[p] > 0 /\ remote'[p] = ReplyAddress(p, q)
    BY <2>2 DEF TypeOK, MainTypeOK
  <2> QED BY <2>1, <2>3 DEF WillServe
<1> QED BY <1>3, <1>4, FrameSteps, MdelayAssumption

LEMMA IsClientStep ==
  ASSUME TypeOK, ClientInv, [Next]_vars, NEW p \in Masters
  PROVE  IsClient(p)'
<1> SUFFICES ASSUME NEW k \in 0..Size(p) - 1,
                    rows'[p][k].recv # Zero, rows'[p][k].recv[1] \in Slaves
             PROVE  WillServe(rows'[p][k].recv[1], host[p])
  BY HostsStay DEF IsClient, Size, Serves, WillServe
<1>0. p \in Procs
  BY MdelayAssumption
<1>1. rows'[p][k].recv = rows[p][k].recv => Serves(rows'[p][k].recv[1], host[p])
  BY <1>0 DEF ClientInv, IsClient
<1>2. ASSUME NEW r \in Procs, NEW q \in Procs, Stores(r, q)
      PROVE  Serves(rows'[p][k].recv[1], host[p])
  <2>1. CASE rows'[p][k].recv = rows[p][k].recv
    BY <1>1, <2>1
  <2>2. CASE rows'[p][k].recv # rows[p][k].recv
    <3> DEFINE d == Head(wire[q])
    <3>1. p = r /\ wire[q] # <<>> /\ d.dst = host[p] /\ rows'[p][k].recv = d.id
      BY <1>0, <1>2, <2>2 DEF Stores
    <3>2. d \in Addressed(q)
      BY <3>1 DEF ClientInv
    <3> HIDE DEF d
    <3> QED BY <3>1, <3>2 DEF Addressed
  <2> QED BY <2>1, <2>2
<1>3. Serves(rows'[p][k].recv[1], host[p])
  BY <1>1, <1>2, RowSteps
<1> QED BY <1>3, ServesForEver

LEMMA ClientInvariant == Spec => []ClientInv
<1>1. Init => ClientInv
  <2> SUFFICES ASSUME Init, NEW p \in Procs
               PROVE  /\ wire[p] \in Seq(Addressed(p)) /\ AnswersClient(p)
                      /\ p \in Masters => IsClient(p)
    BY DEF ClientInv
  <2>1. wire[p] = <<>> /\ frame[p] = Idle
    BY DEF Init, SendInit
  <2>2. \A k \in 0..Size(p) - 1 : rows[p][k] = EmptyRow
    BY DEF Init
  <2> QED BY <2>1, <2>2 DEF AnswersClient, IsClient, EmptyRow
<1>2. TypeOK /\ ClientInv /\ [Next]_vars => ClientInv'
  BY AddressedStep, AnswersStep, IsClientStep DEF ClientInv
<1> QED BY <1>1, <1>2, TypeCorrect, PTL DEF Spec

\* A slave answers one address only: two masters that hold stamps of the same
\* slave ran at the same address, whatever is lost, duplicated, reordered or
\* restarted, and however many masters run at once (slave.c:140-146).
THEOREM AnswersOneClient == Spec => []OneClient
<1>1. TypeOK /\ ClientInv => OneClient
  <2> SUFFICES ASSUME TypeOK, ClientInv, NEW s \in Slaves,
                      NEW r1 \in Masters, NEW r2 \in Masters,
                      NEW k1 \in DOMAIN rows[r1], NEW k2 \in DOMAIN rows[r2],
                      rows[r1][k1].recv # Zero, rows[r1][k1].recv[1] = s,
                      rows[r2][k2].recv # Zero, rows[r2][k2].recv[1] = s
               PROVE  host[r1] = host[r2]
    BY DEF OneClient
  <2>1. ASSUME NEW r \in Masters, NEW k \in DOMAIN rows[r],
               rows[r][k].recv # Zero, rows[r][k].recv[1] = s
        PROVE  remote[s] = host[r]
    <3>1. k \in 0..Size(r) - 1 /\ r \in Procs
      BY MdelayAssumption DEF TypeOK, MainTypeOK
    <3> QED BY <2>1, <3>1 DEF ClientInv, IsClient, Serves
  <2> QED BY <2>1
<1> QED BY <1>1, ClientInvariant, TypeCorrect, PTL

-----------------------------------------------------------------------------
(* Which stamps meet in a row *)

OneMaster == \A r1, r2 \in Masters : r1 = r2

NoDuplicates == "dup" \notin Faults

-----------------------------------------------------------------------------
(* Evidence of a measurement *)

CurrentSeq(p) == frame[p].seq + frame[p].i

\* The stamp that a datagram brings to the row of its number.
StampOf(d) == IF d.type \in FollowUps THEN d.stamp ELSE d.id

\* x is a stamp of p's packet of number k, so far as what is on the wire, in
\* the tables and in the call under way can tell.
OnWire(p, k, x) ==
  \E j \in 1..Len(wire[p]) : wire[p][j].seq = k /\ x = StampOf(wire[p][j])

InRows(p, k, x) ==
  \E q \in Procs : /\ k \in 0..Size(q) - 1
                   /\ x \in {rows[q][k].recv, rows[q][k].sent}
                   /\ x # Zero /\ x[1] = p

Pending(p, k, x) ==
  frame[p].pc \in {"kernel_ts", "nic_ts"} /\ k = CurrentSeq(p) /\ x = <<p, txno[p]>>

Evidence(p, k, x) == OnWire(p, k, x) \/ InRows(p, k, x) \/ Pending(p, k, x)

\* Nothing is known of the number k of p.
Fresh(p, k) == \A x \in TxIds : ~Evidence(p, k, x)

\* A follow-up of p is on its way; it has been counted.
FollowUpOut(p, k) ==
  \E j \in 1..Len(wire[p]) : wire[p][j].type \in FollowUps /\ wire[p][j].seq = k

Settled(p, k) == \E q \in Procs : k \in Counted(q) /\ rows[q][k].sent[1] = p

\* All that is known of a number are stamps of one datagram.
OneDatagram(p) ==
  \A k \in Nat : \A x, y \in TxIds : Evidence(p, k, x) /\ Evidence(p, k, y) => x = y

\* A follow-up is on its way once, and no more when it has been counted.
OneFollowUp(p) ==
  /\ \A i, j \in 1..Len(wire[p]) :
       wire[p][i].type \in FollowUps /\ wire[p][j].type \in FollowUps
         /\ wire[p][i].seq = wire[p][j].seq
       => i = j
  /\ \A k \in Nat : FollowUpOut(p, k) => ~Settled(p, k)

\* A number is new when its packet is sent, and so is its follow-up; the
\* numbers that a master has yet to come to are new too.
NewNumbers(p) ==
  /\ frame[p].pc = "send" => Fresh(p, CurrentSeq(p))
  /\ frame[p].pc \in {"kernel_ts", "nic_ts"} =>
       ~FollowUpOut(p, CurrentSeq(p)) /\ ~Settled(p, CurrentSeq(p))
  /\ p \in Masters =>
       \A k \in Nat :
         (main[p] = "down"
            \/ (frame[p].pc \in Points \ {"exited"} /\ k > CurrentSeq(p))) => Fresh(p, k)

\* No two slaves count the same number.
CountedApart ==
  \A s1, s2 \in Slaves : \A k \in Nat : k \in Counted(s1) /\ k \in Counted(s2) => s1 = s2

\* The inductive invariant.
MatchInv ==
  /\ \A p \in Procs : OneDatagram(p) /\ OneFollowUp(p) /\ NewNumbers(p)
  /\ CountedApart

-----------------------------------------------------------------------------
(* What evidence a step adds *)

LEMMA RelayedElement ==
  ASSUME SendTypeOK, NEW p \in Procs, Relayed(p), NEW i \in 1..Len(wire'[p])
  PROVE  \E j \in 1..Len(wire[p]) : wire'[p][i] = wire[p][j]
<1> DEFINE S == {wire[p][j] : j \in 1..Len(wire[p])}
<1>1. wire[p] \in Seq(S)
  <2>1. wire[p] \in Seq(Packets)
    BY DEF SendTypeOK
  <2> QED BY <2>1
<1> HIDE DEF S
<1>2. wire'[p] \in Seq(S)
  BY <1>1, RelayedSeq
<1>3. wire'[p][i] \in S
  BY <1>2
<1> QED BY <1>3 DEF S

\* A packet is new to the wire, and to be matched with its own identity; a
\* follow-up is to be matched with the packet before it.
LEMMA StepSends ==
  ASSUME SendTypeOK, NEW p \in Procs, SendStep(p), QueueInv(p)
  PROVE  /\ frame[p] \in Frames
         /\ \/ wire' = wire
            \/ \E d \in Packets :
                 /\ SendPacket(p)
                 /\ wire' = [wire EXCEPT ![p] = Append(@, d)]
                 /\ d.seq = CurrentSeq(p) /\ d.type \notin FollowUps
                 /\ StampOf(d) = <<p, txno[p] + 1>>
            \/ \E d \in Packets :
                 /\ SendFollowUp(p)
                 /\ wire' = [wire EXCEPT ![p] = Append(@, d)]
                 /\ d.seq = CurrentSeq(p) /\ d.type \in FollowUps
                 /\ StampOf(d) = <<p, txno[p]>>
<1>0. frame[p] \in Frames
  BY InCall DEF SendStep, SendPacket, ReadKernelStamp, SendFollowUp, DrainKernelStamp, EndIteration
<1>1. CASE SendPacket(p)
  <2> DEFINE d == Datagram(p, frame[p].type, Zero)
  <2>1. frame[p].type \in Requests /\ frame[p].type \in Types /\ frame[p].type \notin FollowUps
    BY <1>0, RequestIsNoFollowUp DEF Frames
  <2>2. d \in Packets
    BY <1>0, <1>1, <2>1, SendToWire DEF SendPacket
  <2>3. wire' = [wire EXCEPT ![p] = Append(@, d)]
    BY <1>1 DEF SendPacket, SendTo, Datagram
  <2>4. d.type = frame[p].type /\ d.seq = CurrentSeq(p) /\ d.id = <<p, txno[p] + 1>>
    BY DEF Datagram, CurrentSeq
  <2> HIDE DEF d
  <2>5. StampOf(d) = <<p, txno[p] + 1>>
    BY <2>1, <2>4 DEF StampOf
  <2> QED BY <1>0, <1>1, <2>1, <2>2, <2>3, <2>4, <2>5
<1>2. CASE SendFollowUp(p)
  <2> DEFINE stamp == NicStamp(Head(errq[p]))
             d == Datagram(p, FollowUpOf(frame[p].type), stamp)
  <2>1. frame[p].pc = "nic_ts" /\ ReadErrqueue(p)
    BY <1>2 DEF SendFollowUp
  <2>2. Head(errq[p]) = NicStampOf(p, txno[p])
    BY <2>1, ReadSecond DEF QueueInv
  <2>3. stamp = <<p, txno[p]>>
    BY <2>2 DEF NicStamp, NicStampOf
  <2>4. FollowUpOf(frame[p].type) \in FollowUps /\ FollowUpOf(frame[p].type) \in Types
    BY <1>0 DEF Frames, Requests, FollowUpOf, FollowUps, Types
  <2>5. Head(errq[p]) \in Stamps
    BY <2>1, ReadErrqueueType
  <2>6. stamp \in TxIds \cup {Zero}
    BY <2>5 DEF NicStamp, Stamps
  <2>7. d \in Packets
    BY <1>0, <1>2, <2>4, <2>6, SendToWire DEF SendFollowUp
  <2>8. wire' = [wire EXCEPT ![p] = Append(@, d)]
    BY <1>2 DEF SendFollowUp, SendTo, Datagram
  <2>9. /\ d.type = FollowUpOf(frame[p].type) /\ d.seq = CurrentSeq(p)
        /\ d.stamp = <<p, txno[p]>>
    BY <2>3 DEF Datagram, CurrentSeq
  <2> HIDE DEF d, stamp
  <2>10. StampOf(d) = <<p, txno[p]>>
    BY <2>4, <2>9 DEF StampOf
  <2> QED BY <1>0, <1>2, <2>4, <2>7, <2>8, <2>9, <2>10
<1>3. CASE ReadKernelStamp(p) \/ DrainKernelStamp(p) \/ EndIteration(p)
  BY <1>0, <1>3 DEF ReadKernelStamp, DrainKernelStamp, EndIteration
<1> QED BY <1>1, <1>2, <1>3 DEF SendStep

\* Where a step of the routine leaves the call.
LEMMA SendStepPoint ==
  ASSUME SendTypeOK, NEW p \in Procs, SendStep(p)
  PROVE  \/ /\ SendPacket(p) /\ frame[p].pc = "send" /\ frame'[p].pc = "kernel_ts"
            /\ CurrentSeq(p)' = CurrentSeq(p) /\ txno'[p] = txno[p] + 1
         \/ /\ frame[p].pc = "kernel_ts" /\ frame'[p].pc = "nic_ts"
            /\ CurrentSeq(p)' = CurrentSeq(p) /\ txno'[p] = txno[p]
         \/ /\ SendFollowUp(p) /\ frame[p].pc = "nic_ts" /\ frame'[p].pc = "drain_kernel"
            /\ CurrentSeq(p)' = CurrentSeq(p)
         \/ /\ frame[p].pc = "drain_kernel" /\ frame'[p].pc = "drain_nic"
            /\ CurrentSeq(p)' = CurrentSeq(p)
         \/ frame'[p] = Idle
         \/ /\ frame[p].pc = "drain_nic" /\ frame'[p].pc = "send"
            /\ CurrentSeq(p)' = CurrentSeq(p) + 1 /\ frame[p].i + 1 < frame[p].N
<1>0. frame[p] \in Frames /\ frame \in [Procs -> Frames \cup {Idle}] /\ txno \in [Procs -> Nat]
  BY InCall DEF SendTypeOK, SendStep, SendPacket, ReadKernelStamp, SendFollowUp,
                DrainKernelStamp, EndIteration
<1>1. ASSUME NEW pc \in Points, Goto(p, pc)
      PROVE  frame'[p].pc = pc /\ CurrentSeq(p)' = CurrentSeq(p)
  BY <1>0, <1>1 DEF Goto, CurrentSeq, Frames
<1>2. CASE SendPacket(p)
  <2>1. frame[p].pc = "send" /\ Goto(p, "kernel_ts") /\ txno' = [txno EXCEPT ![p] = @ + 1]
    BY <1>2 DEF SendPacket, SendTo
  <2> QED BY <1>0, <1>1, <1>2, <2>1 DEF Points
<1>3. CASE ReadKernelStamp(p)
  BY <1>1, <1>3 DEF ReadKernelStamp, Points
<1>4. CASE SendFollowUp(p)
  <2>1. frame[p].pc = "nic_ts" /\ Goto(p, "drain_kernel")
    BY <1>4 DEF SendFollowUp
  <2> QED BY <1>1, <1>4, <2>1 DEF Points
<1>5. CASE DrainKernelStamp(p)
  BY <1>1, <1>5 DEF DrainKernelStamp, Points
<1>6. CASE EndIteration(p)
  <2> DEFINE g == [frame[p] EXCEPT !.i = frame[p].i + 1]
  <2>1. frame[p].pc = "drain_nic" /\ frame'[p] = LoopTop(g)
    BY <1>0, <1>6 DEF EndIteration, NextIteration
  <2>2. g \in Frames /\ g.i = frame[p].i + 1 /\ g.N = frame[p].N /\ g.seq = frame[p].seq
    BY <1>0 DEF Frames
  <2> HIDE DEF g
  <2>3. CASE g.i < g.N
    <3>1. frame'[p] = [g EXCEPT !.pc = "send"]
      BY <2>1, <2>3 DEF LoopTop
    <3>2. /\ frame'[p].pc = "send" /\ frame'[p].i = frame[p].i + 1
          /\ frame'[p].seq = frame[p].seq
      BY <2>2, <3>1 DEF Frames
    <3>3. CurrentSeq(p)' = CurrentSeq(p) + 1
      BY <1>0, <3>2 DEF CurrentSeq, Frames
    <3> QED BY <2>1, <2>2, <2>3, <3>2, <3>3
  <2>4. CASE ~(g.i < g.N)
    BY <2>1, <2>4 DEF LoopTop
  <2> QED BY <2>3, <2>4
<1> QED BY <1>2, <1>3, <1>4, <1>5, <1>6 DEF SendStep

\* What a step does to the call of p.
LEMMA CallSteps ==
  ASSUME TypeOK, [Next]_vars, NEW p \in Procs
  PROVE  \/ frame'[p] = frame[p] /\ txno'[p] = txno[p]
         \/ Alive(p) /\ SendStep(p)
         \/ frame'[p].pc = "exited"
         \/ p \in Masters /\ StartMaster(p)
         \/ p \in Slaves /\ \E q \in Procs : Replies(p, q)
<1> USE DEF TypeOK
<1> DEFINE Same == frame'[p] = frame[p] /\ txno'[p] = txno[p]
<1>0. frame \in [Procs -> Frames \cup {Idle}]
  BY DEF SendTypeOK
<1>1. UNCHANGED <<frame, txno>> => Same
  OBVIOUS
<1>2. ASSUME NEW r \in Masters, StartMaster(r)
      PROVE  Same \/ r = p
  BY <1>0, <1>2 DEF StartMaster, Call
<1>3. ASSUME NEW s \in Slaves, StartSlave(s) \/ EndReply(s)
      PROVE  Same
  BY <1>3 DEF StartSlave, EndReply, sendVars
<1>4. ASSUME NEW q \in Procs, NEW r \in Procs, Reception(q, r)
      PROVE  Same \/ (q = p /\ q \in Slaves /\ Replies(q, r))
  <2>1. txno' = txno
    BY <1>4, ReceptionReceives
  <2>2. UNCHANGED frame \/ (q \in Slaves /\ Replies(q, r))
    BY <1>4, ReceptionFrame DEF Replies
  <2>3. ASSUME Replies(q, r), q # p
        PROVE  frame'[p] = frame[p]
    BY <1>0, <2>3 DEF Replies, Call
  <2> QED BY <2>1, <2>2, <2>3
<1>5. ASSUME NEW q \in Procs, Store(q) \/ Crash(q)
      PROVE  Same
  BY <1>5 DEF Store, Crash, sendVars
<1>6. ASSUME NEW q \in Procs, ThreadStep(q)
      PROVE  Same \/ (q = p /\ Alive(p) /\ SendStep(p)) \/ frame'[p].pc = "exited"
  <2>1. Alive(q) /\ (SendStep(q) \/ LoopStamp(q) \/ SendError(q))
    BY <1>6, ThreadStepMain
  <2>2. CASE q # p
    BY <2>1, <2>2, StepOthers DEF OthersUnchanged
  <2>3. CASE q = p /\ LoopStamp(p)
    BY <2>3 DEF LoopStamp
  <2>4. CASE q = p /\ SendError(p)
    <3>1. Goto(p, "exited") /\ frame[p] \in Frames
      BY <2>4, InCall DEF SendError
    <3> QED BY <1>0, <3>1 DEF Goto, Frames
  <2> QED BY <2>1, <2>2, <2>3, <2>4
<1>7. NetworkStep \/ UNCHANGED vars => Same
  BY NetworkRelays DEF vars, sendVars
<1> HIDE DEF Same
<1>8. Next => Same \/ (Alive(p) /\ SendStep(p)) \/ frame'[p].pc = "exited"
              \/ (p \in Masters /\ StartMaster(p))
              \/ (p \in Slaves /\ \E q \in Procs : Replies(p, q))
  BY <1>2, <1>3, <1>4, <1>5, <1>6, <1>7, NextCases
<1> QED BY <1>7, <1>8 DEF Same

\* p sends a packet or a follow-up d of its current number.
Adds(p, d) ==
  /\ Alive(p)
  /\ wire'[p] = Append(wire[p], d)
  /\ d.seq = CurrentSeq(p)
  /\ \/ SendPacket(p) /\ d.type \notin FollowUps /\ StampOf(d) = <<p, txno[p] + 1>>
     \/ SendFollowUp(p) /\ d.type \in FollowUps /\ StampOf(d) = <<p, txno[p]>>

LEMMA WireOfSteps ==
  ASSUME TypeOK, ProvenanceInv, [Next]_vars, NEW p \in Procs
  PROVE  Relayed(p) \/ \E d \in Packets : Adds(p, d)
<1>0. SendTypeOK /\ wire \in [Procs -> Seq(Packets)]
  BY DEF TypeOK, SendTypeOK
<1>1. ASSUME NEW r \in Procs, NEW e \in Packets, Alive(r), SendStep(r), Sends(r, e)
      PROVE  Relayed(p) \/ \E d \in Packets : Adds(p, d)
  <2>1. CASE r # p
    <3>1. wire'[p] = wire[p]
      BY <1>0, <1>1, <2>1 DEF Sends
    <3> QED BY <3>1 DEF Relayed
  <2>2. CASE r = p
    <3>1. QueueInv(p)
      BY DEF ProvenanceInv
    <3>2. CASE wire' = wire
      BY <3>2 DEF Relayed
    <3>3. ASSUME NEW d \in Packets, wire' = [wire EXCEPT ![p] = Append(@, d)],
                 d.seq = CurrentSeq(p),
                 \/ SendPacket(p) /\ d.type \notin FollowUps /\ StampOf(d) = <<p, txno[p] + 1>>
                 \/ SendFollowUp(p) /\ d.type \in FollowUps /\ StampOf(d) = <<p, txno[p]>>
          PROVE  Adds(p, d)
      <4>1. wire'[p] = Append(wire[p], d)
        BY <1>0, <3>3
      <4> QED BY <1>1, <2>2, <3>3, <4>1 DEF Adds
    <3> QED BY <1>0, <1>1, <2>2, <3>1, <3>2, <3>3, StepSends
  <2> QED BY <2>1, <2>2
<1> QED BY <1>1, WireSteps

LEMMA WireTyped ==
  ASSUME TypeOK, ProvenanceInv, [Next]_vars, NEW p \in Procs
  PROVE  wire'[p] \in Seq(Packets)
<1>1. wire[p] \in Seq(Packets)
  BY DEF TypeOK, SendTypeOK
<1>2. Relayed(p) => wire'[p] \in Seq(Packets)
  BY <1>1, RelayedSeq
<1>3. ASSUME NEW d \in Packets, Adds(p, d)
      PROVE  wire'[p] \in Seq(Packets)
  BY <1>1, <1>3 DEF Adds
<1> QED BY <1>2, <1>3, WireOfSteps

\* A datagram that p has on the wire, and what it says of its number.
LEMMA OnTheWire ==
  ASSUME TypeOK, ProvenanceInv, NEW p \in Procs, NEW j \in 1..Len(wire[p])
  PROVE  /\ wire[p][j] \in Sendable(p) /\ wire[p][j].seq \in Nat
         /\ StampOf(wire[p][j]) \in TxIds /\ StampOf(wire[p][j])[1] = p
         /\ OnWire(p, wire[p][j].seq, StampOf(wire[p][j]))
<1>1. wire[p][j] \in Sendable(p)
  BY DEF ProvenanceInv
<1>2. wire[p][j] \in Packets
  BY <1>1 DEF Sendable
<1>3. StampOf(wire[p][j]) \in TxIds /\ StampOf(wire[p][j])[1] = p
  BY <1>1, <1>2 DEF Sendable, Packets, StampOf
<1> QED BY <1>1, <1>2, <1>3 DEF Packets, OnWire

LEMMA HeadOnTheWire ==
  ASSUME TypeOK, NEW p \in Procs, wire[p] # <<>>
  PROVE  1 \in 1..Len(wire[p]) /\ Head(wire[p]) = wire[p][1]
  BY DEF TypeOK, SendTypeOK

\* What a reception stores was evidence before it.
LEMMA RowEvidence ==
  ASSUME TypeOK, ProvenanceInv, [Next]_vars, NEW p \in Procs, NEW k \in Nat, NEW x \in TxIds,
         InRows(p, k, x)'
  PROVE  Evidence(p, k, x)
<1>1. PICK q \in Procs : /\ k \in 0..Size(q) - 1
                         /\ x \in {rows'[q][k].recv, rows'[q][k].sent}
                         /\ x # Zero /\ x[1] = p
  BY DEF InRows, Size
<1>2. CASE x \in {rows[q][k].recv, rows[q][k].sent}
  BY <1>1, <1>2 DEF InRows, Evidence
<1>3. ASSUME x \notin {rows[q][k].recv, rows[q][k].sent},
             NEW r \in Procs, NEW s \in Procs, Stores(r, s)
      PROVE  OnWire(p, k, x)
  <2> DEFINE d == Head(wire[s])
  <2>1. q = r /\ wire[s] # <<>>
    BY <1>1, <1>3 DEF Stores
  <2>2. d = wire[s][1] /\ 1 \in 1..Len(wire[s])
    BY <2>1, HeadOnTheWire
  <2>3. k = d.seq /\ x = StampOf(d)
    <3>1. \/ k = d.seq /\ d.type \in Requests /\ x = d.id
          \/ k = d.seq /\ d.type \in FollowUps /\ x = d.stamp
      BY <1>1, <1>3, <2>1 DEF Stores
    <3> QED BY <3>1, RequestIsNoFollowUp DEF StampOf
  <2>4. OnWire(s, k, x) /\ x[1] = s
    BY <2>2, <2>3, OnTheWire
  <2> QED BY <1>1, <2>4
<1> QED BY <1>1, <1>2, <1>3, RowSteps DEF Evidence

\* Evidence of a number stays as it is until p sends the packet.
LEMMA EvidenceStep ==
  ASSUME TypeOK, ProvenanceInv, [Next]_vars, NEW p \in Procs, NEW k \in Nat, NEW x \in TxIds,
         Evidence(p, k, x)'
  PROVE  \/ Evidence(p, k, x)
         \/ Alive(p) /\ SendPacket(p) /\ k = CurrentSeq(p) /\ x = <<p, txno[p] + 1>>
<1>0. SendTypeOK /\ wire[p] \in Seq(Packets)
  BY DEF TypeOK, SendTypeOK
<1>1. CASE InRows(p, k, x)'
  BY <1>1, RowEvidence
<1>2. CASE OnWire(p, k, x)'
  <2>1. PICK i \in 1..Len(wire'[p]) : wire'[p][i].seq = k /\ x = StampOf(wire'[p][i])
    BY <1>2 DEF OnWire, StampOf
  <2>2. CASE Relayed(p)
    BY <1>0, <2>1, <2>2, RelayedElement DEF OnWire, Evidence
  <2>3. ASSUME NEW d \in Packets, Adds(p, d)
        PROVE  \/ Evidence(p, k, x)
               \/ Alive(p) /\ SendPacket(p) /\ k = CurrentSeq(p) /\ x = <<p, txno[p] + 1>>
    <3>1. CASE i \in 1..Len(wire[p])
      <4>1. wire'[p][i] = wire[p][i]
        BY <1>0, <2>3, <3>1 DEF Adds
      <4> QED BY <2>1, <3>1, <4>1 DEF OnWire, Evidence
    <3>2. CASE i \notin 1..Len(wire[p])
      <4>1. wire'[p][i] = d
        BY <1>0, <2>3, <3>2 DEF Adds
      <4>2. CASE SendPacket(p) /\ StampOf(d) = <<p, txno[p] + 1>>
        BY <2>1, <2>3, <4>1, <4>2 DEF Adds
      <4>3. CASE SendFollowUp(p) /\ StampOf(d) = <<p, txno[p]>>
        <5>1. frame[p].pc = "nic_ts" /\ k = CurrentSeq(p) /\ x = <<p, txno[p]>>
          BY <2>1, <2>3, <4>1, <4>3 DEF Adds, SendFollowUp
        <5> QED BY <5>1 DEF Pending, Evidence
      <4> QED BY <2>3, <4>2, <4>3 DEF Adds
    <3> QED BY <3>1, <3>2
  <2> QED BY <2>2, <2>3, WireOfSteps
<1>3. CASE Pending(p, k, x)'
  <2>1. /\ frame'[p].pc \in {"kernel_ts", "nic_ts"} /\ k = CurrentSeq(p)'
        /\ x = <<p, txno'[p]>>
    BY <1>3 DEF Pending
  <2>2. CASE frame'[p] = frame[p] /\ txno'[p] = txno[p]
    BY <2>1, <2>2 DEF CurrentSeq, Pending, Evidence
  <2>3. CASE Alive(p) /\ SendStep(p)
    BY <1>0, <2>1, <2>3, SendStepPoint DEF Idle, Pending, Evidence
  <2>4. CASE p \in Masters /\ StartMaster(p)
    <3>1. frame'[p] = Idle \/ frame'[p].pc = "send"
      BY <2>4, CallFrame DEF StartMaster
    <3> QED BY <2>1, <3>1 DEF Idle
  <2>5. CASE \E q \in Procs : Replies(p, q)
    <3>1. frame'[p] = Idle \/ frame'[p].pc = "send"
      BY <2>5, CallFrame DEF Replies
    <3> QED BY <2>1, <3>1 DEF Idle
  <2> QED BY <2>1, <2>2, <2>3, <2>4, <2>5, CallSteps
<1> QED BY <1>1, <1>2, <1>3 DEF Evidence

LEMMA FreshStep ==
  ASSUME TypeOK, ProvenanceInv, [Next]_vars, NEW p \in Procs, NEW k \in Nat, Fresh(p, k),
         Alive(p) /\ SendPacket(p) => k # CurrentSeq(p)
  PROVE  \A x \in TxIds : ~Evidence(p, k, x)'
  BY EvidenceStep DEF Fresh

\* A number gets a follow-up when p sends it, and is settled when it arrives.
LEMMA FollowUpStep ==
  ASSUME TypeOK, ProvenanceInv, [Next]_vars, NEW p \in Procs, NEW k \in Nat
  PROVE  FollowUpOut(p, k)' =>
           \/ FollowUpOut(p, k)
           \/ SendFollowUp(p) /\ frame[p].pc = "nic_ts" /\ k = CurrentSeq(p)
<1> SUFFICES ASSUME NEW i \in 1..Len(wire'[p]),
                    wire'[p][i].type \in FollowUps, wire'[p][i].seq = k
             PROVE  \/ FollowUpOut(p, k)
                    \/ SendFollowUp(p) /\ frame[p].pc = "nic_ts" /\ k = CurrentSeq(p)
  BY DEF FollowUpOut
<1>0. SendTypeOK /\ wire[p] \in Seq(Packets)
  BY DEF TypeOK, SendTypeOK
<1>1. CASE Relayed(p)
  BY <1>0, <1>1, RelayedElement DEF FollowUpOut
<1>2. ASSUME NEW d \in Packets, Adds(p, d)
      PROVE  \/ FollowUpOut(p, k)
             \/ SendFollowUp(p) /\ frame[p].pc = "nic_ts" /\ k = CurrentSeq(p)
  <2>1. CASE i \in 1..Len(wire[p])
    <3>1. wire'[p][i] = wire[p][i]
      BY <1>0, <1>2, <2>1 DEF Adds
    <3> QED BY <2>1, <3>1 DEF FollowUpOut
  <2>2. CASE i \notin 1..Len(wire[p])
    <3>1. wire'[p][i] = d
      BY <1>0, <1>2, <2>2 DEF Adds
    <3> QED BY <1>2, <3>1 DEF Adds, SendFollowUp
  <2> QED BY <2>1, <2>2
<1> QED BY <1>1, <1>2, WireOfSteps

\* A number that is newly settled was the first on the wire, and is taken.
LEMMA SettledStep ==
  ASSUME TypeOK, ProvenanceInv, [Next]_vars, NEW p \in Procs, NEW k \in Nat
  PROVE  Settled(p, k)' =>
           \/ Settled(p, k)
           \/ /\ wire[p] # <<>> /\ Head(wire[p]).type \in FollowUps /\ Head(wire[p]).seq = k
              /\ wire'[p] = Tail(wire[p])
<1> SUFFICES ASSUME NEW q \in Procs, k \in 0..Size(q) - 1,
                    rows'[q][k].sent # Zero, rows'[q][k].sent[1] = p
             PROVE  \/ Settled(p, k)
                    \/ /\ wire[p] # <<>> /\ Head(wire[p]).type \in FollowUps
                       /\ Head(wire[p]).seq = k /\ wire'[p] = Tail(wire[p])
  BY DEF Settled, Counted, Size
<1>1. CASE rows'[q][k].sent = rows[q][k].sent
  BY <1>1 DEF Settled, Counted
<1>2. ASSUME rows'[q][k].sent # rows[q][k].sent, NEW r \in Procs, NEW s \in Procs, Stores(r, s)
      PROVE  /\ wire[p] # <<>> /\ Head(wire[p]).type \in FollowUps /\ Head(wire[p]).seq = k
             /\ wire'[p] = Tail(wire[p])
  <2> DEFINE d == Head(wire[s])
  <2>1. q = r /\ wire[s] # <<>> /\ wire' = [wire EXCEPT ![s] = Tail(@)]
    BY <1>2 DEF Stores
  <2>2. k = d.seq /\ d.type \in FollowUps /\ rows'[q][k].sent = d.stamp
    BY <1>2, <2>1 DEF Stores
  <2>3. d = wire[s][1] /\ 1 \in 1..Len(wire[s])
    BY <2>1, HeadOnTheWire
  <2>4. StampOf(d)[1] = s /\ StampOf(d) = d.stamp
    BY <2>2, <2>3, OnTheWire DEF StampOf
  <2>5. s = p
    BY <2>2, <2>4
  <2>6. wire'[s] = Tail(wire[s])
    BY <2>1 DEF TypeOK, SendTypeOK
  <2> QED BY <2>1, <2>2, <2>5, <2>6
<1> QED BY <1>1, <1>2, RowSteps

\* A number with a follow-up, on its way or counted, is not fresh.
LEMMA FreshIsNew ==
  ASSUME TypeOK, ProvenanceInv, NEW p \in Procs, NEW k \in Nat, Fresh(p, k)
  PROVE  ~FollowUpOut(p, k) /\ ~Settled(p, k)
<1>1. ASSUME FollowUpOut(p, k)
      PROVE  FALSE
  BY <1>1, OnTheWire DEF FollowUpOut, Fresh, Evidence
<1>2. ASSUME NEW q \in Procs, k \in Counted(q), rows[q][k].sent[1] = p
      PROVE  FALSE
  <2>1. k \in 0..Size(q) - 1 /\ rows[q][k].sent # Zero
    BY <1>2 DEF Counted
  <2>2. rows[q][k].sent \in TxIds
    BY <2>1 DEF TypeOK, MainTypeOK, Rows, StampOrZero
  <2> QED BY <1>2, <2>1, <2>2 DEF InRows, Evidence, Fresh
<1> QED BY <1>1, <1>2 DEF Settled

-----------------------------------------------------------------------------
(* The steps keep the invariant *)

LEMMA OneDatagramStep ==
  ASSUME TypeOK, ProvenanceInv, MatchInv, [Next]_vars, NEW p \in Procs
  PROVE  OneDatagram(p)'
<1> SUFFICES ASSUME NEW k \in Nat, NEW x \in TxIds, NEW y \in TxIds,
                    Evidence(p, k, x)', Evidence(p, k, y)'
             PROVE  x = y
  BY DEF OneDatagram
<1>1. Evidence(p, k, x) /\ Evidence(p, k, y) => x = y
  BY DEF MatchInv, OneDatagram
<1>2. SendPacket(p) /\ k = CurrentSeq(p) => ~Evidence(p, k, x) /\ ~Evidence(p, k, y)
  BY DEF MatchInv, NewNumbers, SendPacket, Fresh
<1> QED BY <1>1, <1>2, EvidenceStep

LEMMA OneFollowUpStep ==
  ASSUME TypeOK, ProvenanceInv, NoDuplicates, MatchInv, [Next]_vars, NEW p \in Procs
  PROVE  OneFollowUp(p)'
<1>0. SendTypeOK /\ wire[p] \in Seq(Packets) /\ wire'[p] \in Seq(Packets)
  BY WireTyped DEF TypeOK, SendTypeOK
<1>1. OneFollowUp(p) /\ NewNumbers(p)
  BY DEF MatchInv
<1>2. ASSUME NEW i \in 1..Len(wire'[p]), NEW j \in 1..Len(wire'[p]),
             wire'[p][i].type \in FollowUps, wire'[p][j].type \in FollowUps,
             wire'[p][i].seq = wire'[p][j].seq
      PROVE  i = j
  <2>1. CASE Relayed(p)
    <3>1. PICK f \in [1..Len(wire'[p]) -> 1..Len(wire[p])] :
               /\ \A a \in 1..Len(wire'[p]) : wire'[p][a] = wire[p][f[a]]
               /\ \A a, b \in 1..Len(wire'[p]) : f[a] = f[b] => a = b
      <4>1. Leaves(wire'[p], wire[p])
        BY <2>1 DEF Relayed, NoDuplicates, Leaves
      <4>2. StandsIn(wire'[p], wire[p])
        BY <1>0, <4>1, NetworkOnce
      <4> QED BY <4>2 DEF StandsIn
    <3>2. f[i] \in 1..Len(wire[p]) /\ f[j] \in 1..Len(wire[p])
      BY <3>1
    <3>3. f[i] = f[j]
      BY <1>1, <1>2, <3>1, <3>2 DEF OneFollowUp
    <3> QED BY <3>1, <3>3
  <2>2. ASSUME NEW d \in Packets, Adds(p, d)
        PROVE  i = j
    <3>1. /\ Len(wire'[p]) = Len(wire[p]) + 1 /\ Len(wire[p]) \in Nat
          /\ wire'[p][Len(wire[p]) + 1] = d
          /\ \A a \in 1..Len(wire[p]) : wire'[p][a] = wire[p][a]
      BY <1>0, <2>2 DEF Adds
    <3>2. CASE i \in 1..Len(wire[p]) /\ j \in 1..Len(wire[p])
      BY <1>1, <1>2, <3>1, <3>2 DEF OneFollowUp
    <3>3. CASE i \notin 1..Len(wire[p]) /\ j \notin 1..Len(wire[p])
      BY <3>1, <3>3
    <3>4. ASSUME NEW a \in 1..Len(wire[p]), wire[p][a].type \in FollowUps,
                 wire[p][a].seq = d.seq, d.type \in FollowUps
          PROVE  FALSE
      <4>1. frame[p].pc = "nic_ts" /\ d.seq = CurrentSeq(p)
        BY <2>2, <3>4 DEF Adds, SendFollowUp
      <4> QED BY <1>1, <3>4, <4>1 DEF NewNumbers, FollowUpOut
    <3>5. CASE i \in 1..Len(wire[p]) /\ j \notin 1..Len(wire[p])
      <4>1. wire'[p][i] = wire[p][i] /\ wire'[p][j] = d
        BY <3>1, <3>5
      <4> QED BY <1>2, <3>4, <3>5, <4>1
    <3>6. CASE i \notin 1..Len(wire[p]) /\ j \in 1..Len(wire[p])
      <4>1. wire'[p][j] = wire[p][j] /\ wire'[p][i] = d
        BY <3>1, <3>6
      <4> QED BY <1>2, <3>4, <3>6, <4>1
    <3> QED BY <3>2, <3>3, <3>5, <3>6
  <2> QED BY <2>1, <2>2, WireOfSteps
<1>3. ASSUME NEW k \in Nat, FollowUpOut(p, k)', Settled(p, k)'
      PROVE  FALSE
  <2>1. ~Settled(p, k)
    <3>1. CASE FollowUpOut(p, k)
      BY <1>1, <3>1 DEF OneFollowUp
    <3>2. CASE frame[p].pc = "nic_ts" /\ k = CurrentSeq(p)
      BY <1>1, <3>2 DEF NewNumbers
    <3> QED BY <1>3, <3>1, <3>2, FollowUpStep
  <2>2. /\ wire[p] # <<>> /\ Head(wire[p]).type \in FollowUps /\ Head(wire[p]).seq = k
        /\ wire'[p] = Tail(wire[p])
    BY <1>3, <2>1, SettledStep
  <2>3. PICK i \in 1..Len(wire'[p]) : wire'[p][i].type \in FollowUps /\ wire'[p][i].seq = k
    BY <1>3 DEF FollowUpOut
  <2>4. i + 1 \in 1..Len(wire[p]) /\ wire'[p][i] = wire[p][i + 1] /\ 1 \in 1..Len(wire[p])
        /\ i + 1 # 1 /\ Head(wire[p]) = wire[p][1]
    BY <1>0, <2>2
  <2> QED BY <1>1, <2>2, <2>3, <2>4 DEF OneFollowUp
<1> QED BY <1>2, <1>3 DEF OneFollowUp

\* A program that has been started is not waiting to be started again.
LEMMA NotDownAgain ==
  ASSUME TypeOK, [Next]_vars, NEW p \in Procs, main'[p] = "down"
  PROVE  main[p] = "down"
<1>0. main \in [Procs -> Mains]
  BY DEF TypeOK, MainTypeOK
<1>1. main' = main => main[p] = "down"
  OBVIOUS
<1>2. ASSUME NEW q \in Procs, NEW how \in Mains \ {"down"}, main' = [main EXCEPT ![q] = how]
      PROVE  main[p] = "down"
  BY <1>0, <1>2
<1>3. ASSUME NEW q \in Procs, NEW t, LoopTest(q, t)
      PROVE  main[p] = "down"
  <2>1. \E how \in {"recv", "store"} : main' = [main EXCEPT ![q] = how]
    BY <1>3 DEF LoopTest
  <2> QED BY <1>2, <2>1 DEF Mains
<1>4. ASSUME NEW q \in Procs, NEW x \in Procs, Reception(q, x)
      PROVE  main[p] = "down"
  <2>1. \/ \E t : LoopTest(q, t)
        \/ \E how \in {"failed", "undefined", "reply"} : main' = [main EXCEPT ![q] = how]
    BY <1>4 DEF Reception, Taking, RespStamped, RecvRespFollowUp, RecvUnknown, ReqStamped,
                RecvReqFollowUp, Stop, Mishap
  <2> QED BY <1>2, <1>3, <2>1 DEF Mains
<1>5. ASSUME NEW q \in Procs, StartMaster(q) \/ StartSlave(q)
      PROVE  main[p] = "down"
  BY <1>2, <1>5 DEF StartMaster, StartSlave, Start, Mains
<1>6. ASSUME NEW s \in Slaves, EndReply(s)
      PROVE  main[p] = "down"
  BY <1>3, <1>6, MdelayAssumption DEF EndReply
<1>7. ASSUME NEW q \in Procs, Store(q) \/ Crash(q)
      PROVE  main[p] = "down"
  <2>1. \E how \in {"done", "undefined", "failed"} : main' = [main EXCEPT ![q] = how]
    BY <1>7 DEF Store, Crash
  <2> QED BY <1>2, <2>1 DEF Mains
<1>8. ASSUME NEW q \in Procs, ThreadStep(q)
      PROVE  main[p] = "down"
  BY <1>1, <1>2, <1>8, ThreadStepMain DEF TypeOK, Mains
<1>9. NetworkStep \/ UNCHANGED vars => main' = main
  BY NetworkRelays DEF TypeOK, vars, mainVars
<1> QED BY <1>1, <1>4, <1>5, <1>6, <1>7, <1>8, <1>9, NextCases, MdelayAssumption

\* A slave answers a number when its follow-up arrives, and only then: the
\* number is new to its own packets.
LEMMA ReplyIsFresh ==
  ASSUME TypeOK, ProvenanceInv, OneMaster, MatchInv,
         NEW p \in Slaves, NEW q \in Procs, Replies(p, q)
  PROVE  Head(wire[q]).seq \in Nat /\ Fresh(p, Head(wire[q]).seq)
<1> DEFINE k == Head(wire[q]).seq
<1>0. p \in Procs /\ p \notin Masters
  BY MdelayAssumption
<1>1. wire[q] # <<>> /\ Head(wire[q]).type = "DELAY_REQ_FOLLOW_UP" /\ frame[p] = Idle
  BY DEF Replies, RecvReqFollowUp, Receive, Call
<1>2. Head(wire[q]).type \in Handled(p) /\ Head(wire[q]).type \in FollowUps
  BY <1>0, <1>1 DEF Handled, FollowUps
<1>3. Head(wire[q]) = wire[q][1] /\ 1 \in 1..Len(wire[q]) /\ k \in Nat
  BY <1>1, HeadOnTheWire, OnTheWire
<1>4. FollowUpOut(q, k)
  BY <1>2, <1>3 DEF FollowUpOut
<1>5. q \in Masters
  BY <1>0, <1>1, <1>2, HeadFromOther DEF Source
<1> HIDE DEF k
<1>6. k \notin Counted(p)
  <2> SUFFICES ASSUME k \in Counted(p)
               PROVE  FALSE
    OBVIOUS
  <2>1. rows[p][k].sent[1] \in Masters
    BY <1>0 DEF ProvenanceInv, RowsFrom, Counted, Source
  <2>2. Settled(q, k)
    BY <1>0, <1>5, <2>1 DEF OneMaster, Settled
  <2> QED BY <1>3, <1>4, <2>2 DEF MatchInv, OneFollowUp
<1>7. ASSUME NEW x \in TxIds, OnWire(p, k, x)
      PROVE  FALSE
  <2>1. PICK j \in 1..Len(wire[p]) : wire[p][j].seq = k
    BY <1>7 DEF OnWire
  <2>2. wire[p][j] \in Sendable(p)
    BY <1>0, OnTheWire
  <2> QED BY <1>6, <2>1, <2>2 DEF Sendable
<1>8. ASSUME NEW x \in TxIds, InRows(p, k, x)
      PROVE  FALSE
  <2>1. PICK r \in Procs : /\ k \in 0..Size(r) - 1
                           /\ x \in {rows[r][k].recv, rows[r][k].sent}
                           /\ x # Zero /\ x[1] = p
    BY <1>8 DEF InRows
  <2>2. p \in Source(r, k)
    BY <2>1 DEF ProvenanceInv, RowsFrom
  <2> QED BY <1>0, <1>6, <2>2 DEF Source
<1>9. ASSUME NEW x \in TxIds, Pending(p, k, x)
      PROVE  FALSE
  BY <1>1, <1>9 DEF Pending, Idle
<1> QED BY <1>3, <1>7, <1>8, <1>9 DEF Fresh, Evidence, k

\* A number stays without follow-up until p sends it.
LEMMA NewStep ==
  ASSUME TypeOK, ProvenanceInv, [Next]_vars, NEW p \in Procs, NEW k \in Nat,
         ~FollowUpOut(p, k), ~Settled(p, k), ~(SendFollowUp(p) /\ k = CurrentSeq(p))
  PROVE  ~FollowUpOut(p, k)' /\ ~Settled(p, k)'
<1>1. ~FollowUpOut(p, k)'
  BY FollowUpStep
<1>2. ~Settled(p, k)'
  <2>1. wire[p] # <<>> /\ Head(wire[p]).type \in FollowUps /\ Head(wire[p]).seq = k
          => FollowUpOut(p, k)
    BY HeadOnTheWire DEF FollowUpOut
  <2> QED BY <2>1, SettledStep
<1> QED BY <1>1, <1>2

LEMMA NewNumbersStep ==
  ASSUME TypeOK, ProvenanceInv, OneMaster, MatchInv, [Next]_vars, NEW p \in Procs
  PROVE  NewNumbers(p)'
<1> DEFINE Same == frame'[p] = frame[p] /\ txno'[p] = txno[p]
<1>0. SendTypeOK /\ NewNumbers(p) /\ CallFrom(p) /\ N \in Nat
  BY MdelayAssumption DEF TypeOK, MatchInv, ProvenanceInv
<1>1. frame[p].pc # "idle" => frame[p] \in Frames /\ CurrentSeq(p) \in Nat
  BY <1>0, InCall DEF CurrentSeq, Frames
<1>2. SendPacket(p) \/ SendFollowUp(p) => SendStep(p)
  BY DEF SendStep
<1>3. ASSUME NEW type, NEW n, NEW seq, NEW dst, Call(p, type, n, seq, dst)
      PROVE  /\ frame[p].pc = "idle" /\ frame'[p].pc \in {"idle", "send"}
             /\ frame'[p].pc = "send" => frame'[p].seq = seq /\ frame'[p].i = 0
  <2>1. frame[p] = Idle
    BY <1>3 DEF Call
  <2>2. \/ frame'[p] = Idle
        \/ frame'[p].pc = "send" /\ frame'[p].seq = seq /\ frame'[p].i = 0
    BY <1>3, CallFrame
  <2> QED BY <2>1, <2>2 DEF Idle
<1>4. p \in Masters /\ StartMaster(p) => \E slave_ip : Call(p, "DELAY_REQ", N, 0, slave_ip)
  BY DEF StartMaster
<1>5. ASSUME NEW q \in Procs, Replies(p, q)
      PROVE  Call(p, "DELAY_RESP", 1, Head(wire[q]).seq, ReplyAddress(p, q))
  BY <1>5 DEF Replies
<1>6. ASSUME frame'[p].pc = "send"
      PROVE  \E k \in Nat : k = CurrentSeq(p)' /\ \A x \in TxIds : ~Evidence(p, k, x)'
  <2>1. ASSUME NEW k \in Nat, k = CurrentSeq(p)', Fresh(p, k), SendPacket(p) => k # CurrentSeq(p)
        PROVE  \E j \in Nat : j = CurrentSeq(p)' /\ \A x \in TxIds : ~Evidence(p, j, x)'
    BY <2>1, FreshStep
  <2>2. CASE Same
    <3>1. frame[p].pc = "send" /\ CurrentSeq(p)' = CurrentSeq(p)
      BY <1>6, <2>2 DEF CurrentSeq
    <3>2. PICK k \in Nat : k = CurrentSeq(p)
      BY <1>1, <3>1
    <3>3. ~SendPacket(p)
      BY <1>0, <1>2, <1>6, <2>2, SendStepPoint DEF SendPacket, Idle
    <3> QED BY <1>0, <2>1, <3>1, <3>2, <3>3 DEF NewNumbers
  <2>3. CASE Alive(p) /\ SendStep(p)
    <3>1. /\ frame[p].pc = "drain_nic" /\ CurrentSeq(p)' = CurrentSeq(p) + 1
          /\ frame[p].i + 1 < frame[p].N
      BY <1>0, <1>6, <2>3, SendStepPoint DEF Idle
    <3>2. p \in Masters
      <4>1. p \in Slaves => frame[p].N = 1 /\ frame[p].i = 0
        BY <1>0, <3>1 DEF CallFrom, Idle
      <4> QED BY <3>1, <4>1, MdelayAssumption
    <3>3. PICK k \in Nat : k = CurrentSeq(p) + 1
      BY <1>1, <3>1
    <3>4. Fresh(p, k)
      BY <1>0, <1>1, <3>1, <3>2, <3>3 DEF NewNumbers, Points
    <3>5. ~SendPacket(p)
      BY <3>1 DEF SendPacket
    <3> QED BY <2>1, <3>1, <3>3, <3>4, <3>5
  <2>4. CASE p \in Masters /\ StartMaster(p)
    <3>1. CurrentSeq(p)' = 0 /\ frame[p].pc = "idle"
      BY <1>3, <1>4, <1>6, <2>4 DEF CurrentSeq
    <3>2. Fresh(p, 0)
      BY <1>0, <2>4 DEF NewNumbers, StartMaster, Start
    <3>3. ~SendPacket(p)
      BY <3>1 DEF SendPacket
    <3> QED BY <2>1, <3>1, <3>2, <3>3
  <2>5. ASSUME NEW q \in Procs, p \in Slaves, Replies(p, q)
        PROVE  \E j \in Nat : j = CurrentSeq(p)' /\ \A x \in TxIds : ~Evidence(p, j, x)'
    <3>1. PICK k \in Nat : k = Head(wire[q]).seq /\ Fresh(p, k)
      BY <2>5, ReplyIsFresh
    <3>2. CurrentSeq(p)' = k /\ frame[p].pc = "idle"
      BY <1>3, <1>5, <1>6, <2>5, <3>1 DEF CurrentSeq
    <3>3. ~SendPacket(p)
      BY <3>2 DEF SendPacket
    <3> QED BY <2>1, <3>1, <3>2, <3>3
  <2> QED BY <1>6, <2>2, <2>3, <2>4, <2>5, CallSteps
<1>7. ASSUME frame'[p].pc \in {"kernel_ts", "nic_ts"}
      PROVE  \E k \in Nat : k = CurrentSeq(p)' /\ ~FollowUpOut(p, k)' /\ ~Settled(p, k)'
  <2>1. CASE Same
    <3>1. frame[p].pc \in {"kernel_ts", "nic_ts"} /\ CurrentSeq(p)' = CurrentSeq(p)
      BY <1>7, <2>1 DEF CurrentSeq
    <3>2. PICK k \in Nat : k = CurrentSeq(p)
      BY <1>1, <3>1
    <3>3. ~SendFollowUp(p)
      BY <1>0, <1>2, <1>7, <2>1, SendStepPoint DEF SendFollowUp, Idle
    <3>4. ~FollowUpOut(p, k) /\ ~Settled(p, k)
      BY <1>0, <3>1, <3>2 DEF NewNumbers
    <3> QED BY <3>1, <3>2, <3>3, <3>4, NewStep
  <2>2. CASE Alive(p) /\ SendStep(p)
    <3>1. /\ frame[p].pc \in {"send", "kernel_ts"} /\ CurrentSeq(p)' = CurrentSeq(p)
      BY <1>0, <1>7, <2>2, SendStepPoint DEF Idle
    <3>2. PICK k \in Nat : k = CurrentSeq(p)
      BY <1>1, <3>1
    <3>3. ~FollowUpOut(p, k) /\ ~Settled(p, k)
      BY <1>0, <3>1, <3>2, FreshIsNew DEF NewNumbers
    <3>4. ~SendFollowUp(p)
      BY <3>1 DEF SendFollowUp
    <3> QED BY <3>1, <3>2, <3>3, <3>4, NewStep
  <2>3. ~(p \in Masters /\ StartMaster(p))
    BY <1>3, <1>4, <1>7
  <2>4. ASSUME NEW q \in Procs, Replies(p, q)
        PROVE  FALSE
    BY <1>3, <1>5, <1>7, <2>4
  <2> QED BY <1>7, <2>1, <2>2, <2>3, <2>4, CallSteps
<1>8. ASSUME p \in Masters, NEW k \in Nat,
             main'[p] = "down" \/ (frame'[p].pc \in Points \ {"exited"} /\ k > CurrentSeq(p)')
      PROVE  \A x \in TxIds : ~Evidence(p, k, x)'
  <2>1. CASE main[p] = "down"
    <3>1. ~Alive(p) /\ Fresh(p, k)
      BY <1>0, <1>8, <2>1 DEF Alive, NewNumbers
    <3> QED BY <3>1, FreshStep
  <2>2. CASE main[p] # "down"
    <3>1. frame'[p].pc \in Points \ {"exited"} /\ k > CurrentSeq(p)'
      BY <1>8, <2>2, NotDownAgain
    <3>2. frame[p].pc \in Points \ {"exited"} /\ k > CurrentSeq(p)
      <4>1. CASE Same
        BY <3>1, <4>1 DEF CurrentSeq
      <4>2. CASE SendStep(p)
        <5>1. frame[p].pc \in Points \ {"exited"}
          BY <4>2 DEF SendStep, SendPacket, ReadKernelStamp, SendFollowUp, DrainKernelStamp,
                      EndIteration, Points
        <5>2. CurrentSeq(p) \in Nat /\ CurrentSeq(p)' \in {CurrentSeq(p), CurrentSeq(p) + 1}
          BY <1>0, <1>1, <3>1, <4>2, <5>1, SendStepPoint DEF Idle, Points
        <5> QED BY <3>1, <5>1, <5>2
      <4>3. ~StartMaster(p)
        BY <2>2 DEF StartMaster, Start
      <4>4. p \notin Slaves
        BY <1>8, MdelayAssumption
      <4> QED BY <3>1, <4>1, <4>2, <4>3, <4>4, CallSteps
    <3>3. Fresh(p, k) /\ k # CurrentSeq(p)
      BY <1>0, <1>1, <1>8, <3>2 DEF NewNumbers, Points
    <3> QED BY <3>3, FreshStep
  <2> QED BY <2>1, <2>2
<1>9. frame'[p].pc = "send" => Fresh(p, CurrentSeq(p))'
  BY <1>6 DEF Fresh, Evidence, OnWire, InRows, Pending
<1>10. frame'[p].pc \in {"kernel_ts", "nic_ts"} =>
         ~FollowUpOut(p, CurrentSeq(p))' /\ ~Settled(p, CurrentSeq(p))'
  BY <1>7 DEF FollowUpOut, Settled
<1> HIDE DEF Same
<1> QED BY <1>8, <1>9, <1>10 DEF NewNumbers, Fresh

\* A follow-up is counted by one slave only: the master's packets are on their
\* way once.
LEMMA CountedApartStep ==
  ASSUME TypeOK, ProvenanceInv, OneMaster, MatchInv, [Next]_vars
  PROVE  CountedApart'
<1> SUFFICES ASSUME NEW s1 \in Slaves, NEW s2 \in Slaves, NEW k \in Nat,
                    k \in Counted(s1)', k \in Counted(s2)', s1 # s2
             PROVE  FALSE
  BY DEF CountedApart
<1>0. s1 \in Procs /\ s2 \in Procs
  BY MdelayAssumption
<1>1. ~(k \in Counted(s1) /\ k \in Counted(s2))
  BY DEF MatchInv, CountedApart
<1>2. ASSUME NEW s \in Slaves, k \in Counted(s)', k \notin Counted(s),
             NEW t \in Slaves, k \in Counted(t)', t # s
      PROVE  FALSE
  <2>1. k \in 0..Size(s) - 1 /\ rows'[s][k].sent # Zero /\ rows[s][k].sent = Zero
    BY <1>2 DEF Counted, Size
  <2>2. PICK r \in Procs, q \in Procs : Stores(r, q)
    BY <2>1, RowSteps
  <2> DEFINE d == Head(wire[q])
  <2>3. r = s
    BY <2>1, <2>2, MdelayAssumption DEF Stores
  <2>4. wire[q] # <<>> /\ d.type \in Handled(s) /\ d.type \in FollowUps /\ k = d.seq
    BY <2>1, <2>2, <2>3 DEF Stores
  <2>5. s \in Procs /\ t \in Procs
    BY MdelayAssumption
  <2>6. q \in Masters
    BY <2>4, <2>5, HeadFromOther DEF Source
  <2>7. FollowUpOut(q, k)
    BY <2>4, HeadOnTheWire DEF FollowUpOut
  <2>8. k \in Counted(t)
    BY <1>2, <2>2, <2>3, <2>5 DEF Stores, Counted, Size
  <2>9. rows[t][k].sent[1] \in Masters
    BY <2>5, <2>8 DEF ProvenanceInv, RowsFrom, Counted, Source
  <2>10. Settled(q, k)
    BY <2>5, <2>6, <2>8, <2>9 DEF OneMaster, Settled
  <2> QED BY <2>7, <2>10 DEF MatchInv, OneFollowUp
<1> QED BY <1>1, <1>2

\* With one master and no duplication, all that is known of a packet are stamps
\* of the same datagram, and its follow-up is counted once.
LEMMA MatchInvariant ==
  ASSUME StampOrders = {SwThenHw}, OneMaster, NoDuplicates
  PROVE  Spec => []MatchInv
<1>1. Init => MatchInv
  <2> SUFFICES ASSUME Init
               PROVE  MatchInv
    OBVIOUS
  <2>1. \A p \in Procs : wire[p] = <<>> /\ frame[p] = Idle
    BY DEF Init, SendInit
  <2>2. \A p \in Procs : \A k \in 0..Size(p) - 1 : rows[p][k] = EmptyRow
    BY DEF Init
  <2>3. ASSUME NEW p \in Procs
        PROVE  Counted(p) = {}
    <3>1. \A k \in 0..Size(p) - 1 : rows[p][k].sent = Zero
      BY <2>2 DEF EmptyRow
    <3> QED BY <3>1 DEF Counted
  <2>4. ASSUME NEW p \in Procs, NEW k \in Nat
        PROVE  Fresh(p, k) /\ ~FollowUpOut(p, k) /\ ~Settled(p, k)
    BY <2>1, <2>2, <2>3 DEF Fresh, Evidence, OnWire, InRows, Pending, FollowUpOut, Settled,
                            EmptyRow, Idle
  <2>5. ASSUME NEW p \in Procs
        PROVE  OneDatagram(p) /\ OneFollowUp(p)
    <3>1. OneDatagram(p)
      BY <2>4 DEF OneDatagram, Fresh
    <3>2. Len(wire[p]) = 0
      BY <2>1
    <3> QED BY <2>4, <3>1, <3>2 DEF OneFollowUp
  <2>6. ASSUME NEW p \in Procs
        PROVE  NewNumbers(p)
    <3>1. frame[p].pc \notin Points
      BY <2>1 DEF Idle, Points
    <3>2. frame[p].pc \notin {"send", "kernel_ts", "nic_ts"}
      BY <2>1 DEF Idle
    <3> QED BY <2>4, <3>1, <3>2 DEF NewNumbers
  <2>7. CountedApart
    BY <2>3, MdelayAssumption DEF CountedApart
  <2> QED BY <2>5, <2>6, <2>7 DEF MatchInv
<1>2. TypeOK /\ ProvenanceInv /\ MatchInv /\ [Next]_vars => MatchInv'
  BY OneDatagramStep, OneFollowUpStep, NewNumbersStep, CountedApartStep DEF MatchInv
<1> QED BY <1>1, <1>2, TypeCorrect, ProvenanceInvariant, PTL DEF Spec

\* Every row with both stamps is the delay of one datagram (master.c:158-163,
\* slave.c:150-155): however many measurements there are, and whatever is lost,
\* overtaken or restarted, if one master runs and nothing arrives twice.
THEOREM SamplesAreMatched ==
  ASSUME StampOrders = {SwThenHw}, OneMaster, NoDuplicates
  PROVE  Spec => []SamplesMatched
<1>1. TypeOK /\ ProvenanceInv /\ MatchInv => SamplesMatched
  <2> SUFFICES ASSUME TypeOK, ProvenanceInv, MatchInv,
                      NEW p \in Procs, NEW k \in 0..Size(p) - 1,
                      rows[p][k].recv # Zero, rows[p][k].sent # Zero
               PROVE  rows[p][k].recv = rows[p][k].sent
    BY DEF SamplesMatched
  <2> DEFINE x == rows[p][k].recv
             y == rows[p][k].sent
  <2>1. x \in TxIds /\ y \in TxIds
    BY DEF TypeOK, MainTypeOK, Rows, StampOrZero
  <2>2. x[1] \in Source(p, k) /\ y[1] \in Source(p, k)
    BY DEF ProvenanceInv, RowsFrom
  <2>3. k \in Nat
    OBVIOUS
  <2>4. x[1] = y[1] /\ x[1] \in Procs
    <3>1. CASE p \in Slaves
      BY <2>2, <3>1, MdelayAssumption DEF Source, OneMaster
    <3>2. CASE p \notin Slaves
      BY <2>2, <2>3, <3>2, MdelayAssumption DEF Source, MatchInv, CountedApart
    <3> QED BY <3>1, <3>2
  <2>5. Evidence(x[1], k, x) /\ Evidence(x[1], k, y)
    BY <2>4 DEF Evidence, InRows
  <2> QED BY <2>1, <2>3, <2>4, <2>5 DEF MatchInv, OneDatagram
<1> QED BY <1>1, MatchInvariant, ProvenanceInvariant, TypeCorrect, PTL

-----------------------------------------------------------------------------
(* What is counted *)

\* The tally is the number of rows counted, and each has a number that a master
\* sends.
Tallied(p) == total[p] = Cardinality(Counted(p)) /\ Counted(p) \subseteq 0..N - 1

TallyInv == \A p \in Procs : Tallied(p)

Measuring == {"down", "recv", "reply", "store"}

\* p counts the number k, for the first time.
Counts(p, k) ==
  /\ k \in 0..N - 1 /\ k \notin Counted(p)
  /\ p \in Masters => \E s \in Slaves : k \in Counted(s)
  /\ main[p] = "recv" /\ \E how \in Measuring : main' = [main EXCEPT ![p] = how]
  /\ total' = [total EXCEPT ![p] = @ + 1]
  /\ Counted(p)' = Counted(p) \cup {k}
  /\ \A q \in Procs \ {p} : Counted(q)' = Counted(q)

Quiet == total' = total /\ \A q \in Procs : Counted(q)' = Counted(q)

\* The main thread of p goes on, or ends.
Moves(p) == main[p] \in Measuring /\ \E how \in Mains : main' = [main EXCEPT ![p] = how]

\* The follow-up at the front of a queue has a number that its receiver has not
\* counted.
LEMMA FirstCount ==
  ASSUME TypeOK, NumbersInv, ProvenanceInv, OneMaster, MatchInv,
         NEW p \in Procs, NEW q \in Procs, wire[q] # <<>>,
         Head(wire[q]).type \in Handled(p), Head(wire[q]).type \in FollowUps
  PROVE  LET d == Head(wire[q])
         IN  /\ d.seq \in 0..N - 1 /\ d.seq \notin Counted(p)
             /\ d.stamp # Zero
             /\ p \in Masters => \E s \in Slaves : d.seq \in Counted(s)
<1> DEFINE d == Head(wire[q])
<1>1. d = wire[q][1] /\ 1 \in 1..Len(wire[q]) /\ d.seq \in Nat
  BY HeadOnTheWire, OnTheWire
<1>2. d \in Numberable
  BY <1>1 DEF NumbersInv
<1>3. d.seq \in 0..N - 1
  BY <1>1, <1>2, MdelayAssumption DEF Numberable
<1>4. d.stamp # Zero /\ q \in Source(p, d.seq)
  BY HeadFromOther, ZeroIsNoStamp DEF StampIsNotZero
<1>5. FollowUpOut(q, d.seq)
  BY <1>1 DEF FollowUpOut
<1> HIDE DEF d
<1>6. ASSUME d.seq \in Counted(p)
      PROVE  FALSE
  <2>1. rows[p][d.seq].sent[1] \in Source(p, d.seq)
    BY <1>6 DEF ProvenanceInv, RowsFrom, Counted
  <2>2. rows[p][d.seq].sent[1] = q
    <3>1. CASE p \in Slaves
      BY <1>4, <2>1, <3>1 DEF Source, OneMaster
    <3>2. CASE p \notin Slaves
      BY <1>1, <1>4, <2>1, <3>2 DEF Source, MatchInv, CountedApart
    <3> QED BY <3>1, <3>2
  <2>3. Settled(q, d.seq)
    BY <1>6, <2>2 DEF Settled
  <2> QED BY <1>1, <1>5, <2>3 DEF MatchInv, OneFollowUp
<1>7. p \in Masters => \E s \in Slaves : d.seq \in Counted(s)
  BY <1>4, MdelayAssumption DEF Source
<1> QED BY <1>3, <1>4, <1>6, <1>7 DEF d

LEMMA LoopTestMoves ==
  ASSUME NEW p \in Procs, NEW t, LoopTest(p, t)
  PROVE  \E how \in {"recv", "store"} : main' = [main EXCEPT ![p] = how]
  BY DEF LoopTest

\* A reception counts, when it takes a follow-up of a row, or it does not touch
\* what has been counted.
LEMMA ReceptionCounts ==
  ASSUME TypeOK, NumbersInv, ProvenanceInv, OneMaster, MatchInv,
         NEW p \in Procs, NEW q \in Procs, Reception(p, q)
  PROVE  (\E k : Counts(p, k)) \/ (Quiet /\ Moves(p))
<1> DEFINE d == Head(wire[q])
<1>1. main[p] = "recv" /\ wire[q] # <<>>
  BY ReceptionReceives DEF Receive
<1>2. rows[p] \in [0..Size(p) - 1 -> Rows]
  BY DEF TypeOK, MainTypeOK
<1>3. InTable(p, d) => d.seq \in 0..Size(p) - 1
  BY <1>2 DEF InTable, Row
<1>4. ASSUME NEW how \in Mains, main' = [main EXCEPT ![p] = how]
      PROVE  Moves(p)
  BY <1>1, <1>4 DEF Moves, Measuring
<1>5. rows' = rows /\ total' = total => Quiet
  BY DEF Quiet, Counted, Size
<1>6. ASSUME NEW how \in Mains, Stop(p, how)
      PROVE  Quiet /\ Moves(p)
  BY <1>4, <1>5, <1>6 DEF Stop
<1>7. ASSUME NEW t, LoopTest(p, t)
      PROVE  Moves(p) /\ \E how \in Measuring : main' = [main EXCEPT ![p] = how]
  <2>1. PICK how \in {"recv", "store"} : main' = [main EXCEPT ![p] = how]
    BY <1>7, LoopTestMoves
  <2>2. how \in Mains /\ how \in Measuring
    BY DEF Mains, Measuring
  <2> QED BY <1>4, <2>1, <2>2
<1>8. ASSUME NEW rx \in RxStamps, NEW x \in TxIds,
             RespStamped(p, q, rx, x) \/ ReqStamped(p, q, rx, x)
      PROVE  Quiet /\ Moves(p)
  <2>1. CASE rx # "none" /\ InTable(p, d)
    <3>1. /\ rows' = [rows EXCEPT ![p][d.seq].recv = RxStamp(x, rx)]
          /\ LoopTest(p, total[p]) /\ total' = total
      BY <1>8, <2>1 DEF RespStamped, ReqStamped, Row
    <3>2. /\ \A r \in Procs \ {p} : rows'[r] = rows[r]
          /\ \A j \in (0..Size(p) - 1) \ {d.seq} : rows'[p][j] = rows[p][j]
          /\ rows'[p][d.seq].sent = rows[p][d.seq].sent
      BY <1>3, <2>1, <3>1, WriteField
    <3>3. ASSUME NEW r \in Procs
          PROVE  Counted(r)' = Counted(r)
      <4>1. \A j \in 0..Size(r) - 1 : rows'[r][j].sent = rows[r][j].sent
        BY <3>2
      <4> QED BY <4>1 DEF Counted, Size
    <3> QED BY <1>7, <3>1, <3>3 DEF Quiet
  <2>2. CASE ~(rx # "none" /\ InTable(p, d))
    <3>1. Stop(p, Mishap(rx))
      BY <1>8, <2>2 DEF RespStamped, ReqStamped
    <3> QED BY <1>6, <3>1 DEF Mishap, Mains
  <2> QED BY <2>1, <2>2
<1>9. ASSUME \/ p \in Masters /\ RecvRespFollowUp(p, q)
             \/ p \in Slaves /\ RecvReqFollowUp(p, q)
      PROVE  (\E k : Counts(p, k)) \/ (Quiet /\ Moves(p))
  <2>1. d.type \in Handled(p) /\ d.type \in FollowUps
    BY <1>9, MdelayAssumption
       DEF RecvRespFollowUp, RecvReqFollowUp, Receive, Handled, FollowUps
  <2>2. /\ d.seq \in 0..N - 1 /\ d.seq \notin Counted(p) /\ d.stamp # Zero
        /\ p \in Masters => \E s \in Slaves : d.seq \in Counted(s)
    BY <1>1, <2>1, FirstCount
  <2>3. CASE InTable(p, d)
    <3>1. /\ rows' = [rows EXCEPT ![p][d.seq].sent = d.stamp]
          /\ total' = [total EXCEPT ![p] = @ + 1]
          /\ \E how \in Measuring : main' = [main EXCEPT ![p] = how]
      BY <1>7, <1>9, <2>3 DEF RecvRespFollowUp, RecvReqFollowUp, Row, Measuring
    <3>2. /\ \A r \in Procs \ {p} : rows'[r] = rows[r]
          /\ \A j \in (0..Size(p) - 1) \ {d.seq} : rows'[p][j] = rows[p][j]
          /\ rows'[p][d.seq].sent = d.stamp
      <4>1. d.seq \in 0..Size(p) - 1
        BY <1>3, <2>3
      <4> HIDE DEF d
      <4>2. /\ \A r \in Procs \ {p} : rows'[r] = rows[r]
            /\ \A j \in (0..Size(p) - 1) \ {d.seq} : rows'[p][j] = rows[p][j]
            /\ rows'[p][d.seq].sent = d.stamp
            /\ rows'[p][d.seq].recv = rows[p][d.seq].recv
        BY <3>1, <4>1, WriteField, ZenonT(30)
      <4> QED BY <4>2
    <3>3. Counted(p)' = Counted(p) \cup {d.seq}
      BY <1>3, <2>2, <2>3, <3>2 DEF Counted, Size
    <3>4. \A r \in Procs \ {p} : Counted(r)' = Counted(r)
      BY <3>2 DEF Counted, Size
    <3> QED BY <1>1, <2>2, <3>1, <3>3, <3>4 DEF Counts
  <2>4. CASE ~InTable(p, d)
    <3>1. Stop(p, "undefined")
      BY <1>9, <2>4 DEF RecvRespFollowUp, RecvReqFollowUp
    <3> QED BY <1>6, <3>1 DEF Mains
  <2> QED BY <2>3, <2>4
<1>10. RecvUnknown(p, q) => Quiet /\ Moves(p)
  BY <1>6 DEF RecvUnknown, Mains
<1> QED BY <1>8, <1>9, <1>10 DEF Reception, Taking

\* Every step counts one number in one process, or nothing.
LEMMA MeasureSteps ==
  ASSUME TypeOK, NumbersInv, ProvenanceInv, OneMaster, MatchInv, [Next]_vars
  PROVE  \/ \E p \in Procs : \E k : Counts(p, k)
         \/ Quiet /\ main' = main
         \/ Quiet /\ \E p \in Procs : Moves(p)
<1>0. Masters \subseteq Procs /\ Slaves \subseteq Procs
  BY MdelayAssumption
<1>1. rows' = rows /\ total' = total => Quiet
  BY DEF Quiet, Counted, Size
<1>2. ASSUME NEW p \in Procs, StartMaster(p) \/ StartSlave(p)
      PROVE  Quiet /\ Moves(p)
  BY <1>1, <1>2 DEF StartMaster, StartSlave, Start, Moves, Measuring, Mains
<1>3. ASSUME NEW s \in Slaves, EndReply(s)
      PROVE  Quiet /\ Moves(s)
  <2>1. main[s] = "reply" /\ LoopTest(s, total[s]) /\ rows' = rows /\ total' = total
    BY <1>3 DEF EndReply
  <2>2. \E how \in {"recv", "store"} : main' = [main EXCEPT ![s] = how]
    BY <1>0, <2>1, LoopTestMoves
  <2> QED BY <1>1, <2>1, <2>2 DEF Moves, Measuring, Mains
<1>4. ASSUME NEW p \in Procs, Store(p) \/ Crash(p)
      PROVE  Quiet /\ Moves(p)
  <2>1. /\ main[p] \in Measuring /\ rows' = rows /\ total' = total
        /\ \E how \in {"done", "undefined", "failed"} : main' = [main EXCEPT ![p] = how]
    BY <1>4 DEF Store, Crash, Alive, Measuring
  <2> QED BY <1>1, <2>1 DEF Moves, Mains
<1>5. ASSUME NEW p \in Procs, ThreadStep(p)
      PROVE  Quiet /\ (main' = main \/ Moves(p))
  <2>1. /\ Alive(p) /\ rows' = rows /\ total' = total
        /\ main' = main \/ main' = [main EXCEPT ![p] = "failed"]
    BY <1>5, ThreadStepMain DEF TypeOK
  <2> QED BY <1>1, <2>1 DEF Alive, Moves, Measuring, Mains
<1>6. NetworkStep \/ UNCHANGED vars => Quiet /\ main' = main
  BY <1>1, NetworkRelays DEF TypeOK, vars, mainVars
<1> QED BY <1>0, <1>2, <1>3, <1>4, <1>5, <1>6, NextCases, ReceptionCounts

LEMMA TallyStep ==
  ASSUME TypeOK, NumbersInv, ProvenanceInv, OneMaster, MatchInv, TallyInv, [Next]_vars
  PROVE  TallyInv'
<1> SUFFICES ASSUME NEW q \in Procs
             PROVE  total'[q] = Cardinality(Counted(q)') /\ Counted(q)' \subseteq 0..N - 1
  BY DEF TallyInv, Tallied
<1>1. total[q] = Cardinality(Counted(q)) /\ Counted(q) \subseteq 0..N - 1
  BY DEF TallyInv, Tallied
<1>2. Quiet => total'[q] = total[q] /\ Counted(q)' = Counted(q)
  BY DEF Quiet
<1>3. ASSUME NEW p \in Procs, NEW k, Counts(p, k)
      PROVE  total'[q] = Cardinality(Counted(q)') /\ Counted(q)' \subseteq 0..N - 1
  <2>1. total \in [Procs -> Nat]
    BY DEF TypeOK, MainTypeOK
  <2>2. CASE p # q
    BY <1>1, <1>3, <2>1, <2>2 DEF Counts
  <2>3. CASE p = q
    <3>1. total'[q] = total[q] + 1 /\ Counted(q)' = Counted(q) \cup {k}
          /\ k \in 0..N - 1 /\ k \notin Counted(q)
      BY <1>3, <2>1, <2>3 DEF Counts
    <3>2. IsFiniteSet(0..N - 1)
      BY FS_Interval, MdelayAssumption
    <3>3. IsFiniteSet(Counted(q))
      BY <1>1, <3>2, FS_Subset
    <3>4. Cardinality(Counted(q) \cup {k}) = Cardinality(Counted(q)) + 1
      BY <3>1, <3>3, FS_AddElement
    <3> QED BY <1>1, <3>1, <3>4
  <2> QED BY <2>2, <2>3
<1> QED BY <1>1, <1>2, <1>3, MeasureSteps

LEMMA TallyInvariant ==
  ASSUME StampOrders = {SwThenHw}, OneMaster, NoDuplicates
  PROVE  Spec => []TallyInv
<1>1. Init => TallyInv
  <2> SUFFICES ASSUME Init, NEW p \in Procs
               PROVE  Tallied(p)
    BY DEF TallyInv
  <2>1. \A k \in 0..Size(p) - 1 : rows[p][k].sent = Zero
    BY DEF Init, EmptyRow
  <2>2. Counted(p) = {}
    BY <2>1 DEF Counted
  <2> QED BY <2>2, FS_EmptySet DEF Tallied, Init
<1>2. TypeOK /\ NumbersInv /\ ProvenanceInv /\ MatchInv /\ TallyInv /\ [Next]_vars => TallyInv'
  BY TallyStep
<1> QED BY <1>1, <1>2, TypeCorrect, NumbersInvariant, ProvenanceInvariant, MatchInvariant, PTL
        DEF Spec

-----------------------------------------------------------------------------
(* The refinement *)

\* One run of each program, that want the same number of measurements.
OnePair(m, s) == Masters = {m} /\ Slaves = {s} /\ SlaveN = N

\* How a run of which main thread and tally are at this point has come out.
Outcome(point, t) ==
  CASE point \in {"failed", "undefined"} -> "ended"
    [] point = "done" -> IF t = N THEN "complete" ELSE "ended"
    [] OTHER -> "measuring"

LEMMA OutcomeOf ==
  /\ \A point \in Measuring, t \in Nat : Outcome(point, t) = "measuring"
  /\ \A point \in {"failed", "undefined"}, t \in Nat : Outcome(point, t) = "ended"
  /\ \A t \in Nat : Outcome("done", t) = IF t = N THEN "complete" ELSE "ended"
<1>1. \A point \in Measuring : point \notin {"failed", "undefined"} /\ point # "done"
  BY DEF Measuring
<1> QED BY <1>1 DEF Outcome

LEMMA PairBars ==
  ASSUME NEW m, NEW s, OnePair(m, s)
  PROVE  /\ Procs = {m, s} /\ m # s /\ m \in Procs /\ s \in Procs /\ m \in Masters
         /\ OneMaster
         /\ (CHOOSE r \in Masters : TRUE) = m /\ (CHOOSE r \in Slaves : TRUE) = s
         /\ countedBar = [p \in Procs |-> Counted(p)]
         /\ countedBar' = [p \in Procs |-> Counted(p)']
         /\ outcomeBar = [p \in Procs |-> Outcome(main[p], total[p])]
         /\ outcomeBar' = [p \in Procs |-> Outcome(main'[p], total'[p])]
<1>1. /\ Procs = {m, s} /\ m # s /\ m \in Procs /\ s \in Procs /\ m \in Masters
      /\ OneMaster
  BY MdelayAssumption DEF OnePair, OneMaster
<1>2. (CHOOSE r \in Masters : TRUE) = m /\ (CHOOSE r \in Slaves : TRUE) = s
  BY DEF OnePair
<1>3. \A p \in Procs : Limit(p) = N
  BY DEF Limit, OnePair
<1>4. /\ countedBar = [p \in Procs |-> Counted(p)]
      /\ countedBar' = [p \in Procs |-> Counted(p)']
  BY DEF countedBar, Counted, Size
<1>5. outcomeBar = [p \in Procs |-> Outcome(main[p], total[p])]
  BY <1>3 DEF outcomeBar, Outcome
<1>6. outcomeBar' = [p \in Procs |-> Outcome(main'[p], total'[p])]
  BY <1>3 DEF outcomeBar, Outcome, Limit
<1> QED BY <1>1, <1>2, <1>4, <1>5, <1>6

\* A count is a count of the abstract specification.
LEMMA CountRefines ==
  ASSUME TypeOK, NEW m, NEW s, OnePair(m, s), NEW p \in Procs, NEW k, Counts(p, k)
  PROVE  Abstract!Count(p, k)
<1>0. main \in [Procs -> Mains] /\ total \in [Procs -> Nat]
  BY DEF TypeOK, MainTypeOK
<1>1. PICK how \in Measuring : main' = [main EXCEPT ![p] = how]
  BY DEF Counts
<1>2. /\ main[p] = "recv" /\ "recv" \in Measuring /\ k \notin Counted(p)
      /\ total' = [total EXCEPT ![p] = @ + 1]
      /\ Counted(p)' = Counted(p) \cup {k}
      /\ \A q \in Procs \ {p} : Counted(q)' = Counted(q)
      /\ p = m => k \in Counted(s)
  BY PairBars DEF Counts, Measuring, OnePair
<1>3. outcomeBar[p] = "measuring"
  BY <1>0, <1>2, PairBars, OutcomeOf
<1>4. outcomeBar' = outcomeBar
  <2>1. ASSUME NEW q \in Procs
        PROVE  Outcome(main'[q], total'[q]) = Outcome(main[q], total[q])
    <3>1. CASE q = p
      <4>1. total'[q] \in Nat /\ total[q] \in Nat /\ main'[q] \in Measuring /\ main[q] \in Measuring
        BY <1>0, <1>1, <1>2, <3>1
      <4> QED BY <4>1, OutcomeOf
    <3>2. CASE q # p
      BY <1>0, <1>1, <1>2, <3>2
    <3> QED BY <3>1, <3>2
  <2> QED BY <2>1, PairBars
<1>5. countedBar' = [countedBar EXCEPT ![p] = @ \cup {k}]
  BY <1>2, PairBars
<1>6. k \notin countedBar[p] /\ (p = m => k \in countedBar[s])
  BY <1>2, PairBars
<1> QED BY <1>2, <1>3, <1>4, <1>5, <1>6, PairBars DEF Abstract!Count

\* A run that goes on without counting is not seen; one that ends has counted
\* every number, or ends without success.
LEMMA MoveRefines ==
  ASSUME TypeOK, TallyInv, NEW m, NEW s, OnePair(m, s), NEW p \in Procs, Quiet, Moves(p)
  PROVE  \/ UNCHANGED <<countedBar, total, outcomeBar>>
         \/ Abstract!Complete(p) \/ Abstract!End(p)
<1>0. main \in [Procs -> Mains] /\ total \in [Procs -> Nat] /\ N \in Nat
  BY MdelayAssumption DEF TypeOK, MainTypeOK
<1>1. PICK how \in Mains : main' = [main EXCEPT ![p] = how]
  BY DEF Moves
<1>2. main[p] \in Measuring /\ total' = total /\ countedBar' = countedBar
  BY PairBars DEF Moves, Quiet
<1>3. outcomeBar[p] = "measuring"
  BY <1>0, <1>2, PairBars, OutcomeOf
<1>4. outcomeBar' = [outcomeBar EXCEPT ![p] = Outcome(how, total[p])]
  <2>1. ASSUME NEW q \in Procs
        PROVE  Outcome(main'[q], total'[q])
                 = IF q = p THEN Outcome(how, total[p]) ELSE Outcome(main[q], total[q])
    BY <1>0, <1>1, <1>2
  <2> QED BY <2>1, PairBars
<1>5. CASE how \in Measuring
  <2>1. outcomeBar' = [outcomeBar EXCEPT ![p] = outcomeBar[p]]
    BY <1>0, <1>3, <1>4, <1>5, OutcomeOf
  <2>2. outcomeBar' = outcomeBar
    BY <2>1, PairBars
  <2> QED BY <1>2, <2>2
<1>6. CASE Outcome(how, total[p]) = "ended"
  BY <1>2, <1>3, <1>4, <1>6 DEF Abstract!End
<1>7. CASE how = "done" /\ total[p] = N
  <2>1. Outcome(how, total[p]) = "complete"
    BY <1>0, <1>7, OutcomeOf
  <2>2. Counted(p) = 0..N - 1
    <3>1. Counted(p) \subseteq 0..N - 1 /\ Cardinality(Counted(p)) = N
      BY <1>7 DEF TallyInv, Tallied
    <3>2. IsFiniteSet(0..N - 1) /\ Cardinality(0..N - 1) = N
      <4>1. N - 1 \in Int /\ 0 \in Int
        BY <1>0
      <4>2. /\ IsFiniteSet(0..N - 1)
            /\ Cardinality(0..N - 1) = IF 0 > N - 1 THEN 0 ELSE (N - 1) - 0 + 1
        BY <4>1, FS_Interval
      <4>3. (IF 0 > N - 1 THEN 0 ELSE (N - 1) - 0 + 1) = N
        BY <1>0
      <4> QED BY <4>2, <4>3
    <3> QED BY <3>1, <3>2, FS_Subset
  <2>3. countedBar[p] = 0..N - 1
    BY <2>2, PairBars
  <2> QED BY <1>2, <1>3, <1>4, <1>7, <2>1, <2>3 DEF Abstract!Complete
<1>8. how \in Measuring \/ how \in {"failed", "undefined"} \/ how = "done"
  BY DEF Mains, Measuring
<1>9. how \in {"failed", "undefined"} \/ (how = "done" /\ total[p] # N)
        => Outcome(how, total[p]) = "ended"
  BY <1>0, OutcomeOf
<1> QED BY <1>5, <1>6, <1>7, <1>8, <1>9

\* One run of the master and one of the slave that want the same number of
\* measurements implement DelayMeasurement: each sequence number is counted at
\* most once on each side, by the slave first, and a side has counted them all
\* when it stores a full count (master.c:162-170, slave.c:150-160,
\* util.c:170-177), on a network that does not duplicate.
THEOREM MeasurementRefined ==
  ASSUME NEW CONSTANT m, NEW CONSTANT s, OnePair(m, s),
         StampOrders = {SwThenHw}, NoDuplicates
  PROVE  Spec => ImplementsDelayMeasurement
<1>0. OneMaster
  BY PairBars
<1>1. Init => Abstract!Init
  <2> SUFFICES ASSUME Init
               PROVE  Abstract!Init
    OBVIOUS
  <2>1. ASSUME NEW p \in Procs
        PROVE  Counted(p) = {} /\ total[p] = 0 /\ Outcome(main[p], total[p]) = "measuring"
    <3>1. \A k \in 0..Size(p) - 1 : rows[p][k].sent = Zero
      BY DEF Init, EmptyRow
    <3>2. Counted(p) = {}
      BY <3>1 DEF Counted
    <3> QED BY <3>2, OutcomeOf DEF Init, Measuring
  <2>2. total = [p \in Procs |-> 0]
    BY DEF Init
  <2>3. /\ countedBar = [p \in Procs |-> {}]
        /\ outcomeBar = [p \in Procs |-> "measuring"]
    BY <2>1, PairBars
  <2> QED BY <2>2, <2>3, PairBars DEF Abstract!Init, Abstract!Sides
<1>2. TypeOK /\ NumbersInv /\ ProvenanceInv /\ MatchInv /\ TallyInv /\ [Next]_vars
        => [Abstract!Next]_<<countedBar, total, outcomeBar>>
  <2> SUFFICES ASSUME TypeOK, NumbersInv, ProvenanceInv, MatchInv, TallyInv, [Next]_vars
               PROVE  Abstract!Next \/ UNCHANGED <<countedBar, total, outcomeBar>>
    OBVIOUS
  <2>1. Abstract!Sides = Procs
    BY PairBars DEF Abstract!Sides
  <2>2. ASSUME NEW p \in Procs, NEW k, Counts(p, k)
        PROVE  Abstract!Next
    <3>1. k \in 0..N - 1
      BY <2>2 DEF Counts
    <3> QED BY <2>1, <2>2, <3>1, CountRefines DEF Abstract!Next
  <2>3. CASE Quiet /\ main' = main
    BY <2>3, PairBars DEF Quiet
  <2>4. ASSUME NEW p \in Procs, Quiet, Moves(p)
        PROVE  Abstract!Next \/ UNCHANGED <<countedBar, total, outcomeBar>>
    BY <2>1, <2>4, MoveRefines DEF Abstract!Next
  <2> QED BY <1>0, <2>2, <2>3, <2>4, MeasureSteps
<1> QED BY <1>0, <1>1, <1>2, TypeCorrect, NumbersInvariant, ProvenanceInvariant, MatchInvariant,
           TallyInvariant, PTL
        DEF Spec, ImplementsDelayMeasurement, Abstract!Spec
=============================================================================
