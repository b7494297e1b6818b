------------------------------- MODULE Mdelay -------------------------------
(***************************************************************************)
(* The measurement over UDP: runs of the master (master.c), runs of the    *)
(* slave (slave.c), and the network between them.                          *)
(*                                                                         *)
(* A master has two threads that share a socket: main, which receives, and *)
(* send_packets, which is a call of send_udp_packets_timestamp.  A slave   *)
(* has one thread, which replies with a call of the same routine between   *)
(* two receptions.  frame[p] of TimestampedSend is that call in either.    *)
(*                                                                         *)
(* The datagrams p has sent are in wire[p] until they arrive or are lost.  *)
(* A reception timestamp is, like a transmission timestamp, the identity   *)
(* of the datagram it was taken from: recv_tt - sent_tt is a delay exactly *)
(* when both are timestamps of the same datagram.                          *)
(***************************************************************************)
EXTENDS TimestampedSend, SequencesExt

CONSTANTS
  Masters, Slaves,  \* runs of the two programs; a restart is another run
  Hosts,            \* addresses (host and port) that the runs may bind
  SlaveAddresses,   \* what the masters' options -s and -d may say
  N,                \* option -n of the masters
  SlaveN,           \* option -n of the slaves
  MasterRows,       \* rows of the master's table, calloc(100, ...)
  Indeterminate,    \* what a first, uninitialised read of echo > 0 may give
  RxStamps,         \* what a received datagram's control data may hold
  Faults,           \* the kinds of fault that happen
  MaxFaults,        \* bound: how many faults happen
  SlaveFirst        \* is the slave started before the master?

ASSUME MdelayAssumption ==
  /\ Procs = Masters \cup Slaves
  /\ Masters \cap Slaves = {}
  /\ Hosts \subseteq [Procs -> Dests]
  /\ SlaveAddresses \subseteq Dests
  /\ Zero \notin Dests
  /\ N \in Nat /\ SlaveN \in Nat /\ MasterRows \in Nat
  /\ Indeterminate \subseteq BOOLEAN
  /\ RxStamps \subseteq {"hw", "sw", "none"}
  /\ Faults \subseteq {"lose", "dup", "swap", "crash", "cut"}
  /\ MaxFaults \in Nat
  /\ SlaveFirst \in BOOLEAN

VARIABLES
  host,      \* host[p]: the address that p binds
  main,      \* main[p]: where the main thread is
  rows,      \* rows[p]: p2pdelay_measurements
  total,     \* total[p]: total_measurements
  assigned,  \* assigned[p]: has main() assigned echo (master), got (slave) yet?
  remote,    \* remote[s]: cfg->remote_ip and remote_port
  results,   \* results[p]: the file that p has written
  faults     \* the number of faults so far

mainVars == <<host, main, rows, total, assigned, remote, results>>
vars == <<sendVars, mainVars, faults>>

\* "recv": blocked in recvmsg.  "reply": in the slave's call of the sending
\* routine.  "store": past the receive loop.  "done": main has returned.
\* "failed": exit(1), killed, or a segmentation fault.  "undefined": it has
\* accessed its table out of bounds, and nothing is said of it from there on.
Mains == {"down", "recv", "reply", "store", "done", "failed", "undefined"}

Alive(p) == main[p] \in {"recv", "reply", "store"}

Limit(p) == IF p \in Masters THEN N ELSE SlaveN
Size(p)  == IF p \in Masters THEN MasterRows ELSE SlaveN

EmptyRow == [recv |-> Zero, sent |-> Zero]
NoFile   == [file |-> "none", rows |-> <<>>]

-----------------------------------------------------------------------------
(* main() up to its loop *)

\* bind().  Bound: one process at a time has an address (SO_REUSEADDR would let
\* a second master take the first one's).
Start(p) ==
  /\ main[p] = "down"
  /\ \A q \in Procs : host[q] = host[p] => ~Alive(q)
  /\ main' = [main EXCEPT ![p] = "recv"]
  /\ UNCHANGED <<host, rows, total, assigned, remote, results, faults>>

StartMaster(r) ==
  /\ Start(r)
  /\ SlaveFirst => \E s \in Slaves : main[s] = "recv"
  /\ \E slave_ip \in SlaveAddresses : Call(r, "DELAY_REQ", N, 0, slave_ip)
  /\ UNCHANGED <<owed, errq, wire, txno>>

StartSlave(s) ==
  /\ Start(s)
  /\ UNCHANGED sendVars

-----------------------------------------------------------------------------
(* do_recv *)

\* The oldest datagram of p that is still on its way arrives at q, in recvmsg.
Receive(p, q, type) ==
  /\ main[q] = "recv"
  /\ wire[p] # <<>>
  /\ Head(wire[p]).dst = host[q]
  /\ Head(wire[p]).type = type
  /\ wire' = [wire EXCEPT ![p] = Tail(@)]

\* Faulty: rows in the order of arrival.
Row_Next(p, d) == total[p]

\* pktseq, the row of the table that d is about.
Row(p, d) == d.seq

InTable(p, d) == Row(p, d) \in DOMAIN rows[p]

\* ts_tmp[2], if x is what the NIC stamped; a software stamp leaves it zero.
RxStamp(x, rx) == IF rx = "hw" THEN x ELSE Zero

\* Faulty: total_measurements <= cfg.measure_number.
LoopTest_Beyond(p, t) ==
  /\ \E positive \in (IF assigned[p] THEN {TRUE} ELSE Indeterminate) :
       main' = [main EXCEPT ![p] = IF positive /\ t <= Limit(p) THEN "recv" ELSE "store"]
  /\ assigned' = [assigned EXCEPT ![p] = TRUE]

\* The test of the receive loop, after a do_recv that returned got > 0.  It
\* reads echo (got) before the assignment that it is a part of.
LoopTest(p, t) ==
  /\ \E positive \in (IF assigned[p] THEN {TRUE} ELSE Indeterminate) :
       main' = [main EXCEPT ![p] = IF positive /\ t < Limit(p) THEN "recv" ELSE "store"]
  /\ assigned' = [assigned EXCEPT ![p] = TRUE]

Stop(p, how) ==
  /\ main' = [main EXCEPT ![p] = how]
  /\ UNCHANGED <<rows, total, assigned>>

\* Where reception of a packet (REQ or RESP) ends if it cannot store its stamp:
\* ts_tmp is NULL, or the sequence number is not in the table.
Mishap(rx) == IF rx = "none" THEN "failed" ELSE "undefined"

\* Reception of a packet that recvmsg returns with the NIC's stamp of x.
RespStamped(r, p, rx, x) ==
  LET d == Head(wire[p])
  IN  /\ Receive(p, r, "DELAY_RESP")
      /\ IF rx # "none" /\ InTable(r, d)
           THEN /\ rows' = [rows EXCEPT ![r][Row(r, d)].recv = RxStamp(x, rx)]
                /\ LoopTest(r, total[r])
                /\ UNCHANGED total
           ELSE Stop(r, Mishap(rx))
      /\ UNCHANGED <<host, frame, owed, errq, txno, remote, results, faults>>

\* A datagram comes with its own.
RecvResp(r, p, rx) == RespStamped(r, p, rx, Head(wire[p]).id)

RecvRespFollowUp(r, p) ==
  LET d == Head(wire[p])
  IN  /\ Receive(p, r, "DELAY_RESP_FOLLOW_UP")
      /\ IF InTable(r, d)
           THEN /\ rows' = [rows EXCEPT ![r][Row(r, d)].sent = d.stamp]
                /\ total' = [total EXCEPT ![r] = @ + 1]
                /\ LoopTest(r, total[r] + 1)
           ELSE Stop(r, "undefined")
      /\ UNCHANGED <<host, frame, owed, errq, txno, remote, results, faults>>

\* Faulty: the sender's address is never recorded.
ReplyAddress_Unset(s, p) == remote[s]

\* Faulty: always to the sender.
ReplyAddress_Sender(s, p) == host[p]

\* The address the slave replies to: the sender's, until the first measurement
\* is counted; after that, the one it replied to then.
ReplyAddress(s, p) == IF total[s] = 0 THEN host[p] ELSE remote[s]

ReqStamped(s, p, rx, x) ==
  LET d == Head(wire[p])
  IN  /\ Receive(p, s, "DELAY_REQ")
      /\ remote' = [remote EXCEPT ![s] = ReplyAddress(s, p)]
      /\ IF rx # "none" /\ InTable(s, d)
           THEN /\ rows' = [rows EXCEPT ![s][Row(s, d)].recv = RxStamp(x, rx)]
                /\ LoopTest(s, total[s])
                /\ UNCHANGED total
           ELSE Stop(s, Mishap(rx))
      /\ UNCHANGED <<host, frame, owed, errq, txno, results, faults>>

RecvReq(s, p, rx) == ReqStamped(s, p, rx, Head(wire[p]).id)

RecvReqFollowUp(s, p) ==
  LET d == Head(wire[p])
  IN  /\ Receive(p, s, "DELAY_REQ_FOLLOW_UP")
      /\ remote' = [remote EXCEPT ![s] = ReplyAddress(s, p)]
      /\ IF InTable(s, d)
           THEN /\ rows' = [rows EXCEPT ![s][Row(s, d)].sent = d.stamp]
                /\ total' = [total EXCEPT ![s] = @ + 1]
                /\ Call(s, "DELAY_RESP", 1, d.seq, ReplyAddress(s, p))
                /\ main' = [main EXCEPT ![s] = "reply"]
                /\ UNCHANGED assigned
           ELSE Stop(s, "undefined") /\ UNCHANGED frame
      /\ UNCHANGED <<host, owed, errq, txno, results, faults>>

\* The default of the switch: exit(1).
Handled(q) == IF q \in Masters THEN {"DELAY_RESP", "DELAY_RESP_FOLLOW_UP"}
                               ELSE {"DELAY_REQ", "DELAY_REQ_FOLLOW_UP"}

RecvUnknown(q, p) ==
  /\ \E type \in Types \ Handled(q) : Receive(p, q, type)
  /\ Stop(q, "failed")
  /\ UNCHANGED <<host, frame, owed, errq, txno, remote, results, faults>>

\* The reply is out: do_recv returns.
EndReply(s) ==
  /\ main[s] = "reply"
  /\ frame[s] = Idle
  /\ LoopTest(s, total[s])
  /\ UNCHANGED <<host, sendVars, rows, total, remote, results, faults>>

-----------------------------------------------------------------------------
(* main() after its loop *)

FileName(p) == IF p \in Masters THEN "master_to_slave_latency.txt"
                                ELSE "slave_to_master_latency.txt"

\* Faulty: the whole table.
StoredRows_All(p) == [i \in 1..Size(p) |-> rows[p][i - 1]]

StoredRows(p) == [i \in 1..total[p] |-> rows[p][i - 1]]

\* pthread_join (the slave has no thread to wait for), store_results_to_file.
Store(p) ==
  /\ main[p] = "store"
  /\ frame[p] = Idle
  /\ IF total[p] <= Size(p)
       THEN /\ main' = [main EXCEPT ![p] = "done"]
            /\ results' = [results EXCEPT ![p] =
                              [file |-> FileName(p), rows |-> StoredRows(p)]]
       ELSE /\ main' = [main EXCEPT ![p] = "undefined"]
            /\ UNCHANGED results
  /\ UNCHANGED <<host, sendVars, rows, total, assigned, remote, faults>>

-----------------------------------------------------------------------------
(* The sending routine, in a live process *)

Thread(p) ==
  /\ Alive(p)
  /\ SendStep(p)
  /\ UNCHANGED <<mainVars, faults>>

Kernel(p) ==
  /\ Alive(p)
  /\ LoopStamp(p)
  /\ UNCHANGED <<mainVars, faults>>

\* exit(1) ends every thread of the process.
ThreadFails(p) ==
  /\ Alive(p)
  /\ SendError(p)
  /\ main' = [main EXCEPT ![p] = "failed"]
  /\ UNCHANGED <<host, rows, total, assigned, remote, results, faults>>

-----------------------------------------------------------------------------
(* The network, and crashes *)

\* No process at its destination will read the datagram.
Unread(p) ==
  /\ wire[p] # <<>>
  /\ \A q \in Procs : main[q] \in {"recv", "reply"} => host[q] # Head(wire[p]).dst
  /\ wire' = [wire EXCEPT ![p] = Tail(@)]
  /\ UNCHANGED <<frame, owed, errq, txno, mainVars, faults>>

Fault(kind) ==
  /\ kind \in Faults
  /\ faults < MaxFaults
  /\ faults' = faults + 1

Lose(p) ==
  /\ Fault("lose")
  /\ \E k \in 1..Len(wire[p]) : wire' = [wire EXCEPT ![p] = RemoveAt(@, k)]
  /\ UNCHANGED <<frame, owed, errq, txno, mainVars>>

\* A datagram arrives twice.
Duplicate(p) ==
  /\ Fault("dup")
  /\ \E k \in 1..Len(wire[p]) : wire' = [wire EXCEPT ![p] = InsertAt(@, k, @[k])]
  /\ UNCHANGED <<frame, owed, errq, txno, mainVars>>

\* A datagram overtakes the one before it.
Swap(p) ==
  /\ Fault("swap")
  /\ \E k \in 1..Len(wire[p]) - 1 :
       wire' = [wire EXCEPT ![p] = InsertAt(RemoveAt(@, k), k + 1, @[k])]
  /\ UNCHANGED <<frame, owed, errq, txno, mainVars>>

Crash(p) ==
  /\ Fault("crash")
  /\ Alive(p)
  /\ main' = [main EXCEPT ![p] = "failed"]
  /\ UNCHANGED <<host, sendVars, rows, total, assigned, remote, results>>

-----------------------------------------------------------------------------
Init ==
  /\ SendInit
  /\ host \in Hosts
  /\ main = [p \in Procs |-> "down"]
  /\ rows = [p \in Procs |-> [k \in 0..Size(p) - 1 |-> EmptyRow]]
  /\ total = [p \in Procs |-> 0]
  /\ assigned = [p \in Procs |-> FALSE]
  /\ remote = [s \in Slaves |-> Zero]
  /\ results = [p \in Procs |-> NoFile]
  /\ faults = 0

MasterStep(r) ==
  \/ \E p \in Procs : \/ \E rx \in RxStamps : RecvResp(r, p, rx)
                      \/ RecvRespFollowUp(r, p)
                      \/ RecvUnknown(r, p)
  \/ Store(r)

SlaveStep(s) ==
  \/ \E p \in Procs : \/ \E rx \in RxStamps : RecvReq(s, p, rx)
                      \/ RecvReqFollowUp(s, p)
                      \/ RecvUnknown(s, p)
  \/ EndReply(s)
  \/ Store(s)

Next ==
  \/ \E r \in Masters : StartMaster(r) \/ MasterStep(r)
  \/ \E s \in Slaves : StartSlave(s) \/ SlaveStep(s)
  \/ \E p \in Procs : \/ Thread(p) \/ Kernel(p) \/ ThreadFails(p)
                      \/ Unread(p) \/ Lose(p) \/ Duplicate(p) \/ Swap(p)
                      \/ Crash(p)

Spec == Init /\ [][Next]_vars

\* Threads of live processes run, the kernel loops back what it owes, and what
\* is on its way arrives.  Nobody has to start a program.
Fairness ==
  /\ \A r \in Masters : WF_vars(MasterStep(r))
  /\ \A s \in Slaves : WF_vars(SlaveStep(s))
  /\ \A p \in Procs : WF_vars(Thread(p)) /\ WF_vars(Kernel(p)) /\ WF_vars(Unread(p))

FairSpec == Spec /\ Fairness

-----------------------------------------------------------------------------
StampOrZero == TxIds \cup {Zero}
Rows == [recv : StampOrZero, sent : StampOrZero]
Files == {"none", "master_to_slave_latency.txt", "slave_to_master_latency.txt"}

MainTypeOK ==
  /\ host \in [Procs -> Dests]
  /\ main \in [Procs -> Mains]
  /\ rows = [p \in Procs |-> rows[p]]
  /\ \A p \in Procs : rows[p] \in [0..Size(p) - 1 -> Rows]
  /\ total \in [Procs -> Nat]
  /\ assigned \in [Procs -> BOOLEAN]
  /\ remote \in [Slaves -> Dests \cup {Zero}]
  /\ results \in [Procs -> [file : Files, rows : Seq(Rows)]]
  /\ faults \in Nat

TypeOK == SendTypeOK /\ MainTypeOK

\* No table is accessed out of bounds (master.c:158-163, slave.c:150-155,
\* util.c:174), if the tables have a row for each packet a master sends.
InBounds == \A p \in Procs : main[p] # "undefined"

\* The stamps in a master's row k are those of a slave that has itself counted
\* k, and the stamps in a slave's row are those of a master: whatever is lost,
\* duplicated, reordered or restarted, a reply is never older than the request
\* it answers (slave.c:152-156).
Provenance ==
  \A p \in Procs : \A k \in 0..Size(p) - 1 : \A field \in {"recv", "sent"} :
    LET stamp == rows[p][k][field]
    IN  stamp # Zero =>
          IF p \in Slaves THEN stamp[1] \in Masters
          ELSE stamp[1] \in Slaves /\ rows[stamp[1]][k].sent # Zero

\* A row with both stamps is the delay of one datagram: recv_tt and sent_tt are
\* stamps of the same one (master.c:158-163, slave.c:150-155).
SamplesMatched ==
  \A p \in Procs : \A k \in 0..Size(p) - 1 :
    LET row == rows[p][k]
    IN  row.recv # Zero /\ row.sent # Zero => row.recv = row.sent

RealDelays(stored) ==
  /\ \A i \in 1..Len(stored) : stored[i].sent # Zero /\ stored[i].recv = stored[i].sent
  /\ \A i, j \in 1..Len(stored) : i # j => stored[i].sent # stored[j].sent

\* Every number in a stored file is the delay of one datagram, and no two are
\* of the same (util.c:170-177).
StoredDelaysAreReal == \A p \in Procs : RealDelays(results[p].rows)

\* "Stop after this many" (master.c:22): once a master runs, it and the slave
\* take as many measurements as they were asked for, and stop.
StopsAfterThisMany ==
  \A p \in Procs :
    (\E r \in Masters : main[r] = "recv") ~> (main[p] = "done" /\ total[p] = Limit(p))

\* A slave answers one address only, that of the first follow-up it counts: two
\* masters that hold stamps of the same slave ran at the same address
\* (slave.c:140-146).
OneClient ==
  \A s \in Slaves : \A r1, r2 \in Masters :
    (/\ \E k \in DOMAIN rows[r1] : rows[r1][k].recv # Zero /\ rows[r1][k].recv[1] = s
     /\ \E k \in DOMAIN rows[r2] : rows[r2][k].recv # Zero /\ rows[r2][k].recv[1] = s)
       => host[r1] = host[r2]

-----------------------------------------------------------------------------
(* One master and one slave implement DelayMeasurement. *)

countedBar == [p \in Procs |-> {k \in 0..Size(p) - 1 : rows[p][k].sent # Zero}]

outcomeBar == [p \in Procs |->
  CASE main[p] \in {"failed", "undefined"} -> "ended"
    [] main[p] = "done" -> IF total[p] = Limit(p) THEN "complete" ELSE "ended"
    [] OTHER -> "measuring"]

Abstract ==
  INSTANCE DelayMeasurement WITH
    Master <- CHOOSE r \in Masters : TRUE, Slave <- CHOOSE s \in Slaves : TRUE,
    counted <- countedBar, tally <- total, outcome <- outcomeBar

\* On a network that does not duplicate, one run of each program counts every
\* sequence number at most once, the slave first, and neither stores its file
\* for a full count before it has counted them all.
ImplementsDelayMeasurement == Abstract!Spec
=============================================================================
