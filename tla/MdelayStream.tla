----------------------------- MODULE MdelayStream -----------------------------
(***************************************************************************)
(* The measurement over TCP, which both programs use unless they are given *)
(* option -u.  The threads, the sending routine and the handling of a      *)
(* message are those of Mdelay; what carries the messages is a stream of   *)
(* bytes in either direction of one connection.  The master writes         *)
(* messages of 900 bytes, the slave of 890, and both read up to 900 bytes  *)
(* at a time, from which they take one message.                            *)
(*                                                                         *)
(* wire[p] are the messages of p that its peer has not begun to read.  The *)
(* address in them is not used: sendto ignores it on a connected stream.   *)
(*                                                                         *)
(* A segment is stamped when it arrives, and its stamp is named after the  *)
(* message that it holds the end of, or the last part.  recvmsg gives the  *)
(* stamp of the last segment that it took bytes from, and the kernel may   *)
(* by then have merged that one with those behind it and kept the last     *)
(* stamp only.  Receive offload, which merges segments below TCP, is taken *)
(* to be off.                                                              *)
(***************************************************************************)
EXTENDS Mdelay

CONSTANTS
  Cuts,     \* where a segment may end within a message, in bytes
  Nobody,   \* no connection
  Anybody   \* the slave is in accept

\* Bound: a message is cut behind its header, and not in its last four bytes,
\* so that what is read next has no message type where one is expected.
ASSUME StreamAssumption ==
  /\ Cuts \subseteq 40..885
  /\ Nobody \notin Procs /\ Anybody \notin Procs

VARIABLES
  peer,     \* peer[p]: the other end of p's connection
  arrived,  \* arrived[p]: how many bytes of p's have arrived at the peer
  got,      \* got[p]: how many of these the peer has read
  reset     \* reset[p]: "no", "pending" (to be reported to p) or "seen"

streamVars == <<peer, arrived, got, reset>>
allVars    == <<vars, streamVars>>

ReadLength == 900

\* Faulty: as long as the slave's.
Length_Same(p) == 890

\* pktsize: PAYLOAD_SIZE, and PAYLOAD_SIZE - 10.
Length(p) == IF p \in Masters THEN 900 ELSE 890

Sent(p)    == txno[p] * Length(p)
Waiting(p) == arrived[p] - got[p]
Begun(p)   == txno[p] - Len(wire[p])

\* The next byte to be read is the first of a message.
Aligned(p) == got[p] = Begun(p) * Length(p)

Ended(p) == main[p] \in {"done", "failed", "undefined"}

-----------------------------------------------------------------------------
(* The connection *)

\* create_listen_socket, and accept_child up to accept.
Listen(s) ==
  /\ main[s] = "down" /\ peer[s] = Nobody
  /\ peer' = [peer EXCEPT ![s] = Anybody]
  /\ UNCHANGED <<vars, arrived, got, reset>>

\* create_send_socket: connect succeeds if the slave is in accept; both then
\* start to receive, the master's thread to send.
Connect(r) ==
  /\ main[r] = "down"
  /\ SlaveFirst => \E s \in Slaves : peer[s] = Anybody
  /\ \E slave_ip \in SlaveAddresses, s \in Slaves :
       /\ host[s] = slave_ip /\ peer[s] = Anybody
       /\ peer' = [peer EXCEPT ![r] = s, ![s] = r]
       /\ main' = [main EXCEPT ![r] = "recv", ![s] = "recv"]
       /\ remote' = [remote EXCEPT ![s] = host[r]]
       /\ Call(r, "DELAY_REQ", N, 0, slave_ip)
  /\ UNCHANGED <<host, owed, errq, wire, txno, rows, total, assigned, results, faults,
                 arrived, got, reset>>

\* It is refused otherwise: exit(1).
ConnectRefused(r) ==
  /\ main[r] = "down"
  /\ ~SlaveFirst /\ \A s \in Slaves : peer[s] # Anybody
  /\ Stop(r, "failed")
  /\ UNCHANGED <<host, sendVars, remote, results, faults, streamVars>>

Connected(p) == peer[p] \in Procs /\ Alive(peer[p]) /\ reset[peer[p]] = "no"

\* p's bytes arrive, to the end of a message.
Deliver(p) ==
  /\ Connected(p)
  /\ arrived[p] < Sent(p)
  /\ arrived' = [arrived EXCEPT ![p] = (@ \div Length(p) + 1) * Length(p)]
  /\ UNCHANGED <<vars, peer, got, reset>>

\* They arrive to a point within the next message.
Cut(p) ==
  /\ Fault("cut")
  /\ Connected(p)
  /\ arrived[p] < Sent(p) /\ arrived[p] % Length(p) = 0
  /\ \E c \in Cuts : arrived' = [arrived EXCEPT ![p] = @ + c]
  /\ UNCHANGED <<sendVars, mainVars, peer, got, reset>>

\* The peer has ended with bytes of p unread, or there are bytes for it still.
Reset(p) ==
  /\ peer[p] \in Procs /\ Ended(peer[p]) /\ Alive(p)
  /\ got[p] < Sent(p) /\ reset[p] = "no"
  /\ reset' = [reset EXCEPT ![p] = "pending"]
  /\ UNCHANGED <<vars, peer, arrived, got>>

-----------------------------------------------------------------------------
(* do_recv *)

\* Faulty: as if every read filled the buffer.
Reads_Full(q, p) ==
  /\ main[q] = "recv" /\ peer[q] = p /\ Waiting(p) > 0
  /\ got' = [got EXCEPT ![p] = @ + ReadLength]
  /\ UNCHANGED <<peer, arrived, reset>>

\* recvmsg returns bytes of p.
Reads(q, p) ==
  /\ main[q] = "recv" /\ peer[q] = p /\ Waiting(p) > 0
  /\ got' = [got EXCEPT ![p] = @ + IF Waiting(p) < ReadLength THEN Waiting(p) ELSE ReadLength]
  /\ UNCHANGED <<peer, arrived, reset>>

\* How many of p's messages the first so many bytes belong to.
Messages(p, bytes) == (bytes + Length(p) - 1) \div Length(p)

\* The stamps that may come with what is read: from that of the message which
\* holds its last byte to that of the last which has arrived, in part at least.
SegmentStamps(p) == {<<p, j>> : j \in Messages(p, got'[p])..Messages(p, arrived[p])}

\* They begin with a message, which is handled; the rest of what is read is not
\* looked at, and that of the message is not waited for.
ReadMessage(q, p) ==
  /\ Reads(q, p) /\ Aligned(p)
  /\ \/ /\ q \in Masters
        /\ \/ RecvRespFollowUp(q, p)
           \/ \E rx \in RxStamps, x \in SegmentStamps(p) : RespStamped(q, p, rx, x)
     \/ /\ q \in Slaves
        /\ \/ RecvReqFollowUp(q, p)
           \/ \E rx \in RxStamps, x \in SegmentStamps(p) : ReqStamped(q, p, rx, x)

\* They begin elsewhere: in the padding, or ten bytes into a header of the
\* slave's, which hold neither a RESP nor a RESP_FOLLOW_UP.
ReadSkewed(q, p) ==
  /\ Reads(q, p) /\ ~Aligned(p)
  /\ Stop(q, "failed")
  /\ UNCHANGED <<host, sendVars, remote, results, faults>>

\* Faulty: only an error ends the loop.
ReadEof_Ignored(q, p) == FALSE /\ UNCHANGED allVars

\* recvmsg returns 0: the peer has closed the connection in order, or a reset
\* has been reported.
ReadEof(q, p) ==
  /\ main[q] = "recv" /\ peer[q] = p /\ Waiting(p) = 0
  /\ \/ reset[q] = "seen"
     \/ reset[q] = "no" /\ Ended(p) /\ arrived[p] = Sent(p) /\ Waiting(q) = 0
  /\ main' = [main EXCEPT ![q] = "store"]
  /\ assigned' = [assigned EXCEPT ![q] = TRUE]
  /\ UNCHANGED <<host, sendVars, rows, total, remote, results, faults, streamVars>>

\* recvmsg returns -1, which is not 0: the buffer is parsed as it is.
ReadError(q, p) ==
  /\ main[q] = "recv" /\ peer[q] = p /\ Waiting(p) = 0
  /\ reset[q] = "pending"
  /\ reset' = [reset EXCEPT ![q] = "seen"]
  /\ UNCHANGED <<host, owed, errq, wire, txno, rows, remote, results, faults, peer, arrived, got>>

\* It may hold anything ...
ReadErrorAnything(q, p) ==
  /\ ReadError(q, p)
  /\ \E how \in {"failed", "undefined"} : main' = [main EXCEPT ![q] = how]
  /\ UNCHANGED <<frame, total, assigned>>

\* ... or what the last call left there: a packet, whose stamp is stored once
\* more, or a follow-up, which is counted once more.
ReadErrorAgain(q, p) ==
  /\ ReadError(q, p)
  /\ Begun(p) > 0
  /\ IF Begun(p) % 2 = 1
       THEN LoopTest(q, total[q]) /\ UNCHANGED <<frame, total>>
       ELSE /\ total' = [total EXCEPT ![q] = @ + 1]
            /\ IF q \in Masters
                 THEN LoopTest(q, total[q] + 1) /\ UNCHANGED frame
                 ELSE /\ Call(q, "DELAY_RESP", 1, Begun(p) \div 2 - 1, remote[q])
                      /\ main' = [main EXCEPT ![q] = "reply"]
                      /\ UNCHANGED assigned

-----------------------------------------------------------------------------
(* The sending routine *)

AtSendto(p) == frame[p].pc = "send" \/ (frame[p].pc = "nic_ts" /\ errq[p] # <<>>)

SendThread(p) ==
  /\ reset[p] = "no" \/ ~AtSendto(p)
  /\ Thread(p)
  /\ UNCHANGED streamVars

\* sendto on a connection that was reset: ECONNRESET and exit(1), or SIGPIPE.
Killed(p) ==
  /\ Alive(p) /\ reset[p] # "no" /\ AtSendto(p)
  /\ Stop(p, "failed")
  /\ UNCHANGED <<host, sendVars, remote, results, faults, streamVars>>

-----------------------------------------------------------------------------
StreamInit ==
  /\ Init
  /\ peer = [p \in Procs |-> Nobody]
  /\ arrived = [p \in Procs |-> 0] /\ got = [p \in Procs |-> 0]
  /\ reset = [p \in Procs |-> "no"]

MainThread(q) ==
  \/ \E p \in Procs : \/ ReadMessage(q, p) \/ ReadSkewed(q, p) \/ ReadEof(q, p)
                      \/ ReadErrorAnything(q, p) \/ ReadErrorAgain(q, p)
  \/ /\ Store(q) \/ (q \in Slaves /\ EndReply(q))
     /\ UNCHANGED streamVars

ProcessStep(p) ==
  \/ Deliver(p) \/ Reset(p) \/ MainThread(p) \/ SendThread(p) \/ Killed(p)
  \/ Kernel(p) /\ UNCHANGED streamVars

StreamNext ==
  \/ \E s \in Slaves : Listen(s)
  \/ \E r \in Masters : Connect(r) \/ ConnectRefused(r)
  \/ \E p \in Procs : ProcessStep(p) \/ Cut(p) \/ (Crash(p) /\ UNCHANGED streamVars)

StreamSpec == StreamInit /\ [][StreamNext]_allVars

\* Threads run, the kernel loops back what it owes, and TCP delivers what it is
\* given or reports that it cannot.  None of these steps can be repeated for
\* ever, so that one assumption does for all.
StreamFairSpec == StreamSpec /\ WF_allVars(\E p \in Procs : ProcessStep(p))

-----------------------------------------------------------------------------
StreamTypeOK ==
  /\ TypeOK
  /\ peer \in [Procs -> Procs \cup {Nobody, Anybody}]
  /\ \A p \in Procs : 0 <= got[p] /\ got[p] <= arrived[p] /\ arrived[p] <= Sent(p)
  /\ reset \in [Procs -> {"no", "pending", "seen"}]

\* No two of the numbers are of the same message, and none is less than its
\* delay: it may have been stamped, on reception, for a later one.
NoneTooShort(stored) ==
  /\ \A i \in 1..Len(stored) :
       LET sent == stored[i].sent  recv == stored[i].recv
       IN  sent # Zero /\ recv # Zero /\ recv[1] = sent[1] /\ recv[2] >= sent[2]
  /\ \A i, j \in 1..Len(stored) : i # j => stored[i].sent # stored[j].sent

\* Unless recvmsg has failed in the process: every number that a master stores
\* is the delay of a message, since a read that takes the stamp of another also
\* loses its place; a slave's, whose reads keep theirs, may only be too long.
\* This holds even when the other end has gone in the middle of a measurement
\* (master.c:147-158, slave.c:125-155, util.c:170-177).
StoredUnlessReset ==
  \A p \in Procs : reset[p] # "seen" =>
    /\ NoneTooShort(results[p].rows)
    /\ p \in Masters => RealDelays(results[p].rows)

\* The slave loses track of the messages only behind one that was cut: the
\* master's messages, which fill a read, never merge (master.c:121,
\* slave.c:115-125).
RequestsStayAligned ==
  \A r \in Masters : Aligned(r) \/ got[r] % Length(r) \in Cuts

\* When one end of the connection has ended, the other does not wait for it
\* for ever (master.c:147-148, slave.c:126-127).
EndsWithPeer ==
  \A q \in Procs : (peer[q] \in Procs /\ Ended(peer[q])) ~> ~Alive(q)

\* Neither waits for ever for what the other has sent or will not send: two
\* connected programs take all the measurements, unless one of them fails or
\* leaves its loop early.
CompletesUnlessOneFails ==
  (\A p \in Procs : main[p] = "recv") ~>
     \/ \A p \in Procs : main[p] = "done" /\ total[p] = Limit(p)
     \/ \E p \in Procs : \/ main[p] \in {"failed", "undefined"}
                         \/ main[p] = "store" /\ total[p] < Limit(p)
=============================================================================
