----------------------------- MODULE EchoLatency -----------------------------
(***************************************************************************)
(* The one-way latency tools: ref/sender.c on one host, and runs of        *)
(* ref/rx_timestamping.c on others.                                        *)
(*                                                                         *)
(* The sender's thread broadcasts max frames; a receiver files three       *)
(* latencies of each, and broadcasts the frame's payload on another port,  *)
(* where the sender's main thread takes the echoes and files the time each *)
(* has been under way.  Frames and echoes are named by the frame's number  *)
(* (seq, and with it t1: two frames are 200 microseconds apart); a latency *)
(* is named by the frame it was taken of.                                  *)
(***************************************************************************)
EXTENDS Integers, FiniteSets, SequencesExt

CONSTANTS
  Receivers,    \* runs of rx_timestamping, each on a host of its own
  SenderMax,    \* option --max of the sender
  ReceiverMax,  \* option --max of the receivers
  Stamped,      \* may a received frame (not) carry timestamps?
  SpareWord,    \* is there (not) a spare word behind a malloc'ed table?
  Errors,       \* may system calls fail?
  MaxFaults,    \* bound: how many faults of each kind happen
  Unset         \* what malloc leaves in a table

FaultKinds == {"lose", "dup", "swap"}

ASSUME EchoAssumption ==
  /\ IsFiniteSet(Receivers)
  /\ SenderMax \in Nat /\ ReceiverMax \in Nat
  /\ Stamped \subseteq BOOLEAN /\ SpareWord \subseteq BOOLEAN
  /\ Errors \in BOOLEAN
  /\ MaxFaults \in [FaultKinds -> Nat]
  /\ Unset \notin Nat

VARIABLES
  main,    \* the sender's main thread
  sent,    \* i in the sender's thread: how many frames it has sent
  echoes,  \* latency_numbers[0..i-1], in main
  file,    \* end_to_end_latency.txt
  rx,      \* rx[r]: where receiver r is
  pktNum,  \* pktNum[r]: calls of do_recv that have returned
  table,   \* table[r]: the three arrays
  total,   \* total[r]: total_received
  stored,  \* stored[r]: latency.txt
  frames,  \* frames[r]: frames on their way to r, oldest first
  back,    \* back[r]: echoes on their way from r to the sender
  faults   \* how many faults of each kind have happened

senderVars   == <<main, sent, echoes, file>>
receiverVars == <<rx, pktNum, table, total, stored>>
netVars      == <<frames, back, faults>>
vars         == <<senderVars, receiverVars, netVars>>

Columns == {"nic_user", "nic_kernel", "kernel_user"}
NoFile  == <<>>

-----------------------------------------------------------------------------
(* ref/sender.c *)

\* main() up to pthread_create: from here on the thread runs.
StartSender ==
  /\ main = "down"
  /\ main' = "created"
  /\ UNCHANGED <<sent, echoes, file, receiverVars, netVars>>

\* Faulty: i <= max.
EchoLoop_OneMore(got) == IF Len(got) <= SenderMax THEN "recv" ELSE "store"

\* Faulty: i < max - 1.
EchoLoop_OneLess(got) == IF Len(got) < SenderMax - 1 THEN "recv" ELSE "store"

\* The test of main's for loop.
EchoLoop(got) == IF Len(got) < SenderMax THEN "recv" ELSE "store"

\* Only now is there a socket that takes echoes.
Bind ==
  /\ main = "created"
  /\ main' = EchoLoop(<<>>)
  /\ UNCHANGED <<sent, echoes, file, receiverVars, netVars>>

SenderAlive == main \in {"created", "recv", "store", "join"}

\* Faulty: gettimeofday is called before the loop, so that every frame has the
\* time of the first.
SendFrame_SameTime ==
  /\ SenderAlive
  /\ sent < SenderMax
  /\ sent' = sent + 1
  /\ frames' = [r \in Receivers |-> Append(frames[r], 0)]
  /\ UNCHANGED <<main, echoes, file, receiverVars, back, faults>>

\* send_packets: one frame, to every host on the segment.
SendFrame ==
  /\ SenderAlive
  /\ sent < SenderMax
  /\ sent' = sent + 1
  /\ frames' = [r \in Receivers |-> Append(frames[r], sent)]
  /\ UNCHANGED <<main, echoes, file, receiverVars, back, faults>>

\* The echo is of the frame that the last one was of.
SameAsPrevious(k) == echoes # <<>> /\ Last(echoes) = k

\* recvfrom, and what main does with the echo of frame k.
RecvEcho(r) ==
  /\ main = "recv"
  /\ back[r] # <<>>
  /\ back' = [back EXCEPT ![r] = Tail(@)]
  /\ LET k == Head(back[r])
     IN  IF SameAsPrevious(k)
           THEN main' = "failed" /\ UNCHANGED echoes
           ELSE /\ echoes' = Append(echoes, k)
                /\ main' = EchoLoop(echoes')
  /\ UNCHANGED <<sent, file, receiverVars, frames, faults>>

\* The numbers are printed before the thread is joined, and reach the file
\* with fclose, after it.
StoreEchoes ==
  /\ main = "store"
  /\ main' = "join"
  /\ UNCHANGED <<sent, echoes, file, receiverVars, netVars>>

JoinThread ==
  /\ main = "join"
  /\ sent = SenderMax
  /\ main' = "done"
  /\ file' = echoes
  /\ UNCHANGED <<sent, echoes, receiverVars, netVars>>

\* socket, bind, sendto or fopen fails: exit, whichever thread it happens in.
\* exit writes out what has been printed.
SenderFails ==
  /\ Errors
  /\ SenderAlive
  /\ main' = "failed"
  /\ file' = IF main = "join" THEN echoes ELSE file
  /\ UNCHANGED <<sent, echoes, receiverVars, netVars>>

-----------------------------------------------------------------------------
(* ref/rx_timestamping.c, over UDP *)

\* add_socket to malloc.
StartReceiver(r) ==
  /\ rx[r] = "down"
  /\ rx' = [rx EXCEPT ![r] = "recv"]
  /\ UNCHANGED <<senderVars, pktNum, table, total, stored, netVars>>

\* Faulty: pkt_num++ <= max.
RecvLoop_OneMore(n) == IF n <= ReceiverMax \/ ReceiverMax = 0 THEN "recv" ELSE "store"

\* pkt_num++ < max || max == 0, after n calls of do_recv.
RecvLoop(n) == IF n < ReceiverMax \/ ReceiverMax = 0 THEN "recv" ELSE "store"

\* total_received++ is an operand of the first of print_time's three stores.
RowOf(column, n) == IF column = "nic_kernel" THEN n ELSE n + 1

\* What a store behind the table of a column does: it meets a spare word that
\* the allocator has left there, or its effect is undefined.
Overrun(n, spare) ==
  \E c \in Columns : RowOf(c, n) > ReceiverMax \/ (RowOf(c, n) = ReceiverMax /\ ~spare)

\* Faulty: total_received is incremented before the test for timestamps.
FileTimes_CountsAll(r, k, stamped) ==
  /\ total' = [total EXCEPT ![r] = @ + 1]
  /\ table' = IF ~stamped THEN table ELSE [table EXCEPT ![r] =
              [c \in Columns |-> [i \in DOMAIN @[c] |->
                 IF i = RowOf(c, total[r]) THEN k ELSE @[c][i]]]]

\* print_time, if there are timestamps to print.
FileTimes(r, k, stamped) ==
  IF stamped
    THEN /\ table' = [table EXCEPT ![r] =
              [c \in Columns |-> [i \in DOMAIN @[c] |->
                 IF i = RowOf(c, total[r]) THEN k ELSE @[c][i]]]]
         /\ total' = [total EXCEPT ![r] = @ + 1]
    ELSE UNCHANGED <<table, total>>

\* do_recv: recvmsg, handle_time, broadcast.
RecvFrame(r, stamped, spare) ==
  /\ rx[r] = "recv"
  /\ frames[r] # <<>>
  /\ frames' = [frames EXCEPT ![r] = Tail(@)]
  /\ IF stamped /\ Overrun(total[r], spare)
       THEN /\ rx' = [rx EXCEPT ![r] = "undefined"]
            /\ UNCHANGED <<pktNum, table, total, back>>
       ELSE /\ FileTimes(r, Head(frames[r]), stamped)
            /\ back' = [back EXCEPT ![r] = Append(@, Head(frames[r]))]
            /\ pktNum' = [pktNum EXCEPT ![r] = @ + 1]
            /\ rx' = [rx EXCEPT ![r] = RecvLoop(pktNum[r] + 1)]
  /\ UNCHANGED <<senderVars, stored, faults>>

StoreLatencies(r) ==
  /\ rx[r] = "store"
  /\ rx' = [rx EXCEPT ![r] = "done"]
  /\ stored' = [stored EXCEPT ![r] =
                  [i \in 1..total[r] |-> [c \in Columns |-> table[r][c][i - 1]]]]
  /\ UNCHANGED <<senderVars, pktNum, table, total, netVars>>

\* A system call fails, broadcast's sendto for one: exit.
ReceiverFails(r) ==
  /\ Errors
  /\ rx[r] \in {"recv", "store"}
  /\ rx' = [rx EXCEPT ![r] = "failed"]
  /\ UNCHANGED <<senderVars, pktNum, table, total, stored, netVars>>

-----------------------------------------------------------------------------
(* The network *)

\* No socket is bound where the frame, or the echo, arrives.
Unread(r) ==
  /\ \/ /\ frames[r] # <<>> /\ rx[r] # "recv"
        /\ frames' = [frames EXCEPT ![r] = Tail(@)]
        /\ UNCHANGED back
     \/ /\ back[r] # <<>> /\ main # "recv"
        /\ back' = [back EXCEPT ![r] = Tail(@)]
        /\ UNCHANGED frames
  /\ UNCHANGED <<senderVars, receiverVars, faults>>

\* What a fault makes of a queue of datagrams.
Outcomes(kind, q) ==
  CASE kind = "lose" -> {RemoveAt(q, k) : k \in 1..Len(q)}
    [] kind = "dup"  -> {InsertAt(q, k, q[k]) : k \in 1..Len(q)}
    [] kind = "swap" -> {InsertAt(RemoveAt(q, k), k + 1, q[k]) : k \in 1..Len(q) - 1}

NetworkFault(kind, r) ==
  /\ faults[kind] < MaxFaults[kind]
  /\ faults' = [faults EXCEPT ![kind] = @ + 1]
  /\ \/ /\ \E q \in Outcomes(kind, frames[r]) : frames' = [frames EXCEPT ![r] = q]
        /\ UNCHANGED back
     \/ /\ \E q \in Outcomes(kind, back[r]) : back' = [back EXCEPT ![r] = q]
        /\ UNCHANGED frames
  /\ UNCHANGED <<senderVars, receiverVars>>

-----------------------------------------------------------------------------
Init ==
  /\ main = "down" /\ sent = 0 /\ echoes = <<>> /\ file = NoFile
  /\ rx = [r \in Receivers |-> "down"]
  /\ pktNum = [r \in Receivers |-> 0]
  /\ table = [r \in Receivers |-> [c \in Columns |-> [i \in 0..ReceiverMax - 1 |-> Unset]]]
  /\ total = [r \in Receivers |-> 0]
  /\ stored = [r \in Receivers |-> NoFile]
  /\ frames = [r \in Receivers |-> <<>>]
  /\ back = [r \in Receivers |-> <<>>]
  /\ faults = [kind \in FaultKinds |-> 0]

MainThread == Bind \/ (\E r \in Receivers : RecvEcho(r)) \/ StoreEchoes \/ JoinThread

Receiver(r) ==
  \/ \E stamped \in Stamped, spare \in SpareWord : RecvFrame(r, stamped, spare)
  \/ StoreLatencies(r)

Next ==
  \/ StartSender \/ MainThread \/ SendFrame \/ SenderFails
  \/ \E r \in Receivers : \/ StartReceiver(r) \/ Receiver(r) \/ ReceiverFails(r)
                          \/ Unread(r)
                          \/ \E kind \in FaultKinds : NetworkFault(kind, r)

Spec == Init /\ [][Next]_vars

\* The threads of a running program run, and what is on its way arrives.
Fairness ==
  /\ WF_vars(MainThread) /\ WF_vars(SendFrame)
  /\ \A r \in Receivers : WF_vars(Receiver(r)) /\ WF_vars(Unread(r))

FairSpec == Spec /\ Fairness

-----------------------------------------------------------------------------
Numbers == 0..SenderMax - 1

TypeOK ==
  /\ main \in {"down", "created", "recv", "store", "join", "done", "failed"}
  /\ sent \in 0..SenderMax
  /\ echoes \in Seq(Numbers) /\ Len(echoes) <= SenderMax
  /\ file \in {NoFile, echoes}
  /\ rx \in [Receivers -> {"down", "recv", "store", "done", "failed", "undefined"}]
  /\ pktNum \in [Receivers -> Nat] /\ total \in [Receivers -> Nat]
  /\ table \in [Receivers -> [Columns -> [0..ReceiverMax - 1 -> Numbers \cup {Unset}]]]
  /\ stored \in [Receivers -> Seq([Columns -> Numbers \cup {Unset}])]
  /\ frames \in [Receivers -> Seq(Numbers)] /\ back \in [Receivers -> Seq(Numbers)]
  /\ faults \in [FaultKinds -> Nat]

\* A stored end_to_end_latency.txt holds one latency of each frame, if one
\* receiver echoes them and the network duplicates none (ref/sender.c:218-239).
OneLatencyPerFrame ==
  (/\ main = "done" /\ faults["dup"] = 0
   /\ Cardinality({r \in Receivers : rx[r] # "down"}) <= 1)
     => IsInjective(file) /\ ToSet(file) = Numbers

\* The sender exits at an echo that repeats the one before ("Unlikely") only if
\* several receivers echo or the network duplicates: losing and overtaking do not
\* cost it what it has measured (ref/sender.c:231-234).
RepeatsAreDuplicates ==
  (/\ faults["dup"] = 0
   /\ Cardinality({r \in Receivers : rx[r] # "down"}) <= 1)
     => \A r \in Receivers : back[r] # <<>> => ~SameAsPrevious(Head(back[r]))

\* In a stored latency.txt every row below the first holds three latencies, and
\* in each column they follow the order of sending if the network kept it: a
\* frame without timestamps, or one that is lost, leaves no hole in a column
\* (ref/rx_timestamping.c:268-327, 452-459).
LatenciesInOrder ==
  \A r \in Receivers : \A i \in 2..Len(stored[r]) : \A c \in Columns :
    /\ stored[r][i][c] \in Numbers
    /\ (2 < i /\ faults["dup"] = 0 /\ faults["swap"] = 0) =>
         stored[r][i - 1][c] < stored[r][i][c]

\* "Stop after this many" (ref/sender.c:32, ref/rx_timestamping.c:108): both
\* programs do, if the receiver is listening and the sender is bound before the
\* first frame leaves, and nothing is lost or duplicated.
BothStop ==
  \A r \in Receivers :
    (main = "recv" /\ sent = 0 /\ rx[r] = "recv" /\ ReceiverMax = SenderMax)
      ~> \/ main = "done" /\ rx[r] = "done"
         \/ main = "failed" \/ rx[r] \in {"failed", "undefined"}
         \/ \E kind \in FaultKinds : faults[kind] > 0

\* "all latency numbers are in nanoseconds" (ref/rx_timestamping.c:314): every
\* number in latency.txt is a latency.
StoredAreLatencies ==
  \A r \in Receivers : \A i \in 1..Len(stored[r]) : \A c \in Columns :
    stored[r][i][c] # Unset
=============================================================================
