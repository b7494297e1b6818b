------------------------- MODULE EchoLatencyProofs -------------------------
(***************************************************************************)
(* Theorems about the one-way latency tools, for any number of receivers,  *)
(* any options and any faults.                                             *)
(***************************************************************************)
EXTENDS EchoLatency, QueueFacts, FiniteSetTheorems

-----------------------------------------------------------------------------
(* The inductive invariant *)

\* What the sender's main thread has filed, and when it still files.
SenderInv ==
  /\ main \in {"down", "created"} => echoes = <<>>
  /\ main = "recv" => Len(echoes) < SenderMax
  /\ main \in {"down", "created", "recv", "store", "join"} => file = NoFile

Rows == 0..ReceiverMax - 1

\* The rows that have been filed fit into a table, and two columns lag.
RowsInv(r) ==
  /\ total[r] <= ReceiverMax
  /\ \A i \in Rows : i < total[r] => table[r]["nic_kernel"][i] \in Numbers
  /\ \A i \in Rows : (0 < i /\ i <= total[r]) =>
       /\ table[r]["nic_user"][i] = table[r]["nic_kernel"][i - 1]
       /\ table[r]["kernel_user"][i] = table[r]["nic_kernel"][i - 1]

InOrder == faults["dup"] = 0 /\ faults["swap"] = 0

\* The frames on their way to r are newer than those that r has filed, and
\* each of them is newer than the one before it.
OrderInv(r) ==
  /\ \A i \in 1..Len(frames[r]) :
       /\ frames[r][i] < sent
       /\ \A j \in 1..Len(frames[r]) : i < j => frames[r][i] < frames[r][j]
  /\ \A i \in Rows : i < total[r] =>
       /\ table[r]["nic_kernel"][i] \in Numbers
       /\ table[r]["nic_kernel"][i] < sent
       /\ \A j \in 1..Len(frames[r]) : table[r]["nic_kernel"][i] < frames[r][j]
       /\ 0 < i => table[r]["nic_kernel"][i - 1] < table[r]["nic_kernel"][i]

EchoInv ==
  /\ SenderInv
  /\ \A r \in Receivers : RowsInv(r) /\ (InOrder => OrderInv(r))
  /\ LatenciesInOrder

-----------------------------------------------------------------------------
(* Types *)

LEMMA OutcomesSeq ==
  ASSUME NEW S, NEW q \in Seq(S), NEW kind \in FaultKinds, NEW w \in Outcomes(kind, q)
  PROVE  w \in Seq(S)
  BY NetworkSeq DEF Outcomes, FaultKinds

\* The steps of the sender's main thread, and of the program as a whole.
SenderStep ==
  StartSender \/ Bind \/ (\E r \in Receivers : RecvEcho(r)) \/ StoreEchoes \/ JoinThread
  \/ SenderFails

\* The steps of receiver r.
ReceiverStep(r) ==
  \/ StartReceiver(r) \/ StoreLatencies(r) \/ ReceiverFails(r)
  \/ \E stamped \in Stamped, spare \in SpareWord : RecvFrame(r, stamped, spare)

NetworkStep(r) == Unread(r) \/ \E kind \in FaultKinds : NetworkFault(kind, r)

LEMMA NextCases ==
  ASSUME [Next]_vars
  PROVE  \/ SenderStep \/ SendFrame \/ UNCHANGED vars
         \/ \E r \in Receivers : ReceiverStep(r) \/ NetworkStep(r)
  BY DEF Next, MainThread, Receiver, SenderStep, ReceiverStep, NetworkStep

LEMMA SenderStepType ==
  ASSUME TypeOK, SenderInv, SenderStep
  PROVE  TypeOK' /\ SenderInv'
<1>1. CASE StartSender
  BY <1>1 DEF StartSender, TypeOK, SenderInv, receiverVars, netVars
<1>2. CASE Bind
  BY <1>2, EchoAssumption DEF Bind, EchoLoop, TypeOK, SenderInv, receiverVars, netVars
<1>3. ASSUME NEW r \in Receivers, RecvEcho(r)
      PROVE  TypeOK' /\ SenderInv'
  <2> DEFINE k == Head(back[r])
  <2>1. back[r] # <<>> /\ back[r] \in Seq(Numbers)
    BY <1>3 DEF RecvEcho, TypeOK
  <2>2. k \in Numbers /\ Tail(back[r]) \in Seq(Numbers)
    BY <2>1
  <2>3. back' \in [Receivers -> Seq(Numbers)]
    BY <1>3, <2>2 DEF RecvEcho, TypeOK
  <2>4. main = "recv" /\ file = NoFile /\ file' = file
    BY <1>3 DEF RecvEcho, SenderInv
  <2> HIDE DEF k
  <2>5. CASE SameAsPrevious(k)
    <3>1. main' = "failed" /\ echoes' = echoes
      BY <1>3, <2>5 DEF RecvEcho, k
    <3> QED BY <1>3, <2>3, <2>4, <3>1 DEF RecvEcho, TypeOK, SenderInv, receiverVars
  <2>6. CASE ~SameAsPrevious(k)
    <3>1. echoes' = Append(echoes, k) /\ main' = EchoLoop(echoes')
      BY <1>3, <2>6 DEF RecvEcho, k
    <3>2. /\ echoes \in Seq(Numbers) /\ Len(echoes) < SenderMax
          /\ echoes' \in Seq(Numbers) /\ Len(echoes') = Len(echoes) + 1
      BY <2>2, <2>4, <3>1 DEF TypeOK, SenderInv
    <3>4. main' \in {"recv", "store"} /\ (main' = "recv" => Len(echoes') < SenderMax)
          /\ Len(echoes') <= SenderMax
      BY <3>1, <3>2, EchoAssumption DEF EchoLoop
    <3>5. SenderInv'
      BY <2>4, <3>4 DEF SenderInv
    <3> QED BY <1>3, <2>3, <2>4, <3>2, <3>4, <3>5 DEF RecvEcho, TypeOK, receiverVars
  <2> QED BY <2>5, <2>6
<1>4. CASE StoreEchoes
  BY <1>4 DEF StoreEchoes, TypeOK, SenderInv, receiverVars, netVars
<1>5. CASE JoinThread
  BY <1>5 DEF JoinThread, TypeOK, SenderInv, receiverVars, netVars
<1>6. CASE SenderFails
  BY <1>6 DEF SenderFails, SenderAlive, TypeOK, SenderInv, receiverVars, netVars
<1> QED BY <1>1, <1>2, <1>3, <1>4, <1>5, <1>6 DEF SenderStep

\* A frame with timestamps goes into one row of each table.
LEMMA FiledRow ==
  ASSUME TypeOK, NEW r \in Receivers, NEW k \in Numbers, NEW spare \in BOOLEAN,
         ~Overrun(total[r], spare), FileTimes(r, k, TRUE)
  PROVE  /\ total[r] + 1 <= ReceiverMax
         /\ total' = [total EXCEPT ![r] = @ + 1]
         /\ table' \in [Receivers -> [Columns -> [Rows -> Numbers \cup {Unset}]]]
         /\ \A q \in Receivers : q # r => table'[q] = table[q]
         /\ \A c \in Columns : \A i \in Rows :
              table'[r][c][i] = IF i = RowOf(c, total[r]) THEN k ELSE table[r][c][i]
<1> DEFINE filed == [c \in Columns |-> [i \in DOMAIN table[r][c] |->
                       IF i = RowOf(c, total[r]) THEN k ELSE table[r][c][i]]]
<1>1. total[r] \in Nat /\ table[r] \in [Columns -> [Rows -> Numbers \cup {Unset}]]
  BY DEF TypeOK, Rows
<1>2. filed \in [Columns -> [Rows -> Numbers \cup {Unset}]]
  <2> SUFFICES ASSUME NEW c \in Columns
               PROVE  [i \in DOMAIN table[r][c] |->
                         IF i = RowOf(c, total[r]) THEN k ELSE table[r][c][i]]
                        \in [Rows -> Numbers \cup {Unset}]
    OBVIOUS
  <2> QED BY <1>1
<1>3. \A c \in Columns : \A i \in Rows :
        filed[c][i] = IF i = RowOf(c, total[r]) THEN k ELSE table[r][c][i]
  BY <1>1
<1>4. table' = [table EXCEPT ![r] = filed] /\ total' = [total EXCEPT ![r] = @ + 1]
  BY DEF FileTimes
<1> HIDE DEF filed
<1>5. /\ table' \in [Receivers -> [Columns -> [Rows -> Numbers \cup {Unset}]]]
      /\ table'[r] = filed
      /\ \A q \in Receivers : q # r => table'[q] = table[q]
  BY <1>2, <1>4 DEF TypeOK, Rows
<1>6. total[r] + 1 <= ReceiverMax
  <2>1. "nic_user" \in Columns /\ RowOf("nic_user", total[r]) = total[r] + 1
    BY DEF Columns, RowOf
  <2> QED BY <1>1, <2>1, EchoAssumption DEF Overrun
<1> QED BY <1>3, <1>4, <1>5, <1>6

\* do_recv, by what it does to the tables.
LEMMA RecvFrameCases ==
  ASSUME TypeOK, NEW r \in Receivers, NEW stamped \in Stamped, NEW spare \in SpareWord,
         RecvFrame(r, stamped, spare)
  PROVE  /\ frames[r] # <<>> /\ Head(frames[r]) \in Numbers
         /\ frames' = [frames EXCEPT ![r] = Tail(@)] /\ Tail(frames[r]) \in Seq(Numbers)
         /\ \/ UNCHANGED <<table, total>>
            \/ ~Overrun(total[r], spare) /\ FileTimes(r, Head(frames[r]), TRUE)
<1>1. /\ frames[r] # <<>> /\ Head(frames[r]) \in Numbers
      /\ frames' = [frames EXCEPT ![r] = Tail(@)] /\ Tail(frames[r]) \in Seq(Numbers)
  BY DEF RecvFrame, TypeOK
<1>2. CASE stamped /\ Overrun(total[r], spare)
  BY <1>1, <1>2 DEF RecvFrame
<1>3. CASE stamped /\ ~Overrun(total[r], spare)
  <2>1. stamped = TRUE
    BY <1>3, EchoAssumption
  <2>2. FileTimes(r, Head(frames[r]), stamped)
    BY <1>3 DEF RecvFrame
  <2>3. FileTimes(r, Head(frames[r]), TRUE)
    BY <2>1, <2>2, Zenon
  <2> QED BY <1>1, <1>3, <2>3, Zenon
<1>4. CASE ~stamped
  BY <1>1, <1>4 DEF RecvFrame, FileTimes
<1> QED BY <1>1, <1>2, <1>3, <1>4

LEMMA ReceiverStepRows ==
  ASSUME TypeOK, \A q \in Receivers : RowsInv(q), NEW r \in Receivers, ReceiverStep(r)
  PROVE  /\ table' \in [Receivers -> [Columns -> [Rows -> Numbers \cup {Unset}]]]
         /\ total' \in [Receivers -> Nat]
         /\ \A q \in Receivers : RowsInv(q)'
<1>1. CASE UNCHANGED <<table, total>>
  BY <1>1 DEF TypeOK, RowsInv, Rows
<1>2. ASSUME NEW k \in Numbers, NEW spare \in BOOLEAN,
             ~Overrun(total[r], spare), FileTimes(r, k, TRUE)
      PROVE  /\ table' \in [Receivers -> [Columns -> [Rows -> Numbers \cup {Unset}]]]
             /\ total' \in [Receivers -> Nat]
             /\ \A q \in Receivers : RowsInv(q)'
  <2>1. /\ total[r] + 1 <= ReceiverMax
        /\ total' = [total EXCEPT ![r] = @ + 1]
        /\ table' \in [Receivers -> [Columns -> [Rows -> Numbers \cup {Unset}]]]
        /\ \A q \in Receivers : q # r => table'[q] = table[q]
        /\ \A c \in Columns : \A i \in Rows :
             table'[r][c][i] = IF i = RowOf(c, total[r]) THEN k ELSE table[r][c][i]
    BY <1>2, FiledRow
  <2>2. total' \in [Receivers -> Nat] /\ total[r] \in Nat /\ total'[r] = total[r] + 1
        /\ \A q \in Receivers : q # r => total'[q] = total[q]
    BY <2>1 DEF TypeOK
  <2>3. \A i \in Rows :
          /\ table'[r]["nic_user"][i]
               = IF i = total[r] + 1 THEN k ELSE table[r]["nic_user"][i]
          /\ table'[r]["kernel_user"][i]
               = IF i = total[r] + 1 THEN k ELSE table[r]["kernel_user"][i]
          /\ table'[r]["nic_kernel"][i]
               = IF i = total[r] THEN k ELSE table[r]["nic_kernel"][i]
    BY <2>1 DEF Columns, RowOf
  <2>4. ASSUME NEW i \in Rows, 0 < i, i <= total[r] + 1
        PROVE  /\ table'[r]["nic_user"][i] = table'[r]["nic_kernel"][i - 1]
               /\ table'[r]["kernel_user"][i] = table'[r]["nic_kernel"][i - 1]
    <3>1. i - 1 \in Rows /\ i \in Int
      BY <2>4, EchoAssumption DEF Rows
    <3>2. CASE i = total[r] + 1
      BY <2>2, <2>3, <3>1, <3>2
    <3>3. CASE i # total[r] + 1
      <4>1. i <= total[r] /\ i - 1 # total[r]
        BY <2>2, <2>4, <3>1, <3>3
      <4> QED BY <2>3, <2>4, <3>1, <3>3, <4>1 DEF RowsInv
    <3> QED BY <3>2, <3>3
  <2>5. RowsInv(r)'
    <3>1. \A i \in Rows : i < total[r] + 1 => table'[r]["nic_kernel"][i] \in Numbers
      BY <2>2, <2>3 DEF RowsInv, Rows
    <3> QED BY <2>1, <2>2, <2>4, <3>1 DEF RowsInv, Rows, Numbers
  <2>6. \A q \in Receivers : q # r => RowsInv(q)'
    BY <2>1, <2>2 DEF RowsInv, Rows
  <2> QED BY <2>1, <2>2, <2>5, <2>6
<1>3. ASSUME NEW stamped \in Stamped, NEW spare \in SpareWord, RecvFrame(r, stamped, spare),
             ~UNCHANGED <<table, total>>
      PROVE  \E k \in Numbers, more \in BOOLEAN :
               ~Overrun(total[r], more) /\ FileTimes(r, k, TRUE)
  BY <1>3, RecvFrameCases, EchoAssumption
<1>4. CASE StartReceiver(r) \/ StoreLatencies(r) \/ ReceiverFails(r)
  BY <1>1, <1>4 DEF StartReceiver, StoreLatencies, ReceiverFails
<1> QED BY <1>1, <1>2, <1>3, <1>4 DEF ReceiverStep

LEMMA ReceiverStepType ==
  ASSUME TypeOK, SenderInv, \A q \in Receivers : RowsInv(q),
         NEW r \in Receivers, ReceiverStep(r)
  PROVE  TypeOK' /\ SenderInv' /\ \A q \in Receivers : RowsInv(q)'
<1>1. /\ table' \in [Receivers -> [Columns -> [0..ReceiverMax - 1 -> Numbers \cup {Unset}]]]
      /\ total' \in [Receivers -> Nat]
      /\ \A q \in Receivers : RowsInv(q)'
  BY ReceiverStepRows DEF Rows
<1>2. UNCHANGED <<senderVars, faults>> /\ SenderInv'
  BY DEF ReceiverStep, StartReceiver, StoreLatencies, ReceiverFails, RecvFrame, netVars,
         SenderInv, senderVars
<1>3. CASE StartReceiver(r) \/ ReceiverFails(r)
  BY <1>1, <1>2, <1>3 DEF StartReceiver, ReceiverFails, TypeOK, senderVars, netVars
<1>4. CASE StoreLatencies(r)
  <2> DEFINE rows == [i \in 1..total[r] |-> [c \in Columns |-> table[r][c][i - 1]]]
  <2>1. total[r] \in 0..ReceiverMax
    BY DEF TypeOK, RowsInv
  <2>2. ASSUME NEW i \in 1..total[r]
        PROVE  [c \in Columns |-> table[r][c][i - 1]] \in [Columns -> Numbers \cup {Unset}]
    <3>1. i - 1 \in Rows
      BY <2>1, EchoAssumption DEF Rows
    <3>2. table[r] \in [Columns -> [Rows -> Numbers \cup {Unset}]]
      BY DEF TypeOK, Rows
    <3>3. \A c \in Columns : table[r][c][i - 1] \in Numbers \cup {Unset}
      BY <3>1, <3>2
    <3> QED BY <3>3
  <2>3. rows \in Seq([Columns -> Numbers \cup {Unset}])
    <3> DEFINE Row == [Columns -> Numbers \cup {Unset}]
    <3>1. \A i \in 1..total[r] : rows[i] \in Row
      BY <2>2
    <3>2. rows = [i \in 1..total[r] |-> rows[i]]
      OBVIOUS
    <3>3. total[r] \in Nat
      BY <2>1, EchoAssumption
    <3> HIDE DEF rows, Row
    <3>4. rows \in [1..total[r] -> Row]
      BY <3>1, <3>2
    <3>5. rows \in Seq(Row)
      BY <3>3, <3>4
    <3> QED BY <3>5 DEF Row
  <2>4. stored' = [stored EXCEPT ![r] = rows]
    BY <1>4 DEF StoreLatencies
  <2> HIDE DEF rows
  <2>5. stored' \in [Receivers -> Seq([Columns -> Numbers \cup {Unset}])]
    BY <2>3, <2>4 DEF TypeOK
  <2> QED BY <1>1, <1>2, <1>4, <2>5 DEF StoreLatencies, TypeOK, senderVars, netVars
<1>5. ASSUME NEW stamped \in Stamped, NEW spare \in SpareWord, RecvFrame(r, stamped, spare)
      PROVE  TypeOK'
  <2>1. /\ Head(frames[r]) \in Numbers
        /\ frames' = [frames EXCEPT ![r] = Tail(@)] /\ Tail(frames[r]) \in Seq(Numbers)
    BY <1>5, RecvFrameCases
  <2>2. frames' \in [Receivers -> Seq(Numbers)]
    BY <2>1 DEF TypeOK
  <2>3. \/ UNCHANGED back
        \/ back' = [back EXCEPT ![r] = Append(@, Head(frames[r]))]
    BY <1>5 DEF RecvFrame
  <2>4. back' \in [Receivers -> Seq(Numbers)]
    <3>1. Append(back[r], Head(frames[r])) \in Seq(Numbers)
      BY <2>1 DEF TypeOK
    <3> QED BY <2>3, <3>1 DEF TypeOK
  <2>5. pktNum' \in [Receivers -> Nat]
    BY <1>5 DEF RecvFrame, TypeOK
  <2>6. rx' \in [Receivers -> {"down", "recv", "store", "done", "failed", "undefined"}]
    BY <1>5 DEF RecvFrame, RecvLoop, TypeOK
  <2>7. stored' = stored
    BY <1>5 DEF RecvFrame
  <2> QED BY <1>1, <1>2, <2>2, <2>4, <2>5, <2>6, <2>7 DEF TypeOK, senderVars
<1>6. TypeOK'
  BY <1>3, <1>4, <1>5 DEF ReceiverStep
<1> QED BY <1>1, <1>2, <1>6

LEMMA NetworkStepType ==
  ASSUME TypeOK, SenderInv, \A q \in Receivers : RowsInv(q),
         NEW r \in Receivers, NetworkStep(r)
  PROVE  TypeOK' /\ SenderInv' /\ \A q \in Receivers : RowsInv(q)'
<1>1. UNCHANGED <<senderVars, receiverVars>>
  BY DEF NetworkStep, Unread, NetworkFault
<1>2. SenderInv' /\ \A q \in Receivers : RowsInv(q)'
  BY <1>1 DEF SenderInv, RowsInv, Rows, senderVars, receiverVars
<1>3. frames[r] \in Seq(Numbers) /\ back[r] \in Seq(Numbers)
  BY DEF TypeOK
<1>4. CASE Unread(r)
  <2>1. frames' \in [Receivers -> Seq(Numbers)] /\ back' \in [Receivers -> Seq(Numbers)]
    <3>1. \A q \in Seq(Numbers) : q # <<>> => Tail(q) \in Seq(Numbers)
      OBVIOUS
    <3>2. \/ frames[r] # <<>> /\ frames' = [frames EXCEPT ![r] = Tail(@)] /\ back' = back
          \/ back[r] # <<>> /\ back' = [back EXCEPT ![r] = Tail(@)] /\ frames' = frames
      BY <1>4 DEF Unread
    <3> QED BY <1>3, <3>1, <3>2 DEF TypeOK
  <2> QED BY <1>1, <1>2, <1>4, <2>1 DEF Unread, TypeOK, senderVars, receiverVars
<1>5. ASSUME NEW kind \in FaultKinds, NetworkFault(kind, r)
      PROVE  TypeOK'
  <2>1. frames' \in [Receivers -> Seq(Numbers)] /\ back' \in [Receivers -> Seq(Numbers)]
    <3>1. PICK q \in Seq(Numbers) :
               \/ frames' = [frames EXCEPT ![r] = q] /\ back' = back
               \/ back' = [back EXCEPT ![r] = q] /\ frames' = frames
      BY <1>3, <1>5, OutcomesSeq DEF NetworkFault
    <3> QED BY <3>1 DEF TypeOK
  <2>2. faults' \in [FaultKinds -> Nat]
    BY <1>5 DEF NetworkFault, TypeOK
  <2> QED BY <1>1, <2>1, <2>2 DEF TypeOK, senderVars, receiverVars
<1> QED BY <1>2, <1>4, <1>5 DEF NetworkStep

LEMMA SendFrameType ==
  ASSUME TypeOK, SenderInv, \A q \in Receivers : RowsInv(q), SendFrame
  PROVE  TypeOK' /\ SenderInv' /\ \A q \in Receivers : RowsInv(q)'
<1>1. sent' \in 0..SenderMax /\ sent \in Numbers
  BY EchoAssumption DEF SendFrame, TypeOK, Numbers
<1>2. frames' \in [Receivers -> Seq(Numbers)]
  BY <1>1 DEF SendFrame, TypeOK
<1>3. TypeOK'
  BY <1>1, <1>2 DEF SendFrame, TypeOK, receiverVars
<1> QED BY <1>3 DEF SendFrame, SenderInv, RowsInv, Rows, receiverVars

\* The types and the invariants about the sender and the rows, in every step.
LEMMA NextType ==
  ASSUME TypeOK, SenderInv, \A r \in Receivers : RowsInv(r), [Next]_vars
  PROVE  TypeOK' /\ SenderInv' /\ \A r \in Receivers : RowsInv(r)'
<1>1. CASE SenderStep
  <2>1. UNCHANGED <<total, table>>
    BY <1>1 DEF SenderStep, StartSender, Bind, RecvEcho, StoreEchoes, JoinThread, SenderFails,
                receiverVars
  <2> QED BY <1>1, <2>1, SenderStepType DEF RowsInv, Rows
<1>2. CASE SendFrame
  BY <1>2, SendFrameType
<1>3. CASE UNCHANGED vars
  BY <1>3 DEF TypeOK, SenderInv, RowsInv, Rows, vars, senderVars, receiverVars, netVars
<1>4. CASE \E r \in Receivers : ReceiverStep(r) \/ NetworkStep(r)
  BY <1>4, ReceiverStepType, NetworkStepType
<1> QED BY <1>1, <1>2, <1>3, <1>4, NextCases

LEMMA InitEcho ==
  ASSUME Init
  PROVE  TypeOK /\ EchoInv
<1>1. \A r \in Receivers : /\ table[r] \in [Columns -> [Rows -> Numbers \cup {Unset}]]
                           /\ total[r] = 0 /\ stored[r] = <<>> /\ frames[r] = <<>>
  BY DEF Init, Rows, NoFile
<1>2. TypeOK
  BY EchoAssumption DEF Init, TypeOK, NoFile
<1>3. SenderInv
  BY DEF Init, SenderInv
<1>4. \A r \in Receivers : RowsInv(r) /\ OrderInv(r)
  BY <1>1, EchoAssumption DEF RowsInv, OrderInv, Rows
<1>5. LatenciesInOrder
  BY <1>1 DEF LatenciesInOrder
<1> QED BY <1>2, <1>3, <1>4, <1>5 DEF EchoInv

-----------------------------------------------------------------------------
(* The order of the frames *)

\* w is q without its k-th element.
Without(w, q, k) ==
  /\ Len(w) = Len(q) - 1
  /\ \A j \in 1..Len(q) - 1 : w[j] = IF j < k THEN q[j] ELSE q[j + 1]

LEMMA TakenIsFirst ==
  ASSUME NEW S, NEW q \in Seq(S), q # <<>>
  PROVE  /\ Without(Tail(q), q, 1) /\ 1 \in 1..Len(q) /\ Head(q) = q[1]
  BY DEF Without

\* A frame that is lost, or read and not filed, leaves the others in order.
LEMMA StaysInOrder ==
  ASSUME TypeOK, NEW r \in Receivers, OrderInv(r),
         sent' = sent, total'[r] = total[r], table'[r] = table[r],
         \/ frames'[r] = frames[r]
         \/ \E k \in 1..Len(frames[r]) : Without(frames'[r], frames[r], k)
  PROVE  OrderInv(r)'
<1>1. CASE frames'[r] = frames[r]
  BY <1>1 DEF OrderInv, Rows, Numbers
<1>2. ASSUME NEW k \in 1..Len(frames[r]), Without(frames'[r], frames[r], k)
      PROVE  OrderInv(r)'
  <2> DEFINE q == frames[r]
             w == frames'[r]
             at(j) == IF j < k THEN j ELSE j + 1
  <2>1. q \in Seq(Numbers) /\ Len(q) \in Nat
    BY DEF TypeOK
  <2>2. Len(w) = Len(q) - 1
    BY <1>2 DEF Without
  <2>3. \A j \in 1..Len(w) : at(j) \in 1..Len(q) /\ w[j] = q[at(j)]
    BY <1>2, <2>1, <2>2 DEF Without
  <2>4. \A i, j \in 1..Len(w) : i < j => at(i) < at(j)
    BY <2>1, <2>2
  <2>5. \A i \in 1..Len(w) : w[i] < sent
    BY <2>3 DEF OrderInv
  <2>6. \A i, j \in 1..Len(w) : i < j => w[i] < w[j]
    BY <2>3, <2>4 DEF OrderInv
  <2>7. \A i \in Rows : i < total[r] =>
          \A j \in 1..Len(w) : table[r]["nic_kernel"][i] < w[j]
    BY <2>3 DEF OrderInv
  <2> HIDE DEF at
  <2> QED BY <2>5, <2>6, <2>7 DEF OrderInv, Rows, Numbers
<1> QED BY <1>1, <1>2

LEMMA FiledInOrder ==
  ASSUME TypeOK, NEW r \in Receivers, RowsInv(r), OrderInv(r), sent' = sent,
         NEW spare \in BOOLEAN, ~Overrun(total[r], spare),
         frames[r] # <<>>, frames' = [frames EXCEPT ![r] = Tail(@)],
         FileTimes(r, Head(frames[r]), TRUE)
  PROVE  OrderInv(r)'
<1> DEFINE k == Head(frames[r])
           n == total[r]
           old == table[r]["nic_kernel"]
           new == table'[r]["nic_kernel"]
<1>1. /\ frames[r] \in Seq(Numbers) /\ k \in Numbers /\ k = frames[r][1] /\ n \in Nat
      /\ 1 \in 1..Len(frames[r]) /\ Len(frames[r]) \in Nat /\ sent \in Int
  BY DEF TypeOK
<1>2. /\ n + 1 <= ReceiverMax /\ total'[r] = n + 1
      /\ \A i \in Rows : new[i] = IF i = n THEN k ELSE old[i]
  <2>1. /\ n + 1 <= ReceiverMax /\ total' = [total EXCEPT ![r] = @ + 1]
        /\ \A c \in Columns : \A i \in Rows :
             table'[r][c][i] = IF i = RowOf(c, n) THEN k ELSE table[r][c][i]
    BY <1>1, FiledRow
  <2>2. "nic_kernel" \in Columns /\ RowOf("nic_kernel", n) = n
    BY DEF Columns, RowOf
  <2>3. total'[r] = n + 1
    BY <2>1 DEF TypeOK
  <2> QED BY <2>1, <2>2, <2>3
<1>3. frames'[r] = Tail(frames[r])
  BY DEF TypeOK
<1>4. /\ Len(frames'[r]) = Len(frames[r]) - 1
      /\ \A j \in 1..Len(frames'[r]) :
           frames'[r][j] = frames[r][j + 1] /\ j + 1 \in 1..Len(frames[r]) /\ 1 < j + 1
  <2> DEFINE q == frames[r]
  <2>1. q \in Seq(Numbers) /\ q # <<>>
    BY <1>1
  <2> HIDE DEF q
  <2>2. Len(Tail(q)) = Len(q) - 1 /\ \A j \in 1..Len(Tail(q)) : Tail(q)[j] = q[j + 1]
    BY <2>1
  <2>3. \A j \in 1..Len(Tail(q)) : j + 1 \in 1..Len(q) /\ 1 < j + 1
    BY <2>1, <2>2
  <2> QED BY <1>3, <2>2, <2>3 DEF q
<1>5. k < sent /\ \A j \in 1..Len(frames'[r]) : k < frames'[r][j]
  BY <1>1, <1>4 DEF OrderInv
<1>6. \A i \in 1..Len(frames'[r]) :
        /\ frames'[r][i] < sent
        /\ \A j \in 1..Len(frames'[r]) : i < j => frames'[r][i] < frames'[r][j]
  BY <1>1, <1>4 DEF OrderInv
<1>7. ASSUME NEW i \in Rows, i < n + 1
      PROVE  /\ new[i] \in Numbers /\ new[i] < sent
             /\ \A j \in 1..Len(frames'[r]) : new[i] < frames'[r][j]
             /\ 0 < i => new[i - 1] < new[i]
  <2>1. i \in Int /\ (0 < i => i - 1 \in Rows /\ i - 1 < n /\ i - 1 # n)
    BY <1>1, <1>7, EchoAssumption DEF Rows
  <2>2. 0 < i => new[i - 1] = old[i - 1] /\ old[i - 1] < k
    BY <1>1, <1>2, <2>1 DEF OrderInv
  <2>3. CASE i = n
    BY <1>1, <1>2, <1>5, <2>2, <2>3
  <2>4. CASE i # n
    <3>1. i < n /\ new[i] = old[i]
      BY <1>1, <1>2, <1>7, <2>1, <2>4
    <3>2. /\ old[i] \in Numbers /\ old[i] < sent /\ (0 < i => old[i - 1] < old[i])
          /\ \A j \in 1..Len(frames[r]) : old[i] < frames[r][j]
      BY <3>1 DEF OrderInv
    <3>3. \A j \in 1..Len(frames'[r]) : old[i] < frames'[r][j]
      BY <1>4, <3>2
    <3> QED BY <2>2, <3>1, <3>2, <3>3
  <2> QED BY <2>3, <2>4
<1> HIDE DEF k, n, old
<1> QED BY <1>2, <1>6, <1>7 DEF OrderInv, Rows, Numbers

\* Faults are not taken back.
LEMMA InOrderBefore ==
  ASSUME TypeOK, [Next]_vars, InOrder'
  PROVE  InOrder
<1>1. CASE UNCHANGED faults
  BY <1>1 DEF InOrder
<1>2. ASSUME NEW r \in Receivers, NEW kind \in FaultKinds, NetworkFault(kind, r)
      PROVE  InOrder
  <2>1. faults' = [faults EXCEPT ![kind] = @ + 1] /\ faults[kind] \in Nat
    BY <1>2 DEF NetworkFault, TypeOK
  <2>2. "dup" \in FaultKinds /\ "swap" \in FaultKinds
    BY DEF FaultKinds
  <2>3. faults'["dup"] = 0 /\ faults'["swap"] = 0
    BY DEF InOrder
  <2>4. kind # "dup" /\ kind # "swap"
    BY <2>1, <2>2, <2>3 DEF TypeOK
  <2> QED BY <2>1, <2>2, <2>3, <2>4 DEF InOrder, TypeOK
<1>3. CASE SenderStep
  BY <1>1, <1>3 DEF SenderStep, StartSender, Bind, RecvEcho, StoreEchoes, JoinThread, SenderFails,
                    netVars
<1>4. CASE SendFrame
  BY <1>1, <1>4 DEF SendFrame
<1>5. ASSUME NEW r \in Receivers, ReceiverStep(r) \/ Unread(r)
      PROVE  InOrder
  BY <1>1, <1>5 DEF ReceiverStep, StartReceiver, StoreLatencies, ReceiverFails, RecvFrame, Unread,
                    netVars
<1> QED BY <1>1, <1>2, <1>3, <1>4, <1>5, NextCases DEF NetworkStep, vars, netVars

LEMMA OrderStep ==
  ASSUME TypeOK, \A q \in Receivers : RowsInv(q), [Next]_vars, InOrder',
         NEW r \in Receivers, OrderInv(r)
  PROVE  OrderInv(r)'
<1>1. CASE UNCHANGED <<sent, total, table, frames>>
  BY <1>1, StaysInOrder
<1>2. CASE SenderStep
  BY <1>1, <1>2 DEF SenderStep, StartSender, Bind, RecvEcho, StoreEchoes, JoinThread, SenderFails,
                    receiverVars, netVars
<1>3. CASE SendFrame
  <2> DEFINE q == frames[r]
  <2>1. /\ q \in Seq(Numbers) /\ sent \in Nat /\ sent' = sent + 1 /\ frames'[r] = Append(q, sent)
        /\ total' = total /\ table' = table
    BY <1>3 DEF SendFrame, TypeOK, receiverVars
  <2>2. \A i \in Rows : i < total[r] => table[r]["nic_kernel"][i] \in Int
    BY DEF OrderInv, Numbers
  <2>3. \A j \in 1..Len(q) : q[j] \in Int
    <3>1. \A j \in 1..Len(q) : q[j] \in Numbers
      <4> HIDE DEF q
      <4> QED BY <2>1
    <3> QED BY <3>1 DEF Numbers
  <2> DEFINE w == frames'[r]
  <2>4. /\ Len(w) = Len(q) + 1 /\ Len(q) \in Nat /\ w[Len(q) + 1] = sent
        /\ \A j \in 1..Len(w) : j # Len(q) + 1 => j \in 1..Len(q) /\ w[j] = q[j]
    <3> HIDE DEF q
    <3> QED BY <2>1
  <2>5. \A i \in 1..Len(w) :
          /\ w[i] < sent + 1
          /\ \A j \in 1..Len(w) : i < j => w[i] < w[j]
    BY <2>1, <2>3, <2>4 DEF OrderInv
  <2>6. \A i \in Rows : i < total[r] =>
          /\ table[r]["nic_kernel"][i] < sent + 1
          /\ \A j \in 1..Len(w) : table[r]["nic_kernel"][i] < w[j]
    BY <2>1, <2>2, <2>3, <2>4 DEF OrderInv
  <2> HIDE DEF w
  <2> QED BY <2>1, <2>5, <2>6 DEF OrderInv, Rows, Numbers, w
<1>4. ASSUME NEW q \in Receivers, ReceiverStep(q)
      PROVE  OrderInv(r)'
  <2>1. sent' = sent
    BY <1>4 DEF ReceiverStep, StartReceiver, StoreLatencies, ReceiverFails, RecvFrame, senderVars
  <2>2. CASE StartReceiver(q) \/ StoreLatencies(q) \/ ReceiverFails(q)
    BY <1>1, <2>1, <2>2 DEF StartReceiver, StoreLatencies, ReceiverFails, netVars
  <2>3. ASSUME NEW stamped \in Stamped, NEW spare \in SpareWord, RecvFrame(q, stamped, spare)
        PROVE  OrderInv(r)'
    <3>1. /\ frames[q] # <<>> /\ Head(frames[q]) \in Numbers
          /\ frames' = [frames EXCEPT ![q] = Tail(@)]
          /\ \/ UNCHANGED <<table, total>>
             \/ ~Overrun(total[q], spare) /\ FileTimes(q, Head(frames[q]), TRUE)
      BY <2>3, RecvFrameCases
    <3>2. spare \in BOOLEAN
      BY EchoAssumption
    <3>3. CASE r = q /\ UNCHANGED <<table, total>>
      <4>1. 1 \in 1..Len(frames[r]) /\ Without(frames'[r], frames[r], 1)
        BY <3>1, <3>3, TakenIsFirst DEF TypeOK
      <4> QED BY <2>1, <3>3, <4>1, StaysInOrder
    <3>4. CASE r = q /\ ~Overrun(total[q], spare) /\ FileTimes(q, Head(frames[q]), TRUE)
      BY <2>1, <3>1, <3>2, <3>4, FiledInOrder
    <3>5. CASE r # q
      <4>1. total'[r] = total[r] /\ table'[r] = table[r]
        BY <3>1, <3>2, <3>5, FiledRow DEF TypeOK
      <4>2. frames'[r] = frames[r]
        BY <3>1, <3>5 DEF TypeOK
      <4> QED BY <2>1, <4>1, <4>2, StaysInOrder
    <3> QED BY <3>1, <3>3, <3>4, <3>5
  <2> QED BY <1>4, <2>2, <2>3 DEF ReceiverStep
<1>5. ASSUME NEW q \in Receivers, NetworkStep(q)
      PROVE  OrderInv(r)'
  <2>1. UNCHANGED <<sent, total, table>>
    BY <1>5 DEF NetworkStep, Unread, NetworkFault, senderVars, receiverVars
  <2>2. CASE frames'[r] = frames[r]
    BY <2>1, <2>2, StaysInOrder
  <2>3. CASE frames'[r] # frames[r] /\ Unread(q)
    <3>1. q = r /\ frames[r] # <<>> /\ frames'[r] = Tail(frames[r])
      BY <2>3 DEF Unread, TypeOK
    <3>2. 1 \in 1..Len(frames[r]) /\ Without(frames'[r], frames[r], 1)
      BY <3>1, TakenIsFirst DEF TypeOK
    <3> QED BY <2>1, <3>2, StaysInOrder
  <2>4. ASSUME NEW kind \in FaultKinds, NetworkFault(kind, q), frames'[r] # frames[r]
        PROVE  OrderInv(r)'
    <3>1. kind = "lose"
      <4>1. faults' = [faults EXCEPT ![kind] = @ + 1] /\ faults[kind] \in Nat
        BY <2>4 DEF NetworkFault, TypeOK
      <4>2. kind # "dup" /\ kind # "swap"
        BY <4>1 DEF InOrder, TypeOK
      <4> QED BY <4>2 DEF FaultKinds
    <3>2. PICK w \in Outcomes(kind, frames[r]) : frames'[r] = w
      BY <2>4 DEF NetworkFault, TypeOK
    <3>3. PICK k \in 1..Len(frames[r]) : frames'[r] = RemoveAt(frames[r], k)
      BY <3>1, <3>2 DEF Outcomes
    <3>4. Without(frames'[r], frames[r], k)
      BY <3>3, RemoveAtElements DEF Without, TypeOK
    <3> QED BY <2>1, <3>4, StaysInOrder
  <2> QED BY <1>5, <2>2, <2>3, <2>4 DEF NetworkStep
<1>6. CASE UNCHANGED vars
  BY <1>1, <1>6 DEF vars, senderVars, receiverVars, netVars
<1> QED BY <1>2, <1>3, <1>4, <1>5, <1>6, NextCases

-----------------------------------------------------------------------------
(* Every frame's latency is filed once *)

\* The network has duplicated nothing, and one receiver at most was started.
Solo ==
  /\ faults["dup"] = 0
  /\ \A r, q \in Receivers : rx[r] # "down" /\ rx[q] # "down" => r = q

\* What the sender stores is what it has filed, and it has filed enough.
FiledAll ==
  /\ main \in {"store", "join", "done"} => Len(echoes) = SenderMax
  /\ main = "done" => file = echoes

\* The numbers on their way to and from r, and those filed, were sent.
OnceSent(r) ==
  \A k \in Numbers : Holds(frames[r], k) \/ Holds(back[r], k) \/ Holds(echoes, k) => k < sent

\* Each of them is at one place, once.
OncePlaced(r) ==
  /\ Once(frames[r]) /\ Once(back[r])
  /\ rx[r] = "down" => back[r] = <<>>
  /\ rx[r] # "down" => \A k \in Numbers :
       /\ ~(Holds(frames[r], k) /\ Holds(back[r], k))
       /\ ~(Holds(frames[r], k) /\ Holds(echoes, k))
       /\ ~(Holds(back[r], k) /\ Holds(echoes, k))

OnceInv ==
  /\ Once(echoes)
  /\ (\A r \in Receivers : rx[r] = "down") => echoes = <<>>
  /\ \A r \in Receivers : OnceSent(r) /\ OncePlaced(r)

\* A program that was started is not started again, nor is a fault undone.
LEMMA SoloBefore ==
  ASSUME TypeOK, [Next]_vars, Solo'
  PROVE  Solo
<1>1. ASSUME NEW r \in Receivers, rx[r] # "down"
      PROVE  rx'[r] # "down"
  <2>1. CASE UNCHANGED rx
    BY <1>1, <2>1
  <2>2. ASSUME NEW q \in Receivers, ReceiverStep(q)
        PROVE  rx'[r] # "down"
    <3>1. CASE StartReceiver(q) \/ StoreLatencies(q) \/ ReceiverFails(q)
      BY <1>1, <3>1 DEF StartReceiver, StoreLatencies, ReceiverFails, TypeOK
    <3>2. ASSUME NEW stamped \in Stamped, NEW spare \in SpareWord, RecvFrame(q, stamped, spare)
          PROVE  rx'[r] # "down"
      BY <1>1, <3>2 DEF RecvFrame, RecvLoop, TypeOK
    <3> QED BY <2>2, <3>1, <3>2 DEF ReceiverStep
  <2>3. UNCHANGED rx \/ \E q \in Receivers : ReceiverStep(q)
    BY NextCases DEF SenderStep, StartSender, Bind, RecvEcho, StoreEchoes, JoinThread, SenderFails,
                     SendFrame, NetworkStep, Unread, NetworkFault, vars, receiverVars
  <2> QED BY <2>1, <2>2, <2>3
<1>2. faults["dup"] = 0
  <2>1. CASE UNCHANGED faults
    BY <2>1 DEF Solo
  <2>2. ASSUME NEW r \in Receivers, NEW kind \in FaultKinds, NetworkFault(kind, r)
        PROVE  faults["dup"] = 0
    <3>1. faults' = [faults EXCEPT ![kind] = @ + 1] /\ faults[kind] \in Nat
          /\ faults'["dup"] = 0 /\ "dup" \in FaultKinds
      BY <2>2 DEF NetworkFault, TypeOK, Solo, FaultKinds
    <3>2. kind # "dup"
      BY <3>1 DEF TypeOK
    <3> QED BY <3>1, <3>2 DEF TypeOK
  <2>3. UNCHANGED faults \/ \E r \in Receivers, kind \in FaultKinds : NetworkFault(kind, r)
    BY NextCases DEF SenderStep, StartSender, Bind, RecvEcho, StoreEchoes, JoinThread, SenderFails,
                     SendFrame, ReceiverStep, StartReceiver, StoreLatencies, ReceiverFails,
                     RecvFrame, NetworkStep, Unread, vars, netVars
  <2> QED BY <2>1, <2>2, <2>3
<1> QED BY <1>1, <1>2 DEF Solo

\* What is lost, overtaken or left alone stays apart.
LEMMA ApartStays ==
  ASSUME NEW r \in Receivers, OnceSent(r), OncePlaced(r), TypeOK,
         StandsIn(frames'[r], frames[r]), StandsIn(back'[r], back[r]), back'[r] \in Seq(Numbers),
         echoes' = echoes, sent' = sent,
         rx'[r] = "down" <=> rx[r] = "down"
  PROVE  OnceSent(r)' /\ OncePlaced(r)'
<1>1. /\ Once(frames[r]) => Once(frames'[r])
      /\ Once(back[r]) => Once(back'[r])
      /\ \A k : Holds(frames'[r], k) => Holds(frames[r], k)
      /\ \A k : Holds(back'[r], k) => Holds(back[r], k)
  BY StandsOnce
<1>2. back[r] = <<>> => back'[r] = <<>>
  <2> SUFFICES ASSUME back[r] = <<>>, back'[r] # <<>> PROVE FALSE
    OBVIOUS
  <2>1. 1 \in 1..Len(back'[r])
    OBVIOUS
  <2>2. Holds(back'[r], back'[r][1])
    BY <2>1 DEF Holds
  <2>3. Holds(back[r], back'[r][1])
    BY <1>1, <2>2
  <2> QED BY <2>3 DEF Holds
<1>3. OnceSent(r)'
  BY <1>1 DEF OnceSent
<1>4. OncePlaced(r)'
  BY <1>1, <1>2 DEF OncePlaced
<1> QED BY <1>3, <1>4

LEMMA QueueItself ==
  ASSUME TypeOK, NEW r \in Receivers
  PROVE  StandsIn(frames[r], frames[r]) /\ StandsIn(back[r], back[r])
<1>1. frames[r] \in Seq(Numbers) /\ back[r] \in Seq(Numbers)
  BY DEF TypeOK
<1>2. Leaves(frames[r], frames[r]) /\ Leaves(back[r], back[r])
  BY DEF Leaves
<1> QED BY <1>1, <1>2, NetworkOnce

\* A new frame is nowhere yet.
LEMMA ApartSent ==
  ASSUME TypeOK, SendFrame, NEW r \in Receivers, OnceSent(r), OncePlaced(r)
  PROVE  OnceSent(r)' /\ OncePlaced(r)'
<1>1. /\ frames[r] \in Seq(Numbers) /\ sent \in Numbers /\ sent' = sent + 1 /\ sent \in Nat
      /\ frames'[r] = Append(frames[r], sent) /\ UNCHANGED <<back, echoes, rx>>
  BY EchoAssumption DEF SendFrame, TypeOK, Numbers, receiverVars
<1>2. /\ \A k : Holds(frames'[r], k) <=> Holds(frames[r], k) \/ k = sent
      /\ Once(frames[r]) /\ ~Holds(frames[r], sent) => Once(frames'[r])
  BY <1>1, AppendedOnce
<1>3. ~Holds(frames[r], sent) /\ ~Holds(back[r], sent) /\ ~Holds(echoes, sent)
  BY <1>1 DEF OnceSent
<1>4. OnceSent(r)'
  BY <1>1, <1>2 DEF OnceSent, Numbers
<1>5. OncePlaced(r)'
  BY <1>1, <1>2, <1>3 DEF OncePlaced
<1> QED BY <1>4, <1>5

\* A frame that is received becomes an echo.
LEMMA ApartEchoed ==
  ASSUME TypeOK, NEW r \in Receivers, OnceSent(r), OncePlaced(r), rx[r] # "down", rx'[r] # "down",
         frames[r] # <<>>, frames'[r] = Tail(frames[r]),
         back'[r] = Append(back[r], Head(frames[r])), UNCHANGED <<echoes, sent>>
  PROVE  OnceSent(r)' /\ OncePlaced(r)'
<1> DEFINE e == Head(frames[r])
<1>1. frames[r] \in Seq(Numbers) /\ back[r] \in Seq(Numbers) /\ e \in Numbers
  BY DEF TypeOK
<1>2. /\ Holds(frames[r], e)
      /\ \A k : Holds(frames'[r], k) => Holds(frames[r], k)
      /\ Once(frames[r]) => Once(frames'[r]) /\ ~Holds(frames'[r], e)
  BY <1>1, TakenOnce
<1>3. /\ \A k : Holds(back'[r], k) <=> Holds(back[r], k) \/ k = e
      /\ Once(back[r]) /\ ~Holds(back[r], e) => Once(back'[r])
  BY <1>1, AppendedOnce
<1> HIDE DEF e
<1>4. OnceSent(r)'
  BY <1>1, <1>2, <1>3 DEF OnceSent
<1>5. OncePlaced(r)'
  BY <1>1, <1>2, <1>3 DEF OncePlaced
<1> QED BY <1>4, <1>5

\* An echo that is received is filed.
LEMMA ApartFiled ==
  ASSUME TypeOK, NEW r \in Receivers, OnceSent(r), OncePlaced(r), rx[r] # "down", rx'[r] = rx[r],
         back[r] # <<>>, back'[r] = Tail(back[r]), UNCHANGED <<frames, sent>>, Once(echoes),
         echoes' = echoes \/ echoes' = Append(echoes, Head(back[r]))
  PROVE  OnceSent(r)' /\ OncePlaced(r)' /\ Once(echoes')
<1> DEFINE e == Head(back[r])
<1>1. back[r] \in Seq(Numbers) /\ echoes \in Seq(Numbers) /\ e \in Numbers
  BY DEF TypeOK
<1>2. /\ Holds(back[r], e)
      /\ \A k : Holds(back'[r], k) => Holds(back[r], k)
      /\ Once(back[r]) => Once(back'[r]) /\ ~Holds(back'[r], e)
  BY <1>1, TakenOnce
<1>3. /\ \A k : Holds(echoes', k) => Holds(echoes, k) \/ k = e
      /\ Once(echoes) /\ ~Holds(echoes, e) => Once(echoes')
  <2>1. /\ \A k : Holds(Append(echoes, e), k) <=> Holds(echoes, k) \/ k = e
        /\ Once(echoes) /\ ~Holds(echoes, e) => Once(Append(echoes, e))
    BY <1>1, AppendedOnce
  <2>2. CASE echoes' = echoes
    BY <2>2
  <2>3. CASE echoes' = Append(echoes, e)
    BY <2>1, <2>3
  <2> QED BY <2>2, <2>3
<1> HIDE DEF e
<1>4. OnceSent(r)'
  BY <1>1, <1>2, <1>3 DEF OnceSent
<1>5. OncePlaced(r)'
  BY <1>1, <1>2, <1>3 DEF OncePlaced
<1>6. Once(echoes')
  BY <1>1, <1>2, <1>3 DEF OncePlaced
<1> QED BY <1>4, <1>5, <1>6

LEMMA ReceiverOnce ==
  ASSUME TypeOK, TypeOK', OnceInv, NEW q \in Receivers, ReceiverStep(q), Solo'
  PROVE  OnceInv'
<1>1. UNCHANGED <<echoes, sent>>
  BY DEF ReceiverStep, StartReceiver, StoreLatencies, ReceiverFails, RecvFrame, senderVars
<1>2. CASE StartReceiver(q)
  <2>1. /\ rx[q] = "down" /\ rx'[q] = "recv" /\ UNCHANGED <<frames, back>>
        /\ \A r \in Receivers : r # q => rx'[r] = rx[r]
    BY <1>2 DEF StartReceiver, TypeOK, netVars
  <2>2. \A r \in Receivers : rx[r] = "down"
    BY <2>1 DEF Solo
  <2>3. echoes = <<>> /\ back[q] = <<>>
    BY <2>1, <2>2 DEF OnceInv, OncePlaced
  <2>4. \A k : ~Holds(echoes, k) /\ ~Holds(back[q], k)
    BY <2>3 DEF Holds
  <2>5. ASSUME NEW r \in Receivers
        PROVE  OnceSent(r)' /\ OncePlaced(r)'
    <3>1. OnceSent(r) /\ OncePlaced(r)
      BY DEF OnceInv
    <3>2. OnceSent(r)'
      BY <1>1, <2>1, <3>1 DEF OnceSent
    <3>3. OncePlaced(r)'
      BY <1>1, <2>1, <2>2, <2>4, <3>1 DEF OncePlaced
    <3> QED BY <3>2, <3>3
  <2> QED BY <1>1, <2>3, <2>5 DEF OnceInv
<1>3. ASSUME ~StartReceiver(q)
      PROVE  OnceInv'
  <2>1. /\ rx[q] # "down" /\ rx'[q] # "down"
        /\ \A r \in Receivers : r # q => rx'[r] = rx[r]
        /\ \/ UNCHANGED <<frames, back>>
           \/ /\ frames[q] # <<>> /\ frames' = [frames EXCEPT ![q] = Tail(@)]
              /\ back' = back \/ back' = [back EXCEPT ![q] = Append(@, Head(frames[q]))]
    <3>1. CASE StoreLatencies(q) \/ ReceiverFails(q)
      BY <3>1 DEF StoreLatencies, ReceiverFails, TypeOK, netVars
    <3>2. ASSUME NEW stamped \in Stamped, NEW spare \in SpareWord, RecvFrame(q, stamped, spare)
          PROVE  /\ rx[q] # "down" /\ rx'[q] # "down"
                 /\ \A r \in Receivers : r # q => rx'[r] = rx[r]
                 /\ frames[q] # <<>> /\ frames' = [frames EXCEPT ![q] = Tail(@)]
                 /\ back' = back \/ back' = [back EXCEPT ![q] = Append(@, Head(frames[q]))]
      BY <3>2 DEF RecvFrame, RecvLoop, TypeOK
    <3> QED BY <1>3, <3>1, <3>2 DEF ReceiverStep
  <2>2. ASSUME NEW r \in Receivers
        PROVE  OnceSent(r)' /\ OncePlaced(r)'
    <3>1. OnceSent(r) /\ OncePlaced(r) /\ (rx'[r] = "down" <=> rx[r] = "down")
      BY <2>1 DEF OnceInv
    <3>2. CASE r # q \/ UNCHANGED <<frames, back>>
      <4>1. frames'[r] = frames[r] /\ back'[r] = back[r] /\ back'[r] \in Seq(Numbers)
        BY <2>1, <3>2 DEF TypeOK
      <4>2. StandsIn(frames'[r], frames[r]) /\ StandsIn(back'[r], back[r])
        BY <4>1, QueueItself
      <4> QED BY <1>1, <3>1, <4>1, <4>2, ApartStays
    <3>3. CASE r = q /\ frames[q] # <<>> /\ frames' = [frames EXCEPT ![q] = Tail(@)] /\ back' = back
      <4>1. frames'[r] = Tail(frames[r]) /\ frames[r] \in Seq(Numbers) /\ back'[r] \in Seq(Numbers)
        BY <3>3 DEF TypeOK
      <4>2. Leaves(frames'[r], frames[r])
        BY <3>3, <4>1 DEF Leaves
      <4>3. StandsIn(frames'[r], frames[r]) /\ StandsIn(back'[r], back[r])
        BY <3>3, <4>1, <4>2, NetworkOnce, QueueItself
      <4> QED BY <1>1, <3>1, <4>1, <4>3, ApartStays
    <3>4. CASE /\ r = q /\ frames[q] # <<>> /\ frames' = [frames EXCEPT ![q] = Tail(@)]
               /\ back' = [back EXCEPT ![q] = Append(@, Head(frames[q]))]
      <4>1. frames'[r] = Tail(frames[r]) /\ back'[r] = Append(back[r], Head(frames[r]))
        BY <3>4 DEF TypeOK
      <4> QED BY <1>1, <2>1, <3>1, <3>4, <4>1, ApartEchoed
    <3> QED BY <2>1, <3>2, <3>3, <3>4
  <2>3. Once(echoes') /\ ((\A r \in Receivers : rx'[r] = "down") => echoes' = <<>>)
    BY <1>1, <2>1 DEF OnceInv
  <2> QED BY <2>2, <2>3 DEF OnceInv
<1> QED BY <1>2, <1>3

LEMMA NetworkKeepsOnce ==
  ASSUME TypeOK, TypeOK', OnceInv, NEW q \in Receivers, NetworkStep(q), Solo'
  PROVE  OnceInv'
<1>1. UNCHANGED <<echoes, sent, rx>>
  BY DEF NetworkStep, Unread, NetworkFault, senderVars, receiverVars
<1>2. ASSUME NEW r \in Receivers
      PROVE  Leaves(frames'[r], frames[r]) /\ Leaves(back'[r], back[r])
  <2>1. CASE Unread(q)
    <3>1. /\ frames'[r] = frames[r] \/ (frames[r] # <<>> /\ frames'[r] = Tail(frames[r]))
          /\ back'[r] = back[r] \/ (back[r] # <<>> /\ back'[r] = Tail(back[r]))
      BY <2>1 DEF Unread, TypeOK
    <3> QED BY <3>1 DEF Leaves
  <2>2. ASSUME NEW kind \in FaultKinds, NetworkFault(kind, q)
        PROVE  Leaves(frames'[r], frames[r]) /\ Leaves(back'[r], back[r])
    <3>1. kind # "dup"
      <4>1. /\ faults' = [faults EXCEPT ![kind] = @ + 1] /\ faults[kind] \in Nat
            /\ faults'["dup"] = 0 /\ "dup" \in FaultKinds
        BY <2>2 DEF NetworkFault, TypeOK, Solo, FaultKinds
      <4> QED BY <4>1 DEF TypeOK
    <3>2. ASSUME NEW w, NEW v \in Outcomes(kind, w)
          PROVE  Leaves(v, w)
      BY <3>1, <3>2 DEF Outcomes, Leaves, FaultKinds
    <3>3. \A w : Leaves(w, w)
      BY DEF Leaves
    <3>4. /\ frames'[r] = frames[r] \/ frames'[r] \in Outcomes(kind, frames[r])
          /\ back'[r] = back[r] \/ back'[r] \in Outcomes(kind, back[r])
      BY <2>2 DEF NetworkFault, TypeOK
    <3> QED BY <3>2, <3>3, <3>4
  <2> QED BY <2>1, <2>2 DEF NetworkStep
<1>3. ASSUME NEW r \in Receivers
      PROVE  OnceSent(r)' /\ OncePlaced(r)'
  <2>1. frames[r] \in Seq(Numbers) /\ back[r] \in Seq(Numbers) /\ back'[r] \in Seq(Numbers)
    BY DEF TypeOK
  <2>2. StandsIn(frames'[r], frames[r]) /\ StandsIn(back'[r], back[r])
    BY <1>2, <2>1, NetworkOnce
  <2> QED BY <1>1, <2>1, <2>2, ApartStays DEF OnceInv
<1> QED BY <1>1, <1>3 DEF OnceInv

LEMMA OnceStep ==
  ASSUME TypeOK, TypeOK', SenderInv, OnceInv, [Next]_vars, Solo'
  PROVE  OnceInv'
<1>1. CASE UNCHANGED <<echoes, sent, rx, frames, back>>
  <2>1. ASSUME NEW r \in Receivers
        PROVE  OnceSent(r)' /\ OncePlaced(r)'
    BY <1>1 DEF OnceInv, OnceSent, OncePlaced
  <2> QED BY <1>1, <2>1 DEF OnceInv
<1>2. CASE StartSender \/ Bind \/ StoreEchoes \/ JoinThread \/ SenderFails \/ UNCHANGED vars
  BY <1>1, <1>2 DEF StartSender, Bind, StoreEchoes, JoinThread, SenderFails, vars, senderVars,
                    receiverVars, netVars
<1>3. ASSUME NEW q \in Receivers, RecvEcho(q)
      PROVE  OnceInv'
  <2>1. /\ back[q] # <<>> /\ back' = [back EXCEPT ![q] = Tail(@)]
        /\ echoes' = echoes \/ echoes' = Append(echoes, Head(back[q]))
        /\ UNCHANGED <<sent, frames, rx>>
    BY <1>3 DEF RecvEcho, receiverVars
  <2>2. rx[q] # "down" /\ \A r \in Receivers : r # q => rx[r] = "down"
    BY <2>1 DEF OnceInv, OncePlaced, Solo
  <2>3. /\ back'[q] = Tail(back[q])
        /\ \A r \in Receivers : r # q => back'[r] = back[r]
    BY <2>1 DEF TypeOK
  <2>4. OnceSent(q)' /\ OncePlaced(q)' /\ Once(echoes')
    BY <2>1, <2>2, <2>3, ApartFiled DEF OnceInv
  <2>5. ASSUME NEW r \in Receivers, r # q
        PROVE  OnceSent(r)' /\ OncePlaced(r)'
    <3>1. OncePlaced(r)'
      BY <2>1, <2>2, <2>3, <2>5 DEF OncePlaced, OnceInv
    <3>2. OnceSent(r)'
      BY <2>1, <2>3, <2>4, <2>5 DEF OnceSent, OnceInv
    <3> QED BY <3>1, <3>2
  <2> QED BY <2>1, <2>2, <2>4, <2>5 DEF OnceInv
<1>4. CASE SendFrame
  <2>1. UNCHANGED <<echoes, rx>>
    BY <1>4 DEF SendFrame, receiverVars
  <2> QED BY <1>4, <2>1, ApartSent DEF OnceInv
<1>5. CASE \E q \in Receivers : ReceiverStep(q) \/ NetworkStep(q)
  BY <1>5, ReceiverOnce, NetworkKeepsOnce
<1> QED BY <1>2, <1>3, <1>4, <1>5, NextCases DEF SenderStep

LEMMA FiledStep ==
  ASSUME TypeOK, TypeOK', SenderInv, FiledAll, [Next]_vars
  PROVE  FiledAll'
<1>1. CASE UNCHANGED senderVars
  BY <1>1 DEF senderVars, FiledAll
<1>2. CASE StartSender \/ SenderFails \/ StoreEchoes \/ JoinThread
  BY <1>2 DEF StartSender, SenderFails, StoreEchoes, JoinThread, FiledAll
<1>3. CASE Bind
  <2>1. echoes' = echoes /\ echoes = <<>> /\ main' = EchoLoop(<<>>)
    BY <1>3 DEF Bind, SenderInv
  <2> QED BY <2>1, EchoAssumption DEF EchoLoop, FiledAll
<1>4. ASSUME NEW r \in Receivers, RecvEcho(r)
      PROVE  FiledAll'
  <2>1. \/ main' = "failed"
        \/ main' = EchoLoop(echoes') /\ Len(echoes') <= SenderMax
    BY <1>4 DEF RecvEcho, TypeOK
  <2> QED BY <2>1, EchoAssumption DEF EchoLoop, FiledAll, TypeOK
<1>5. CASE SendFrame
  BY <1>5 DEF SendFrame, FiledAll
<1>6. ASSUME NEW r \in Receivers, ReceiverStep(r) \/ NetworkStep(r)
      PROVE  UNCHANGED senderVars
  BY <1>6 DEF ReceiverStep, StartReceiver, StoreLatencies, ReceiverFails, RecvFrame, NetworkStep,
              Unread, NetworkFault
<1> QED BY <1>1, <1>2, <1>3, <1>4, <1>5, <1>6, NextCases DEF SenderStep, vars

LEMMA OneReceiverOnly ==
  ASSUME TypeOK, faults["dup"] = 0, Cardinality({r \in Receivers : rx[r] # "down"}) <= 1
  PROVE  Solo
<1> DEFINE started == {r \in Receivers : rx[r] # "down"}
<1>1. ASSUME NEW r \in started, NEW q \in started, r # q
      PROVE  FALSE
  <2>1. IsFiniteSet(started)
    BY FS_Subset, EchoAssumption
  <2>2. IsFiniteSet({r}) /\ Cardinality({r}) = 1
    BY FS_Singleton
  <2>3. Cardinality({r} \cup {q}) = 2
    BY <1>1, <2>2, FS_AddElement
  <2>4. {r} \cup {q} \in SUBSET started
    OBVIOUS
  <2>5. Cardinality({r} \cup {q}) <= Cardinality(started)
    BY <2>1, <2>4, FS_Subset
  <2>6. Cardinality(started) \in Nat /\ Cardinality(started) <= 1
    BY <2>1, FS_CardinalityType
  <2> QED BY <2>3, <2>5, <2>6
<1> QED BY <1>1 DEF Solo

\* As many numbers as there are, each once, are all of them.
LEMMA AllNumbers ==
  ASSUME TypeOK, Len(echoes) = SenderMax, Once(echoes)
  PROVE  IsInjective(echoes) /\ ToSet(echoes) = Numbers
<1>1. echoes \in [1..SenderMax -> Numbers] /\ DOMAIN echoes = 1..SenderMax
  BY DEF TypeOK
<1>2. IsInjective(echoes)
  BY <1>1 DEF IsInjective, Once
<1>3. echoes \in Injection(1..SenderMax, Numbers)
  BY <1>1, <1>2 DEF Injection
<1>4. /\ IsFiniteSet(Numbers) /\ Cardinality(Numbers) = SenderMax
      /\ Cardinality(1..SenderMax) = SenderMax
  <2>1. SenderMax \in Nat /\ SenderMax - 1 \in Int /\ 0 \in Int /\ 1 \in Int /\ SenderMax \in Int
    BY EchoAssumption
  <2>2. /\ IsFiniteSet(0..SenderMax - 1)
        /\ Cardinality(0..SenderMax - 1) = IF 0 > SenderMax - 1 THEN 0 ELSE SenderMax - 1 - 0 + 1
    BY <2>1, FS_Interval
  <2>3. Cardinality(1..SenderMax) = IF 1 > SenderMax THEN 0 ELSE SenderMax - 1 + 1
    BY <2>1, FS_Interval
  <2> QED BY <2>1, <2>2, <2>3 DEF Numbers
<1>5. echoes \in Surjection(1..SenderMax, Numbers)
  BY <1>3, <1>4, FS_Injection
<1>6. ToSet(echoes) = Numbers
  BY <1>1, <1>5 DEF Surjection, ToSet
<1> QED BY <1>2, <1>6

-----------------------------------------------------------------------------
(* Theorems *)

\* The types of the two programs' variables; in particular the sender files no
\* more than --max echoes, and what a receiver prints are rows of its tables
\* (ref/sender.c:218-239, ref/rx_timestamping.c:455-459).
THEOREM EchoTypes == Spec => []TypeOK
<1> DEFINE Inv == TypeOK /\ SenderInv /\ \A r \in Receivers : RowsInv(r)
<1>1. Init => Inv
  BY InitEcho DEF EchoInv
<1>2. Inv /\ [Next]_vars => Inv'
  BY NextType
<1> QED BY <1>1, <1>2, PTL DEF Spec

LEMMA LatenciesStep ==
  ASSUME TypeOK, EchoInv, [Next]_vars
  PROVE  LatenciesInOrder'
<1>1. CASE UNCHANGED stored
  BY <1>1, InOrderBefore DEF EchoInv, LatenciesInOrder, InOrder
<1>2. ASSUME NEW r \in Receivers, StoreLatencies(r)
      PROVE  LatenciesInOrder'
  <2> DEFINE rows == [i \in 1..total[r] |-> [c \in Columns |-> table[r][c][i - 1]]]
  <2>1. stored'[r] = rows /\ (\A q \in Receivers : q # r => stored'[q] = stored[q])
        /\ faults' = faults
    BY <1>2 DEF StoreLatencies, TypeOK, netVars
  <2>2. total[r] \in 0..ReceiverMax /\ Len(rows) = total[r]
    BY DEF TypeOK, RowsInv, EchoInv
  <2>3. ASSUME NEW i \in 2..total[r], NEW c \in Columns
        PROVE  /\ rows[i][c] \in Numbers
               /\ (2 < i /\ InOrder) => rows[i - 1][c] < rows[i][c]
    <3>1. /\ i - 1 \in Rows /\ 0 < i - 1 /\ i - 1 < total[r]
          /\ (i - 1) - 1 \in Rows /\ (i - 1) - 1 < total[r]
          /\ i \in 1..total[r] /\ i - 1 \in 1..total[r]
          /\ 2 < i => 0 < (i - 1) - 1 /\ ((i - 1) - 1) - 1 \in Rows
      BY <2>2, EchoAssumption DEF Rows
    <3>2. rows[i][c] = table[r][c][i - 1] /\ rows[i - 1][c] = table[r][c][(i - 1) - 1]
      BY <3>1
    <3> HIDE DEF rows
    <3>3. CASE c = "nic_kernel"
      BY <3>1, <3>2, <3>3 DEF EchoInv, RowsInv, OrderInv
    <3>4. CASE c # "nic_kernel"
      <4>1. ASSUME NEW j \in Rows, 0 < j, j < total[r]
            PROVE  table[r][c][j] = table[r]["nic_kernel"][j - 1]
        <5>1. j <= total[r]
          BY <2>2, <4>1, EchoAssumption DEF Rows
        <5>2. c = "nic_user" \/ c = "kernel_user"
          BY <3>4 DEF Columns
        <5> QED BY <4>1, <5>1, <5>2 DEF EchoInv, RowsInv
      <4> QED BY <3>1, <3>2, <4>1 DEF EchoInv, RowsInv, OrderInv
    <3> QED BY <3>3, <3>4
  <2> HIDE DEF rows
  <2> QED BY <2>1, <2>2, <2>3 DEF EchoInv, LatenciesInOrder, InOrder
<1>3. stored' = stored \/ \E r \in Receivers : StoreLatencies(r)
  BY NextCases DEF SenderStep, StartSender, Bind, RecvEcho, StoreEchoes, JoinThread, SenderFails,
                   SendFrame, ReceiverStep, StartReceiver, ReceiverFails, RecvFrame, NetworkStep,
                   Unread, NetworkFault, vars, receiverVars
<1> QED BY <1>1, <1>2, <1>3

\* In every latency.txt the rows below the first hold latencies, in each column
\* in the order of sending unless the network duplicates or reorders, whatever is
\* lost and whichever frames have no timestamps (ref/rx_timestamping.c:268-327).
THEOREM LatenciesOrdered == Spec => []LatenciesInOrder
<1>1. Init => TypeOK /\ EchoInv
  BY InitEcho
<1>2. TypeOK /\ EchoInv /\ [Next]_vars => (TypeOK /\ EchoInv)'
  <2> SUFFICES ASSUME TypeOK, EchoInv, [Next]_vars
               PROVE  TypeOK' /\ EchoInv'
    OBVIOUS
  <2>1. TypeOK' /\ SenderInv' /\ \A r \in Receivers : RowsInv(r)'
    BY NextType DEF EchoInv
  <2>2. ASSUME InOrder', NEW r \in Receivers
        PROVE  OrderInv(r)'
    BY <2>2, InOrderBefore, OrderStep DEF EchoInv
  <2>3. LatenciesInOrder'
    BY LatenciesStep
  <2> QED BY <2>1, <2>2, <2>3 DEF EchoInv
<1>3. EchoInv => LatenciesInOrder
  BY DEF EchoInv
<1> QED BY <1>1, <1>2, <1>3, PTL DEF Spec

\* What the sender has filed and what is on its way to it, in every state.
FiledInv ==
  /\ TypeOK /\ SenderInv /\ \A r \in Receivers : RowsInv(r)
  /\ FiledAll
  /\ Solo => OnceInv

LEMMA InitFiled ==
  ASSUME Init
  PROVE  FiledInv
<1>1. TypeOK /\ SenderInv /\ \A r \in Receivers : RowsInv(r)
  BY InitEcho DEF EchoInv
<1>2. FiledAll
  BY DEF Init, FiledAll
<1>3. OnceInv
  <2>1. \A r \in Receivers : frames[r] = <<>> /\ back[r] = <<>> /\ rx[r] = "down"
    BY DEF Init
  <2>2. echoes = <<>> /\ \A k : ~Holds(<<>>, k)
    BY DEF Init, Holds
  <2>3. Once(<<>>)
    BY DEF Once
  <2> QED BY <2>1, <2>2, <2>3 DEF OnceInv, OnceSent, OncePlaced
<1> QED BY <1>1, <1>2, <1>3 DEF FiledInv

LEMMA NextFiled ==
  ASSUME FiledInv, [Next]_vars
  PROVE  FiledInv'
<1>1. TypeOK' /\ SenderInv' /\ \A r \in Receivers : RowsInv(r)'
  BY NextType DEF FiledInv
<1>2. FiledAll'
  BY <1>1, FiledStep DEF FiledInv
<1>3. Solo' => OnceInv'
  BY <1>1, SoloBefore, OnceStep DEF FiledInv
<1> QED BY <1>1, <1>2, <1>3 DEF FiledInv

\* end_to_end_latency.txt holds one latency of each frame, if one receiver
\* echoes them and the network duplicates none, whatever is lost or overtaken
\* (ref/sender.c:218-239).
THEOREM OnePerFrame == Spec => []OneLatencyPerFrame
<1>1. FiledInv => OneLatencyPerFrame
  BY OneReceiverOnly, AllNumbers DEF FiledInv, FiledAll, OnceInv, OneLatencyPerFrame
<1> QED BY <1>1, InitFiled, NextFiled, PTL DEF Spec

\* One receiver's echoes never make the sender exit as "Unlikely", whatever is
\* lost or overtaken: what has been filed is not on its way any more
\* (ref/sender.c:231-234).
THEOREM NoRepeatOfOne == Spec => []RepeatsAreDuplicates
<1>1. FiledInv => RepeatsAreDuplicates
  <2> SUFFICES ASSUME FiledInv, faults["dup"] = 0,
                      Cardinality({r \in Receivers : rx[r] # "down"}) <= 1,
                      NEW r \in Receivers, back[r] # <<>>, SameAsPrevious(Head(back[r]))
               PROVE  FALSE
    BY DEF RepeatsAreDuplicates
  <2> DEFINE k == Head(back[r])
             n == Len(echoes)
  <2>1. OncePlaced(r)
    BY OneReceiverOnly DEF FiledInv, OnceInv
  <2>2. k \in Numbers /\ k = back[r][1] /\ 1 \in 1..Len(back[r])
    BY DEF FiledInv, TypeOK
  <2>3. n \in 1..Len(echoes) /\ k = echoes[n]
    BY DEF FiledInv, TypeOK, SameAsPrevious, Last
  <2>4. Holds(back[r], k) /\ Holds(echoes, k)
    BY <2>2, <2>3 DEF Holds
  <2> QED BY <2>1, <2>2, <2>4 DEF OncePlaced
<1> QED BY <1>1, InitFiled, NextFiled, PTL DEF Spec
=============================================================================
