--------------------------- MODULE ClockCheckProofs ---------------------------
(***************************************************************************)
(* Theorems about the clock check, for any clocks, any delays and any      *)
(* behaviour of ptp4l.                                                     *)
(***************************************************************************)
EXTENDS ClockCheck, TLAPS

LEMMA LocalTypeStep ==
  ASSUME LocalTypeOK, LocalStep, (step = "done") = (localRet # "none")
  PROVE  LocalTypeOK' /\ ((step = "done") = (localRet # "none"))'
<1>1. CASE OpenPhc \/ OpenPhcFails
  BY <1>1 DEF OpenPhc, OpenPhcFails, LocalTypeOK, clockVars
<1>2. ASSUME NEW clock \in {"rt", "tai", "ptp"}, NEW next \in {"tai", "ptp", "judge"},
             ReadClock(clock, next)
      PROVE  LocalTypeOK' /\ ((step = "done") = (localRet # "none"))'
  <2>1. PICK d \in Delays : /\ now' = now + d
                            /\ reads' = [reads EXCEPT ![clock] = now + d + Ahead[clock]]
    BY <1>2 DEF ReadClock
  <2>2. d \in Nat /\ Ahead[clock] \in Int
    BY ClockAssumption DEF Ahead, LocalTypeOK, ONE_SEC, UTC_OFFSET
  <2> QED BY <1>2, <2>1, <2>2 DEF ReadClock, LocalTypeOK, clockVars
<1>3. CASE JudgeClocks
  BY <1>3 DEF JudgeClocks, LocalTypeOK, clockVars
<1> QED BY <1>1, <1>2, <1>3 DEF LocalStep

LEMMA PtpTypeStep ==
  ASSUME TypeOK, PtpStep, UNCHANGED <<clockVars, localVars, verdict>>
  PROVE  TypeOK'
<1>1. CASE OpenSocket \/ OpenSocketFails
  BY <1>1 DEF OpenSocket, OpenSocketFails, Ends, TypeOK, LocalTypeOK, ptp4lVars,
              clockVars, localVars
<1>2. CASE SendRequest
  <2>1. requests' \in Seq([id : Kinds, gptp : BOOLEAN])
    BY <1>2 DEF SendRequest, TypeOK
  <2> QED BY <1>2, <2>1 DEF SendRequest, TypeOK, LocalTypeOK, ptp4lVars, clockVars, localVars
<1>3. CASE SendRequestFails \/ Timeout
  BY <1>3 DEF SendRequestFails, Timeout, Fails, Ends, TypeOK, LocalTypeOK, ptp4lVars,
              clockVars, localVars
<1>4. CASE ReadAnswer
  <2>1. Head(inbox) \in Kinds /\ Tail(inbox) \in Seq(Kinds)
    BY <1>4 DEF ReadAnswer, TypeOK
  <2> QED BY <1>4, <2>1 DEF ReadAnswer, TypeOK, LocalTypeOK, ptp4lVars, clockVars, localVars
<1>5. CASE ReadAnswerFails
  BY <1>5 DEF ReadAnswerFails, TypeOK, LocalTypeOK, ptp4lVars, clockVars, localVars
<1>6. CASE ParsePort
  <2>1. IsPortSane \in BOOLEAN
    BY DEF IsPortSane
  <2> QED BY <1>6, <2>1 DEF ParsePort, Ends, Judgement, Kinds, TypeOK, LocalTypeOK, ptp4lVars,
                            clockVars, localVars
<1>7. CASE ParseTime
  BY <1>7 DEF ParseTime, Ends, Judgement, TypeOK, LocalTypeOK, ptp4lVars, clockVars, localVars
<1>8. CASE ReadShortAnswer
  <2>1. Tail(inbox) \in Seq(Kinds)
    BY <1>8 DEF ReadShortAnswer, TypeOK
  <2> QED BY <1>8, <2>1 DEF ReadShortAnswer, Fails, Ends, TypeOK, LocalTypeOK, ptp4lVars,
                            clockVars, localVars
<1> QED BY <1>1, <1>2, <1>3, <1>4, <1>5, <1>6, <1>7, <1>8 DEF PtpStep

\* The types of the clock check's variables.
THEOREM ClockCheckTypes == Spec => []TypeOK
<1>1. Init => TypeOK
  <2> SUFFICES ASSUME Init PROVE TypeOK
    OBVIOUS
  <2>1. reads \in [{"rt", "tai", "ptp"} -> Int]
    BY DEF Init, LocalInit
  <2>2. LocalTypeOK
    BY <2>1, ClockAssumption DEF Init, LocalInit, LocalTypeOK
  <2>3. requests \in Seq([id : Kinds, gptp : BOOLEAN]) /\ inbox \in Seq(Kinds)
    BY DEF Init
  <2> QED BY <2>2, <2>3 DEF Init, LocalInit, TypeOK, Kinds
<1>2. TypeOK /\ [Next]_vars => TypeOK'
  <2> SUFFICES ASSUME TypeOK, [Next]_vars PROVE TypeOK'
    OBVIOUS
  <2>1. CASE CheckLocalClock
    BY <2>1, LocalTypeStep DEF CheckLocalClock, TypeOK, ptpVars, ptp4lVars
  <2>2. CASE CheckPtpOffset
    BY <2>2, PtpTypeStep DEF CheckPtpOffset
  <2>3. CASE Report
    BY <2>3 DEF Report, TypeOK, LocalTypeOK, clockVars, localVars, ptpVars, ptp4lVars
  <2>4. CASE Ptp4l
    <3> DEFINE Messages == [id : Kinds, gptp : BOOLEAN]
    <3>0. requests \in Seq(Messages) /\ requests # <<>>
      BY <2>4 DEF Ptp4l, TypeOK
    <3>a. \A m \in Messages : m.id \in Kinds
      OBVIOUS
    <3> HIDE DEF Messages
    <3>1. Head(requests) \in Messages /\ Tail(requests) \in Seq(Messages)
      BY <3>0
    <3>2. inbox' \in Seq(Kinds)
      BY <2>4, <3>1, <3>a DEF Ptp4l, TypeOK
    <3> QED BY <2>4, <3>1, <3>2 DEF Messages, Ptp4l, TypeOK, LocalTypeOK, clockVars, localVars, ptp4lVars
  <2>5. CASE UNCHANGED vars
    BY <2>5 DEF vars, TypeOK, LocalTypeOK, clockVars, localVars, ptpVars, ptp4lVars
  <2> QED BY <2>1, <2>2, <2>3, <2>4, <2>5 DEF Next, Program
<1> QED BY <1>1, <1>2, PTL DEF Spec

-----------------------------------------------------------------------------
(* The local clocks *)

\* When the readings were taken: each not before the one that precedes it, and
\* none after now.
ReadingsInOrder ==
  /\ step \in {"tai", "ptp", "judge", "done"} => reads.rt <= now
  /\ step \in {"ptp", "judge", "done"} =>
       reads.rt <= reads.tai - taiOffset * ONE_SEC /\ reads.tai - taiOffset * ONE_SEC <= now
  /\ step \in {"judge", "done"} => reads.ptp = now + UTC_OFFSET * ONE_SEC + phcError
  /\ (step = "done" /\ localRet = "success") =>
       ~RealtimeOff /\ ~TaiOff /\ taiOffset = UTC_OFFSET
  /\ (step = "done" /\ localRet = "failure") =>
       RealtimeOff \/ TaiOff \/ taiOffset # UTC_OFFSET \/ "adjtimex" \in troubles

LEMMA ReadingsStep ==
  ASSUME TypeOK, ReadingsInOrder, LocalStep
  PROVE  ReadingsInOrder'
<1> USE DEF ONE_SEC, UTC_OFFSET
<1>0. LocalTypeOK
  BY DEF TypeOK
<1>1. CASE OpenPhc \/ OpenPhcFails
  BY <1>0, <1>1 DEF OpenPhc, OpenPhcFails, ReadingsInOrder, LocalTypeOK
<1>2. CASE ReadClock("rt", "tai")
  <2>1. PICK d \in Delays : /\ now' = now + d
                            /\ reads' = [reads EXCEPT !["rt"] = now + d + Ahead["rt"]]
    BY <1>2 DEF ReadClock
  <2>2. d \in Nat /\ Ahead["rt"] = 0
    BY ClockAssumption DEF Ahead
  <2>3. reads'.rt = now'
    BY <1>0, <2>1, <2>2 DEF LocalTypeOK
  <2>4. now' \in Nat
    BY <1>0, <2>1, <2>2 DEF LocalTypeOK
  <2> QED BY <1>2, <2>3, <2>4 DEF ReadClock, ReadingsInOrder
<1>3. CASE ReadClock("tai", "ptp")
  <2>1. PICK d \in Delays : /\ now' = now + d
                            /\ reads' = [reads EXCEPT !["tai"] = now + d + Ahead["tai"]]
    BY <1>3 DEF ReadClock
  <2>2. d \in Nat /\ Ahead["tai"] = taiOffset * ONE_SEC
    BY ClockAssumption DEF Ahead
  <2>3. reads'.tai = now + d + taiOffset * 1000000 /\ reads'.rt = reads.rt
    BY <1>0, <2>1, <2>2 DEF LocalTypeOK
  <2>4. /\ step = "tai" /\ step' = "ptp" /\ taiOffset' = taiOffset
        /\ reads.rt <= now /\ now \in Nat /\ taiOffset \in Int /\ reads.rt \in Int
    BY <1>0, <1>3 DEF ReadClock, LocalTypeOK, ReadingsInOrder, clockVars
  <2> QED BY <2>1, <2>2, <2>3, <2>4 DEF ReadingsInOrder
<1>4. CASE ReadClock("ptp", "judge")
  <2>1. PICK d \in Delays : /\ now' = now + d
                            /\ reads' = [reads EXCEPT !["ptp"] = now + d + Ahead["ptp"]]
    BY <1>4 DEF ReadClock
  <2>2. d \in Nat /\ Ahead["ptp"] = UTC_OFFSET * ONE_SEC + phcError
    BY ClockAssumption DEF Ahead
  <2>3. /\ step = "ptp" /\ step' = "judge" /\ taiOffset' = taiOffset /\ phcError' = phcError
        /\ reads.rt <= reads.tai - taiOffset * 1000000
        /\ reads.tai - taiOffset * 1000000 <= now
        /\ now \in Nat /\ taiOffset \in Int /\ phcError \in Int
        /\ reads.rt \in Int /\ reads.tai \in Int
    BY <1>0, <1>4 DEF ReadClock, LocalTypeOK, ReadingsInOrder, clockVars
  <2>4. /\ reads'.ptp = now + d + (37 * 1000000 + phcError)
        /\ reads'.rt = reads.rt /\ reads'.tai = reads.tai
    BY <1>0, <2>1, <2>2 DEF LocalTypeOK
  <2> QED BY <2>1, <2>2, <2>3, <2>4 DEF ReadingsInOrder
<1>5. CASE JudgeClocks
  <2>1. /\ reads' = reads /\ now' = now /\ UNCHANGED clockVars
        /\ step = "judge" /\ step' = "done"
        /\ localRet' = "success" => ~RealtimeOff /\ ~TaiOff /\ taiOffset = UTC_OFFSET
        /\ localRet' = "failure" => \/ RealtimeOff \/ TaiOff \/ taiOffset # UTC_OFFSET
                                   \/ "adjtimex" \in troubles'
    BY <1>5 DEF JudgeClocks
  <2>2. RealtimeOff' = RealtimeOff /\ TaiOff' = TaiOff
    BY <2>1 DEF RealtimeOff, TaiOff, Distance
  <2> QED BY <2>1, <2>2 DEF ReadingsInOrder, clockVars
<1> QED BY <1>1, <1>2, <1>3, <1>4, <1>5 DEF LocalStep

LEMMA ReadingsInvariant == Spec => []ReadingsInOrder
<1>1. Init => ReadingsInOrder
  BY DEF Init, LocalInit, ReadingsInOrder
<1>2. TypeOK /\ ReadingsInOrder /\ [Next]_vars => ReadingsInOrder'
  <2> SUFFICES ASSUME TypeOK, ReadingsInOrder, [Next]_vars PROVE ReadingsInOrder'
    OBVIOUS
  <2>1. CASE CheckLocalClock
    BY <2>1, ReadingsStep DEF CheckLocalClock
  <2>2. CASE /\ UNCHANGED <<clockVars, localVars>>
             /\ "adjtimex" \in troubles => "adjtimex" \in troubles'
    BY <2>2 DEF ReadingsInOrder, RealtimeOff, TaiOff, Distance, clockVars, localVars
  <2>3. CASE CheckPtpOffset
    <3>1. "adjtimex" \in troubles => "adjtimex" \in troubles'
      BY <2>3 DEF CheckPtpOffset, PtpStep, OpenSocket, OpenSocketFails, SendRequest,
                  SendRequestFails, Timeout, ReadAnswer, ReadAnswerFails, ReadShortAnswer, ParsePort, ParseTime
    <3> QED BY <2>2, <2>3, <3>1 DEF CheckPtpOffset
  <2> QED BY <2>1, <2>2, <2>3 DEF Next, Program, Report, Ptp4l, vars
<1> QED BY <1>1, <1>2, ClockCheckTypes, PTL DEF Spec

\* What is read passes only if the clocks are as close as the delays between
\* the readings let one tell (tool/check_clock.c:383-438).
THEOREM PassedAreClose == Spec => []PassedClocksAreClose
<1>1. TypeOK /\ ReadingsInOrder => PassedClocksAreClose
  <2> SUFFICES ASSUME LocalTypeOK, ReadingsInOrder, step = "done", localRet = "success"
               PROVE  /\ taiOffset = UTC_OFFSET
                      /\ phcError < Limit
                      /\ phcError >= -Limit - (reads.ptp - phcError - reads.tai)
    BY DEF TypeOK, PassedClocksAreClose
  <2>1. /\ ~RealtimeOff /\ ~TaiOff /\ taiOffset = UTC_OFFSET
        /\ reads.rt <= now /\ reads.ptp = now + UTC_OFFSET * ONE_SEC + phcError
    BY DEF ReadingsInOrder
  <2> DEFINE ahead == UTC_OFFSET * ONE_SEC
  <2>2. /\ now \in Int /\ reads.rt \in Int /\ reads.tai \in Int /\ reads.ptp \in Int
        /\ phcError \in Int /\ ahead \in Int
    BY DEF LocalTypeOK, ONE_SEC, UTC_OFFSET
  <2>3. /\ Distance(reads.ptp - reads.rt - ahead) < 50
        /\ Distance(reads.ptp - reads.tai) <= 50
        /\ reads.ptp = now + ahead + phcError
    BY <2>1, <2>2 DEF RealtimeOff, TaiOff, Limit, Distance
  <2> HIDE DEF ahead
  <2> QED BY <2>1, <2>2, <2>3 DEF Distance, Limit
<1> QED BY <1>1, ReadingsInvariant, ClockCheckTypes, PTL

\* Exact clocks pass if the readings were quick: only a check that is held up
\* reports them (tool/check_clock.c:383-438).
THEOREM ExactPass == Spec => []ExactClocksPass
<1>1. TypeOK /\ ReadingsInOrder => ExactClocksPass
  <2> SUFFICES ASSUME LocalTypeOK, ReadingsInOrder, step = "done", phcError = 0,
                      taiOffset = 37, now - reads.rt < 50, "adjtimex" \notin troubles,
                      localRet # "none"
               PROVE  localRet = "success"
    BY DEF TypeOK, ExactClocksPass, UTC_OFFSET, Limit
  <2>1. /\ reads.rt <= reads.tai - 37 * 1000000 /\ reads.tai - 37 * 1000000 <= now
        /\ reads.ptp = now + 37 * 1000000
        /\ now \in Int /\ reads.rt \in Int /\ reads.tai \in Int
    BY DEF ReadingsInOrder, LocalTypeOK, ONE_SEC, UTC_OFFSET
  <2>2. ~RealtimeOff /\ ~TaiOff
    BY <2>1 DEF RealtimeOff, TaiOff, Distance, Limit, ONE_SEC, UTC_OFFSET
  <2> QED BY <2>2 DEF ReadingsInOrder, LocalTypeOK, UTC_OFFSET
<1> QED BY <1>1, ReadingsInvariant, ClockCheckTypes, PTL

-----------------------------------------------------------------------------
(* ptp4l's port *)

\* What is known of the port is true of it.
SaneIsTrue ==
  /\ sane => port \in SaneStates
  /\ ptpRet = "success" => sane
  /\ verdict = "synchronized" => ptpRet = "success"

LEMMA SaneInvariant == Spec => []SaneIsTrue
<1>1. Init => SaneIsTrue
  BY DEF Init, SaneIsTrue
<1>2. TypeOK /\ SaneIsTrue /\ [Next]_vars => SaneIsTrue'
  <2> SUFFICES ASSUME TypeOK, SaneIsTrue, [Next]_vars PROVE SaneIsTrue'
    OBVIOUS
  <2>1. CASE CheckPtpOffset
    <3>1. ptpRet # "success"
      BY <2>1 DEF CheckPtpOffset, PtpStep, OpenSocket, OpenSocketFails, SendRequest,
                  SendRequestFails, Timeout, ReadAnswer, ReadAnswerFails, ReadShortAnswer, ParsePort, ParseTime,
                  TypeOK
    <3>2. verdict' = verdict /\ UNCHANGED port
      BY <2>1 DEF CheckPtpOffset, PtpStep, OpenSocket, OpenSocketFails, SendRequest,
                  SendRequestFails, Timeout, ReadAnswer, ReadAnswerFails, ReadShortAnswer, ParsePort, ParseTime,
                  ptp4lVars
    <3>3. CASE ParsePort
      BY <3>1, <3>2, <3>3 DEF ParsePort, SaneIsTrue, IsPortSane, Judgement, Ends
    <3>4. CASE ParseTime
      BY <3>1, <3>2, <3>4 DEF ParseTime, SaneIsTrue, Judgement, Ends
    <3>5. CASE ~ParsePort /\ ~ParseTime
      BY <2>1, <3>1, <3>2, <3>5
         DEF CheckPtpOffset, PtpStep, OpenSocket, OpenSocketFails, SendRequest,
             SendRequestFails, Timeout, ReadAnswer, ReadAnswerFails, ReadShortAnswer, Fails, Ends, SaneIsTrue
    <3> QED BY <3>3, <3>4, <3>5
  <2>2. CASE Report
    BY <2>2 DEF Report, Synchronized, SaneIsTrue, ptpVars, ptp4lVars
  <2>3. CASE CheckLocalClock \/ Ptp4l \/ UNCHANGED vars
    BY <2>3 DEF CheckLocalClock, Ptp4l, vars, SaneIsTrue, ptpVars, ptp4lVars
  <2> QED BY <2>1, <2>2, <2>3 DEF Next, Program
<1> QED BY <1>1, <1>2, ClockCheckTypes, PTL DEF Spec

\* The port is sane if the check says that all is well, whatever answers are
\* late or unread and whatever the uninitialised port_state holds
\* (tool/check_clock.c:348-364).
THEOREM PassedIsSane == Spec => []PassedPortIsSane
<1>1. SaneIsTrue => PassedPortIsSane
  BY DEF SaneIsTrue, PassedPortIsSane
<1> QED BY <1>1, SaneInvariant, PTL

-----------------------------------------------------------------------------
(* The answers of ptp4l *)

\* Nothing that the check may still read is under way.
NothingOwed ==
  /\ inbox = <<>>
  /\ \A i \in 1..Len(requests) : requests[i].gptp \notin answers

\* At most one answer is, and it is one to what is asked for now.
OneOwed ==
  /\ Len(inbox) <= 1
  /\ inbox # <<>> => inbox[1] = request
  /\ \A i \in 1..Len(requests) : requests[i].gptp \in answers =>
       /\ inbox = <<>> /\ requests[i].id = request
       /\ \A j \in 1..Len(requests) : requests[j].gptp \in answers => i = j

\* An answer was read that did not belong to the request only in these cases.
InStep == "read" \notin troubles /\ ("late" \in troubles => answers # BOOLEAN)

\* As long as none of them has happened, the answers fit the requests.
AnswersFit ==
  /\ pc = "todo" => requests = <<>> /\ inbox = <<>> /\ ~gptp /\ request = "PORT_DATA_SET"
  /\ ~gptp => /\ \A i \in 1..Len(requests) : ~requests[i].gptp
              /\ inbox # <<>> => FALSE \in answers
  /\ pc \in {"send", "wait"} => OneOwed
  /\ (pc = "send" /\ gptp \in answers) => NothingOwed
  /\ pc = "parse" => NothingOwed /\ buf = request
  /\ (ptpRet = "success" /\ port = "SLAVE") => Distance(ptpOffset) <= OffsetLimit

\* As long as nothing has gone wrong, only a profile that ptp4l does not accept
\* has been given up, and the port is as good as it looks.
NoTrouble ==
  /\ gptp => FALSE \notin answers
  /\ (inbox # <<>> \/ pc = "parse" \/ request = "TIME_STATUS_NP") => gptp \in answers
  /\ request = "TIME_STATUS_NP" => port = "SLAVE" /\ sane
  /\ (/\ ptpRet = "failure" /\ port \in SaneStates
      /\ port = "SLAVE" => Distance(ptpOffset) <= OffsetLimit) => answers = {}

PtpInv == (InStep => AnswersFit) /\ (troubles = {} => NoTrouble)

\* Troubles are not forgotten, and ptp4l does not change.
LEMMA TroublesStay ==
  ASSUME [Next]_vars
  PROVE  /\ troubles \subseteq troubles'
         /\ port' = port /\ ptpOffset' = ptpOffset /\ answers' = answers
<1> USE DEF ptp4lVars, ptpVars
<1>1. CASE CheckLocalClock
  BY <1>1 DEF CheckLocalClock, LocalStep, OpenPhc, OpenPhcFails, ReadClock, JudgeClocks
<1>2. CASE CheckPtpOffset
  BY <1>2 DEF CheckPtpOffset, PtpStep, OpenSocket, OpenSocketFails, SendRequest,
              SendRequestFails, Timeout, ReadAnswer, ReadAnswerFails, ReadShortAnswer, ParsePort, ParseTime
<1>3. CASE Report \/ Ptp4l \/ UNCHANGED vars
  BY <1>3 DEF Report, Ptp4l, vars
<1> QED BY <1>1, <1>2, <1>3 DEF Next, Program

\* What ptp4l does to what is under way.
LEMMA Ptp4lMoves ==
  ASSUME TypeOK, Ptp4l
  PROVE  /\ Len(requests') = Len(requests) - 1 /\ Len(requests) \in Nat /\ 1 <= Len(requests)
         /\ \A i \in 1..Len(requests') : i + 1 \in 1..Len(requests) /\ requests'[i] = requests[i + 1]
         /\ 1 \in 1..Len(requests)
         /\ \/ requests[1].gptp \notin answers /\ inbox' = inbox
            \/ /\ requests[1].gptp \in answers
               /\ Len(inbox') = Len(inbox) + 1
               /\ inbox = <<>> => inbox' = <<requests[1].id>>
<1> DEFINE Messages == [id : Kinds, gptp : BOOLEAN]
<1>1. requests \in Seq(Messages) /\ requests # <<>> /\ inbox \in Seq(Kinds)
  BY DEF Ptp4l, TypeOK
<1>2. Head(requests).id \in Kinds
  <2>1. Head(requests) \in Messages
    <3> HIDE DEF Messages
    <3> QED BY <1>1
  <2> QED BY <2>1
<1> HIDE DEF Messages
<1>3. Head(requests) = requests[1] /\ Len(requests) \in Nat /\ 1 <= Len(requests)
  BY <1>1
<1>4. /\ Len(Tail(requests)) = Len(requests) - 1
      /\ \A i \in 1..Len(Tail(requests)) : Tail(requests)[i] = requests[i + 1]
  BY <1>1
<1>5. requests' = Tail(requests)
  BY DEF Ptp4l
<1>6. \A i \in 1..Len(requests') : i + 1 \in 1..Len(requests)
  BY <1>3, <1>4, <1>5
<1>7. CASE requests[1].gptp \in answers
  <2>1. inbox' = Append(inbox, requests[1].id)
    BY <1>3, <1>7 DEF Ptp4l
  <2>2. Len(inbox') = Len(inbox) + 1
    BY <1>1, <2>1, <1>2, <1>3
  <2>3. inbox = <<>> => inbox' = <<requests[1].id>>
    BY <2>1
  <2> QED BY <1>3, <1>4, <1>5, <1>6, <1>7, <2>2, <2>3
<1>8. CASE requests[1].gptp \notin answers
  BY <1>3, <1>4, <1>5, <1>6, <1>8 DEF Ptp4l
<1> QED BY <1>7, <1>8

LEMMA AnswersMove ==
  ASSUME TypeOK, Ptp4l
  PROVE  (AnswersFit => AnswersFit') /\ (AnswersFit /\ NoTrouble => NoTrouble')
<1>0. /\ UNCHANGED <<pc, request, gptp, buf, ptpRet, sane>>
      /\ UNCHANGED <<port, ptpOffset, answers>>
  BY DEF Ptp4l, ptp4lVars
<1>1. Len(inbox) \in Nat /\ pc \in {"todo", "send", "wait", "parse", "done"}
  BY DEF TypeOK
<1>2. ASSUME AnswersFit
      PROVE  AnswersFit'
  <2>1. pc # "todo"
    BY <1>2, Ptp4lMoves DEF AnswersFit
  <2>2. ASSUME ~gptp
        PROVE  /\ \A i \in 1..Len(requests') : ~requests'[i].gptp
               /\ inbox' # <<>> => FALSE \in answers
    <3>1. \A i \in 1..Len(requests) : ~requests[i].gptp
      BY <1>2, <2>2 DEF AnswersFit
    <3>2. requests[1].gptp = FALSE
      <4> DEFINE Messages == [id : Kinds, gptp : BOOLEAN]
      <4>1. requests \in Seq(Messages) /\ 1 \in 1..Len(requests)
        BY Ptp4lMoves DEF TypeOK
      <4>2. requests[1] \in Messages
        <5> HIDE DEF Messages
        <5> QED BY <4>1
      <4> QED BY <3>1, <4>1, <4>2
    <3> QED BY <1>2, <2>2, <3>1, <3>2, Ptp4lMoves DEF AnswersFit
  <2>3. ASSUME OneOwed
        PROVE  OneOwed'
    <3>1. CASE requests[1].gptp \notin answers /\ inbox' = inbox
      <4>1. ASSUME NEW i \in 1..Len(requests'), requests'[i].gptp \in answers
            PROVE  /\ inbox = <<>> /\ requests'[i].id = request
                   /\ \A j \in 1..Len(requests') : requests'[j].gptp \in answers => i = j
        <5>1. i + 1 \in 1..Len(requests) /\ requests'[i] = requests[i + 1]
          BY Ptp4lMoves
        <5>2. /\ inbox = <<>> /\ requests[i + 1].id = request
              /\ \A j \in 1..Len(requests) : requests[j].gptp \in answers => i + 1 = j
          BY <2>3, <4>1, <5>1 DEF OneOwed
        <5>3. \A j \in 1..Len(requests') : requests'[j].gptp \in answers => i + 1 = j + 1
          BY <5>2, Ptp4lMoves
        <5> QED BY <5>1, <5>2, <5>3
      <4> QED BY <1>0, <2>3, <3>1, <4>1 DEF OneOwed
    <3>2. CASE requests[1].gptp \in answers
      <4>1. inbox = <<>> /\ requests[1].id = request
            /\ \A j \in 1..Len(requests) : requests[j].gptp \in answers => 1 = j
        BY <2>3, <3>2, Ptp4lMoves DEF OneOwed
      <4>2. inbox' = <<request>>
        BY <3>2, <4>1, Ptp4lMoves
      <4>3. \A i \in 1..Len(requests') : requests'[i].gptp \notin answers
        BY <4>1, Ptp4lMoves
      <4> QED BY <1>0, <4>2, <4>3 DEF OneOwed
    <3> QED BY <3>1, <3>2, Ptp4lMoves
  <2>4. ASSUME NothingOwed
        PROVE  NothingOwed'
    BY <1>0, <2>4, Ptp4lMoves DEF NothingOwed
  <2> QED BY <1>0, <1>2, <2>1, <2>2, <2>3, <2>4 DEF AnswersFit
<1>3. ASSUME AnswersFit, NoTrouble
      PROVE  NoTrouble'
  <2>1. /\ inbox' = inbox \/ requests[1].gptp \in answers
        /\ requests[1].gptp \in BOOLEAN
    <3> DEFINE Messages == [id : Kinds, gptp : BOOLEAN]
    <3>1. requests \in Seq(Messages) /\ 1 \in 1..Len(requests)
      BY Ptp4lMoves DEF TypeOK
    <3>2. requests[1] \in Messages
      <4> HIDE DEF Messages
      <4> QED BY <3>1
    <3> QED BY <3>2, Ptp4lMoves
  <2>2. requests[1].gptp \in answers => gptp \in answers
    BY <1>3, <2>1, Ptp4lMoves DEF AnswersFit, NoTrouble, TypeOK
  <2> QED BY <1>0, <1>3, <2>1, <2>2 DEF NoTrouble
<1> QED BY <1>2, <1>3

LEMMA RequestAdded ==
  ASSUME TypeOK, SendRequest
  PROVE  /\ Len(requests') = Len(requests) + 1 /\ Len(requests) \in Nat
         /\ requests'[Len(requests) + 1].id = request
         /\ requests'[Len(requests) + 1].gptp = gptp
         /\ \A i \in 1..Len(requests') : i # Len(requests) + 1 =>
              i \in 1..Len(requests) /\ requests'[i] = requests[i]
<1> DEFINE Messages == [id : Kinds, gptp : BOOLEAN]
           m == [id |-> request, gptp |-> gptp]
<1>1. requests \in Seq(Messages) /\ m \in Messages /\ requests' = Append(requests, m)
  BY DEF SendRequest, TypeOK
<1>2. m.id = request /\ m.gptp = gptp
  OBVIOUS
<1> HIDE DEF Messages, m
<1> QED BY <1>1, <1>2

LEMMA AnswersAsked ==
  ASSUME TypeOK, AnswersFit, SendRequest
  PROVE  AnswersFit'
<1> DEFINE n == Len(requests) + 1
<1>0. /\ pc = "send" /\ pc' = "wait" /\ inbox' = inbox
      /\ UNCHANGED <<request, gptp, buf, ptpRet>> /\ UNCHANGED <<port, ptpOffset, answers>>
  BY DEF SendRequest, ptp4lVars
<1>1. /\ Len(requests') = n /\ n \in Nat /\ n \in 1..n
      /\ requests'[n].id = request /\ requests'[n].gptp = gptp
      /\ \A i \in 1..n : i # n => i \in 1..Len(requests) /\ requests'[i] = requests[i]
  BY RequestAdded
<1> HIDE DEF n
<1>2. ~gptp => \A i \in 1..Len(requests') : ~requests'[i].gptp
  BY <1>1 DEF AnswersFit
<1>3. OneOwed
  BY <1>0 DEF AnswersFit
<1>4. OneOwed'
  <2>1. CASE gptp \in answers
    <3>1. NothingOwed
      BY <1>0, <2>1 DEF AnswersFit
    <3>2. inbox = <<>> /\ \A i \in 1..n : requests'[i].gptp \in answers => i = n
      BY <1>1, <3>1 DEF NothingOwed
    <3> QED BY <1>0, <1>1, <3>2 DEF OneOwed
  <2>2. CASE gptp \notin answers
    <3>1. \A i \in 1..n : requests'[i].gptp \in answers =>
            i # n /\ i \in 1..Len(requests) /\ requests'[i] = requests[i]
      BY <1>1, <2>2
    <3> QED BY <1>0, <1>1, <1>3, <3>1 DEF OneOwed
  <2> QED BY <2>1, <2>2
<1> QED BY <1>0, <1>2, <1>4 DEF AnswersFit

\* A request that is given up leaves nothing under way that the next one could
\* take for its own answer.
LEMMA GivenUp ==
  ASSUME TypeOK, AnswersFit, InStep', SendRequestFails \/ Timeout
  PROVE  AnswersFit'
<1>0. /\ UNCHANGED <<requests, inbox, request, buf>> /\ UNCHANGED <<port, ptpOffset, answers>>
      /\ pc \in {"send", "wait"} /\ pc' \in {"send", "done"} /\ ptpRet' # "success"
      /\ pc' = "send" => ~gptp /\ gptp'
      /\ gptp => gptp'
  BY DEF SendRequestFails, Timeout, Fails, Ends, ptp4lVars, TypeOK
<1>1. OneOwed' /\ OneOwed
  BY <1>0 DEF AnswersFit, OneOwed
<1>2. ASSUME pc' = "send", gptp' \in answers
      PROVE  NothingOwed'
  <2>1. ~gptp /\ gptp' = TRUE /\ \A i \in 1..Len(requests) : ~requests[i].gptp
    BY <1>0, <1>2 DEF AnswersFit, TypeOK, SendRequestFails, Timeout, Fails, Ends
  <2>2. \A i \in 1..Len(requests) : requests[i].gptp = FALSE
    <3> DEFINE Messages == [id : Kinds, gptp : BOOLEAN]
    <3>1. requests \in Seq(Messages) /\ \A x \in Messages : x.gptp \in BOOLEAN
      BY DEF TypeOK
    <3>2. \A i \in 1..Len(requests) : requests[i] \in Messages
      <4> HIDE DEF Messages
      <4> QED BY <3>1
    <3> QED BY <2>1, <3>1, <3>2
  <2>3. CASE FALSE \notin answers
    <3>1. inbox = <<>>
      BY <2>1, <2>3 DEF AnswersFit
    <3> QED BY <1>0, <2>2, <2>3, <3>1 DEF NothingOwed
  <2>4. CASE FALSE \in answers /\ pc = "send"
    <3>1. NothingOwed
      BY <2>1, <2>4 DEF AnswersFit, TypeOK
    <3> QED BY <1>0, <3>1 DEF NothingOwed
  <2>5. CASE FALSE \in answers /\ pc = "wait"
    <3>1. Timeout
      BY <2>5 DEF SendRequestFails
    <3>2. "late" \in troubles'
      BY <2>1, <2>5, <3>1 DEF Timeout, TypeOK
    <3>3. answers = BOOLEAN
      BY <1>2, <2>1, <2>5, PtpAssumption DEF TypeOK
    <3> QED BY <1>0, <3>2, <3>3 DEF InStep
  <2> QED BY <1>0, <2>3, <2>4, <2>5
<1> QED BY <1>0, <1>1, <1>2 DEF AnswersFit

LEMMA AnswersRead ==
  ASSUME TypeOK, AnswersFit, InStep', ReadAnswer \/ ReadAnswerFails
  PROVE  AnswersFit'
<1>1. ReadAnswer
  BY DEF ReadAnswerFails, InStep
<1>2. /\ pc = "wait" /\ pc' = "parse" /\ inbox # <<>> /\ inbox \in Seq(Kinds)
      /\ inbox' = Tail(inbox) /\ buf' = Head(inbox)
      /\ UNCHANGED <<requests, request, gptp, ptpRet>> /\ UNCHANGED <<port, ptpOffset, answers>>
  BY <1>1 DEF ReadAnswer, ptp4lVars, TypeOK
<1>3. OneOwed
  BY <1>2 DEF AnswersFit
<1>4. Head(inbox) = inbox[1] /\ Len(Tail(inbox)) = Len(inbox) - 1 /\ Len(inbox) \in Nat
      /\ 1 <= Len(inbox) /\ Tail(inbox) \in Seq(Kinds)
  BY <1>2
<1>5. inbox' = <<>> /\ buf' = request
  BY <1>2, <1>3, <1>4 DEF OneOwed
<1>6. \A i \in 1..Len(requests) : requests[i].gptp \notin answers
  BY <1>2, <1>3 DEF OneOwed
<1> QED BY <1>2, <1>5, <1>6 DEF AnswersFit, NothingOwed

\* An answer that is too short is the one that was owed.
LEMMA AnswersShort ==
  ASSUME TypeOK, AnswersFit, ReadShortAnswer
  PROVE  AnswersFit'
<1>1. /\ pc = "wait" /\ inbox # <<>> /\ inbox \in Seq(Kinds) /\ inbox' = Tail(inbox)
      /\ UNCHANGED <<requests, request>> /\ UNCHANGED <<port, ptpOffset, answers>>
      /\ pc' \in {"send", "done"} /\ ptpRet' # "success" /\ (gptp => gptp')
  BY DEF ReadShortAnswer, Fails, Ends, ptp4lVars, TypeOK
<1>2. OneOwed
  BY <1>1 DEF AnswersFit
<1>3. Len(Tail(inbox)) = Len(inbox) - 1 /\ Len(inbox) \in Nat /\ 1 <= Len(inbox)
      /\ Tail(inbox) \in Seq(Kinds)
  BY <1>1
<1>4. inbox' = <<>>
  BY <1>1, <1>2, <1>3 DEF OneOwed
<1>5. NothingOwed' /\ OneOwed'
  BY <1>1, <1>2, <1>4 DEF OneOwed, NothingOwed
<1> QED BY <1>1, <1>4, <1>5 DEF AnswersFit

LEMMA AnswersParsed ==
  ASSUME TypeOK, AnswersFit, ParsePort \/ ParseTime
  PROVE  AnswersFit'
<1>0. /\ UNCHANGED <<requests, inbox, gptp, buf>> /\ UNCHANGED <<port, ptpOffset, answers>>
      /\ pc = "parse" /\ pc' \in {"send", "done"} /\ ptpRet = "none"
  BY DEF ParsePort, ParseTime, Ends, ptp4lVars, TypeOK
<1>1. NothingOwed /\ NothingOwed' /\ buf = request
  BY <1>0 DEF AnswersFit, NothingOwed
<1>2. OneOwed'
  BY <1>0, <1>1 DEF OneOwed, NothingOwed
<1>3. (ptpRet' = "success" /\ port = "SLAVE") => Distance(ptpOffset) <= OffsetLimit
  <2>1. CASE ParsePort
    BY <1>0, <1>1, <2>1 DEF ParsePort, IsSlave, Ends
  <2>2. CASE ParseTime
    BY <1>0, <1>1, <2>2 DEF ParseTime, MasterOffset, Judgement, Ends
  <2> QED BY <2>1, <2>2
<1> QED BY <1>0, <1>1, <1>2, <1>3 DEF AnswersFit

LEMMA AnswersStay ==
  ASSUME UNCHANGED <<requests, inbox, pc, request, gptp, buf, sane, ptpRet>>,
         UNCHANGED <<port, ptpOffset, answers>>
  PROVE  (AnswersFit => AnswersFit') /\ (NoTrouble => NoTrouble')
<1>1. (OneOwed => OneOwed') /\ (NothingOwed => NothingOwed')
  BY DEF OneOwed, NothingOwed
<1>2. AnswersFit => AnswersFit'
  BY <1>1 DEF AnswersFit
<1>3. NoTrouble => NoTrouble'
  BY DEF NoTrouble
<1> QED BY <1>2, <1>3

LEMMA FitStep ==
  ASSUME TypeOK, AnswersFit, [Next]_vars, InStep'
  PROVE  AnswersFit'
<1>1. CASE CheckLocalClock \/ Report \/ UNCHANGED vars
  <2>1. /\ UNCHANGED <<requests, inbox, pc, request, gptp, buf, sane, ptpRet>>
        /\ UNCHANGED <<port, ptpOffset, answers>>
    BY <1>1 DEF CheckLocalClock, Report, vars, ptpVars, ptp4lVars
  <2> QED BY <2>1, AnswersStay
<1>2. CASE Ptp4l
  BY <1>2, AnswersMove
<1>3. CASE CheckPtpOffset
  <2>1. CASE OpenSocket \/ OpenSocketFails
    <3>1. /\ UNCHANGED <<requests, inbox, request, gptp, buf>> /\ UNCHANGED <<port, ptpOffset, answers>>
          /\ requests = <<>> /\ inbox = <<>> /\ ptpRet' # "success" /\ pc' \in {"send", "done"}
          /\ gptp \in BOOLEAN
      BY <2>1 DEF OpenSocket, OpenSocketFails, Ends, ptp4lVars, AnswersFit, TypeOK
    <3>2. OneOwed' /\ NothingOwed'
      BY <3>1 DEF OneOwed, NothingOwed
    <3> QED BY <3>1, <3>2 DEF AnswersFit
  <2>2. CASE SendRequest
    BY <2>2, AnswersAsked
  <2>3. CASE SendRequestFails \/ Timeout
    BY <2>3, GivenUp
  <2>4. CASE ReadAnswer \/ ReadAnswerFails
    BY <2>4, AnswersRead
  <2>5. CASE ParsePort \/ ParseTime
    BY <2>5, AnswersParsed
  <2>6. CASE ReadShortAnswer
    BY <2>6, AnswersShort
  <2> QED BY <1>3, <2>1, <2>2, <2>3, <2>4, <2>5, <2>6 DEF CheckPtpOffset, PtpStep
<1> QED BY <1>1, <1>2, <1>3 DEF Next, Program

LEMMA TroubleFreeStep ==
  ASSUME TypeOK, AnswersFit, NoTrouble, [Next]_vars, troubles' = {}
  PROVE  NoTrouble'
<1> USE DEF ptp4lVars
<1>1. CASE CheckLocalClock \/ Report \/ UNCHANGED vars
  <2>1. /\ UNCHANGED <<requests, inbox, pc, request, gptp, buf, sane, ptpRet>>
        /\ UNCHANGED <<port, ptpOffset, answers>>
    BY <1>1 DEF CheckLocalClock, Report, vars, ptpVars, ptp4lVars
  <2> QED BY <2>1, AnswersStay
<1>2. CASE Ptp4l
  BY <1>2, AnswersMove
<1>3. CASE CheckPtpOffset
  <2>1. CASE OpenSocket \/ SendRequest
    <3>1. /\ UNCHANGED <<inbox, request, gptp, sane, ptpRet>> /\ UNCHANGED <<port, ptpOffset, answers>>
          /\ pc' # "parse"
      BY <2>1 DEF OpenSocket, SendRequest
    <3> QED BY <3>1 DEF NoTrouble
  <2>2. CASE OpenSocketFails \/ SendRequestFails \/ ReadAnswerFails \/ ReadShortAnswer
    BY <2>2 DEF OpenSocketFails, SendRequestFails, ReadAnswerFails, ReadShortAnswer
  <2>3. CASE Timeout
    <3>1. gptp \notin answers /\ gptp \in BOOLEAN /\ inbox' = <<>> /\ UNCHANGED <<request, sane>>
          /\ UNCHANGED <<port, ptpOffset, answers>> /\ request = "PORT_DATA_SET"
          /\ pc' # "parse"
      BY <2>3 DEF Timeout, Fails, Ends, NoTrouble, TypeOK, Kinds
    <3>2. CASE ~gptp
      BY <2>3, <3>1, <3>2 DEF Timeout, Fails, NoTrouble, TypeOK
    <3>3. CASE gptp
      <4>1. answers = {}
        BY <3>1, <3>3, PtpAssumption DEF NoTrouble, TypeOK
      <4> QED BY <2>3, <3>1, <3>3, <4>1 DEF Timeout, Fails, Ends, NoTrouble
    <3> QED BY <3>2, <3>3
  <2>4. CASE ReadAnswer
    BY <2>4 DEF ReadAnswer, NoTrouble
  <2>5. CASE ParsePort
    <3>1. /\ pc = "parse" /\ buf = "PORT_DATA_SET" /\ request = "PORT_DATA_SET"
          /\ UNCHANGED <<gptp, inbox>> /\ UNCHANGED <<port, ptpOffset, answers>>
          /\ gptp \in answers /\ pc' # "parse"
      BY <2>5 DEF ParsePort, AnswersFit, NoTrouble, Ends
    <3>2. CASE port = "SLAVE"
      <4>1. PICK slave \in {TRUE} :
              IF slave THEN request' = "TIME_STATUS_NP" /\ pc' = "send" /\ UNCHANGED ptpRet
                       ELSE UNCHANGED request /\ Ends(Judgement(IsPortSane, 0))
        BY <2>5, <3>1, <3>2 DEF ParsePort, IsSlave
      <4>2. ptpRet' = ptpRet /\ ptpRet = "none"
        BY <2>5, <3>1, <4>1 DEF TypeOK
      <4>3. sane'
        BY <2>5, <3>1, <3>2 DEF ParsePort, IsPortSane, SaneStates
      <4> QED BY <3>1, <3>2, <4>2, <4>3 DEF NoTrouble
    <3>3. CASE port # "SLAVE"
      <4>1. /\ request' = request /\ sane' = (port \in SaneStates)
            /\ ptpRet' = Judgement(port \in SaneStates, 0)
        <5>1. IsPortSane = (port \in SaneStates)
          BY <3>1 DEF IsPortSane
        <5>2. PICK slave \in {FALSE} :
                IF slave THEN request' = "TIME_STATUS_NP" /\ pc' = "send" /\ UNCHANGED ptpRet
                         ELSE UNCHANGED request /\ Ends(Judgement(IsPortSane, 0))
          BY <2>5, <3>1, <3>3 DEF ParsePort, IsSlave
        <5>3. request' = request /\ ptpRet' = Judgement(IsPortSane, 0)
          BY <5>2 DEF Ends
        <5>4. sane' = IsPortSane
          BY <2>5 DEF ParsePort
        <5> QED BY <5>1, <5>3, <5>4
      <4>2. port \in SaneStates => ptpRet' = "success"
        BY <4>1 DEF Judgement, OffsetLimit
      <4> QED BY <3>1, <3>3, <4>1, <4>2 DEF NoTrouble
    <3> QED BY <3>2, <3>3
  <2>6. CASE ParseTime
    <3>1. /\ pc = "parse" /\ buf = "TIME_STATUS_NP" /\ request = "TIME_STATUS_NP"
          /\ UNCHANGED <<gptp, inbox, request, sane>> /\ UNCHANGED <<port, ptpOffset, answers>>
          /\ sane /\ port = "SLAVE"
      BY <2>6 DEF ParseTime, AnswersFit, NoTrouble
    <3>2. Distance(ptpOffset) <= OffsetLimit => ptpRet' = "success"
      BY <2>6, <3>1 DEF ParseTime, MasterOffset, Judgement, Ends
    <3> QED BY <3>1, <3>2 DEF NoTrouble
  <2> QED BY <1>3, <2>1, <2>2, <2>3, <2>4, <2>5, <2>6 DEF CheckPtpOffset, PtpStep
<1> QED BY <1>1, <1>2, <1>3 DEF Next, Program

LEMMA PtpInvariant == Spec => []PtpInv
<1>1. Init => PtpInv
  <2> SUFFICES ASSUME Init PROVE PtpInv
    OBVIOUS
  <2>1. AnswersFit
    BY DEF Init, AnswersFit
  <2>2. NoTrouble
    BY DEF Init, NoTrouble
  <2> QED BY <2>1, <2>2 DEF PtpInv
<1>2. TypeOK /\ PtpInv /\ [Next]_vars => PtpInv'
  <2> SUFFICES ASSUME TypeOK, PtpInv, [Next]_vars PROVE PtpInv'
    OBVIOUS
  <2>1. (InStep' => InStep) /\ (troubles' = {} => troubles = {} /\ InStep)
    BY TroublesStay DEF InStep
  <2> QED BY <2>1, FitStep, TroubleFreeStep DEF PtpInv
<1> QED BY <1>1, <1>2, ClockCheckTypes, PTL DEF Spec

\* No slave far from its master passes, unless an answer was late and ptp4l
\* accepts both profiles, or an answer could not be read
\* (tool/check_clock.c:331-362).
THEOREM PassedIsNear == Spec => []PassedOffsetIsSmall
<1>1. PtpInv /\ SaneIsTrue => PassedOffsetIsSmall
  BY DEF PtpInv, InStep, AnswersFit, SaneIsTrue, PassedOffsetIsSmall
<1> QED BY <1>1, PtpInvariant, SaneInvariant, PTL

\* A port that is sane and near its master passes if nothing goes wrong and
\* ptp4l accepts a profile (tool/check_clock.c:333-346).
THEOREM SoundPasses == Spec => []SoundPortPasses
<1>1. PtpInv => SoundPortPasses
  BY DEF PtpInv, NoTrouble, SoundPortPasses
<1> QED BY <1>1, PtpInvariant, PTL
=============================================================================
