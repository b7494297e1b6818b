------------------------------ MODULE ClockCheck ------------------------------
(***************************************************************************)
(* tool/check_clock.c as a whole: main joins check_local_clock             *)
(* (LocalClocks) and check_ptp_offset, which asks ptp4l over a datagram    *)
(* socket for its port state and, if it is a slave, for its offset from    *)
(* the master.  Each request waits for an answer for one second; the port  *)
(* request is then repeated with the other profile, on the same socket, so *)
(* that an answer may arrive when another one is expected.                 *)
(*                                                                         *)
(* ptp4l is not part of the repository.  It answers, at any time or never, *)
(* the requests whose transportSpecific field it accepts; its state does   *)
(* not change during the check.                                            *)
(***************************************************************************)
EXTENDS LocalClocks, Sequences

CONSTANTS
  PortStates,  \* states that ptp4l's port may be in
  Offsets,     \* offsets from the master that it may report, in nanoseconds
  Accepting    \* sets of values of transportSpecific that it may accept

SaneStates == {"MASTER", "SLAVE", "GRAND_MASTER"}
OffsetLimit == 100

ASSUME PtpAssumption ==
  /\ Offsets \subseteq Int
  /\ Accepting \subseteq SUBSET BOOLEAN

VARIABLES
  port, ptpOffset, answers,  \* ptp4l: its state, and what it accepts
  requests,   \* requests that ptp4l has not read
  inbox,      \* answers that the check has not read
  pc,         \* where check_ptp_offset is
  request,    \* what it asks for
  gptp,       \* gptp_profile
  buf,        \* rec_buf: what kind of answer it holds
  sane,       \* sane_port_state
  ptpRet,     \* what check_ptp_offset returns
  verdict     \* what main prints

ptp4lVars == <<port, ptpOffset, answers>>
ptpVars   == <<ptp4lVars, requests, inbox, pc, request, gptp, buf, sane, ptpRet>>
vars      == <<clockVars, localVars, troubles, ptpVars, verdict>>

Kinds == {"PORT_DATA_SET", "TIME_STATUS_NP"}

-----------------------------------------------------------------------------
\* build_ptp_request, for the first time.
OpenSocket ==
  /\ pc = "todo"
  /\ pc' = "send"
  /\ UNCHANGED <<ptp4lVars, requests, inbox, request, gptp, buf, sane, ptpRet, troubles>>

\* Faulty: the result is not set.
Ends_NoResult(ret) == pc' = "done" /\ UNCHANGED ptpRet

\* ret, and the end of check_ptp_offset.
Ends(ret) == pc' = "done" /\ ptpRet' = ret

\* init_sockets: socket or bind fails.
OpenSocketFails ==
  /\ Errors
  /\ pc = "todo"
  /\ Ends("failure")
  /\ troubles' = troubles \cup {"socket"}
  /\ UNCHANGED <<ptp4lVars, requests, inbox, request, gptp, buf, sane>>

\* Faulty: the second attempt is left out.
Fails_NoGptp == Ends("failure") /\ UNCHANGED gptp

\* What check_ptp_offset does when send_wait_recv fails: the first request is
\* repeated with the other profile.
Fails ==
  IF request = "PORT_DATA_SET" /\ ~gptp
  THEN gptp' = TRUE /\ pc' = "send" /\ UNCHANGED ptpRet
  ELSE Ends("failure") /\ UNCHANGED gptp

\* send_wait_recv: sendto.
SendRequest ==
  /\ pc = "send"
  /\ requests' = Append(requests, [id |-> request, gptp |-> gptp])
  /\ pc' = "wait"
  /\ UNCHANGED <<ptp4lVars, inbox, request, gptp, buf, sane, ptpRet, troubles>>

\* There is no ptp4l, or sendto fails otherwise.
SendRequestFails ==
  /\ Errors
  /\ pc = "send"
  /\ Fails
  /\ troubles' = troubles \cup {"send"}
  /\ UNCHANGED <<ptp4lVars, requests, inbox, request, buf, sane>>

\* Faulty: poll with no time limit.
Timeout_Never == FALSE /\ UNCHANGED vars

\* One second has passed.  The request stays where it is.
Timeout ==
  /\ pc = "wait" /\ inbox = <<>>
  /\ Fails
  /\ troubles' = IF gptp \in answers THEN troubles \cup {"late"} ELSE troubles
  /\ UNCHANGED <<ptp4lVars, requests, inbox, request, buf, sane>>

\* read succeeds.
ReadAnswer ==
  /\ pc = "wait" /\ inbox # <<>>
  /\ buf' = Head(inbox) /\ inbox' = Tail(inbox)
  /\ pc' = "parse"
  /\ UNCHANGED <<ptp4lVars, requests, request, gptp, sane, ptpRet, troubles>>

\* read fails: its -1, compared with a size_t, is more than enough, and the
\* buffer is parsed as it is.
ReadAnswerFails ==
  /\ Errors
  /\ pc = "wait" /\ inbox # <<>>
  /\ pc' = "parse"
  /\ troubles' = troubles \cup {"read"}
  /\ UNCHANGED <<ptp4lVars, requests, inbox, request, gptp, buf, sane, ptpRet>>

\* ptp4l's answer is an error, shorter than the shortest answer that is wanted.
ReadShortAnswer ==
  /\ Errors
  /\ pc = "wait" /\ inbox # <<>>
  /\ buf' = "error" /\ inbox' = Tail(inbox)
  /\ Fails
  /\ troubles' = troubles \cup {"short"}
  /\ UNCHANGED <<ptp4lVars, requests, request, sane>>

\* Faulty: the port state is that of any answer.
IsPortSane_AnyState == buf = "PORT_DATA_SET"

\* get_port_status and is_port_sane: only of a PORT_DATA_SET.
IsPortSane == buf = "PORT_DATA_SET" /\ port \in SaneStates

\* Of any other answer port_state stays uninitialised: it may be SLAVE.
IsSlave == IF buf = "PORT_DATA_SET" THEN {port = "SLAVE"} ELSE BOOLEAN

\* Faulty: without llabs.
MasterOffset_Signed == IF buf = "TIME_STATUS_NP" THEN ptpOffset ELSE 0

\* get_master_offset.
MasterOffset == IF buf = "TIME_STATUS_NP" THEN Distance(ptpOffset) ELSE 0

\* The last test of check_ptp_offset.
Judgement(ok, offset) == IF ok /\ offset <= OffsetLimit THEN "success" ELSE "failure"

\* After the port request: a slave asks for the offset, too.
ParsePort ==
  /\ pc = "parse" /\ request = "PORT_DATA_SET"
  /\ sane' = IsPortSane
  /\ \E slave \in IsSlave :
       IF slave THEN request' = "TIME_STATUS_NP" /\ pc' = "send" /\ UNCHANGED ptpRet
                ELSE UNCHANGED request /\ Ends(Judgement(IsPortSane, 0))
  /\ UNCHANGED <<ptp4lVars, requests, inbox, gptp, buf, troubles>>

ParseTime ==
  /\ pc = "parse" /\ request = "TIME_STATUS_NP"
  /\ Ends(Judgement(sane, MasterOffset))
  /\ UNCHANGED <<ptp4lVars, requests, inbox, request, gptp, buf, sane, troubles>>

PtpStep ==
  \/ OpenSocket \/ OpenSocketFails
  \/ SendRequest \/ SendRequestFails
  \/ Timeout \/ ReadAnswer \/ ReadAnswerFails \/ ReadShortAnswer
  \/ ParsePort \/ ParseTime

-----------------------------------------------------------------------------
\* main: check_local_clock() | check_ptp_offset(), in the order the compiler
\* likes, and one of them at a time.
CheckLocalClock ==
  /\ pc \in {"todo", "done"} /\ verdict = "none"
  /\ LocalStep
  /\ UNCHANGED <<ptpVars, verdict>>

CheckPtpOffset ==
  /\ step \in {"todo", "done"} /\ verdict = "none"
  /\ PtpStep
  /\ UNCHANGED <<clockVars, localVars, verdict>>

Synchronized == localRet = "success" /\ ptpRet = "success"

Report ==
  /\ step = "done" /\ pc = "done" /\ verdict = "none"
  /\ verdict' = IF Synchronized THEN "synchronized" ELSE "verify"
  /\ UNCHANGED <<clockVars, localVars, troubles, ptpVars>>

\* ptp4l answers the oldest request, or takes no notice of it.
Ptp4l ==
  /\ requests # <<>>
  /\ requests' = Tail(requests)
  /\ inbox' = IF Head(requests).gptp \in answers
              THEN Append(inbox, Head(requests).id) ELSE inbox
  /\ UNCHANGED <<clockVars, localVars, troubles, ptp4lVars, pc, request, gptp,
                 buf, sane, ptpRet, verdict>>

Init ==
  /\ LocalInit
  /\ port \in PortStates /\ ptpOffset \in Offsets /\ answers \in Accepting
  /\ requests = <<>> /\ inbox = <<>>
  /\ pc = "todo" /\ request = "PORT_DATA_SET" /\ gptp = FALSE
  /\ buf = "zeros" /\ sane = FALSE
  /\ ptpRet = "none" /\ verdict = "none"

Program == CheckLocalClock \/ CheckPtpOffset \/ Report
Next    == Program \/ Ptp4l
Spec    == Init /\ [][Next]_vars

\* The program is scheduled and poll returns after a second; nothing is assumed
\* of ptp4l.
FairSpec == Spec /\ WF_vars(Program)

-----------------------------------------------------------------------------
TypeOK ==
  /\ LocalTypeOK
  /\ port \in PortStates /\ ptpOffset \in Offsets /\ answers \in Accepting
  /\ requests \in Seq([id : Kinds, gptp : BOOLEAN])
  /\ inbox \in Seq(Kinds)
  /\ pc \in {"todo", "send", "wait", "parse", "done"}
  /\ request \in Kinds /\ gptp \in BOOLEAN
  /\ buf \in Kinds \cup {"zeros", "error"} /\ sane \in BOOLEAN
  /\ ptpRet \in {"none", "success", "failure"}
  /\ verdict \in {"none", "synchronized", "verify"}
  /\ (pc = "done") = (ptpRet # "none")
  /\ (step = "done") = (localRet # "none")

\* "synchronized" is said only if ptp4l's port is sane, whatever answers came
\* late or were not read, and although port_state may be uninitialised then
\* (tool/check_clock.c:348-364).
PassedPortIsSane == verdict = "synchronized" => port \in SaneStates

\* It is said of a slave far from its master only if an answer was late and
\* ptp4l accepts both profiles, or if an answer could not be read
\* (tool/check_clock.c:331-362).
PassedOffsetIsSmall ==
  (verdict = "synchronized" /\ port = "SLAVE" /\ "read" \notin troubles) =>
    \/ Distance(ptpOffset) <= OffsetLimit
    \/ "late" \in troubles /\ answers = BOOLEAN

\* A sane port that is near its master passes unless something went wrong: in
\* particular the second attempt finds a ptp4l that accepts only the gPTP
\* profile (tool/check_clock.c:333-346).
SoundPortPasses ==
  (/\ ptpRet = "failure" /\ port \in SaneStates
   /\ port = "SLAVE" => Distance(ptpOffset) <= OffsetLimit)
     => answers = {} \/ troubles # {}

\* The check ends, however long ptp4l takes and whether or not it answers
\* (tool/check_clock.c:253-260).
CheckEnds == <>(verdict # "none" \/ step = "exited")

\* "Clocks on this system are synchronized :)" (tool/check_clock.c:493).
SynchronizedIsTrue ==
  verdict = "synchronized" => (port = "SLAVE" => Distance(ptpOffset) <= OffsetLimit)
=============================================================================
