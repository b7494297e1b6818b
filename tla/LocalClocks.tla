----------------------------- MODULE LocalClocks -----------------------------
(***************************************************************************)
(* check_local_clock (tool/check_clock.c): CLOCK_REALTIME, CLOCK_TAI and   *)
(* the NIC's clock (PHC) are read one after the other, and two differences *)
(* of what was read are compared with a limit, "50 usec".                  *)
(*                                                                         *)
(* The instants are whole microseconds of CLOCK_REALTIME.  The other two   *)
(* clocks run at its rate, and nobody sets a clock during the check: the   *)
(* TAI clock is ahead by the offset that the kernel has been told, the PHC *)
(* is phcError away from true TAI.                                         *)
(*                                                                         *)
(* clock_gettime, whose result the program does not test, is assumed to    *)
(* succeed: after one that fails, of the PHC's, the differences are of     *)
(* whatever the stack held, and nothing can be said of what they pass.     *)
(***************************************************************************)
EXTENDS Integers

CONSTANTS
  PhcErrors,   \* how far the PHC may be from TAI
  TaiOffsets,  \* offsets the kernel may have been told, in seconds
  Delays,      \* how long the program may be held up before a reading
  Errors       \* may system calls fail?

UTC_OFFSET == 37
ONE_SEC    == 1000000
Limit      == 50

ASSUME ClockAssumption ==
  /\ PhcErrors \subseteq Int /\ TaiOffsets \subseteq Int /\ Delays \subseteq Nat
  /\ Errors \in BOOLEAN

VARIABLES
  phcError, taiOffset,  \* the state of the clocks
  now,                  \* the time
  step,                 \* how far check_local_clock is
  reads,                \* rt, tai and ptp
  localRet,             \* ret of check_local_clock
  troubles              \* the calls that have failed

clockVars == <<phcError, taiOffset>>
localVars == <<now, step, reads, localRet>>

\* How much more than CLOCK_REALTIME a clock shows.
Ahead == [rt |-> 0, tai |-> taiOffset * ONE_SEC, ptp |-> UTC_OFFSET * ONE_SEC + phcError]

Distance(x) == IF x < 0 THEN -x ELSE x

-----------------------------------------------------------------------------
\* open_phc_fd.
OpenPhc ==
  /\ step = "todo"
  /\ step' = "rt"
  /\ UNCHANGED <<clockVars, now, reads, localRet, troubles>>

\* socket, ioctl or open fails in it: exit(EXIT_FAILURE).
OpenPhcFails ==
  /\ Errors
  /\ step = "todo"
  /\ step' = "exited"
  /\ troubles' = troubles \cup {"open_phc"}
  /\ UNCHANGED <<clockVars, now, reads, localRet>>

\* clock_gettime of one clock, and on to the next.  The pairs of readings that
\* follow are only printed.
ReadClock(clock, next) ==
  /\ step = clock
  /\ \E d \in Delays : /\ now' = now + d
                       /\ reads' = [reads EXCEPT ![clock] = now + d + Ahead[clock]]
  /\ step' = next
  /\ UNCHANGED <<clockVars, localRet, troubles>>

\* Faulty: as if CLOCK_REALTIME were TAI.
RealtimeOff_NoUtcOffset == Distance(reads.ptp - reads.rt) >= Limit

RealtimeOff == Distance(reads.ptp - reads.rt - UTC_OFFSET * ONE_SEC) >= Limit

\* Faulty: without llabs.
TaiOff_Signed == reads.ptp - reads.tai > Limit

TaiOff == Distance(reads.ptp - reads.tai) > Limit

\* The four tests.
JudgeClocks ==
  /\ step = "judge"
  /\ \E adjtimex \in IF Errors THEN {"ok", "fails"} ELSE {"ok"} :
       /\ localRet' = IF \/ RealtimeOff \/ TaiOff
                         \/ adjtimex = "fails" \/ taiOffset # UTC_OFFSET
                        THEN "failure" ELSE "success"
       /\ troubles' = IF adjtimex = "fails" THEN troubles \cup {"adjtimex"} ELSE troubles
  /\ step' = "done"
  /\ UNCHANGED <<clockVars, now, reads>>

LocalInit ==
  /\ phcError \in PhcErrors /\ taiOffset \in TaiOffsets
  /\ now = 0
  /\ step = "todo"
  /\ reads = [rt |-> 0, tai |-> 0, ptp |-> 0]
  /\ localRet = "none"
  /\ troubles = {}

LocalStep ==
  \/ OpenPhc \/ OpenPhcFails
  \/ ReadClock("rt", "tai")
  \/ ReadClock("tai", "ptp")
  \/ ReadClock("ptp", "judge")
  \/ JudgeClocks

-----------------------------------------------------------------------------
LocalTypeOK ==
  /\ phcError \in Int /\ taiOffset \in Int
  /\ now \in Nat
  /\ step \in {"todo", "rt", "tai", "ptp", "judge", "done", "exited"}
  /\ reads \in [{"rt", "tai", "ptp"} -> Int]
  /\ localRet \in {"none", "success", "failure"}

\* A PHC that is too far from TAI passes only if the program was held up
\* between two readings, and only if it is late: by no more than the limit and
\* the time that passed between the readings of TAI and PHC.  The kernel's TAI
\* offset is right whenever the check passes (tool/check_clock.c:420-438).
PassedClocksAreClose ==
  (step = "done" /\ localRet = "success") =>
    /\ taiOffset = UTC_OFFSET
    /\ phcError < Limit
    /\ phcError >= -Limit - (reads.ptp - phcError - reads.tai)

\* A PHC that is exact passes, if the three readings took less than the limit
\* (tool/check_clock.c:383-388): a preempted check reports clocks that are in
\* order.
ExactClocksPass ==
  (/\ step = "done" /\ phcError = 0 /\ taiOffset = UTC_OFFSET
   /\ now - reads.rt < Limit /\ "adjtimex" \notin troubles)
     => localRet = "success"
=============================================================================
