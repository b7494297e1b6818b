------------------------------ MODULE TaiOffset ------------------------------
(***************************************************************************)
(* tool/set_tai_offset.c, which is to tell the kernel that TAI is 37       *)
(* seconds ahead of UTC: it reads the kernel's clock parameters, writes 37 *)
(* to one field of what it has read and hands them back.  What adjtimex    *)
(* does with them is the kernel's: it takes the offset from the field      *)
(* constant, and only if modes, which the program does not initialise,     *)
(* says so.                                                                *)
(***************************************************************************)
EXTENDS Integers

CONSTANTS
  TaiOffsets,    \* offsets the kernel may have been told
  TimeConstants, \* the time constant of its clock
  Garbage        \* what the uninitialised constant may hold

MAX_TAI_OFFSET == 100000

VARIABLES
  taiOffset, timeConstant,  \* the kernel's
  t,                        \* struct timex: adjTai (is ADJ_TAI in modes?), constant, tai
  pc                        \* how many calls have been made; 3 if one failed

vars == <<taiOffset, timeConstant, t, pc>>

\* The kernel's part of a call: the offset is set on request, and everything is
\* read back.
Adjtimex(arg) ==
  /\ taiOffset' = IF arg.adjTai /\ arg.constant \in 0..MAX_TAI_OFFSET THEN arg.constant
                                                                 ELSE taiOffset
  /\ t' = [arg EXCEPT !.constant = timeConstant, !.tai = taiOffset']
  /\ UNCHANGED timeConstant

ReadOffset ==
  /\ pc = 0
  /\ Adjtimex(t)
  /\ pc' = 1

SetOffset ==
  /\ pc = 1
  /\ Adjtimex([t EXCEPT !.tai = 37])
  /\ pc' = 2

\* Other garbage in modes, or too few privileges: return 1.
Fails ==
  /\ pc \in {0, 1}
  /\ pc' = 3
  /\ UNCHANGED <<taiOffset, timeConstant, t>>

Init ==
  /\ taiOffset \in TaiOffsets /\ timeConstant \in TimeConstants
  /\ t \in [adjTai : BOOLEAN, constant : Garbage, tai : Garbage]
  /\ pc = 0

Next == ReadOffset \/ SetOffset \/ Fails

Spec == Init /\ [][Next]_vars

\* "Replace <new_offset> with the desired TAI offset" (set_tai_offset.c:14): once
\* the program has ended well, the offset that was written into it is set.
DesiredOffsetIsSet == pc = 2 => taiOffset = 37
=============================================================================
