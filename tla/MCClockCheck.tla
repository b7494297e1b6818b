---------------------------- MODULE MCClockCheck ----------------------------
(* ClockCheck for TLC. *)
EXTENDS ClockCheck

\* Both sides of both limits.
MCPhcErrors == {-51, -50, 0, 49, 50}
MCOffsets   == {-101, 100}
AllProfiles == {{}, {FALSE}, {TRUE}, BOOLEAN}
=============================================================================
