--------------------------- MODULE MCClockHistory ---------------------------
(***************************************************************************)
(* ClockHistory with the values of MCHybridClock.                          *)
(***************************************************************************)
EXTENDS ClockHistory, MCHybridClock
=============================================================================
