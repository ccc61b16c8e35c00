---------------------------- MODULE MCDailySlot ----------------------------
(***************************************************************************)
(* Days of 24 hours; the clock may change at midnight, at two in the       *)
(* morning or in the last hour of the day.                                 *)
(***************************************************************************)
EXTENDS DailySlot

AllShifts == {-1, 0, 1}
=============================================================================
