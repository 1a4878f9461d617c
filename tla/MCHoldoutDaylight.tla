-------------------------- MODULE MCHoldoutDaylight --------------------------
(***************************************************************************)
(* A day of six units: the clocks go from 1 to 2, a window stands from 3   *)
(* to 4.                                                                   *)
(***************************************************************************)
EXTENDS HoldoutDaylight

AfternoonWindow == <<[start |-> 3, end |-> 4]>>
=============================================================================
