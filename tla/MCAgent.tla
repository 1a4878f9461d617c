------------------------------ MODULE MCAgent ------------------------------
(***************************************************************************)
(* Small instances of Agent for TLC: days of a few ticks, with one or two  *)
(* holdout windows in them.                                                *)
(***************************************************************************)
EXTENDS Agent

\* One window in the middle of a day, so that the agent starts before it,
\* inside it or after it, and the day leaves room for a snooze on both sides.
MiddayWindow == <<[start |-> 1, end |-> 2]>>

NoWindows == <<>>

=============================================================================
