------------------------------ MODULE MCAlerts ------------------------------
(***************************************************************************)
(* Two alert entries of one bot, which share its cache, and a log between  *)
(* them: the first sends attention to two users, the last to one of them.  *)
(***************************************************************************)
EXTENDS Alerts

CONSTANTS bot, u1, u2

SmallSinks ==
    <<[bot |-> bot, dmUsers |-> <<u1, u2>>], [bot |-> LogBot, dmUsers |-> <<>>],
      [bot |-> bot, dmUsers |-> <<u1>>]>>
=============================================================================
