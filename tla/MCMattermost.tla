---------------------------- MODULE MCMattermost ----------------------------
(***************************************************************************)
(* A small instance of Mattermost for TLC.                                 *)
(***************************************************************************)
EXTENDS Mattermost, TLC
=============================================================================
