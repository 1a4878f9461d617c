----------------------------- MODULE MCRepoSync -----------------------------
(***************************************************************************)
(* A small instance of RepoSync for TLC.                                   *)
(***************************************************************************)
EXTENDS RepoSync, TLC
=============================================================================
