--------------------------- MODULE MCControlPlane ---------------------------
(***************************************************************************)
(* The daemons and callers of a run are model values of its .cfg: three    *)
(* daemons, so that one may meet what an overlap of two others left.       *)
(***************************************************************************)
EXTENDS ControlPlane
=============================================================================
