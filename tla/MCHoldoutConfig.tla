--------------------------- MODULE MCHoldoutConfig ---------------------------
(***************************************************************************)
(* Every list of up to two entries in the repo's own layer, over a day of  *)
(* six minutes: room for two windows with a gap between and around them,   *)
(* and, with entries that cross midnight, for four pieces to merge.  The   *)
(* lower layers hold nothing, one window or one broken entry.              *)
(***************************************************************************)
EXTENDS HoldoutConfig

Broken == [start |-> Unreadable, end |-> 1]

LowerLayer == {<<>>, <<[start |-> 4, end |-> 1]>>, <<Broken>>}

Readable == {e \in Entry : Unreadable \notin {e.start, e.end}}

SmallWritten ==
    [l \in Layers |-> IF l = "local" THEN BoundedSeq(Readable \union {Broken}, 2)
                                     ELSE LowerLayer]
=============================================================================
