------------------------- MODULE MCClosedLoopSegment -------------------------
(* Values for TLC that a .cfg cannot write.                                *)
EXTENDS ClosedLoopSegment

OneVelocity == {2}
==============================================================================
