------------------------- MODULE MCCommandPathSafety -------------------------
(* Values for TLC that a .cfg cannot write.                                *)
EXTENDS CommandPathSafety

OneVelocity == {2}
Near == {1}
=============================================================================
