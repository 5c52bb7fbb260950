-------------------------- MODULE MCCommandPathModes --------------------------
(* Values for TLC that a .cfg cannot write.                                *)
EXTENDS CommandPathModes

OneVelocity == {2}
=============================================================================
