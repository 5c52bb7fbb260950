------------------------------- MODULE Checksum -------------------------------
(***************************************************************************)
(* The checksum of the serial protocols.  What its operation does to two   *)
(* bytes is a parameter: nothing that is stated of the router or of the    *)
(* protocols depends on it.                                                *)
(***************************************************************************)
EXTENDS SequencesExt

CONSTANT ExclusiveOr(_, _)  \* the exclusive or of two bytes

XorBcc(bytes) == FoldLeft(ExclusiveOr, 0, bytes)
=============================================================================
