--------------------------- MODULE MCBaseIoWorker ---------------------------
(* Values for TLC that a .cfg cannot write.                                *)
EXTENDS BaseIoWorkerRefinement

OneVelocity == {2}

\* One that a frame carries, and one that the limit cuts to what none does.
TwoVelocities == {1, 3}
=============================================================================
