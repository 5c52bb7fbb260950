--------------------------- MODULE MCFeedbackPath ---------------------------
(* Values for TLC that a .cfg cannot write.                                *)
EXTENDS FeedbackPath

NoVelocities == {}

\* Below the sensor's limits, within them and beyond them.
SomeReadings == {0, 2, 9}
=============================================================================
