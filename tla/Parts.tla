--------------------------------- MODULE Parts ---------------------------------
(***************************************************************************)
(* The parts that share no variable with the rest, each by itself: a       *)
(* behaviour is one of them.                                               *)
(***************************************************************************)
EXTENDS SerialTransport, SerialFrameRouter, FrameCodecs, Odometry, DepthCloudFilter

VARIABLE part  \* the one that this behaviour is of

PartNames == {"transport", "router", "codecs", "odometry", "filter"}

PartsInit ==
  /\ part \in PartNames
  /\ TransportInit /\ RouterInit /\ CodecsInit /\ OdometryInit /\ FilterInit

PartsNext ==
  /\ UNCHANGED part
  /\ \/ /\ part = "transport" /\ TransportNext
        /\ UNCHANGED <<routerVars, codecVars, odometryVars, filterVars>>
     \/ /\ part = "router" /\ RouterNext
        /\ UNCHANGED <<transportVars, codecVars, odometryVars, filterVars>>
     \/ /\ part = "codecs" /\ CodecsNext
        /\ UNCHANGED <<transportVars, routerVars, odometryVars, filterVars>>
     \/ /\ part = "odometry" /\ OdometryNext
        /\ UNCHANGED <<transportVars, routerVars, codecVars, filterVars>>
     \/ /\ part = "filter" /\ FilterNext
        /\ UNCHANGED <<transportVars, routerVars, codecVars, odometryVars>>

PartsSpec ==
  PartsInit /\ [][PartsNext]_<<part, transportVars, routerVars, codecVars, odometryVars, filterVars>>

\* Every part keeps to the types of its variables.
PartsTypeOK ==
  TransportTypeOK /\ RouterTypeOK /\ OdometryTypeOK /\ FilterTypeOK
================================================================================
