------------------------------ MODULE Odometry ------------------------------
(***************************************************************************)
(* The wheel odometry: what BaseIoWorker::processFrame and the             *)
(* OdometryIntegrator make of the motion frames.  All frames of one read   *)
(* are processed with the clock reading of the iteration.                  *)
(*                                                                         *)
(* The robot turns by quarters, so that its way stays on a grid and sine   *)
(* and cosine are whole numbers.  Nothing changes when the port is lost:   *)
(* neither the pose nor the instant of the last frame is reset.            *)
(***************************************************************************)
EXTENDS Integers

CONSTANTS
  Speeds,                  \* what a motion frame may carry for vx and vy
  Turns,                   \* what it may carry for wz, in quarters
  ScaleX, ScaleY,          \* odometry.scale_x, odometry.scale_y
  ScaleLeft, ScaleRight,   \* odometry.scale_yaw_positive, .._negative
  MaxSpeed,                \* the longest way of a unit of time, as the grid goes
  MaxGap,                  \* what lies between two frames is not integrated if longer
  Start,                   \* the clock when the node starts
  MaxStep,                 \* bound: the clock advances by at most this between two reads
  MaxTime                  \* bound: the clock stops here

Abs(a) == IF a < 0 THEN -a ELSE a

ASSUME OdometryAssumption ==
  /\ Speeds \subseteq Int /\ Turns \subseteq Int
  /\ ScaleX \in Nat /\ ScaleY \in Nat /\ ScaleLeft \in Nat /\ ScaleRight \in Nat
  /\ MaxSpeed \in Nat
  /\ \A vx, vy \in Speeds : Abs(vx * ScaleX) + Abs(vy * ScaleY) <= MaxSpeed
  /\ MaxGap \in Nat /\ Start \in Nat \ {0} /\ MaxStep \in Nat /\ MaxTime \in Nat

VARIABLES
  now,   \* the clock reading of the iteration
  last,  \* last_motion_integrate_, 0 before the first frame
  pose   \* state_

odometryVars == <<now, last, pose>>

OdometryTypeOK ==
  /\ now \in Nat /\ now >= Start
  /\ last \in {0} \cup Start .. now
  /\ pose \in [x : Int, y : Int, yaw : 0 .. 3]

OdometryInit == now = Start /\ last = 0 /\ pose = [x |-> 0, y |-> 0, yaw |-> 0]

-----------------------------------------------------------------------------
Cos(yaw) == CASE yaw = 0 -> 1 [] yaw = 2 -> -1 [] OTHER -> 0
Sin(yaw) == CASE yaw = 1 -> 1 [] yaw = 3 -> -1 [] OTHER -> 0

Wrapped(yaw) == yaw % 4

\* OdometryIntegrator::update
Update(vx, vy, wz, dt) ==
  IF dt <= 0 \/ dt > MaxGap THEN pose
  ELSE LET x == vx * ScaleX
           y == vy * ScaleY
           turn == wz * (IF wz >= 0 THEN ScaleLeft ELSE ScaleRight)
       IN  [x   |-> pose.x + (x * Cos(pose.yaw) - y * Sin(pose.yaw)) * dt,
            y   |-> pose.y + (x * Sin(pose.yaw) + y * Cos(pose.yaw)) * dt,
            yaw |-> Wrapped(pose.yaw + turn * dt)]

Elapsed == IF last = 0 THEN 0 ELSE now - last

\* Mutation: only the first frame sets the instant.
StampOnce == IF last = 0 THEN now ELSE last

\* Every frame moves the instant, whether its way was integrated or not.
Stamp == now

MotionFrame ==
  \E vx, vy \in Speeds, wz \in Turns :
    /\ pose' = Update(vx, vy, wz, Elapsed)
    /\ last' = Stamp
    /\ UNCHANGED now

NextRead ==
  /\ \E d \in 1 .. MaxStep : now + d <= MaxTime /\ now' = now + d
  /\ UNCHANGED <<last, pose>>

OdometryNext == MotionFrame \/ NextRead

OdometrySpec == OdometryInit /\ [][OdometryNext]_odometryVars

-----------------------------------------------------------------------------
\* The pose is never further from the origin than the robot can have gone
\* since the start, however the frames come in bursts, late or not at all: no
\* interval is counted for two frames.
WithinReach == Abs(pose.x) + Abs(pose.y) <= MaxSpeed * (now - Start)
=============================================================================
