-------------------------- MODULE CommandPathSafety --------------------------
(***************************************************************************)
(* The command path with a record of how long that which the safety node   *)
(* was told has forbidden to move.                                         *)
(***************************************************************************)
EXTENDS CommandPath

VARIABLE blocked

safetyPathVars == <<vars, blocked>>

\* Passed on before: one way to the base and its timeout.
StopBound == BaseTimeout + MaxDelay

\* What the safety node was told permits motion: no emergency stop, nothing
\* within the distances, and news of each sensor young enough.
Told ==
  /\ ~safetyEstop
  /\ \A i \in Sensors : ranges[i].value \in Distances => ranges[i].value > HardStop
  /\ FailClosed => \A i \in Sensors :
       /\ ranges[i].have /\ ranges[i].value # Invalid
       /\ ranges[i].age <= UltrasonicStale
  /\ UseLaser =>
       /\ laser.have /\ laser.age <= LaserStale
       /\ \A x \in laser.front : x > LaserHardStop

SafetyPathTypeOK == TypeOK /\ blocked \in Nat

SafetyPathInit == Init /\ blocked = 0

SafetyPathStep == Step /\ blocked' = IF Told' THEN 0 ELSE blocked

SafetyPathElapse ==
  Elapse /\ blocked' = IF Told THEN 0 ELSE Later(blocked, StopBound)

SafetyPathSpec ==
  SafetyPathInit /\ [][SafetyPathStep \/ SafetyPathElapse]_safetyPathVars

\* The invariant behind BlockedStops: a velocity that is still on its way to the
\* base, or that the base still repeats, was permitted when it was passed on.
BlocksAddUp ==
  /\ Told => blocked = 0
  /\ Moves(safe.msg) => safe.full /\ blocked <= safe.age
  /\ base.gate = "OPEN" /\ base.age <= BaseTimeout /\ Moves(base.cmd) =>
       blocked <= MaxDelay + base.age

\* When the emergency stop is on, an obstacle is near, or a sensor has not
\* been heard, as far as the safety node was told (tick), the robot rests
\* after one delivery and one timeout of the base.
BlockedStops == Driving => blocked <= StopBound
=============================================================================
