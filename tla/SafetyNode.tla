----------------------------- MODULE SafetyNode -----------------------------
(***************************************************************************)
(* inspection_robot_safety: the SafetyNode, which passes /control/cmd_vel  *)
(* on to /base/safe_cmd_vel while its sensors allow it.  One callback or   *)
(* timer tick is one step, as in VelocityManager.                          *)
(*                                                                         *)
(* A range reading is a distance, NoHit (the +inf that the base publishes  *)
(* beyond the sensor's range) or Invalid (NaN, or outside the sensor's     *)
(* limits); a scan is the set of valid distances in the front sector.      *)
(* Velocities are counted in a unit that makes the slowing down exact.     *)
(***************************************************************************)
EXTENDS Twist, FiniteSets

CONSTANTS
  Sensors,          \* the front ultrasonic sensors a .. d
  Distances,        \* the distances a sensor may measure
  NoHit, Invalid,   \* the other two kinds of range reading
  HardStop,         \* ultrasonic.hard_stop_distance
  SlowDistance,     \* ultrasonic.slow_distance
  UltrasonicStale,  \* ultrasonic.stale_timeout_ms
  CommandStale,     \* command.stale_timeout_ms
  FailClosed,       \* ultrasonic.fail_closed
  UseLaser,         \* laser.enabled
  LaserHardStop,    \* laser.hard_stop_distance
  LaserStale        \* laser.stale_timeout_ms

VARIABLES
  safetyCmd,    \* cmd_, cmd_t_, have_cmd_
  safetyEstop,  \* estop_
  ranges,       \* ranges_
  laser         \* laser_min_, laser_t_, have_laser_

safetyVars == <<safetyCmd, safetyEstop, ranges, laser>>

ASSUME SafetyAssumption ==
  /\ Distances \subseteq Int /\ NoHit \notin Int /\ Invalid \notin Int
  /\ NoHit # Invalid
  /\ HardStop \in Int /\ SlowDistance \in Int /\ LaserHardStop \in Int
  /\ HardStop < SlowDistance
  /\ \A v \in Velocities : v % (SlowDistance - HardStop) = 0
  /\ UltrasonicStale \in Nat /\ CommandStale \in Nat /\ LaserStale \in Nat
  /\ FailClosed \in BOOLEAN /\ UseLaser \in BOOLEAN

Readings == Distances \cup {NoHit, Invalid}

\* The time stamps are as good as never.
SafetyInit ==
  /\ safetyCmd = [msg |-> Rest, age |-> CommandStale + 1, have |-> FALSE]
  /\ safetyEstop = FALSE
  /\ ranges = [i \in Sensors |->
                 [value |-> Invalid, age |-> UltrasonicStale + 1, have |-> FALSE]]
  /\ laser = [front |-> {}, age |-> LaserStale + 1, have |-> FALSE]

-----------------------------------------------------------------------------
OnCommand(m) ==
  /\ safetyCmd' = [msg |-> m, age |-> 0, have |-> TRUE]
  /\ UNCHANGED <<safetyEstop, ranges, laser>>

OnSafetyEstop(active) ==
  /\ safetyEstop' = active
  /\ UNCHANGED <<safetyCmd, ranges, laser>>

OnRange(i, reading) ==
  /\ ranges' = [ranges EXCEPT ![i] = [value |-> reading, age |-> 0, have |-> TRUE]]
  /\ UNCHANGED <<safetyCmd, safetyEstop, laser>>

OnScan(front) ==
  /\ laser' = [front |-> front, age |-> 0, have |-> TRUE]
  /\ UNCHANGED <<safetyCmd, safetyEstop, ranges>>

-----------------------------------------------------------------------------
\* Mutation: a command once received is good for ever.
CommandEverReceived == safetyCmd.have /\ Finite(safetyCmd.msg)

CommandValid ==
  safetyCmd.have /\ safetyCmd.age <= CommandStale /\ Finite(safetyCmd.msg)

\* Mutation: a sensor that has once reported counts for ever.
EverHeard(r) == r.have /\ r.value # Invalid

Heard(r) == r.have /\ r.age <= UltrasonicStale /\ r.value # Invalid

UltrasonicHealthy == \A i \in Sensors : Heard(ranges[i])

LaserHealthy == UseLaser => laser.have /\ laser.age <= LaserStale

\* Every measured distance counts, a stale one too.
Measured == {ranges[i].value : i \in Sensors} \cap Distances

Nearest(x) == x \in Measured /\ \A y \in Measured : x <= y

Obstacle ==
  \/ \E x \in Measured : x <= HardStop
  \/ UseLaser /\ LaserHealthy /\ \E x \in laser.front : x <= LaserHardStop

\* Mutation: an obstacle only slows the robot down.
HealthyNearObstacle ==
  CommandValid /\ ~safetyEstop /\ (FailClosed => UltrasonicHealthy) /\ LaserHealthy

Healthy ==
  /\ CommandValid /\ ~safetyEstop
  /\ FailClosed => UltrasonicHealthy
  /\ LaserHealthy /\ ~Obstacle

\* A forward velocity is scaled down between SlowDistance and HardStop.
Slowed(v) ==
  IF v > 0 /\ \E x \in Distances : Nearest(x) /\ x < SlowDistance
  THEN LET nearest == CHOOSE x \in Distances : Nearest(x)
       IN  (v * (nearest - HardStop)) \div (SlowDistance - HardStop)
  ELSE v

\* What tick() publishes.
SafeOutput ==
  IF Healthy THEN [safetyCmd.msg EXCEPT !.v = Slowed(@)] ELSE Rest

SafetyElapse ==
  /\ safetyCmd' = [safetyCmd EXCEPT !.msg = Aged(@), !.age = Later(@, CommandStale)]
  /\ ranges' = [i \in Sensors |-> [ranges[i] EXCEPT !.age = Later(@, UltrasonicStale)]]
  /\ laser' = [laser EXCEPT !.age = Later(@, LaserStale)]
  /\ UNCHANGED safetyEstop
=============================================================================
