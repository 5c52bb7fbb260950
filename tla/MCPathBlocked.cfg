CONSTANTS
  Sources = {"NAVIGATION"}
  Velocities <- OneVelocity
  NonFinite = NonFinite
  Horizon = 0
  SourceTimeout = 0
  InitialMode = "STOP"
  Sensors = {"a"}
  Distances <- Near
  NoHit = NoHit
  Invalid = Invalid
  HardStop = 1
  SlowDistance = 3
  UltrasonicStale = 0
  CommandStale = 0
  FailClosed = TRUE
  UseLaser = TRUE
  LaserHardStop = 1
  LaserStale = 0
  SourceDelay = 0
  MaxDelay = 1
  BaseTimeout = 0
SPECIFICATION SafetyPathSpec
INVARIANTS
  BlockedStops
