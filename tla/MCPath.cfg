CONSTANTS
  Sources = {"NAVIGATION"}
  Velocities <- OneVelocity
  NonFinite = NonFinite
  Horizon = 5
  SourceTimeout = 1
  InitialMode = "STOP"
  Sensors = {}
  Distances = {}
  NoHit = NoHit
  Invalid = Invalid
  HardStop = 1
  SlowDistance = 3
  UltrasonicStale = 1
  CommandStale = 1
  FailClosed = TRUE
  UseLaser = FALSE
  LaserHardStop = 1
  LaserStale = 1
  SourceDelay = 1
  MaxDelay = 0
  BaseTimeout = 1
SPECIFICATION ModesSpec
INVARIANTS
  TypeOK
  CommandAge
  ModeHonoured
  FreshAfterSwitch
