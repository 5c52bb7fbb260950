CONSTANTS
  Sources = {}
  Velocities <- NoVelocities
  NonFinite = NonFinite
  Horizon = 4
  Sensors = {"a"}
  Distances = {2}
  NoHit = NoHit
  Invalid = Invalid
  HardStop = 1
  SlowDistance = 3
  UltrasonicStale = 1
  CommandStale = 0
  FailClosed = TRUE
  UseLaser = FALSE
  LaserHardStop = 1
  LaserStale = 0
  Kinds = {"motion", "ultrasonic"}
  RawReadings <- SomeReadings
  MinRange = 1
  MaxRange = 5
  TimerPeriod = 1
  SensorDelay = 1
  HistoryDepth = 2
  MaxBurst = 2
  MaxSeq = 3
SPECIFICATION Spec
INVARIANTS
  SensorsCurrent
  NewestIsPublished
