CONSTANTS
  Sources = {"MANUAL"}
  Velocities <- OneVelocity
  NonFinite = NonFinite
  Horizon = 0
  SourceTimeout = 1
  InitialMode = "STOP"
  Statuses = {"healthy"}
  Rates = {2}
  Depth = 20
  StaleLimit = 8
  UnhealthyLimit = 13
  ReadyTimeout = 3
  ServiceTimeout = 3
  MotionTimeout = 60
  Zeros = 10
  MaxPass = 1
  MaxDelay = 0
  StatusHorizon = 30
SPECIFICATION Spec
INVARIANT
  StatusCurrent
