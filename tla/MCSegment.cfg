CONSTANTS
  Sources = {"MANUAL"}
  Velocities <- OneVelocity
  NonFinite = NonFinite
  Horizon = 0
  SourceTimeout = 2
  InitialMode = "STOP"
  Statuses = {"healthy", "unhealthy", "stop"}
  Rates = {0, 1}
  Depth = 2
  StaleLimit = 2
  UnhealthyLimit = 1
  ReadyTimeout = 2
  ServiceTimeout = 2
  MotionTimeout = 14
  Zeros = 2
  MaxPass = 2
  MaxDelay = 1
  StatusHorizon = 0
SPECIFICATION FairSpec
INVARIANTS
  ReactsInTime
  LeavesAtRest
  EndsInStop
PROPERTY
  Ends
