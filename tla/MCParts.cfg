CONSTANTS
  ReadLimit = 2
  MaxDescriptors = 3
  MaxWaiting = 4
  Bytes = {0, 1, 2, 3}
  Headers = {1, 3}
  SizeOf <- Sizes
  TailOf <- Tails
  ExclusiveOr <- ByteXor
  MaxBytes = 7
  MaxChunk = 2
  Velocities <- SomeVelocities
  NonFinite = NonFinite
  Colours = {0, 161, 255}
  Quantities <- SomeQuantities
  RechargeFlag = 0
  ReservedByte = 161
  Speeds <- SomeSpeeds
  Turns <- SomeTurns
  ScaleX = 1
  ScaleY = 2
  ScaleLeft = 1
  ScaleRight = 3
  MaxSpeed = 6
  MaxGap = 2
  Start = 1
  MaxStep = 3
  MaxTime = 6
  Period = 5
  MaxCallback = 6
SPECIFICATION PartsSpec
INVARIANTS
  PartsTypeOK
  OldBytesNeedFailure
  NoFrameSkipped
  FramesDisjoint
  BytesAccounted
  VelocityAccurate
  UnderstoodAsMeant
  WithinReach
PROPERTIES
  KeepsContract
  LeaksOnlyInOpen
  NoThirdInPeriod
