CONSTANTS
  CommandTimeout = 2
  FeedbackTimeout = 1
  FirstFeedbackTimeout = 1
  ReconnectPeriod = 1
  MaxStep = 2
  MaxSpeed = 2
  MaxEncodable = 1
  AutoEnableMcuSafety = TRUE
  AllowMcuSafetyDisable = FALSE
  MaxCommandSeq = 4
  MaxResetSeq = 1
  MaxQueue = 0
  Velocities <- TwoVelocities
  NonFinite = NonFinite
SPECIFICATION Spec
INVARIANTS
  TypeOK
  MotionIsAuthorised
  ConnectionFreshness
  EstopLatency
  StaleAfterResetBounded
  ClosedAtRest
  McuSafetyBeforeMotion
  PublishedStatusTrue
PROPERTIES
  FaultKeptUntilReset
