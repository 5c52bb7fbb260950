CONSTANTS
  CommandTimeout = 1
  FeedbackTimeout = 1
  FirstFeedbackTimeout = 1
  ReconnectPeriod = 1
  MaxStep = 1
  MaxSpeed = 2
  MaxEncodable = 1
  AutoEnableMcuSafety = TRUE
  AllowMcuSafetyDisable = TRUE
  MaxCommandSeq = 2
  MaxResetSeq = 0
  MaxQueue = 2
  Velocities <- OneVelocity
  NonFinite = NonFinite
SPECIFICATION Spec
INVARIANTS
  StatusShowsMcuSafety
