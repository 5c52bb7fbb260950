CONSTANTS
  CommandTimeout = 2
  FeedbackTimeout = 1
  FirstFeedbackTimeout = 1
  ReconnectPeriod = 1
  MaxStep = 2
  MaxSpeed = 1
  MaxEncodable = 1
  AutoEnableMcuSafety = TRUE
  AllowMcuSafetyDisable = FALSE
  MaxCommandSeq = 4
  MaxResetSeq = 1
  MaxQueue = 0
  Velocities <- OneVelocity
  NonFinite = NonFinite
SPECIFICATION Spec
INVARIANTS
  ResetNeedsNewCommand
