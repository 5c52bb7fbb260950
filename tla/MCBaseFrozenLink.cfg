CONSTANTS
  CommandTimeout = 1
  FeedbackTimeout = 1
  FirstFeedbackTimeout = 1
  ReconnectPeriod = 1
  MaxStep = 1
  MaxSpeed = 1
  MaxEncodable = 1
  AutoEnableMcuSafety = TRUE
  AllowMcuSafetyDisable = FALSE
  MaxCommandSeq = 2
  MaxResetSeq = 1
  MaxQueue = 0
  Velocities <- OneVelocity
  NonFinite = NonFinite
SPECIFICATION FairSpec
PROPERTIES
  FrozenLinkReconnects
