SPECIFICATION FairSpec
CHECK_DEADLOCK FALSE
CONSTANTS
  Screens <- OneScreen
  Bells <- OneScreen
  Nets <- AnySubset
  Owns <- AnySubset
  Keys <- OneScreenKeys
  Module = "gate"
  Prefix = "gate"
  Notified = TRUE
  Forwarded = TRUE
  Sockets = {1, 2}
  MaxChanges = 1
  MaxFailed = 2
  MaxFaults = 2
  MaxEvents = 2
  OutboxSize = 1
  WireSize = 1
CONSTRAINT Either
INVARIANTS ConnectionIsSound NothingForgotten
PROPERTIES ScreensCatchUp RevokedIsDisconnected ConnectsOrGivesUp
