SPECIFICATION FairSpec
CONSTANTS
  BufferSize = 2
  MaxCommands = 2
  Kinds = {"plain", "list", "capa", "quit", "user", "bad"}
  LineSizes = {1, 2}
  ReplySizes = {3}
  BannerSizes = {3}
  CapaStatuses = {"ok", "garbage"}
  MaxReplies = 6
  SockCap = 4
  Lockstep = TRUE
INVARIANT
  RepliesInOrder
PROPERTIES
  ControlSpec
  EveryCommandAnswered
CHECK_DEADLOCK FALSE
