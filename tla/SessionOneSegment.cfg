SPECIFICATION FairSpec
CONSTANTS
  BufferSize = 2
  MaxCommands = 2
  Kinds = {"plain"}
  LineSizes = {1}
  ReplySizes = {2}
  BannerSizes = {1}
  CapaStatuses = {"ok"}
  MaxReplies = 6
  SockCap = 4
  Lockstep = FALSE
PROPERTY
  EveryCommandForwarded
CHECK_DEADLOCK FALSE
