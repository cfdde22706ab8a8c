SPECIFICATION Spec
CONSTANTS
  BufferSize = 2
  MaxCommands = 3
  Kinds = {"plain", "list", "quit", "bad"}
  LineSizes = {1, 2, 3}
  ReplySizes = {2}
  BannerSizes = {1}
  CapaStatuses = {"ok"}
  MaxReplies = 6
  SockCap = 4
  Lockstep = FALSE
INVARIANTS
  TypeOK
  BuffersInBounds
  RequestsInOrder
  RepliesInOrder
  ReplyMatchesRequest
  AwaitedRequestWasSent
  CommandsAccountedFor
  QueueIsSound
CHECK_DEADLOCK FALSE
