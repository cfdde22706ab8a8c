SPECIFICATION ClientSpec
CONSTANTS
  Admins = {a1, a2}
  Clients = {a1}
  Requests <- MCRequests
  MaxRequests = 2
  MaxTold = 4
  CommandLines <- MCCommandLines
  Programs = {"cat", "stripmime"}
  SendFails = FALSE
  Leavers = {a1}
INVARIANTS
  TypeOK
  OneReplyEach
  AdminsCounted
  InLockstep
  AuthenticatedOnceTold
PROPERTIES
  FilterSpec
  EveryRequestAnswered
CHECK_DEADLOCK FALSE
