SPECIFICATION ClientSpec
CONSTANTS
  Admins = {a1, a2}
  Clients = {a1}
  Requests <- FewRequests
  MaxRequests = 2
  MaxTold = 4
  CommandLines <- NoCommandLine
  Programs = {"cat", "stripmime"}
  SendFails = TRUE
  Leavers = {}
PROPERTY
  EveryRequestAnswered
CHECK_DEADLOCK FALSE
