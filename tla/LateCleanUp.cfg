SPECIFICATION OpsSpec
CONSTANTS
  Accounts = {a1}
  AdmissionIds = {a1}
  MatchIds = {r1}
  RoomIds = {r1}
  OperationIds = {o1}
  Scenarios <- Alone
  None = None
  Owner = p1
  SizeOf <- Tables
  ReserveReplyLost = FALSE
CHECK_DEADLOCK FALSE
PROPERTY PendingIsRetried
