SPECIFICATION OpsSpec
CONSTANTS
  Accounts = {a1, a2}
  AdmissionIds = {a1, a2}
  MatchIds = {r1}
  RoomIds = {r1}
  OperationIds = {o1}
  Scenarios <- OneOrTwo
  None = None
  Owner = p1
  SizeOf <- Tables
  ReserveReplyLost = FALSE
CHECK_DEADLOCK FALSE
INVARIANT KickedStaysOut
PROPERTIES DecisionsFenced OperationsDelivered ConnectionsReaped
