SPECIFICATION Spec
CONSTANTS
  Accounts = {a1, a2}
  AdmissionIds = {a1, a2}
  MatchIds = {r1}
  RoomIds = {r1}
  None = None
  Owner = p1
  SizeOf <- Tables
  ReserveReplyLost = TRUE
CHECK_DEADLOCK FALSE
INVARIANTS NoOrphanReservation
