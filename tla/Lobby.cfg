SPECIFICATION Spec
CONSTANTS
  Accounts = {a1, a2}
  AdmissionIds = {a1, a2, x1}
  MatchIds = {r1, r2}
  RoomIds = {r1, r2}
  None = None
  Owner = p1
  SizeOf <- Tables
  ReserveReplyLost = FALSE
CHECK_DEADLOCK FALSE
SYMMETRY Interchangeable
INVARIANTS SeatedOnce NoOrphan
PROPERTIES SeatKeptUntilVerdict
