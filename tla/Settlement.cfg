SPECIFICATION BonusSpec
CONSTANTS
  a1 = a1
  a2 = a2
  m1 = m1
  m2 = m2
  Accounts = {a1}
  Matches = {m1, m2}
  Seats <- MCSeats
  Contracts <- MCContracts
  Outcomes <- MCOutcomes
  Amount <- MCAmount
  Rounds = {1}
  Cap = 5
  CountCap = 1
  MinHumans = 1
  WeekDays = 1
  MaxDay = 1
  Transactions = {1}
  ClaimTTL = 1
  MaxClaims = 1
INVARIANTS Reconciled BonusExact ClosedWeekComplete
PROPERTIES ErasedStaysErased
CHECK_DEADLOCK FALSE
