SPECIFICATION FairSpec
CONSTANTS
  Owners = {p1, p2}
  Accounts = {a1, a2}
  AdmissionIds = {r1, r2}
  MatchIds = {m1}
  Days = {1, 2}
  Conns = {c1, c2}
  None = None
  OriginalSize = 2
  FreeDailyQuickplayMatches = 1
CHECK_DEADLOCK FALSE
INVARIANTS OneWriter ReadyMeansClean LinkedAdmissions QuotaExact
PROPERTY RecoveryCompletes
