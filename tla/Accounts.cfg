SPECIFICATION PortalSpec
CONSTANTS
  AccountIds = {a1, a2}
  Devices = {d1, d2}
  Subjects = {s1}
  Flows = {1, 2}
  Callers = {c1, c2}
  NoAccount = NoAccount
  NoDevice = NoDevice
  SanctionIds = {1, 2}
  FreezeIds = {1, 2}
  MaxPairs = 3
  MaxEpoch = 2
  Plans <- MCPlans
  Conns = {k1, k2}
  Deliverers = {w1, w2}
  Browsers = {b1}
  Intents = {1, 2, 3}
  Requests = {r1, r2}
  Admins = {m1, m2}
  SubmissionIds = {1}
  ApplicationIds = {1}
  Contents = {fine, bad}
  Flagged = {bad}
  NoContent = NoContent
  MaxTerms = 2
  SubmissionsPerDay = 2
  MaxWeek = 2
  MaxEntries = 2
  Worker = worker
INVARIANTS OneIdentity AuthorityFresh SanctionHolds SuppressionKept DeletedByAuthority PublicIsReviewed WinnerStands CrownLatest
CHECK_DEADLOCK FALSE
