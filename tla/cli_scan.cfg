SPECIFICATION MCSpec
CONSTANTS
  a1 = a1  a2 = a2  c1 = c1  c2 = c2
  NoChecksum = NoChecksum
  Assets = {a1, a2}
  Checksums = {c1, c2}
  Files <- MCFiles
  Details <- MCDetails
  Clients <- MCClients
  MaxRuns = 2
  PageSize = 1
  MaxPages = 2
  MaxEdits = 1
INVARIANTS ReportMatchesRows ChangesAreAccountedFor SkippedWithReason AcceptedRulesWork
PROPERTIES ChangesFollowPolicy
CHECK_DEADLOCK FALSE
