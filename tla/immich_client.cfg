SPECIFICATION Spec
CONSTANTS
  c1 = c1  c2 = c2  a1 = a1  a2 = a2  a3 = a3
  NoAsset = NoAsset
  Callers = {c1, c2}
  Assets = {a1, a2, a3}
  Owned = {a1, a2}
  Targets = {a1}
  Jobs <- TwoRoles
  PageSize = 1
  MaxRetries = 1
  MaxBytes = 1
  MaxSize = 2
  MaxJobs = 1
  MaxChanges = 1
  MaxLate = 1
INVARIANTS AnswersAreTrue ShelvesAccounted WalkAccounted
PROPERTY CallsEnd
CHECK_DEADLOCK FALSE
