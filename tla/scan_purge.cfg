SPECIFICATION Spec
CONSTANTS
  u1 = u1  u2 = u2  q1 = q1  q2 = q2  q3 = q3  a1 = a1  a2 = a2
  NoUser = NoUser
  Users = {u1}
  Slots = {q1, q2}
  Assets = {a1, a2}
  SyntheticAssets = {a1, a2}
  Outcomes <- TwoOutcomes
  Endpoints = {"scan", "delete"}
  Kinds = {"real"}
  DailyQuota = 2
  MaxRuns = 2
  MaxFaults = 0
SYMMETRY ScanSymmetry
INVARIANTS PurgeErases LateWritesBounded
CHECK_DEADLOCK FALSE
