SPECIFICATION Spec
CONSTANTS
  u1 = u1  u2 = u2  q1 = q1  q2 = q2  q3 = q3  a1 = a1  a2 = a2
  NoUser = NoUser
  Users = {u1}
  Slots = {q1}
  Assets = {a1}
  SyntheticAssets = {a1}
  Outcomes <- TwoOutcomes
  Endpoints = {"scan"}
  Kinds = {"real", "synthetic"}
  DailyQuota = 1
  MaxRuns = 1
  MaxFaults = 1
INVARIANTS RunningMeansActive
CHECK_DEADLOCK FALSE
