SPECIFICATION MCSpec
CONSTANTS
  u1 = u1
  u2 = u2
  NoUser = NoUser
  Users = {u1, u2}
  Assets = {1, 2}
  PageSize = 1
  MaxPages = 2
  MaxSessions = 2
  MaxRestarts = 1
INVARIANTS TypeOK NothingSkippedSilently
PROPERTIES CursorDiscipline DueUsersVisited
CHECK_DEADLOCK FALSE
