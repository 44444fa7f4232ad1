CONSTANTS
  w1 = w1
  k1 = k1
  k2 = k2
  d1 = d1
  d2 = d2
  NoThread = NoThread
  Users = {0, 1, 15}
  Workers = {w1}
  Watchdogs = {d1, d2}
  WkT <- MCWkT
  WdT <- MCWdT
  WatchdogEnabled = TRUE
  Obj = Obj
  Docs <- MCDocOn
  MaxLoads = 1
  MaxCalls = 2
  MaxRounds = 1
  MaxOps = 3
  ConnQueries <- MCBadQueries
  Chars = {"0", "1", "6", " ", "-", "+", "a"}
  Digits = {"0", "1", "6"}
  Space = " "
  MaxLen = 3
  Width = 4
SPECIFICATION ServiceSpec
INVARIANT IdHandled
CHECK_DEADLOCK FALSE
