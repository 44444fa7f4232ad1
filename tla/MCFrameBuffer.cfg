CONSTANTS
  u1 = u1
  u2 = u2
  c1 = c1
  c2 = c2
  c3 = c3
  Users <- MCUsers
  Conns <- MCConns
  ConnUser <- MCConnUser
  FragSizes = {1, 2}
  MaxSize = 3
  MaxFrames = 3
  MaxMsgs = 1
  OneSessionPerUser = TRUE
SPECIFICATION Spec
INVARIANT Reassembly
CHECK_DEADLOCK FALSE
