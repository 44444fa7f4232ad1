CONSTANTS
  u1 = u1
  u2 = u2
  b0 = b0
  c1 = c1
  c2 = c2
  c3 = c3
  Users <- MCUsers
  Bot = b0
  Conns <- MCConns
  ConnUser <- MCConnUser
  Types = {"msg"}
  StatusType = "sent"
  IgnoreTypesSendBack = {}
  RcptChoices <- MCRcptDirect
  MaxMsgs = 1
  EnableQueue = TRUE
  EnableSendBack = FALSE
  EnableDeliveryStatus = FALSE

SPECIFICATION WdSpec
INVARIANT NoEvictAnswered
CONSTRAINT StateBound
CHECK_DEADLOCK FALSE
