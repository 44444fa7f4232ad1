CONSTANTS
  u1 = u1
  u2 = u2
  b0 = b0
  c1 = c1
  c2 = c2
  c3 = c3
  Users <- MCUsers
  Bot = b0
  Conns <- MCConns
  ConnUser <- MCConnUser
  Types = {"msg"}
  StatusType = "sent"
  IgnoreTypesSendBack = {}
  RcptChoices <- MCRcptDirect
  MaxMsgs = 2
  EnableQueue = TRUE
  EnableSendBack = FALSE
  EnableDeliveryStatus = FALSE

SPECIFICATION Spec
INVARIANT PerSenderFifo
CHECK_DEADLOCK FALSE
CONSTRAINT StateBound
