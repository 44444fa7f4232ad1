CONSTANTS
  u1 = u1
  u2 = u2
  b0 = b0
  c1 = c1
  c2 = c2
  c3 = c3
  Users <- MCUsers
  Bot = b0
  Conns <- MCConns
  ConnUser <- MCConnUser
  Types = {"msg", "typing"}
  StatusType = "sent"
  IgnoreTypesSendBack = {"typing"}
  RcptChoices <- MCRcptChoices
  MaxMsgs = 1
  EnableQueue = TRUE
  EnableSendBack = TRUE
  EnableDeliveryStatus = FALSE

SPECIFICATION Spec
PROPERTY DrainTerminates
CHECK_DEADLOCK FALSE
CONSTRAINT StateBound
