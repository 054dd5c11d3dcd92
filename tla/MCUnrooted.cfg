SPECIFICATION Spec
CONSTANTS
  JWS <- MCJWS
  Payload <- MCPayload
  Calls <- MCCalls
  Domains <- MCDomains
  Lower <- MCLower
INVARIANT
  NodeZeroIsRoot
CHECK_DEADLOCK FALSE
