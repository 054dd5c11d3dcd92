SPECIFICATION Spec
CONSTANTS
  JWS <- MCJWS
  Payload <- MCPayload
  Calls <- MCCalls
  Domains <- MCDomains
  Lower <- MCLower
INVARIANT
  RequiredCapBinds
CHECK_DEADLOCK FALSE
