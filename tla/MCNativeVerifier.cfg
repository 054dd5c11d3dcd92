SPECIFICATION Spec
CONSTANTS
  JWS <- MCJWS
  Payload <- MCPayload
  Calls <- MCCalls
  Domains <- MCDomains
  Lower <- MCLower
INVARIANTS
  TypeOK
  IInv
  AcceptedByEveryAncestor
  AcceptedCustody
  AcceptedDepth
  AcceptedLimits
  StepIsFirstFailure
  OnlyGapsRaise
  VectorsAgree
PROPERTIES
  ImplementsAuthorization
CHECK_DEADLOCK FALSE
