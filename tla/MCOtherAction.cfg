SPECIFICATION Spec
CONSTANTS
  SecuredAAE <- MCSecuredAAE
  Mandate <- MCMandate
  Time <- MCTime
  Native <- MCNative
  Octets <- MCOctets
  Octet32 <- MCOctet32
  FlipOctet <- MCFlipOctet
  Key <- MCKey
  Kid <- MCKid
  Identifier <- MCIdentifier
  Principal <- MCPrincipal
  Fixture <- MCFixture
  Vectors <- MCVectors
  Controls <- MCControls
INVARIANT ApprovedThisAction
