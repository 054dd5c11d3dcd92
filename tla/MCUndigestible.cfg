SPECIFICATION Spec
CONSTANTS
  ta = ta
  tb = tb
  lone = lone
  k1 = k1
  k2 = k2
  Mandate <- MCMandate
  Transaction <- MCTransaction
  Undigestible <- MCUndigestible
  MAX_GRANTS = 3
  MAX_CONSTRAINTS_PER_GRANT = 2
  MAX_TYPE_FIELDS = 4
  MAX_ENUM_MEMBERS = 2
  MAX_ABS_INT = 9999
  Calls <- MCCalls
  EarlierCores <- MCEarlierCores
  Key = {k1, k2}
  Did = {"issuer", "role"}
  Shown <- MCShown
  MaxRecords = 2
  MaxSigned = 1
  MaxRatified = 1
  Followed <- MCFollowed
INVARIANT RatifiedUnderItsMandate
CHECK_DEADLOCK FALSE
