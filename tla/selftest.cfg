SPECIFICATION TestFairSpec
CONSTANTS
  None = None
  Distributors = {"kde", "abc"}
  Requested = None
  MaxToken = 2
  Endpoints = {"e1", "e2"}
  VapidKeys = {"k1"}
  TestKey = "k1"
  MaxMessages = 2
  Rank <- MCRank
  VersionOf <- MCVersionOf
  Limits <- SelfTestLimits
INVARIANTS
  TestTypeOK
  CleansUp
PROPERTIES
  TestEnds
  SuccessTruthful
CHECK_DEADLOCK FALSE
