SPECIFICATION Spec
CONSTANTS
  None = None
  Distributors = {"kde", "abc"}
  Requested = "kde"
  MaxToken = 3
  Endpoints = {"e1", "e2"}
  VapidKeys = {"k1", "k2"}
  Rank <- MCRank
  VersionOf <- MCVersionOf
  Limits <- RestartsLimits
INVARIANTS
  ReplyOnItsWay
  NeverStuck
  EndpointAgrees
  Persisted
  DistributorAlive
CHECK_DEADLOCK FALSE
