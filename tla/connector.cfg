SPECIFICATION FairSpec
CONSTANTS
  None = None
  Distributors = {"kde", "abc"}
  Requested = None
  MaxToken = 4
  Endpoints = {"e1", "e2"}
  VapidKeys = {"k1", "k2"}
  Rank <- MCRank
  VersionOf <- MCVersionOf
  Limits <- ConnectorLimits
INVARIANTS
  TypeOK
  EndsRegistered
  EndsUnregistered
  KeyInUse
PROPERTIES
  Settles
CHECK_DEADLOCK FALSE
