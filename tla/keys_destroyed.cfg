SPECIFICATION FairSpec
CONSTANTS
  None = None
  Distributors = {"kde", "abc"}
  Requested = None
  MaxToken = 2
  Endpoints = {"e1", "e2"}
  VapidKeys = {"k1", "k2"}
  Rank <- MCRank
  VersionOf <- MCVersionOf
  Limits <- KeysDestroyedLimits
PROPERTIES
  EncryptionKeysKept
CHECK_DEADLOCK FALSE
