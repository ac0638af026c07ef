SPECIFICATION FairSpec
CONSTANTS
  None = None
  Tokens = {"t1", "t2"}
  V2Tokens = {"t2"}
  Accounts = {"autopush1", "autopush2"}
  ProviderIds = {"Autopush", "NextPush", "Gotify", "Other"}
  MessageIds = {"m1"}
  Urgencies = {"low", "high"}
  AllUrgencies = "low"
  Slots = {1, 2, 3}
  MaxPosted = 2
  ProviderOf <- MCProviderOf
  Usable <- MCUsable
  OddUrls <- MCOddUrls
  Profile <- MCProfile
  Scenarios <- Moves
INVARIANTS
  AllMoved
  StoreComplete
  StoreAgrees
PROPERTIES
  RemovedOnRequest
  Reconnects
CHECK_DEADLOCK FALSE
