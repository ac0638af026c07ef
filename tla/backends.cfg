SPECIFICATION Spec
CONSTANTS
  None = None
  Tokens = {"t1", "t2"}
  V2Tokens = {"t2"}
  Accounts = {"nextpush1", "gotify1", "gotify:", "nextpush?", "other"}
  ProviderIds = {"Autopush", "NextPush", "Gotify", "Other"}
  MessageIds = {"m1"}
  Urgencies = {"low", "high"}
  AllUrgencies = "low"
  Slots = {1, 2, 3}
  MaxPosted = 2
  ProviderOf <- MCProviderOf
  Usable <- MCUsable
  OddUrls <- MCOddUrls
  Profile <- MCProfile
  Scenarios <- Backends
INVARIANTS
  NeverWaitsForNothing
  OneReplyEach
  AllMoved
CHECK_DEADLOCK FALSE
