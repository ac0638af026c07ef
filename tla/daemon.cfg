SPECIFICATION FairSpec
CONSTANTS
  None = None
  Tokens = {"t1", "t2"}
  V2Tokens = {"t2"}
  Accounts = {"autopush1", "autopush2", "autopush:"}
  ProviderIds = {"Autopush", "NextPush", "Gotify", "Other"}
  MessageIds = {"m1"}
  Urgencies = {"low", "high"}
  AllUrgencies = "low"
  Slots = {1, 2, 3}
  MaxPosted = 2
  ProviderOf <- MCProviderOf
  Usable <- MCUsable
  OddUrls <- MCOddUrls
  Profile <- MCProfile
  Scenarios <- Daemon
INVARIANTS
  TypeOK
  NeverWaitsForNothing
  NoLostWakeup
  ConfigInUse
  StatusTruthful
PROPERTIES
  RepliesKept
  SuccessMeansRegistered
  CallsAnswered
  ChangesHappen
CHECK_DEADLOCK FALSE
