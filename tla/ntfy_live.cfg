SPECIFICATION FairSpec
CONSTANTS
  MaxTopics = 2
  MaxMessages = 3
  Limits <- LiveLimits
INVARIANTS
  ConnectedListens
PROPERTIES
  MailboxesEmpty
CHECK_DEADLOCK FALSE
