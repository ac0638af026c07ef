SPECIFICATION Spec
CONSTANTS
  MaxTopics = 2
  MaxMessages = 3
  Limits <- NtfyLimits
INVARIANTS
  TypeOK
  PlainNeverSkipped
PROPERTIES
  KeepsMailboxes
CHECK_DEADLOCK FALSE
