SPECIFICATION Spec
CONSTANTS
  Fields <- SomeFields
  MaxLines = 4
INVARIANTS
  MessagesAsSent
CHECK_DEADLOCK FALSE
