CONSTANTS
  Port = 8080
  Channels = 2
  MaxMessages = 2
  MaxOutages = 2
SPECIFICATION Spec
CHECK_DEADLOCK FALSE
INVARIANTS TypeOK CrashHasCause
PROPERTIES StartupFailureExits MessagesConsumed
