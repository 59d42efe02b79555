SPECIFICATION Spec
CONSTANTS
  Pins = {1, 2}
  Window = 3
  PinTTL = 2
  TokenTTL = 3
  MaxRequests = 2
  MaxAttempts = 2
  MaxTime = 4
  MaxBoots = 2
  MaxUnread = 1
INVARIANTS
  TypeOK
  PinsAreLimited
  GuessesAreLimited
  SessionsSurvive
PROPERTIES
  LoginsAreEarned
  RefusalsAreDue
CHECK_DEADLOCK FALSE
