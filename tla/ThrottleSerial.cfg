SPECIFICATION Spec
CONSTANTS
  w1 = w1  w2 = w2
  None = None
  Workers <- MCOneWorker
  Identifiers <- MCThree
  KeyChars <- MCKeyChars
  ThrottleAt = 3
  Timeframe = 2
  Evicts = FALSE
  MaxTime = 5
  MaxAsked = 6
CHECK_DEADLOCK FALSE
INVARIANTS WindowLimit WindowsAreDisjoint CacheIsExact
