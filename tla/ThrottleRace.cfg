SPECIFICATION Spec
CONSTANTS
  w1 = w1  w2 = w2
  None = None
  Workers <- MCTwoWorkers
  Identifiers <- MCOne
  KeyChars <- MCKeyChars
  ThrottleAt = 3
  Timeframe = 2
  Evicts = TRUE
  MaxTime = 4
  MaxAsked = 6
CHECK_DEADLOCK FALSE
SYMMETRY SymWorkers
INVARIANTS TypeOK NoPrematureRefusal CountsAreVouched
