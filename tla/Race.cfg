SPECIFICATION Spec
CONSTANTS
  w1 = w1  w2 = w2  o1 = o1  o2 = o2  t1 = t1  t2 = t2
  BadTitle = BadTitle
  None = None
  Workers <- MCWorkers
  Owners <- MCOwners
  Titles <- MCTitles
  MaxItems = 2
  UniqueTitles = TRUE
  Declared = {"GET", "POST", "PUT", "PATCH", "DELETE"}
  AllowOptions = FALSE
  Debug = FALSE
  Refusals = {}
  Deletable = {o2}
  InitialRows <- MCRows
  Requests <- MCRaceRequests
SYMMETRY Workers2
INVARIANTS OwnersChecked RefusedIsHarmless AnswerTellsEffect LoopInv
PROPERTY NestedKeepsOwner
