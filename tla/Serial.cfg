SPECIFICATION FairSpec
CONSTANTS
  w1 = w1  w2 = w2  o1 = o1  o2 = o2  t1 = t1  t2 = t2
  BadTitle = BadTitle
  None = None
  Workers <- MCOneWorker
  Owners <- MCOwners
  Titles <- MCTitles
  MaxItems = 3
  UniqueTitles = FALSE
  Declared = {"GET", "POST", "PUT", "PATCH", "DELETE", "TRACE"}
  AllowOptions = TRUE
  Debug = FALSE
  Refusals = {401, 403, 500, 503}
  Deletable = {}
  InitialRows <- MCRows
  Requests <- MCSerialRequests
INVARIANT TypeOK
PROPERTIES ImplementsStore Served
