SPECIFICATION Spec
CONSTANTS
  Default <- MCDefault
  ForeignKeys <- MCForeignKeys
  Managers <- MCManagers
  Objects <- MCObjects
  Text <- MCText
  Options <- MCOptions
  Jobs <- MCJobs
  MaxChanges = 1
  None = None
CHECK_DEADLOCK FALSE
INVARIANTS UnfoldsAsTold ShowsWhatIsAsked FailsForCause
