SPECIFICATION Spec
CONSTANTS
  Resources <- MCResources
  Calls <- MCCalls
  Schemes <- MCSchemes
  Garbage = Garbage  Dotted = Dotted  None = None
CHECK_DEADLOCK FALSE
INVARIANTS DoneAsAsked AnswerTellsEffect DescendsIntoCall LogIsComplete
PROPERTY Answered
