SPECIFICATION FairSpec
CONSTANTS
  MaxRow = 5
  InitialRows <- MCRows
  PageSizes = {2, 3}
  Numbers = {0, 2, 4}
  Unread = Unread
INVARIANTS AnswerOfOnePiece WalkIsComplete
PROPERTIES WalkAdvances WalkEnds
