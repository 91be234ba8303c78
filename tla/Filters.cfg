SPECIFICATION Spec
CONSTANTS
  Owner = "author"  Number = "status"
  Owners = {1, 2}  Missing = Missing  Numbers = {1, 2}
  Values <- MCValues
  Chars <- MCChars
  Names <- MCNames
  ValueLists <- MCValueLists
  MaxParams = 2
  Bad = Bad  None = None  Absent = Absent  Flat = Flat
CHECK_DEADLOCK FALSE
INVARIANTS StaysInside AnswerMeansQuery FailuresAreDeserved
