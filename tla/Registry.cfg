SPECIFICATION Spec
CONSTANTS
  a1 = a1  a2 = a2  Map = Map  RPC = RPC
  None = None
  Apis <- MCApis
  ApiOptions <- MCApiOptions
  Metas <- MCMetas
  Names <- MCNames
  MaxClasses = 7
CHECK_DEADLOCK FALSE
INVARIANTS NearestWins RegistrationRedefines SharedForCause
