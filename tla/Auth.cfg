SPECIFICATION AuthSpec
CONSTANTS
  u1 = u1  u2 = u2  k1 = k1  k2 = k2
  Users <- MCUsers
  AccessKeys <- MCKeys
  Chains <- MCChains
  Headers <- MCHeaders
  Forms <- MCForms
  AllowOptions = TRUE
  AutoCreate = TRUE
  MaxChanges = 1
  Guest = Guest  Address = Address  Malformed = Malformed
  Lazy = Lazy  Nothing = Nothing
CHECK_DEADLOCK FALSE
INVARIANTS AuthTypeOK AcceptedIsActive
PROPERTIES OnlyVouched OrderAdmitsNobody
