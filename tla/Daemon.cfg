CONSTANTS
  Users <- MCUsers
  MyUser <- MCMyUser
  MaxAge = 1
SPECIFICATION Spec
INVARIANTS
  PrivateToOwner
  TakeFindsMaker
  BookOfPresent
  MakerReachable
CHECK_DEADLOCK FALSE
