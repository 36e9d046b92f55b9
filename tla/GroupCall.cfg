SPECIFICATION Spec
CONSTANTS
  a1 = a1
  ua = ua
  ub = ub
  Devices = {a1, b1, b2}
  Users = {ua, ub}
  Owner <- Owners
  Calls = {c1, c2}
  NoCall = NoCall
  NoUser = NoUser
  MaxOpenings = 2
  MaxRejoins = 1
  MaxLosses = 1
SYMMETRY Symmetry
INVARIANTS
  TypeOK
  OneLiveCall
  
  RosterIsWhole
  
CHECK_DEADLOCK FALSE
