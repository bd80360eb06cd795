CONSTANTS
  u1 = u1
  u2 = u2
  b1 = b1
  Unit = {u1, u2}
  Bare = {b1}
  NameOf <- Short
  NoFile = NoFile
  MaxSession = 3

SPECIFICATION Spec
INVARIANTS
  StopsAreRemembered
  BootOncePerSession
