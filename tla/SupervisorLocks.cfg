CONSTANTS
  u1 = u1
  u2 = u2
  m1 = m1
  r1 = r1
  r2 = r2
  h1 = h1
  h2 = h2
  main = main
  None = None
  Main = main
  Unit <- Solo
  Bare = {u1}
  Mount = {m1}
  Policy <- SoloUnlessStopped
  DependsOn <- SoloNoDeps
  RequiresMounts <- SoloMounts
  Rank <- SoloRank
  Handler = {h1}
  Restarter = {r1, r2}
  Requests = {"start", "stop", "restart", "verify", "config"}
  Moves = {m1}
  MaxFails = 2
  FirstOpen = 2

SPECIFICATION Spec
SYMMETRY ThreadSymmetry
INVARIANTS
  TypeOK
  MutualExclusion
  NoLeakedLock
  RestartBookkeeping
PROPERTIES
  StopIsKept
  MountsAreChecked
