CONSTANTS
  u1 = u1
  u2 = u2
  m1 = m1
  r1 = r1
  r2 = r2
  h1 = h1
  h2 = h2
  main = main
  None = None
  Main = main
  Unit <- Solo
  Bare = {}
  Mount = {m1}
  Policy <- SoloUnlessStopped
  DependsOn <- SoloNoDeps
  RequiresMounts <- SoloMounts
  Rank <- SoloRank
  Handler = {h1}
  Restarter = {r1}
  Requests = {"start", "stop"}
  Moves = {}
  MaxFails = 2
  FirstOpen = 2

SPECIFICATION HealthySpec
PROPERTIES
  ThreadsFinish
  Recovers
