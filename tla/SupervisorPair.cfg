CONSTANTS
  u1 = u1
  u2 = u2
  m1 = m1
  r1 = r1
  r2 = r2
  h1 = h1
  h2 = h2
  main = main
  None = None
  Main = main
  Unit <- Pair
  Bare = {}
  Mount = {m1}
  Policy <- PairMixed
  DependsOn <- PairDeps
  RequiresMounts <- PairMounts
  Rank <- PairRank
  Handler = {h1}
  Restarter = {r1}
  Requests = {}
  Moves = {m1}
  MaxFails = 1
  FirstOpen = 1

SPECIFICATION Spec
PROPERTIES
  StopIsKept
  MountsAreChecked
