SPECIFICATION FairSpec
CONSTANTS
  l1 = l1
  l2 = l2
  u1 = u1
  Listener = {l1, l2}
  Unit = {u1}
  Saved <- MCSaved
  MaxAt = 2
  Missing = {2}
  maxPoints = 2
INVARIANTS OneLoop NothingUntold PointsFaithful
PROPERTIES Pace Catches FeedKept
