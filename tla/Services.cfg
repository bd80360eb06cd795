SPECIFICATION FairSpec
CONSTANTS
  s1 = s1
  None = None
  Unit = {s1, s2}
  Docker = {s1}
  s2 = s2
  Loaded <- MCLoaded
  MaxAt = 2
  MaxOps = 2
INVARIANTS TypeOK OneBulk SwitchWasTrue StreamOfDialog
PROPERTIES RestartsPulled Heals
CHECK_DEADLOCK FALSE
