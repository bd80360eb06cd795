CONSTANTS
  b1 = b1
  b2 = b2
  s1 = s1
  s2 = s2
  g1 = g1
  g2 = g2
  None = None
  Backup = {b1}
  Service = {s1}
  Runner = {g1, g2}
  Slow = TRUE
  Supervised = {s1}
  Requests = {"run", "stop", "start", "patch", "reload", "kill"}

SPECIFICATION FairSpec
INVARIANTS
  DownIsAccountedFor
PROPERTIES
  RunsFinish
