SPECIFICATION FairSpec
CONSTANTS
  s1 = s1
  s2 = s2
  u1 = u1
  u2 = u2
  v1 = v1
  v2 = v2
  t1 = t1
  t2 = t2
  None = None
  Nothing = Nothing
  Secret = {s1, s2}
  MaxEdits = 2
  MaxGets = 1
  MaxDeploys = 2
  Service = {"a", "b"}
  FirstService = "a"
  Field = {"f"}
  FieldsOf <- MCFieldsOf
  Value = {"", "v"}
  Window = {"1h"}
  Text = {"", "t"}
  MaxTimers = 1
  Unit = {u1, u2}
  VM = {v1, v2}
  MaxRequests = 2
  Layouts <- MCLayouts
  cols = 4
  Task = {t1, t2}
  MaxAt = 3
INVARIANTS
  TypeOK OneAtATime EditsFlagged LinesOfService LinesOfQuery DialogsBelong RowsFull
PROPERTIES
  NothingUnasked PagesSettle
CHECK_DEADLOCK FALSE
