CONSTANTS
  u1 = u1
  u2 = u2
  Unit = {u1, u2}
  backoffSchedule <- ShortSchedule
  MaxTime = 7

SPECIFICATION Spec
INVARIANTS
  WindowMatchesFailures
PROPERTIES
  AttemptsAreSpaced
  ImplementsBreaker
