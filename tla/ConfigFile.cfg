CONSTANTS
  u1 = u1
  u2 = u2
  w1 = w1
  w2 = w2
  None = None
  Unit = {u1, u2}
  Generation = {1, 2}
  Declared <- TwoGenerations
  Writer = {w1, w2}

SPECIFICATION Spec
SYMMETRY WriterSymmetry
INVARIANTS
  AnsweredIsKept
  PoliciesLoad
