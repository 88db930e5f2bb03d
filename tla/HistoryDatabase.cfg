SPECIFICATION Spec
CONSTANTS
  Processes = {p1, p2, p3}
  Ids = {i1, i2}
  Calls = {c1, c2}
  None = None
SYMMETRY Interchangeable
INVARIANT
  HistoryWhole
