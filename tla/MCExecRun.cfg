CONSTANTS
  Child = {d1, d2, d3}
  Escapes = FALSE
SPECIFICATION FairSpec
INVARIANTS
  OutputIsComplete
  NoneLeftBehind
PROPERTIES
  BoundedByTimeout
CHECK_DEADLOCK FALSE
