CONSTANTS
  Child = {d1, d2, d3}
  Escapes = TRUE
SPECIFICATION FairSpec
PROPERTIES
  BoundedByTimeout
CHECK_DEADLOCK FALSE
