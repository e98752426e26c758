SPECIFICATION Spec
CONSTANTS
  a = a
  b = b
  Tag = {a, b}
  Lines <- SpecLines
  Courteous = TRUE
  MaxStale = 1
INVARIANTS TypeOK NothingStale
PROPERTIES KeepsPromise
CHECK_DEADLOCK FALSE
