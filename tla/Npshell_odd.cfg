SPECIFICATION Spec
CONSTANTS
  a = a
  b = b
  Tag = {a, b}
  Lines <- OddLines
  Courteous = FALSE
  MaxStale = 2
INVARIANTS DueDistinct
PROPERTIES OutputKept KeepsPromise
CHECK_DEADLOCK FALSE
