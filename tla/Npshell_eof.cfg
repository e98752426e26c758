SPECIFICATION Spec
CONSTANTS
  a = a
  b = b
  Tag = {a, b}
  Lines <- SpecLines
  Courteous = TRUE
  MaxStale = 1
PROPERTY TerminatesAtEOF
CHECK_DEADLOCK FALSE
