SPECIFICATION Spec
CONSTANTS
  a = a
  b = b
  Tag = {a, b}
  Lines <- SpecLines
INVARIANTS TypeOK OneDuePerLine
PROPERTIES KeepsPromise TerminatesAtEOF
CHECK_DEADLOCK FALSE
