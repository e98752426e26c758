SPECIFICATION Spec
CONSTANTS
  N = 2
  M = 3
  MaxLines = 3
  MaxOverlaps = 1
  MaxHasty = 2
  x = x
  Names = {x}
  NoName = NoName
  NoLine = NoLine
  NoFile = NoFile
  Lines <- AllLines
PROPERTIES SlotFreed
INVARIANTS TypeOK LatestSeen PrivateMessage NamesDistinct TableTrue PipeWhole OwnPipes
CHECK_DEADLOCK FALSE
