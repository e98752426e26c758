SPECIFICATION Spec
CONSTANTS
  t = t
  v = v
  x = x
  y = y
  red = red
  Tag = {t}
  NoArg = NoArg
  Word = Word
  NoName = NoName
  Unset = Unset
  Names = {x, y}
  Values = {red}
  Lines <- SessionLines
  N = 2
  MaxTyped = 1
  MaxWaiting = 1
  MaxStale = 0
  TypeAhead = FALSE
  HangUp = TRUE
  SelfPipes = FALSE
INVARIANTS NamesDistinct FreshSlot OnePrompt OwnEnvironment ReadNeverBlocks
CHECK_DEADLOCK FALSE
