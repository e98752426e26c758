SPECIFICATION Spec
CONSTANTS
  t = t
  v = v
  x = x
  y = y
  red = red
  Tag = {t, v}
  NoArg = NoArg
  Word = Word
  NoName = NoName
  Unset = Unset
  Names = {x}
  Values = {red}
  Lines <- HastyLines
  N = 1
  MaxTyped = 2
  MaxWaiting = 1
  MaxStale = 1
  TypeAhead = TRUE
  HangUp = FALSE
  SelfPipes = FALSE
INVARIANTS DueDistinct
PROPERTIES OutputKept
CHECK_DEADLOCK FALSE
