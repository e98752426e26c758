SPECIFICATION Spec
CONSTANTS
  t = t
  v = v
  x = x
  y = y
  red = red
  Tag = {t}
  NoArg = NoArg
  Word = Word
  NoName = NoName
  Unset = Unset
  Names = {x}
  Values = {red}
  Lines <- SendLines
  N = 2
  MaxTyped = 1
  MaxWaiting = 1
  MaxStale = 1
  TypeAhead = FALSE
  HangUp = FALSE
  SelfPipes = FALSE
INVARIANTS UserPipesOnline
