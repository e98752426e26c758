SPECIFICATION Spec
CONSTANTS
  t = t
  v = v
  x = x
  y = y
  red = red
  Tag = {t}
  NoArg = NoArg
  Word = Word
  NoName = NoName
  Unset = Unset
  Names = {x}
  Values = {red}
  Lines <- BusyLines
  N = 2
  MaxTyped = 1
  MaxWaiting = 2
  MaxStale = 1
  TypeAhead = TRUE
  HangUp = FALSE
  SelfPipes = FALSE
PROPERTIES LineServed PromptPaid Admission
