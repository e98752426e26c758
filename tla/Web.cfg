SPECIFICATION Spec
CONSTANTS
  h1 = h1
  h2 = h2
  c1 = c1
  c2 = c2
  Hosts = {h1, h2}
  Conns = {c1, c2}
  NoScript = NoScript
  NoQuery = NoQuery
  BadQuery = BadQuery
  Scripts <- SomeScripts
  Query <- SomeQueries
  Asked <- SomeRequests
INVARIANTS TypeOK InStep OwnScript
PROPERTIES Served
CHECK_DEADLOCK FALSE
