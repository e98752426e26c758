SPECIFICATION Spec
CONSTANTS
  x = x
  y = y
  Parts = {1, 2}
  Octets = {x, y}
  Any = Any
  NoAddr = NoAddr
  NoRequest = NoRequest
  Requests <- SomeRequests
  Confs <- SomeConfs
  RequestLen = 2
  MaxSent <- FewPieces
  BufferLen = 2
  Capacity = 1
  MayBeDeaf = {"source", "dest"}
INVARIANTS TypeOK AsAsked
PROPERTIES KeepsPromise Delivered
CHECK_DEADLOCK FALSE
