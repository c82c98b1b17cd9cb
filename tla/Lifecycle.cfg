\* Two requests and a stream, a pool of one connection, either engine.
SPECIFICATION ProcessSpec
CONSTANTS
  Req = {r1, r2, r3}
  Stream = {r3}
  PoolSize = 1
CHECK_DEADLOCK FALSE
INVARIANTS
  DrainedCutsNobody
PROPERTIES
  SignalEndsIt
