CONSTANTS
  c1 = c1
  c2 = c2
  k1 = k1
  k2 = k2
  k3 = k3
  k4 = k4
  Callers <- MCCallers
  Conns <- MCConns
  PoolMax = 2
  Null = Null
  NoConn = NoConn
SPECIFICATION Spec
CHECK_DEADLOCK FALSE
INVARIANTS TypeOK ExclusiveUse NoLeak
PROPERTIES PrewarmedIsClosed ImplementsConnSource
