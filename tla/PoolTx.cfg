SPECIFICATION Spec
CONSTANTS
  n1 = n1
  n2 = n2
  n3 = n3
  a = a
  b = b
  Nodes = {n1, n2, n3}
  Links <- Line
  Txs = {a, b}
  Batches <- Overlapping
  MaxSubmits = 2
  MaxFaults = 1
CHECK_DEADLOCK FALSE
INVARIANTS TypeOK EchoStops PooledIsAnnounced
PROPERTY Spread
