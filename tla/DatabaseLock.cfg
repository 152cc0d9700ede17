SPECIFICATION Spec
CONSTANTS
  RpcTasks = {r1, r2}
  Manager = manager
  Miner = miner
  NoTask = NoTask
  MaxServed = 2
CHECK_DEADLOCK FALSE
INVARIANTS TypeOK OnlyNestedStuck
PROPERTY CallsReturn
