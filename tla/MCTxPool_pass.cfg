SPECIFICATION Spec
CONSTANTS
  a1 = a1
  a2 = a2
  Account = {a1, a2}
  MaxNonce = 2
  Price = {1, 2}
  Tx <- MCTx
  Funds = {1, 2}
  PriceBump = 10
  AccountSlots = 1
  GlobalSlots = 2
  AccountQueue = 2
  GlobalQueue = 1
  MaxReorg = 64
  LocalSender = {a1}
  MaxBatch = 1
  MaxRemoved = 2
  MaxAdded = 1
  MaxOps = 5
CHECK_DEADLOCK FALSE
INVARIANTS
  TypeOK
  PoolConsistent
  PoolWithinLimits
PROPERTIES
  StaysExecutable
  LocalsStay
  
