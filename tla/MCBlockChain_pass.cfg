SPECIFICATION Spec
CONSTANTS
  g = g
  a1 = a1
  a2 = a2
  a3 = a3
  b1 = b1
  b2 = b2
  x2 = x2
  t1 = t1
  t2 = t2
  none = none
  Block = {g, a1, a2, a3, b1, b2, x2}
  Genesis = g
  None = none
  Parent <- MCParent
  Difficulty <- MCDifficulty
  TxOf <- MCTxOf
  Tx = {t1, t2}
  Invalid = {x2}
  Early = {a2}
  Mined = {b2}
  MaxBatch = 2
  MaxFaults = 1
CHECK_DEADLOCK FALSE
INVARIANTS
  TypeOK
  
  HeadsBacked
  RestartFindsHead
  
  HeadIsHeaviest
