SPECIFICATION MintSpec
CONSTANTS
  old = old
  new = new
  other = other
  Forwarder = {old, new, other}
  NodeOf <- MCNodeOf
  NodeCount = 2
  Seed = 10000
  BatchSize = 2
  MaxWait = 1
  MaxEvents = 3
  Amount = {1}
  Word = 4
  PoolCap = 2
  MaxErrors = 2
  MayStop = {1}
INVARIANTS MintsRecorded
 
