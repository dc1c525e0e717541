INIT Init
NEXT ReaderNext
CONSTANTS
  Node = {a, b}
  Reader = {a}
  Threshold = 1
  MaxVersion = 4
  MaxPending = 2
  MaxRestarts = 1
  MaxVoteErrors = 1
INVARIANTS VssInv KeyOfVersion NobodyAccused
