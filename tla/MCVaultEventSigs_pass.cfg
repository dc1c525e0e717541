SPECIFICATION Spec
CONSTANTS
  n1 = n1
  n2 = n2
  n3 = n3
  Node = {n1, n2, n3}
  Signer = {n1, n2}
  Links <- Line
  Threshold = 2
  QueueCap = 1
  RelayCap = 1
  MaxBreaks = 1
INVARIANTS TypeOK  
 
