SPECIFICATION Spec
CONSTANTS
  Sub = {c1, c2, c3}
  Sender = {s1, s2}
  ChanCap = 1
  MaxSends = 3
INVARIANTS TypeOK
PROPERTIES FeedImplementsSpec UnsubscribeReturns SendReturns
CHECK_DEADLOCK FALSE
