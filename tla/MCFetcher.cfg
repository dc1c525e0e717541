SPECIFICATION FetcherSpec
CONSTANTS
  h1 = h1
  h2 = h2
  k2 = k2
  nohash = nohash
  Hash = {h1, h2, k2}
  Peer = {p1, p2}
  Height <- MCHeight
  Previous <- MCPrevious
  Content <- MCContent
  Empty = {h2}
  Bogus = {h2}
  NoHash = nohash
  NoPeer = nopeer
  hashLimit = 2
  blockLimit = 1
  maxUncleDist = 0
  maxQueueDist = 1
  MaxMessages = 3
SYMMETRY Symm
CHECK_DEADLOCK FALSE
INVARIANTS ImportOnce QueuesExact NoAnnounceLeak TimersSet
