SPECIFICATION Spec
CONSTANTS
    n1 = n1
    n2 = n2
    Node = {n1}
    TokenMapping = {"t1", "t2"}
    NodeLists <- OneNode
    MyTurnSeed = 10000
    CreatedAt = 1
    StartHead = 2
    MaxHead = 4
    MaxNonce = 1
    MaxLag = 1
    BlockDelay = 1
    MinScanBlockNumber = 1
    ScanRangeMulti = 2
    ScanRangeDouble = 1
    MaxEmptyBatchBlocks = 2
    CatchupWithinBlocks = 3
    QueueSize = 1
    MaxMempool = 1
    Word = 100
    Faults = {"watermark", "filter", "account", "nonceRead", "submit", "confirm", "revert",
              "restart", "rescue"}
INVARIANTS
    
    
    RecordedIsCanonical
CHECK_DEADLOCK FALSE
