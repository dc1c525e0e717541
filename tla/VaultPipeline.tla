--------------------------- MODULE VaultPipeline ---------------------------
(***************************************************************************)
(* The sentinel's recording pipeline for one vault (sentinel/xdefi.go):     *)
(*                                                                          *)
(*   scanVaultEvents -> QueueVaultEventsBatch -> PendingVaultEventsBatch     *)
(*     (commitVaultEvents, confirmVaultEvents) -> XEvents on xchain          *)
(*                                                                          *)
(* Every node runs the three goroutines of a direction (deposit or burn).    *)
(* They read the source chain and the XEvents contract by RPC and talk to    *)
(* each other only through bounded channels.  Nothing but the contract and   *)
(* the transactions already sent survives a crash.                           *)
(*                                                                          *)
(* A vault event is a token mapping, its nonce in that mapping and the block *)
(* that holds it; the other fields are carried along unread.  Whether a      *)
(* batch has enough signatures is left open here (module VaultEventSigs).    *)
(* The periodic tickers that call these operations are module ThrottledLoop. *)
(***************************************************************************)
EXTENDS Integers, Sequences, FiniteSets

CONSTANTS
    Node,                 \* the xchain nodes
    TokenMapping,         \* the token mappings of the vault
    NodeLists,            \* the node lists the VssBase contract may hold
    MyTurnSeed,           \* the number every caller passes to myTurn
    CreatedAt,            \* block that created the vault contract
    StartHead,            \* head of the source chain when the nodes start
    MaxHead,              \* bound: blocks the source chain produces
    MaxNonce,             \* bound: deposits of a token mapping
    MaxLag,               \* how far an answer to BlockNumber may be behind
    BlockDelay, MinScanBlockNumber, ScanRangeMulti, ScanRangeDouble,
    MaxEmptyBatchBlocks, CatchupWithinBlocks,
    QueueSize,            \* VaultEventsBatchQueueSize = VaultEventsBatchPendingSize
    MaxMempool,           \* bound: transactions of a node waiting to be mined
    Word,                 \* 2^64: the code's block numbers are uint64
    Faults                \* the failures and interventions that may happen

FaultKinds == {"watermark", "blockNumber", "filter", "account", "nonceRead", "submit",
               "confirm", "revert", "restart", "rescue"}

ASSUME BoundsAssumption ==
    /\ CreatedAt \in Nat \ {0} /\ StartHead \in Nat /\ MaxHead \in Nat /\ MaxLag \in Nat
    /\ CreatedAt <= StartHead
    /\ MaxNonce \in Nat \ {0} /\ QueueSize \in Nat \ {0} /\ MaxMempool \in Nat \ {0}
ASSUME ScanAssumption ==
    /\ BlockDelay \in Nat /\ MinScanBlockNumber \in Nat \ {0}
    /\ ScanRangeMulti \in Nat \ {0} /\ ScanRangeDouble \in Nat \ {0}
    /\ MaxEmptyBatchBlocks \in Nat /\ CatchupWithinBlocks \in Nat
    /\ Word \in Nat /\ Word > MaxHead + BlockDelay + ScanRangeMulti + ScanRangeDouble
ASSUME NodeAssumption ==
    /\ NodeLists \subseteq Seq(Node) /\ NodeLists # {} /\ <<>> \notin NodeLists
    /\ MyTurnSeed \in Nat /\ Faults \subseteq FaultKinds

Nonce == 0..(MaxNonce - 1)
Event == [tm : TokenMapping, nonce : Nonce, block : Nat]
Batch == [events : SUBSET Event, start : Nat, end : Nat]
Tx    == [kind : {"record", "watermark"}, events : SUBSET Event, to : Nat]
Scan  == [pc : {"idle", "loop", "found", "push"}, start : Nat, last : Nat, lastCurrent : Nat, out : Batch]
Confirm == [active : BOOLEAN, all : BOOLEAN, end : Nat]
NoBatch == [events |-> {}, start |-> 0, end |-> 0]
Idle  == [pc |-> "idle", start |-> 0, last |-> 0, lastCurrent |-> 0, out |-> NoBatch]
NoConfirm == [active |-> FALSE, all |-> FALSE, end |-> 0]

VARIABLES
    head,             \* source chain: number of its newest block
    blockOf,          \* source chain: block of each deposit, 0 when there is none yet
    nodelist,         \* VssBase: the registered nodes, in order
    vaultWatermark,   \* XEvents: blocks up to here need no further scan
    tmWatermark,      \* XEvents: per token mapping, the nonce expected next
    recorded,         \* XEvents: block of each stored event, 0 when not stored
    mempool,          \* transactions each node has sent and xchain has not mined
    scan,             \* the scan goroutine of each node
    batchNumber,      \* whether sentinel.batchNumber of each node is nonzero
    queue, pending,   \* QueueVaultEventsBatchChan, PendingVaultEventsBatchChan
    confirm           \* the pending goroutine inside confirmVaultEvents

chainVars == <<head, blockOf>>
xeventsVars == <<vaultWatermark, tmWatermark, recorded>>
nodeVars == <<scan, batchNumber, queue, pending, confirm>>
vars == <<chainVars, nodelist, xeventsVars, mempool, nodeVars>>

TypeOK ==
    /\ head \in Nat
    /\ blockOf \in [TokenMapping -> [Nonce -> Nat]]
    /\ nodelist \in NodeLists
    /\ vaultWatermark \in Nat
    /\ tmWatermark \in [TokenMapping -> 0..MaxNonce]
    /\ recorded \in [TokenMapping -> [Nonce -> Nat]]
    /\ mempool \in [Node -> Seq(Tx)]
    /\ scan \in [Node -> Scan]
    /\ batchNumber \in [Node -> BOOLEAN]
    /\ queue \in [Node -> Seq(Batch)]
    /\ pending \in [Node -> Seq(Batch)]
    /\ confirm \in [Node -> Confirm]

Init ==
    /\ head = StartHead
    /\ blockOf = [tm \in TokenMapping |-> [k \in Nonce |-> 0]]
    /\ nodelist \in NodeLists
    /\ vaultWatermark = 0
    /\ tmWatermark = [tm \in TokenMapping |-> 0]
    /\ recorded = [tm \in TokenMapping |-> [k \in Nonce |-> 0]]
    /\ mempool = [n \in Node |-> <<>>]
    /\ scan = [n \in Node |-> Idle]
    /\ batchNumber = [n \in Node |-> FALSE]
    /\ queue = [n \in Node |-> <<>>]
    /\ pending = [n \in Node |-> <<>>]
    /\ confirm = [n \in Node |-> NoConfirm]

-----------------------------------------------------------------------------
(* The source chain.  Deposits get consecutive nonces in block order.  A     *)
(* reorganisation replaces at most the newest BlockDelay blocks.             *)

Kept(tm, k, depth) == blockOf[tm][k] \in 1..(head - depth)

NonceOrder(blocks) ==
    \A k \in Nonce \ {0} : blocks[k] # 0 => blocks[k - 1] # 0 /\ blocks[k - 1] <= blocks[k]

FreshBlocks(depth) == {b \in (head - depth + 1)..(head + 1) : b >= CreatedAt}

SourceAdvance ==
    /\ head < MaxHead
    /\ head' = head + 1
    /\ \E depth \in 0..BlockDelay :
       \E fresh \in [TokenMapping -> [Nonce -> {0} \cup FreshBlocks(depth)]] :
          /\ blockOf' = [tm \in TokenMapping |-> [k \in Nonce |->
                            IF Kept(tm, k, depth) THEN blockOf[tm][k] ELSE fresh[tm][k]]]
          /\ \A tm \in TokenMapping : NonceOrder(blockOf'[tm])
    /\ UNCHANGED <<nodelist, xeventsVars, mempool, nodeVars>>

ChangeNodelist ==
    /\ nodelist' \in NodeLists
    /\ UNCHANGED <<chainVars, xeventsVars, mempool, nodeVars>>

myTurn(n) == \E i \in 1..Len(nodelist) : nodelist[i] = n /\ MyTurnSeed % Len(nodelist) = i - 1

-----------------------------------------------------------------------------
(* scanVaultEvents.  One step of the model is one round of its loop: between *)
(* rounds it sleeps.                                                         *)

Sub(a, b) == IF a >= b THEN a - b ELSE a - b + Word     \* uint64 subtraction

SetScan(n, s) == scan' = [scan EXCEPT ![n] = s]

BeginScan(n, start) == SetScan(n, [Idle EXCEPT !.pc = "loop", !.start = start, !.last = start])

(* Faulty variant of getLastBlock: starts one block too far. *)
getLastBlockSkipping(n) ==
    /\ BeginScan(n, IF vaultWatermark = 0 THEN CreatedAt ELSE vaultWatermark + 2)
    /\ batchNumber' = [batchNumber EXCEPT ![n] = TRUE]

(* When a read fails the scan starts at 0 and batchNumber keeps its value,   *)
(* which the scan of the other direction may have set.                       *)
getLastBlock(n) ==
    \/ /\ BeginScan(n, IF vaultWatermark = 0 THEN CreatedAt ELSE vaultWatermark + 1)
       /\ batchNumber' = [batchNumber EXCEPT ![n] = TRUE]
    \/ /\ "watermark" \in Faults
       /\ BeginScan(n, 0)
       /\ \E other \in BOOLEAN : batchNumber' = [batchNumber EXCEPT ![n] = @ \/ other]

ScanBegin(n) ==
    /\ scan[n].pc = "idle"
    /\ getLastBlock(n)
    /\ UNCHANGED <<chainVars, nodelist, xeventsVars, mempool, queue, pending, confirm>>

(* Faulty variant of CurrentBlock: undoes the subtraction of BlockDelay. *)
CurrentBlockUnconfirmed == {b + BlockDelay : b \in {c \in (head - MaxLag)..head : c >= 0}}

CurrentBlock ==
    {b \in (head - MaxLag)..head : b >= 0} \cup (IF "blockNumber" \in Faults THEN {0} ELSE {})

(* Faulty variant of ScanEnd: the last range is not cut at the horizon. *)
ScanEndUnclamped(last, horizon) ==
    IF last + ScanRangeMulti - 1 <= horizon THEN last + ScanRangeMulti - 1 ELSE last + ScanRangeDouble - 1

ScanEnd(last, horizon) ==
    LET end == IF last + ScanRangeMulti - 1 <= horizon
               THEN last + ScanRangeMulti - 1 ELSE last + ScanRangeDouble - 1
    IN  IF end > horizon THEN horizon ELSE end

Filter(from, to) ==
    {[tm |-> p[1], nonce |-> p[2], block |-> blockOf[p[1]][p[2]]] :
        p \in {q \in TokenMapping \X Nonce : blockOf[q[1]][q[2]] # 0
                                             /\ from <= blockOf[q[1]][q[2]] /\ blockOf[q[1]][q[2]] <= to}}

BatchDone(s, end, events, number) ==
    IF events = {} THEN Sub(end, s.start) >= MaxEmptyBatchBlocks ELSE number

AfterFilter(s, current, end, events, number) ==
    IF BatchDone(s, end, events, number)
    THEN [Idle EXCEPT !.pc = "push", !.out = [events |-> events, start |-> s.start, end |-> end]]
    ELSE [s EXCEPT !.last = end + 1, !.lastCurrent = current,
                     !.pc = IF events = {} THEN "loop" ELSE "found"]

ScanStep(n) ==
    /\ LET s == scan[n] IN
       \/ /\ s.pc = "found"
          /\ SetScan(n, Idle)
       \/ /\ s.pc = "loop"
          /\ \E current \in CurrentBlock :
                LET horizon == Sub(current, BlockDelay)
                    end == ScanEnd(s.last, horizon)
                    from == IF s.last > end THEN end ELSE s.last
                IN  /\ ~(current = s.lastCurrent /\ Sub(s.lastCurrent, s.last) < CatchupWithinBlocks)
                    /\ \/ /\ horizon < MinScanBlockNumber
                          /\ SetScan(n, Idle)
                       \/ /\ horizon >= MinScanBlockNumber
                          /\ SetScan(n, AfterFilter(s, current, end, Filter(from, end), batchNumber[n]))
       \/ /\ "filter" \in Faults /\ s.pc = "loop"   \* Filter failed, VSS not ready, or new configuration
          /\ SetScan(n, Idle)
    /\ UNCHANGED <<chainVars, nodelist, xeventsVars, mempool, batchNumber, queue, pending, confirm>>

ScanPush(n) ==
    /\ scan[n].pc = "push"
    /\ Len(queue[n]) < QueueSize
    /\ queue' = [queue EXCEPT ![n] = Append(@, scan[n].out)]
    /\ SetScan(n, Idle)
    /\ UNCHANGED <<chainVars, nodelist, xeventsVars, mempool, batchNumber, pending, confirm>>

-----------------------------------------------------------------------------
(* QueueVaultEventsBatch: a batch without events is passed on at once; one   *)
(* with events is passed on if its signatures arrived, and dropped if not.   *)

QueueStep(n) ==
    /\ queue[n] # <<>>
    /\ queue' = [queue EXCEPT ![n] = Tail(@)]
    /\ \/ /\ Len(pending[n]) < QueueSize
          /\ pending' = [pending EXCEPT ![n] = Append(@, Head(queue[n]))]
       \/ /\ Head(queue[n]).events # {}
          /\ UNCHANGED pending
    /\ UNCHANGED <<chainVars, nodelist, xeventsVars, mempool, scan, batchNumber, confirm>>

-----------------------------------------------------------------------------
(* PendingVaultEventsBatch: commitVaultEvents, then confirmVaultEvents.      *)

(* Faulty variant of Stored: counts the event expected next as stored. *)
StoredOffByOne(e) == e.nonce <= tmWatermark[e.tm]

Stored(e) == e.nonce < tmWatermark[e.tm]

Send(n, tx) == mempool' = [mempool EXCEPT ![n] = Append(@, tx)]

SkipBatch(n) ==
    /\ \/ ~myTurn(n)
       \/ 0 >= Head(pending[n]).start       \* VaultWatermark(XeventsXYAddr) is never written: 0
       \/ "account" \in Faults
    /\ UNCHANGED <<mempool, confirm>>

SubmitBatch(n) ==
    /\ myTurn(n)
    /\ Head(pending[n]).start > 0
    /\ \E unread \in IF "nonceRead" \in Faults THEN SUBSET Head(pending[n]).events ELSE {{}} :
          LET batch == Head(pending[n])
              succeeded == {e \in batch.events \ unread : Stored(e)}
              toCommit == {e \in batch.events \ unread : ~Stored(e)}
          IN  /\ confirm' = [confirm EXCEPT ![n] =
                                [active |-> TRUE, all |-> succeeded = batch.events, end |-> batch.end]]
              /\ \/ /\ toCommit # {}
                    /\ Len(mempool[n]) < MaxMempool
                    /\ Send(n, [kind |-> "record", events |-> toCommit, to |-> 0])
                 \/ /\ toCommit = {} \/ "submit" \in Faults
                    /\ UNCHANGED mempool

CommitStep(n) ==
    /\ ~confirm[n].active
    /\ pending[n] # <<>>
    /\ pending' = [pending EXCEPT ![n] = Tail(@)]
    /\ SkipBatch(n) \/ SubmitBatch(n)
    /\ UNCHANGED <<chainVars, nodelist, xeventsVars, scan, batchNumber, queue>>

(* Faulty variant of ConfirmStep: moves the watermark although events are missing. *)
ConfirmStepUnchecked(n) ==
    /\ confirm[n].active
    /\ confirm' = [confirm EXCEPT ![n] = NoConfirm]
    /\ Len(mempool[n]) < MaxMempool
    /\ Send(n, [kind |-> "watermark", events |-> {}, to |-> confirm[n].end])
    /\ UNCHANGED <<chainVars, nodelist, xeventsVars, scan, batchNumber, queue, pending>>

(* confirmVaultEvents waits for blocks of xchain; how many passed decides    *)
(* only when it returns: the watermark moves if every event had succeeded,   *)
(* and the wait times out if one had not.                                    *)
ConfirmStep(n) ==
    /\ confirm[n].active
    /\ confirm' = [confirm EXCEPT ![n] = NoConfirm]
    /\ \/ /\ confirm[n].all
          /\ Len(mempool[n]) < MaxMempool
          /\ Send(n, [kind |-> "watermark", events |-> {}, to |-> confirm[n].end])
       \/ /\ ~confirm[n].all \/ "confirm" \in Faults
          /\ UNCHANGED mempool
    /\ UNCHANGED <<chainVars, nodelist, xeventsVars, scan, batchNumber, queue, pending>>

-----------------------------------------------------------------------------
(* XEvents on xchain.  Transactions of one account are mined in order.       *)
(* RecordVaultEventBatch stores all its events or none: each must carry the  *)
(* nonce its token mapping expects.                                          *)

Fits(events, top) ==
    \A tm \in TokenMapping :
       /\ tmWatermark[tm] <= top[tm]
       /\ {e.nonce : e \in {d \in events : d.tm = tm}} = tmWatermark[tm]..(top[tm] - 1)

RecordVaultEventBatch(events, top) ==
    /\ Fits(events, top)
    /\ tmWatermark' = top
    /\ recorded' = [tm \in TokenMapping |-> [k \in Nonce |->
          IF tmWatermark[tm] <= k /\ k < top[tm]
          THEN (CHOOSE e \in events : e.tm = tm /\ e.nonce = k).block ELSE recorded[tm][k]]]
    /\ UNCHANGED vaultWatermark

UpdateVaultWatermark(to) ==
    /\ vaultWatermark' = to
    /\ UNCHANGED <<tmWatermark, recorded>>

Watermarks == [TokenMapping -> 0..MaxNonce]

MineTx(n) ==
    /\ mempool[n] # <<>>
    /\ mempool' = [mempool EXCEPT ![n] = Tail(@)]
    /\ LET tx == Head(mempool[n]) IN
       \/ /\ tx.kind = "record"
          /\ \E top \in Watermarks : RecordVaultEventBatch(tx.events, top)
       \/ /\ tx.kind = "watermark"
          /\ UpdateVaultWatermark(tx.to)
       \/ /\ \/ tx.kind = "record" /\ ~\E top \in Watermarks : Fits(tx.events, top)
             \/ "revert" \in Faults
          /\ UNCHANGED xeventsVars
    /\ UNCHANGED <<chainVars, nodelist, nodeVars>>

(* The operator's tool xchainRescue sets the scan back to an earlier height. *)
RescueVault ==
    /\ "rescue" \in Faults
    /\ \E to \in 0..vaultWatermark : UpdateVaultWatermark(to)
    /\ UNCHANGED <<chainVars, nodelist, mempool, nodeVars>>

(* A node stops and starts again: its goroutines and channels are lost.      *)
Restart(n) ==
    /\ "restart" \in Faults
    /\ scan' = [scan EXCEPT ![n] = Idle]
    /\ batchNumber' = [batchNumber EXCEPT ![n] = FALSE]
    /\ queue' = [queue EXCEPT ![n] = <<>>]
    /\ pending' = [pending EXCEPT ![n] = <<>>]
    /\ confirm' = [confirm EXCEPT ![n] = NoConfirm]
    /\ UNCHANGED <<chainVars, nodelist, xeventsVars, mempool>>

Next ==
    \/ SourceAdvance
    \/ ChangeNodelist
    \/ RescueVault
    \/ \E n \in Node : \/ ScanBegin(n) \/ ScanStep(n) \/ ScanPush(n)
                       \/ QueueStep(n) \/ CommitStep(n) \/ ConfirmStep(n)
                       \/ MineTx(n) \/ Restart(n)

Spec == Init /\ [][Next]_vars


-----------------------------------------------------------------------------
(* Safety.                                                                   *)

(* Every deposit in a block up to x is stored in XEvents. *)
Covered(x) ==
    \A tm \in TokenMapping, k \in Nonce :
        blockOf[tm][k] # 0 /\ blockOf[tm][k] <= x => k < tmWatermark[tm]

(* Every deposit in a block at or below the vault watermark is stored in     *)
(* XEvents.  Scans start above the watermark (getLastBlock), so a deposit    *)
(* this does not hold for would never be looked at again.                    *)
NoLostEvent == Covered(vaultWatermark)

(* What XEvents stores is what the source chain holds: each nonce below a    *)
(* token mapping's watermark is stored with the block of the canonical       *)
(* deposit of that nonce, although the chain was reorganised, batches were   *)
(* queued, dropped and sent again by several nodes, and nodes restarted.     *)
RecordedIsCanonical ==
    \A tm \in TokenMapping, k \in Nonce :
        IF k < tmWatermark[tm] THEN recorded[tm][k] = blockOf[tm][k] /\ blockOf[tm][k] # 0
        ELSE recorded[tm][k] = 0

(* commitVaultEvents says "prevent re-entry": a batch the vault watermark    *)
(* has reached already is not committed again.                               *)
NoReentry ==
    [][\A n \in Node : CommitStep(n) /\ SubmitBatch(n) => Head(pending[n]).start > vaultWatermark]_vars

(* confirmVaultEvents says it moves the vault watermark HIGHER: a mined      *)
(* transaction of a node never lowers it.                                    *)
WatermarkMovesHigher ==
    [][(\E n \in Node : MineTx(n)) => vaultWatermark' >= vaultWatermark]_vars

-----------------------------------------------------------------------------
(* The inductive invariant behind NoLostEvent and RecordedIsCanonical.       *)

(* No later reorganisation changes the deposits in blocks up to x. *)
Settled(x) == x < CreatedAt \/ x + BlockDelay <= head

Final(e) == e.block = blockOf[e.tm][e.nonce] /\ e.block # 0 /\ e.block + BlockDelay <= head

ChainInv ==
    /\ head >= StartHead
    /\ \A tm \in TokenMapping, k \in Nonce :
          blockOf[tm][k] = 0 \/ (CreatedAt <= blockOf[tm][k] /\ blockOf[tm][k] <= head)

StoredInv ==
    \A tm \in TokenMapping, k \in Nonce :
        IF k < tmWatermark[tm]
        THEN recorded[tm][k] = blockOf[tm][k] /\ blockOf[tm][k] # 0 /\ blockOf[tm][k] + BlockDelay <= head
        ELSE recorded[tm][k] = 0

(* A batch holds every deposit up to its end that is not stored yet. *)
BatchOK(b) ==
    /\ Settled(b.end)
    /\ \A e \in b.events : Final(e)
    /\ \A tm \in TokenMapping, k \in Nonce :
          blockOf[tm][k] # 0 /\ blockOf[tm][k] <= b.end =>
             \/ k < tmWatermark[tm]
             \/ [tm |-> tm, nonce |-> k, block |-> blockOf[tm][k]] \in b.events

TxOK(tx) ==
    /\ \A e \in tx.events : Final(e)
    /\ tx.kind = "watermark" => Settled(tx.to) /\ Covered(tx.to)

ScanOK(s) ==
    /\ s.pc = "loop" => Settled(s.last - 1) /\ Covered(s.last - 1)
    /\ s.pc = "push" => BatchOK(s.out)

BatchesOK(q) == \A i \in 1..Len(q) : BatchOK(q[i])
ConfirmOK(c) == c.active /\ c.all => Settled(c.end) /\ Covered(c.end)
TxsOK(m)     == \A i \in 1..Len(m) : TxOK(m[i])

(* What every goroutine and channel carries is still true of the chains: a   *)
(* scan has left no unstored deposit behind it, a batch holds every unstored *)
(* deposit up to its end, and a watermark on its way to XEvents passes none. *)
PipelineInv ==
    /\ TypeOK
    /\ ChainInv
    /\ Settled(vaultWatermark) /\ Covered(vaultWatermark)
    /\ StoredInv
    /\ \A n \in Node : /\ ScanOK(scan[n])
                       /\ BatchesOK(queue[n]) /\ BatchesOK(pending[n])
                       /\ ConfirmOK(confirm[n])
                       /\ TxsOK(mempool[n])
=============================================================================
