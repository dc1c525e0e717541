------------------------ MODULE VaultPipelineProofs ------------------------
(***************************************************************************)
(* Proofs about VaultPipeline for every value of its constants, provided    *)
(* BlockNumber never fails and the chain is longer than BlockDelay when the *)
(* nodes start (HeadReadable).  The runs of MCVaultPipeline with a failing  *)
(* BlockNumber and with a young chain show that neither can be dropped.     *)
(***************************************************************************)
EXTENDS VaultPipeline, TLAPS

HeadReadable == "blockNumber" \notin Faults /\ StartHead >= BlockDelay + MaxLag

(* The types of the constants the proofs calculate with. *)
LEMMA ConstantTypes ==
    /\ BlockDelay \in Nat /\ CreatedAt \in Nat /\ CreatedAt >= 1 /\ StartHead \in Nat
    /\ MaxNonce \in Nat /\ MaxNonce >= 1
  BY BoundsAssumption, ScanAssumption

USE ConstantTypes

-----------------------------------------------------------------------------
(* Sequences used as channels. *)

(* Appending to a channel adds one element at its end and keeps the others. *)
LEMMA AppendElements ==
    ASSUME NEW S, NEW s \in Seq(S), NEW x \in S
    PROVE  /\ Append(s, x) \in Seq(S)
           /\ \A i \in 1..Len(Append(s, x)) : (i \in 1..Len(s) /\ Append(s, x)[i] = s[i]) \/ Append(s, x)[i] = x
  OBVIOUS

(* Receiving from a channel yields an element of it and leaves others of it. *)
LEMMA TailElements ==
    ASSUME NEW S, NEW s \in Seq(S), s # <<>>
    PROVE  /\ Tail(s) \in Seq(S)
           /\ Head(s) \in S
           /\ 1 \in 1..Len(s) /\ Head(s) = s[1]
           /\ \A i \in 1..Len(Tail(s)) : i + 1 \in 1..Len(s) /\ Tail(s)[i] = s[i + 1]
  OBVIOUS

-----------------------------------------------------------------------------
(* The source chain.                                                         *)

(* A new block, with or without a reorganisation, leaves the deposits of     *)
(* settled blocks alone; a deposit it adds or moves is in one of the newest  *)
(* blocks.                                                                   *)
LEMMA AdvanceShape ==
    ASSUME TypeOK, SourceAdvance, NEW tm \in TokenMapping, NEW k \in Nonce
    PROVE  /\ head \in Nat /\ head' = head + 1
           /\ blockOf' \in [TokenMapping -> [Nonce -> Nat]]
           /\ \/ blockOf'[tm][k] = blockOf[tm][k]
              \/ blockOf'[tm][k] = 0
              \/ /\ CreatedAt <= blockOf'[tm][k] /\ blockOf'[tm][k] <= head'
                 /\ blockOf'[tm][k] + BlockDelay > head
           /\ blockOf[tm][k] # 0 /\ blockOf[tm][k] + BlockDelay <= head => blockOf'[tm][k] = blockOf[tm][k]
<1>1. head \in Nat /\ head' = head + 1
  BY DEF TypeOK, SourceAdvance
<1>2. PICK depth \in 0..BlockDelay :
         \E fresh \in [TokenMapping -> [Nonce -> {0} \cup FreshBlocks(depth)]] :
            blockOf' = [t \in TokenMapping |-> [j \in Nonce |->
                          IF Kept(t, j, depth) THEN blockOf[t][j] ELSE fresh[t][j]]]
  BY DEF SourceAdvance
<1>3. PICK fresh \in [TokenMapping -> [Nonce -> {0} \cup FreshBlocks(depth)]] :
         blockOf' = [t \in TokenMapping |-> [j \in Nonce |->
                       IF Kept(t, j, depth) THEN blockOf[t][j] ELSE fresh[t][j]]]
  BY <1>2
<1>4. FreshBlocks(depth) \subseteq Nat
  BY <1>1 DEF FreshBlocks
<1>5. blockOf' \in [TokenMapping -> [Nonce -> Nat]]
  BY <1>3, <1>4 DEF TypeOK
<1>6. blockOf'[tm][k] = IF Kept(tm, k, depth) THEN blockOf[tm][k] ELSE fresh[tm][k]
  BY <1>3
<1>7. fresh[tm][k] = 0 \/ fresh[tm][k] \in FreshBlocks(depth)
  OBVIOUS
<1>8. ASSUME fresh[tm][k] \in FreshBlocks(depth)
      PROVE  CreatedAt <= fresh[tm][k] /\ fresh[tm][k] <= head' /\ fresh[tm][k] + BlockDelay > head
  BY <1>1, <1>8 DEF FreshBlocks
<1>9. blockOf[tm][k] # 0 /\ blockOf[tm][k] + BlockDelay <= head => Kept(tm, k, depth)
  BY <1>1 DEF Kept, TypeOK
<1> QED
  BY <1>1, <1>5, <1>6, <1>7, <1>8, <1>9

-----------------------------------------------------------------------------
(* Type correctness.                                                         *)

(* Block ranges and scanned events have their types, uint64 subtraction      *)
(* included.                                                                 *)
LEMMA ScanTypes ==
    ASSUME TypeOK, NEW s \in Scan, NEW current \in CurrentBlock, NEW number \in BOOLEAN
    PROVE  LET end == ScanEnd(s.last, Sub(current, BlockDelay))
               from == IF s.last > end THEN end ELSE s.last
           IN  /\ current \in Nat /\ current <= head
               /\ end \in Nat /\ from \in Nat
               /\ Filter(from, end) \subseteq Event
               /\ AfterFilter(s, current, end, Filter(from, end), number) \in Scan
<1> DEFINE end == ScanEnd(s.last, Sub(current, BlockDelay))
           from == IF s.last > end THEN end ELSE s.last
<1>1. current \in Nat /\ current <= head
  BY BoundsAssumption DEF CurrentBlock, TypeOK
<1>2. Sub(current, BlockDelay) \in Nat
  BY <1>1, BoundsAssumption, ScanAssumption DEF Sub
<1>3. s.last \in Nat /\ s.start \in Nat /\ s.out \in Batch
  BY DEF Scan
<1>4. end \in Nat
  BY <1>2, <1>3, ScanAssumption DEF ScanEnd
<1>5. from \in Nat
  BY <1>3, <1>4
<1> HIDE DEF end, from
<1>6. Filter(from, end) \subseteq Event
  BY DEF Filter, Event, TypeOK
<1>7. AfterFilter(s, current, end, Filter(from, end), number) \in Scan
  <2> DEFINE b == [events |-> Filter(from, end), start |-> s.start, end |-> end]
  <2>1. b \in Batch
    BY <1>3, <1>4, <1>6 DEF Batch
  <2> HIDE DEF b
  <2>2. [Idle EXCEPT !.pc = "push", !.out = b] \in Scan
    BY <2>1, Zenon DEF Idle, Scan
  <2> DEFINE pc == IF Filter(from, end) = {} THEN "loop" ELSE "found"
             next == end + 1
  <2>3. pc \in {"loop", "found"} /\ next \in Nat
    BY <1>4
  <2> HIDE DEF pc, next
  <2>4. [s EXCEPT !.last = next, !.lastCurrent = current, !.pc = pc] \in Scan
    BY <1>1, <2>3, Zenon DEF Scan
  <2> QED
    BY <2>2, <2>4 DEF AfterFilter, b, pc, next
<1> QED
  BY <1>1, <1>4, <1>5, <1>6, <1>7 DEF end, from

(* The empty values of the goroutines have their types. *)
LEMMA EmptyTypes ==
    NoBatch \in Batch /\ Idle \in Scan /\ NoConfirm \in Confirm
  BY DEF NoBatch, Batch, Idle, Scan, NoConfirm, Confirm

(* The XEvents operations keep the types of its storage. *)
LEMMA XEventsTypes ==
    ASSUME TypeOK
    PROVE  /\ \A tx \in Tx, top \in Watermarks : RecordVaultEventBatch(tx.events, top) =>
                 /\ vaultWatermark' \in Nat /\ tmWatermark' \in [TokenMapping -> 0..MaxNonce]
                 /\ recorded' \in [TokenMapping -> [Nonce -> Nat]]
           /\ \A to \in Nat : UpdateVaultWatermark(to) =>
                 /\ vaultWatermark' \in Nat /\ tmWatermark' \in [TokenMapping -> 0..MaxNonce]
                 /\ recorded' \in [TokenMapping -> [Nonce -> Nat]]
<1>1. ASSUME NEW tx \in Tx, NEW top \in Watermarks, RecordVaultEventBatch(tx.events, top)
      PROVE  recorded' \in [TokenMapping -> [Nonce -> Nat]]
  <2>1. ASSUME NEW tm \in TokenMapping, NEW k \in Nonce, tmWatermark[tm] <= k, k < top[tm]
        PROVE  (CHOOSE e \in tx.events : e.tm = tm /\ e.nonce = k).block \in Nat
    <3>1. k \in tmWatermark[tm]..(top[tm] - 1)
      BY <2>1 DEF TypeOK, Watermarks, Nonce
    <3>2. \E e \in tx.events : e.tm = tm /\ e.nonce = k
      BY <1>1, <3>1 DEF RecordVaultEventBatch, Fits
    <3>3. tx.events \subseteq Event
      BY DEF Tx
    <3> QED
      BY <3>2, <3>3 DEF Event
  <2> QED
    BY <1>1, <2>1 DEF RecordVaultEventBatch, TypeOK
<1>2. ASSUME NEW tx \in Tx, NEW top \in Watermarks, RecordVaultEventBatch(tx.events, top)
      PROVE  vaultWatermark' \in Nat /\ tmWatermark' \in [TokenMapping -> 0..MaxNonce]
  BY <1>2 DEF RecordVaultEventBatch, TypeOK, Watermarks
<1>3. ASSUME NEW to \in Nat, UpdateVaultWatermark(to)
      PROVE  /\ vaultWatermark' \in Nat /\ tmWatermark' \in [TokenMapping -> 0..MaxNonce]
             /\ recorded' \in [TokenMapping -> [Nonce -> Nat]]
  BY <1>3 DEF UpdateVaultWatermark, TypeOK
<1> QED
  BY <1>1, <1>2, <1>3

(* Every step keeps the types. *)
LEMMA TypeStep ==
    ASSUME TypeOK, [Next]_vars
    PROVE  TypeOK'
<1>1. CASE SourceAdvance
  <2>1. blockOf' \in [TokenMapping -> [Nonce -> Nat]]
    <3>1. CASE TokenMapping = {}
      BY <1>1, <3>1 DEF SourceAdvance, TypeOK
    <3>2. CASE TokenMapping # {}
      <4>1. 0 \in Nonce
        BY DEF Nonce
      <4> QED
        BY <1>1, <3>2, <4>1, AdvanceShape
    <3> QED
      BY <3>1, <3>2
  <2> QED
    BY <1>1, <2>1 DEF SourceAdvance, TypeOK, xeventsVars, nodeVars
<1>2. CASE ChangeNodelist
  BY <1>2 DEF ChangeNodelist, TypeOK, chainVars, xeventsVars, nodeVars
<1>3. CASE RescueVault
  <2>1. PICK to \in 0..vaultWatermark : UpdateVaultWatermark(to)
    BY <1>3 DEF RescueVault
  <2>2. to \in Nat
    BY DEF TypeOK
  <2> QED
    BY <1>3, <2>1, <2>2, XEventsTypes DEF RescueVault, TypeOK, chainVars, nodeVars
<1>4. ASSUME NEW n \in Node, ScanBegin(n)
      PROVE  TypeOK'
  <2>1. \A x \in Nat : [Idle EXCEPT !.pc = "loop", !.start = x, !.last = x] \in Scan
    BY EmptyTypes, Zenon DEF Idle, Scan
  <2>2. scan' \in [Node -> Scan]
    <3>1. PICK x \in Nat : BeginScan(n, x)
      BY <1>4 DEF ScanBegin, getLastBlock, TypeOK
    <3> QED
      BY <2>1, <3>1, Zenon DEF BeginScan, SetScan, TypeOK
  <2>3. batchNumber' \in [Node -> BOOLEAN]
    BY <1>4, Zenon DEF ScanBegin, getLastBlock, TypeOK
  <2> QED
    BY <1>4, <2>2, <2>3 DEF ScanBegin, TypeOK, chainVars, xeventsVars
<1>5. ASSUME NEW n \in Node, ScanStep(n)
      PROVE  TypeOK'
  <2>1. \E s \in Scan : SetScan(n, s)
    <3>1. scan[n] \in Scan /\ batchNumber[n] \in BOOLEAN
      BY DEF TypeOK
    <3>2. CASE SetScan(n, Idle)
      BY <3>2, EmptyTypes
    <3>3. CASE ~SetScan(n, Idle)
      <4>1. PICK current \in CurrentBlock :
              LET end == ScanEnd(scan[n].last, Sub(current, BlockDelay))
                  from == IF scan[n].last > end THEN end ELSE scan[n].last
              IN  SetScan(n, AfterFilter(scan[n], current, end, Filter(from, end), batchNumber[n]))
        BY <1>5, <3>3 DEF ScanStep
      <4> QED
        BY <3>1, <4>1, ScanTypes
    <3> QED
      BY <3>2, <3>3
  <2>2. scan' \in [Node -> Scan]
    BY <2>1 DEF SetScan, TypeOK
  <2> QED
    BY <1>5, <2>2 DEF ScanStep, TypeOK, chainVars, xeventsVars
<1>6. ASSUME NEW n \in Node, ScanPush(n)
      PROVE  TypeOK'
  <2>1. queue[n] \in Seq(Batch) /\ scan[n].out \in Batch
    BY DEF TypeOK, Scan
  <2>2. Append(queue[n], scan[n].out) \in Seq(Batch)
    BY <2>1, AppendElements
  <2> QED
    BY <1>6, <2>2, EmptyTypes DEF ScanPush, SetScan, TypeOK, chainVars, xeventsVars
<1>7. ASSUME NEW n \in Node, QueueStep(n)
      PROVE  TypeOK'
  <2>1. queue[n] \in Seq(Batch) /\ queue[n] # <<>> /\ pending[n] \in Seq(Batch)
    BY <1>7 DEF TypeOK, QueueStep
  <2>2. Tail(queue[n]) \in Seq(Batch) /\ Append(pending[n], Head(queue[n])) \in Seq(Batch)
    BY <2>1, TailElements, AppendElements
  <2> QED
    BY <1>7, <2>2, Zenon DEF QueueStep, TypeOK, chainVars, xeventsVars
<1>8. ASSUME NEW n \in Node, CommitStep(n)
      PROVE  TypeOK'
  <2>1. pending[n] \in Seq(Batch) /\ pending[n] # <<>> /\ mempool[n] \in Seq(Tx)
    BY <1>8 DEF TypeOK, CommitStep
  <2>2. Tail(pending[n]) \in Seq(Batch) /\ Head(pending[n]) \in Batch
    BY <2>1, TailElements
  <2>3. mempool' \in [Node -> Seq(Tx)] /\ confirm' \in [Node -> Confirm]
    <3>1. CASE SkipBatch(n)
      BY <3>1 DEF SkipBatch, TypeOK
    <3>2. CASE SubmitBatch(n)
      <4>1. ASSUME NEW all \in BOOLEAN, confirm' = [confirm EXCEPT ![n] =
                      [active |-> TRUE, all |-> all, end |-> Head(pending[n]).end]]
            PROVE  confirm' \in [Node -> Confirm]
        BY <2>2, <4>1 DEF TypeOK, Confirm, Batch
      <4>2. confirm' \in [Node -> Confirm]
        BY <3>2, <4>1, Zenon DEF SubmitBatch
      <4>3. ASSUME NEW c \in SUBSET Head(pending[n]).events,
                   Send(n, [kind |-> "record", events |-> c, to |-> 0])
            PROVE  mempool' \in [Node -> Seq(Tx)]
        <5>1. [kind |-> "record", events |-> c, to |-> 0] \in Tx
          BY <2>2 DEF Batch, Tx
        <5>2. Append(mempool[n], [kind |-> "record", events |-> c, to |-> 0]) \in Seq(Tx)
          BY <2>1, <5>1, AppendElements
        <5> QED
          BY <4>3, <5>2 DEF Send, TypeOK
      <4>4. mempool' \in [Node -> Seq(Tx)]
        <5>1. \/ \E c \in SUBSET Head(pending[n]).events :
                    Send(n, [kind |-> "record", events |-> c, to |-> 0])
              \/ UNCHANGED mempool
          BY <3>2 DEF SubmitBatch
        <5> QED
          BY <4>3, <5>1, Zenon DEF TypeOK
      <4> QED
        BY <4>2, <4>4
    <3> QED
      BY <1>8, <3>1, <3>2 DEF CommitStep
  <2> QED
    BY <1>8, <2>2, <2>3, Zenon DEF CommitStep, TypeOK, chainVars, xeventsVars
<1>9. ASSUME NEW n \in Node, ConfirmStep(n)
      PROVE  TypeOK'
  <2>1. mempool[n] \in Seq(Tx) /\ confirm[n] \in Confirm
    BY DEF TypeOK
  <2>2. [kind |-> "watermark", events |-> {}, to |-> confirm[n].end] \in Tx
    BY <2>1 DEF Confirm, Tx
  <2>3. Append(mempool[n], [kind |-> "watermark", events |-> {}, to |-> confirm[n].end]) \in Seq(Tx)
    BY <2>1, <2>2, AppendElements
  <2>4. mempool' \in [Node -> Seq(Tx)]
    BY <1>9, <2>3, Zenon DEF ConfirmStep, Send, TypeOK
  <2>5. confirm' \in [Node -> Confirm]
    BY <1>9, EmptyTypes DEF ConfirmStep, TypeOK
  <2> QED
    BY <1>9, <2>4, <2>5 DEF ConfirmStep, TypeOK, chainVars, xeventsVars
<1>10. ASSUME NEW n \in Node, MineTx(n)
       PROVE  TypeOK'
  <2>1. mempool[n] \in Seq(Tx) /\ mempool[n] # <<>>
    BY <1>10 DEF TypeOK, MineTx
  <2>2. Tail(mempool[n]) \in Seq(Tx) /\ Head(mempool[n]) \in Tx
    BY <2>1, TailElements
  <2>3. Head(mempool[n]).to \in Nat
    BY <2>2 DEF Tx
  <2>4. /\ vaultWatermark' \in Nat /\ tmWatermark' \in [TokenMapping -> 0..MaxNonce]
        /\ recorded' \in [TokenMapping -> [Nonce -> Nat]]
    <3>1. CASE \E top \in Watermarks : RecordVaultEventBatch(Head(mempool[n]).events, top)
      BY <2>2, <3>1, XEventsTypes
    <3>2. CASE UpdateVaultWatermark(Head(mempool[n]).to)
      BY <2>3, <3>2, XEventsTypes
    <3>3. CASE UNCHANGED xeventsVars
      BY <3>3 DEF xeventsVars, TypeOK
    <3> QED
      BY <1>10, <3>1, <3>2, <3>3 DEF MineTx
  <2> QED
    BY <1>10, <2>2, <2>4 DEF MineTx, TypeOK, chainVars, nodeVars
<1>11. ASSUME NEW n \in Node, Restart(n)
       PROVE  TypeOK'
  BY <1>11, EmptyTypes DEF Restart, TypeOK, chainVars, xeventsVars
<1>12. CASE UNCHANGED vars
  BY <1>12 DEF vars, TypeOK, chainVars, xeventsVars, nodeVars
<1> QED
  BY <1>1, <1>2, <1>3, <1>4, <1>5, <1>6, <1>7, <1>8, <1>9, <1>10, <1>11, <1>12 DEF Next

-----------------------------------------------------------------------------
(* What a goroutine has learnt stays true while the source chain advances    *)
(* and XEvents stores more events.                                           *)

Grows == \A tm \in TokenMapping : tmWatermark[tm] <= tmWatermark'[tm]

ChainStep == SourceAdvance \/ UNCHANGED chainVars

(* No deposit appears in a settled block. *)
LEMMA SettledBlocks ==
    ASSUME TypeOK, ChainStep, NEW x \in Int, Settled(x), NEW tm \in TokenMapping, NEW k \in Nonce,
           blockOf'[tm][k] # 0, blockOf'[tm][k] <= x
    PROVE  blockOf'[tm][k] = blockOf[tm][k]
<1>1. CASE SourceAdvance
  <2>1. head \in Nat /\ blockOf'[tm][k] \in Nat
    BY <1>1, AdvanceShape
  <2>2. \/ blockOf'[tm][k] = blockOf[tm][k]
        \/ CreatedAt <= blockOf'[tm][k] /\ blockOf'[tm][k] + BlockDelay > head
    BY <1>1, AdvanceShape
  <2> QED
    BY <2>1, <2>2 DEF Settled
<1>2. CASE UNCHANGED chainVars
  BY <1>2 DEF chainVars
<1> QED
  BY <1>1, <1>2 DEF ChainStep

(* Settled blocks stay settled, and no deposit appears in them: what was     *)
(* covered stays covered.                                                    *)
LEMMA SettledStable ==
    ASSUME TypeOK, TypeOK', Grows, ChainStep, NEW x \in Int, Settled(x)
    PROVE  Settled(x)' /\ (Covered(x) => Covered(x)')
<1>1. head \in Nat /\ head' \in Nat /\ head' >= head
  BY DEF TypeOK, ChainStep, SourceAdvance, chainVars
<1>2. Settled(x)'
  <2>1. CASE x < CreatedAt
    BY <2>1 DEF Settled
  <2>2. CASE x + BlockDelay <= head
    <3>1. x + BlockDelay <= head'
      BY <1>1, <2>2
    <3> QED
      BY <3>1 DEF Settled
  <2> QED
    BY <2>1, <2>2 DEF Settled
<1>3. ASSUME Covered(x), NEW tm \in TokenMapping, NEW k \in Nonce,
             blockOf'[tm][k] # 0, blockOf'[tm][k] <= x
      PROVE  k < tmWatermark'[tm]
  <2>1. blockOf'[tm][k] = blockOf[tm][k]
    BY <1>3, SettledBlocks
  <2>2. k < tmWatermark[tm]
    BY <1>3, <2>1 DEF Covered
  <2> QED
    BY <2>2 DEF Grows, TypeOK, Nonce
<1>4. Covered(x) => Covered(x)'
  BY <1>3 DEF Covered
<1> QED
  BY <1>2, <1>4

(* A final deposit stays on the canonical chain. *)
LEMMA FinalStable ==
    ASSUME TypeOK, TypeOK', ChainStep, NEW e \in Event, Final(e)
    PROVE  Final(e)'
<1>1. head \in Nat /\ head' \in Nat /\ head' >= head
  BY DEF TypeOK, ChainStep, SourceAdvance, chainVars
<1>2. e.tm \in TokenMapping /\ e.nonce \in Nonce /\ e.block \in Nat
  BY DEF Event
<1>3. blockOf'[e.tm][e.nonce] = blockOf[e.tm][e.nonce]
  BY <1>1, <1>2, AdvanceShape, Zenon DEF Final, ChainStep, chainVars, TypeOK
<1> QED
  BY <1>1, <1>2, <1>3 DEF Final

(* A batch keeps holding every unstored deposit up to its end. *)
LEMMA BatchStable ==
    ASSUME TypeOK, TypeOK', Grows, ChainStep, NEW b \in Batch, BatchOK(b)
    PROVE  BatchOK(b)'
<1>1. b.end \in Nat /\ b.events \subseteq Event
  BY DEF Batch
<1>2. Settled(b.end)'
  BY <1>1, SettledStable DEF BatchOK
<1>3. \A e \in b.events : Final(e)'
  BY <1>1, FinalStable DEF BatchOK
<1>4. ASSUME NEW tm \in TokenMapping, NEW k \in Nonce, blockOf'[tm][k] # 0, blockOf'[tm][k] <= b.end
      PROVE  \/ k < tmWatermark'[tm]
             \/ [tm |-> tm, nonce |-> k, block |-> blockOf'[tm][k]] \in b.events
  <2>2. Settled(b.end)
    BY DEF BatchOK
  <2>3. blockOf'[tm][k] = blockOf[tm][k]
    BY <1>1, <1>4, <2>2, SettledBlocks
  <2>4. k < tmWatermark[tm] \/ [tm |-> tm, nonce |-> k, block |-> blockOf'[tm][k]] \in b.events
    BY <1>4, <2>3 DEF BatchOK
  <2>5. k < tmWatermark[tm] => k < tmWatermark'[tm]
    BY DEF Grows, TypeOK, Nonce
  <2> QED
    BY <2>4, <2>5
<1> QED
  BY <1>2, <1>3, <1>4 DEF BatchOK

(* A transaction on its way to XEvents stays correct. *)
LEMMA TxStable ==
    ASSUME TypeOK, TypeOK', Grows, ChainStep, NEW tx \in Tx, TxOK(tx)
    PROVE  TxOK(tx)'
<1>1. tx.to \in Nat /\ tx.events \subseteq Event
  BY DEF Tx
<1>2. \A e \in tx.events : Final(e)'
  BY <1>1, FinalStable DEF TxOK
<1>3. tx.kind = "watermark" => Settled(tx.to)' /\ Covered(tx.to)'
  BY <1>1, SettledStable DEF TxOK
<1> QED
  BY <1>2, <1>3 DEF TxOK

(* What the goroutines, channels and transactions carry stays true. *)
LEMMA CarriedStable ==
    ASSUME TypeOK, TypeOK', Grows, ChainStep
    PROVE  /\ \A s \in Scan : ScanOK(s) => ScanOK(s)'
           /\ \A q \in Seq(Batch) : BatchesOK(q) => BatchesOK(q)'
           /\ \A c \in Confirm : ConfirmOK(c) => ConfirmOK(c)'
           /\ \A m \in Seq(Tx) : TxsOK(m) => TxsOK(m)'
<1>1. ASSUME NEW s \in Scan, ScanOK(s)
      PROVE  ScanOK(s)'
  <2>1. s.last - 1 \in Int /\ s.out \in Batch
    BY DEF Scan
  <2> QED
    BY <1>1, <2>1, SettledStable, BatchStable DEF ScanOK
<1>2. ASSUME NEW q \in Seq(Batch), BatchesOK(q)
      PROVE  BatchesOK(q)'
  <2>1. \A i \in 1..Len(q) : q[i] \in Batch
    OBVIOUS
  <2> QED
    BY <1>2, <2>1, BatchStable DEF BatchesOK
<1>3. ASSUME NEW c \in Confirm, ConfirmOK(c)
      PROVE  ConfirmOK(c)'
  <2>1. c.end \in Int
    BY DEF Confirm
  <2> QED
    BY <1>3, <2>1, SettledStable DEF ConfirmOK
<1>4. ASSUME NEW m \in Seq(Tx), TxsOK(m)
      PROVE  TxsOK(m)'
  <2>1. \A i \in 1..Len(m) : m[i] \in Tx
    OBVIOUS
  <2> QED
    BY <1>4, <2>1, TxStable DEF TxsOK
<1> QED
  BY <1>1, <1>2, <1>3, <1>4

-----------------------------------------------------------------------------
(* The inductive invariant.                                                  *)

(* The source chain keeps its shape, and what XEvents stored stays canonical *)
(* while it stores nothing new.                                              *)
LEMMA ChainPreserved ==
    ASSUME TypeOK, ChainInv, ChainStep
    PROVE  ChainInv' /\ (StoredInv /\ UNCHANGED <<tmWatermark, recorded>> => StoredInv')
<1>1. head \in Nat /\ head' \in Nat /\ head' >= head
  BY DEF TypeOK, ChainStep, SourceAdvance, chainVars
<1>2. ASSUME NEW tm \in TokenMapping, NEW k \in Nonce
      PROVE  blockOf'[tm][k] = 0 \/ (CreatedAt <= blockOf'[tm][k] /\ blockOf'[tm][k] <= head')
  <2>1. blockOf[tm][k] \in Nat
    BY DEF TypeOK
  <2> QED
    BY <1>1, <2>1, AdvanceShape DEF ChainInv, ChainStep, chainVars
<1>3. ChainInv'
  BY <1>1, <1>2 DEF ChainInv
<1>4. ASSUME StoredInv, UNCHANGED <<tmWatermark, recorded>>, NEW tm \in TokenMapping, NEW k \in Nonce
      PROVE  IF k < tmWatermark'[tm]
             THEN recorded'[tm][k] = blockOf'[tm][k] /\ blockOf'[tm][k] # 0 /\ blockOf'[tm][k] + BlockDelay <= head'
             ELSE recorded'[tm][k] = 0
  <2>1. CASE k < tmWatermark[tm]
    <3>1. blockOf[tm][k] \in Nat /\ blockOf[tm][k] # 0 /\ blockOf[tm][k] + BlockDelay <= head
          /\ recorded[tm][k] = blockOf[tm][k]
      BY <1>4, <2>1 DEF StoredInv, TypeOK
    <3>2. blockOf'[tm][k] = blockOf[tm][k]
      BY <3>1, AdvanceShape DEF ChainStep, chainVars
    <3> QED
      BY <1>1, <1>4, <2>1, <3>1, <3>2
  <2>2. CASE ~(k < tmWatermark[tm])
    BY <1>4, <2>2 DEF StoredInv
  <2> QED
    BY <2>1, <2>2
<1>5. StoredInv /\ UNCHANGED <<tmWatermark, recorded>> => StoredInv'
  BY <1>4 DEF StoredInv
<1> QED
  BY <1>3, <1>5

(* A step that leaves the part a node carries alone, or replaces it by       *)
(* something correct, keeps the invariant.                                   *)
LEMMA Preserve ==
    ASSUME PipelineInv, TypeOK', Grows, ChainStep, StoredInv',
           Settled(vaultWatermark)', Covered(vaultWatermark)',
           \A n \in Node : scan'[n] = scan[n] \/ ScanOK(scan[n])',
           \A n \in Node : queue'[n] = queue[n] \/ BatchesOK(queue[n])',
           \A n \in Node : pending'[n] = pending[n] \/ BatchesOK(pending[n])',
           \A n \in Node : confirm'[n] = confirm[n] \/ ConfirmOK(confirm[n])',
           \A n \in Node : mempool'[n] = mempool[n] \/ TxsOK(mempool[n])'
    PROVE  PipelineInv'
<1>1. TypeOK /\ ChainInv
  BY DEF PipelineInv
<1>2. ChainInv'
  BY <1>1, ChainPreserved
<1>3. ASSUME NEW n \in Node
      PROVE  /\ ScanOK(scan[n])'
             /\ BatchesOK(queue[n])' /\ BatchesOK(pending[n])'
             /\ ConfirmOK(confirm[n])'
             /\ TxsOK(mempool[n])'
  <2>1. /\ scan[n] \in Scan /\ queue[n] \in Seq(Batch) /\ pending[n] \in Seq(Batch)
        /\ confirm[n] \in Confirm /\ mempool[n] \in Seq(Tx)
    BY <1>1 DEF TypeOK
  <2>2. /\ ScanOK(scan[n]) /\ BatchesOK(queue[n]) /\ BatchesOK(pending[n])
        /\ ConfirmOK(confirm[n]) /\ TxsOK(mempool[n])
    BY Zenon DEF PipelineInv
  <2>3. ScanOK(scan[n])'
    BY <1>1, <2>1, <2>2, CarriedStable, Zenon
  <2>4. BatchesOK(queue[n])'
    BY <1>1, <2>1, <2>2, CarriedStable, Zenon
  <2>5. BatchesOK(pending[n])'
    BY <1>1, <2>1, <2>2, CarriedStable, Zenon
  <2>6. ConfirmOK(confirm[n])'
    BY <1>1, <2>1, <2>2, CarriedStable, Zenon
  <2>7. TxsOK(mempool[n])'
    BY <1>1, <2>1, <2>2, CarriedStable, Zenon
  <2> QED
    BY <2>3, <2>4, <2>5, <2>6, <2>7
<1> QED
  BY <1>2, <1>3 DEF PipelineInv

(* A step that leaves XEvents alone keeps what the invariant says of it. *)
LEMMA XEventsUntouched ==
    ASSUME PipelineInv, TypeOK', ChainStep, UNCHANGED xeventsVars
    PROVE  Grows /\ StoredInv' /\ Settled(vaultWatermark)' /\ Covered(vaultWatermark)'
<1>1. TypeOK /\ ChainInv /\ StoredInv /\ Settled(vaultWatermark) /\ Covered(vaultWatermark)
  BY DEF PipelineInv
<1>2. vaultWatermark \in Int /\ vaultWatermark' = vaultWatermark /\ UNCHANGED <<tmWatermark, recorded>>
  BY <1>1 DEF TypeOK, xeventsVars
<1>3. Grows
  BY <1>1, <1>2 DEF Grows, TypeOK
<1>4. StoredInv'
  BY <1>1, <1>2, ChainPreserved
<1> QED
  BY <1>1, <1>2, <1>3, <1>4, SettledStable

(* A smaller block number is settled and covered with a larger one. *)
LEMMA CoveredBelow ==
    ASSUME TypeOK, NEW x \in Int, NEW y \in Int, y <= x, Settled(x), Covered(x)
    PROVE  Settled(y) /\ Covered(y)
<1>1. Settled(y)
  BY DEF Settled, TypeOK
<1>2. Covered(y)
  BY DEF Covered, TypeOK
<1> QED
  BY <1>1, <1>2

(* A new block of the source chain, and a new node list. *)
LEMMA EnvironmentStep ==
    ASSUME PipelineInv, TypeOK', SourceAdvance \/ ChangeNodelist
    PROVE  PipelineInv'
<1>1. ChainStep /\ UNCHANGED <<xeventsVars, mempool, nodeVars>>
  BY DEF ChainStep, SourceAdvance, ChangeNodelist
<1>2. UNCHANGED <<scan, queue, pending, confirm, mempool>>
  BY <1>1 DEF nodeVars
<1> QED
  BY <1>1, <1>2, XEventsUntouched, Preserve

(* Setting the vault watermark back. *)
LEMMA RescueStep ==
    ASSUME PipelineInv, TypeOK', RescueVault
    PROVE  PipelineInv'
<1>1. TypeOK /\ ChainInv /\ StoredInv /\ Settled(vaultWatermark) /\ Covered(vaultWatermark)
  BY DEF PipelineInv
<1>2. PICK to \in 0..vaultWatermark : UpdateVaultWatermark(to)
  BY DEF RescueVault
<1>3. /\ ChainStep /\ UNCHANGED <<scan, queue, pending, confirm, mempool>>
      /\ UNCHANGED <<tmWatermark, recorded>> /\ vaultWatermark' = to /\ to \in Int
  BY <1>1, <1>2 DEF RescueVault, ChainStep, UpdateVaultWatermark, nodeVars, TypeOK
<1>4. Grows
  BY <1>1, <1>3 DEF Grows, TypeOK
<1>5. StoredInv'
  BY <1>1, <1>3, ChainPreserved
<1>6. Settled(to) /\ Covered(to)
  BY <1>1, CoveredBelow DEF TypeOK
<1>7. Settled(vaultWatermark)' /\ Covered(vaultWatermark)'
  BY <1>1, <1>3, <1>4, <1>6, SettledStable
<1> QED
  BY <1>3, <1>4, <1>5, <1>7, Preserve

(* getLastBlock starts the scan just above what is covered. *)
LEMMA ScanBeginStep ==
    ASSUME PipelineInv, TypeOK', NEW n \in Node, ScanBegin(n)
    PROVE  PipelineInv'
<1>1. TypeOK /\ ChainInv /\ Settled(vaultWatermark) /\ Covered(vaultWatermark)
  BY DEF PipelineInv
<1>2. ChainStep /\ UNCHANGED <<xeventsVars, queue, pending, confirm, mempool>>
  BY DEF ScanBegin, ChainStep
<1>3. PICK x \in {0, CreatedAt, vaultWatermark + 1} : BeginScan(n, x)
  BY DEF ScanBegin, getLastBlock
<1>4. x \in Nat
  BY <1>1 DEF TypeOK
<1>5. Settled(x - 1) /\ Covered(x - 1)
  <2>1. CASE x \in {0, CreatedAt}
    <3>1. x - 1 \in Int /\ x - 1 < CreatedAt
      BY <1>4, <2>1
    <3>2. \A tm \in TokenMapping, k \in Nonce : blockOf[tm][k] \in Nat
      BY <1>1 DEF TypeOK
    <3> QED
      BY <1>1, <3>1, <3>2 DEF Settled, Covered, ChainInv
  <2>2. CASE x = vaultWatermark + 1
    <3>1. x - 1 = vaultWatermark
      BY <1>1, <2>2 DEF TypeOK
    <3> QED
      BY <1>1, <3>1
  <2> QED
    BY <2>1, <2>2
<1>6. Grows
  BY <1>2, XEventsUntouched
<1>7. Settled(x - 1)' /\ Covered(x - 1)'
  BY <1>1, <1>2, <1>4, <1>5, <1>6, SettledStable
<1>8. scan' = [scan EXCEPT ![n] = [Idle EXCEPT !.pc = "loop", !.start = x, !.last = x]]
  BY <1>3 DEF BeginScan, SetScan
<1>9. scan'[n].pc = "loop" /\ scan'[n].last = x
  BY <1>1, <1>8 DEF TypeOK, Idle
<1>10. ScanOK(scan[n])'
  BY <1>7, <1>9 DEF ScanOK
<1>11. \A m \in Node : scan'[m] = scan[m] \/ m = n
  BY <1>1, <1>8 DEF TypeOK
<1> QED
  BY <1>2, <1>10, <1>11, XEventsUntouched, Preserve

(* One round of the scan loop, with a readable head: the range ends in a     *)
(* settled block, and the batch, or the empty range behind the scan, misses  *)
(* no deposit.                                                               *)
LEMMA ScanRound ==
    ASSUME HeadReadable, PipelineInv, NEW s \in Scan, s.pc = "loop", ScanOK(s),
           NEW current \in CurrentBlock, NEW number \in BOOLEAN
    PROVE  LET end == ScanEnd(s.last, Sub(current, BlockDelay))
               from == IF s.last > end THEN end ELSE s.last
           IN  ScanOK(AfterFilter(s, current, end, Filter(from, end), number))
<1> DEFINE end == ScanEnd(s.last, Sub(current, BlockDelay))
           from == IF s.last > end THEN end ELSE s.last
           events == Filter(from, end)
           next == AfterFilter(s, current, end, events, number)
           batch == [events |-> events, start |-> s.start, end |-> end]
<1>1. TypeOK /\ ChainInv
  BY DEF PipelineInv
<1>2. /\ current \in Nat /\ current <= head /\ end \in Nat /\ from \in Nat
      /\ events \subseteq Event
  BY <1>1, ScanTypes
<1>3. s.last \in Nat /\ Settled(s.last - 1) /\ Covered(s.last - 1)
  BY DEF Scan, ScanOK
<1>4. end + BlockDelay <= head
  <2>1. current >= BlockDelay
    BY <1>1, <1>2, BoundsAssumption DEF HeadReadable, CurrentBlock, ChainInv, TypeOK
  <2>2. Sub(current, BlockDelay) + BlockDelay = current /\ Sub(current, BlockDelay) \in Nat
    BY <1>2, <2>1 DEF Sub
  <2>3. end <= Sub(current, BlockDelay)
    BY <1>2, <1>3, <2>2, ScanAssumption, SMTT(30) DEF ScanEnd
  <2> HIDE DEF end
  <2>4. head \in Nat
    BY <1>1 DEF TypeOK
  <2> QED
    BY <1>2, <2>2, <2>3, <2>4
<1> HIDE DEF end
<1>5. Settled(end)
  BY <1>4 DEF Settled
<1>6. \A e \in events : Final(e)
  <2>1. ASSUME NEW e \in events
        PROVE  /\ e \in Event /\ e.block = blockOf[e.tm][e.nonce] /\ e.block # 0
               /\ e.block <= end
    BY <1>2, <2>1 DEF Filter
  <2>2. ASSUME NEW e \in events PROVE e.block \in Nat
    BY <1>2, <2>2 DEF Event
  <2>3. head \in Nat
    BY <1>1 DEF TypeOK
  <2> QED
    BY <1>2, <1>4, <2>1, <2>2, <2>3 DEF Final
<1>7. ASSUME NEW tm \in TokenMapping, NEW k \in Nonce, blockOf[tm][k] # 0, blockOf[tm][k] <= end
      PROVE  \/ k < tmWatermark[tm]
             \/ [tm |-> tm, nonce |-> k, block |-> blockOf[tm][k]] \in events
  <2>1. blockOf[tm][k] \in Nat
    BY <1>1 DEF TypeOK
  <2>2. CASE blockOf[tm][k] <= s.last - 1
    BY <1>3, <1>7, <2>2 DEF Covered
  <2>3. CASE ~(blockOf[tm][k] <= s.last - 1)
    <3>1. from <= blockOf[tm][k]
      BY <1>2, <1>3, <1>7, <2>1, <2>3
    <3>2. <<tm, k>> \in {q \in TokenMapping \X Nonce : blockOf[q[1]][q[2]] # 0
                           /\ from <= blockOf[q[1]][q[2]] /\ blockOf[q[1]][q[2]] <= end}
      BY <1>7, <3>1
    <3> HIDE DEF from
    <3> QED
      BY <3>2 DEF Filter
  <2> QED
    BY <2>2, <2>3
<1>8. BatchOK(batch)
  BY <1>5, <1>6, <1>7 DEF BatchOK
<1>9. events = {} => Covered(end)
  BY <1>7, Zenon DEF Covered
<1>10. CASE BatchDone(s, end, events, number)
  <2>1. next = [Idle EXCEPT !.pc = "push", !.out = batch]
    BY <1>10 DEF AfterFilter
  <2> HIDE DEF batch, next
  <2>2. next.pc = "push" /\ next.out = batch
    BY <2>1 DEF Idle
  <2>3. ScanOK(next)
    BY <1>8, <2>2 DEF ScanOK
  <2> QED
    BY <2>3 DEF next, end
<1>11. CASE ~BatchDone(s, end, events, number)
  <2> DEFINE pc == IF events = {} THEN "loop" ELSE "found"
             last == end + 1
  <2>1. next = [s EXCEPT !.last = last, !.lastCurrent = current, !.pc = pc]
    BY <1>11 DEF AfterFilter
  <2>2. last - 1 = end
    BY <1>2
  <2>3. pc # "push" /\ (pc = "loop" => events = {})
    OBVIOUS
  <2> HIDE DEF next, pc, last
  <2>4. next.pc = pc /\ next.last = last
    BY <2>1 DEF Scan
  <2>5. ScanOK(next)
    BY <1>5, <1>9, <2>2, <2>3, <2>4 DEF ScanOK
  <2> QED
    BY <2>5 DEF next, end
<1> QED
  BY <1>10, <1>11

(* A round of scanVaultEvents. *)
LEMMA ScanRoundStep ==
    ASSUME HeadReadable, PipelineInv, TypeOK', NEW n \in Node, ScanStep(n)
    PROVE  PipelineInv'
<1>1. TypeOK /\ ScanOK(scan[n])
  BY Zenon DEF PipelineInv
<1>2. ChainStep /\ UNCHANGED <<xeventsVars, queue, pending, confirm, mempool>>
  BY DEF ScanStep, ChainStep
<1>3. scan[n] \in Scan /\ batchNumber[n] \in BOOLEAN
  BY <1>1 DEF TypeOK
<1>4. PICK s \in Scan : SetScan(n, s) /\ ScanOK(s)
  <2>1. CASE SetScan(n, Idle)
    <3>1. ScanOK(Idle)
      BY DEF ScanOK, Idle
    <3> QED
      BY <2>1, <3>1, EmptyTypes
  <2>2. CASE ~SetScan(n, Idle)
    <3>1. PICK current \in CurrentBlock :
            /\ scan[n].pc = "loop"
            /\ LET end == ScanEnd(scan[n].last, Sub(current, BlockDelay))
                   from == IF scan[n].last > end THEN end ELSE scan[n].last
               IN  SetScan(n, AfterFilter(scan[n], current, end, Filter(from, end), batchNumber[n]))
      BY <2>2 DEF ScanStep
    <3> DEFINE end == ScanEnd(scan[n].last, Sub(current, BlockDelay))
               from == IF scan[n].last > end THEN end ELSE scan[n].last
               s == AfterFilter(scan[n], current, end, Filter(from, end), batchNumber[n])
    <3>2. s \in Scan
      BY <1>1, <1>3, ScanTypes, Zenon
    <3>3. ScanOK(s)
      BY <1>1, <1>3, <3>1, ScanRound, Zenon
    <3>4. SetScan(n, s)
      BY <3>1, Zenon
    <3> HIDE DEF s
    <3> QED
      BY <3>2, <3>3, <3>4
  <2> QED
    BY <2>1, <2>2
<1>5. Grows
  BY <1>2, XEventsUntouched
<1>6. ScanOK(s)'
  BY <1>1, <1>2, <1>4, <1>5, CarriedStable
<1>7. scan'[n] = s /\ \A m \in Node : scan'[m] = scan[m] \/ m = n
  BY <1>1, <1>4 DEF SetScan, TypeOK
<1>8. ScanOK(scan[n])'
  BY <1>6, <1>7, Zenon
<1> QED
  BY <1>2, <1>7, <1>8, XEventsUntouched, Preserve

(* A channel stays correct when a correct batch is sent to it or one is      *)
(* received from it, and so does a node's list of transactions.              *)
LEMMA ChannelSteps ==
    /\ \A q \in Seq(Batch), b \in Batch : BatchesOK(q) /\ BatchOK(b) => BatchesOK(Append(q, b))
    /\ \A q \in Seq(Batch) : BatchesOK(q) /\ q # <<>> => BatchesOK(Tail(q)) /\ BatchOK(Head(q))
    /\ \A m \in Seq(Tx), tx \in Tx : TxsOK(m) /\ TxOK(tx) => TxsOK(Append(m, tx))
    /\ \A m \in Seq(Tx) : TxsOK(m) /\ m # <<>> => TxsOK(Tail(m)) /\ TxOK(Head(m))
<1>1. ASSUME NEW q \in Seq(Batch), NEW b \in Batch, BatchesOK(q), BatchOK(b)
      PROVE  BatchesOK(Append(q, b))
  BY <1>1, AppendElements DEF BatchesOK
<1>2. ASSUME NEW q \in Seq(Batch), BatchesOK(q), q # <<>>
      PROVE  BatchesOK(Tail(q)) /\ BatchOK(Head(q))
  BY <1>2, TailElements DEF BatchesOK
<1>3. ASSUME NEW m \in Seq(Tx), NEW tx \in Tx, TxsOK(m), TxOK(tx)
      PROVE  TxsOK(Append(m, tx))
  BY <1>3, AppendElements DEF TxsOK
<1>4. ASSUME NEW m \in Seq(Tx), TxsOK(m), m # <<>>
      PROVE  TxsOK(Tail(m)) /\ TxOK(Head(m))
  BY <1>4, TailElements DEF TxsOK
<1> QED
  BY <1>1, <1>2, <1>3, <1>4

(* The scanner sends its batch to the queue. *)
LEMMA ScanPushStep ==
    ASSUME PipelineInv, TypeOK', NEW n \in Node, ScanPush(n)
    PROVE  PipelineInv'
<1>1. TypeOK /\ ScanOK(scan[n]) /\ BatchesOK(queue[n])
  BY DEF PipelineInv
<1>2. ChainStep /\ UNCHANGED <<xeventsVars, pending, confirm, mempool>>
  BY DEF ScanPush, ChainStep
<1>3. scan[n] \in Scan /\ scan[n].out \in Batch /\ queue[n] \in Seq(Batch) /\ BatchOK(scan[n].out)
  BY <1>1 DEF TypeOK, Scan, ScanPush, ScanOK
<1> DEFINE q == Append(queue[n], scan[n].out)
<1>4. BatchesOK(q) /\ q \in Seq(Batch)
  BY <1>1, <1>3, ChannelSteps, AppendElements
<1>5. queue'[n] = q /\ scan'[n] = Idle
  BY <1>1 DEF ScanPush, SetScan, TypeOK
<1>6. \A m \in Node : (scan'[m] = scan[m] /\ queue'[m] = queue[m]) \/ m = n
  BY <1>1 DEF ScanPush, SetScan, TypeOK
<1> HIDE DEF q
<1>7. Grows
  BY <1>2, XEventsUntouched
<1>8. BatchesOK(queue[n])'
  BY <1>1, <1>2, <1>4, <1>5, <1>7, CarriedStable
<1>9. ScanOK(scan[n])'
  BY <1>5 DEF ScanOK, Idle
<1> QED
  BY <1>2, <1>6, <1>8, <1>9, XEventsUntouched, Preserve

(* QueueVaultEventsBatch passes a batch on or drops it. *)
LEMMA QueueStepStep ==
    ASSUME PipelineInv, TypeOK', NEW n \in Node, QueueStep(n)
    PROVE  PipelineInv'
<1>1. TypeOK /\ BatchesOK(queue[n]) /\ BatchesOK(pending[n])
  BY DEF PipelineInv
<1>2. ChainStep /\ UNCHANGED <<xeventsVars, scan, confirm, mempool>>
  BY DEF QueueStep, ChainStep
<1>3. queue[n] \in Seq(Batch) /\ queue[n] # <<>> /\ pending[n] \in Seq(Batch)
  BY <1>1, Zenon DEF TypeOK, QueueStep
<1>4. Head(queue[n]) \in Batch /\ Tail(queue[n]) \in Seq(Batch)
  BY <1>3, TailElements
<1>5. BatchOK(Head(queue[n])) /\ BatchesOK(Tail(queue[n]))
  BY <1>1, <1>3, ChannelSteps
<1>6. /\ Append(pending[n], Head(queue[n])) \in Seq(Batch)
      /\ BatchesOK(Append(pending[n], Head(queue[n])))
  BY <1>1, <1>3, <1>4, <1>5, ChannelSteps, AppendElements
<1>7. /\ queue'[n] = Tail(queue[n])
      /\ pending'[n] = pending[n] \/ pending'[n] = Append(pending[n], Head(queue[n]))
      /\ \A m \in Node : (queue'[m] = queue[m] /\ pending'[m] = pending[m]) \/ m = n
  BY <1>1 DEF QueueStep, TypeOK
<1>8. Grows
  BY <1>2, XEventsUntouched
<1>9. BatchesOK(queue[n])'
  BY <1>1, <1>2, <1>4, <1>5, <1>7, <1>8, CarriedStable, Zenon
<1>10. BatchesOK(pending[n])'
  BY <1>1, <1>2, <1>3, <1>6, <1>7, <1>8, CarriedStable, Zenon
<1> QED
  BY <1>2, <1>7, <1>9, <1>10, XEventsUntouched, Preserve

(* commitVaultEvents sends only final events, and reports that all succeeded *)
(* only when everything up to the end of the batch is stored.                *)
LEMMA CommitStepStep ==
    ASSUME PipelineInv, TypeOK', NEW n \in Node, CommitStep(n)
    PROVE  PipelineInv'
<1>1. TypeOK /\ BatchesOK(pending[n]) /\ TxsOK(mempool[n])
  BY DEF PipelineInv
<1>2. ChainStep /\ UNCHANGED <<xeventsVars, scan, queue>>
  BY DEF CommitStep, ChainStep
<1>3. Grows
  BY <1>2, XEventsUntouched
<1>4. pending[n] \in Seq(Batch) /\ pending[n] # <<>> /\ mempool[n] \in Seq(Tx)
  BY <1>1 DEF TypeOK, CommitStep
<1>5. Head(pending[n]) \in Batch /\ Tail(pending[n]) \in Seq(Batch)
  BY <1>4, TailElements
<1>6. BatchOK(Head(pending[n])) /\ BatchesOK(Tail(pending[n]))
  BY <1>1, <1>4, ChannelSteps, Zenon
<1>7. pending'[n] = Tail(pending[n]) /\ \A m \in Node : pending'[m] = pending[m] \/ m = n
  BY <1>1 DEF CommitStep, TypeOK
<1>8. BatchesOK(pending[n])'
  BY <1>1, <1>2, <1>3, <1>5, <1>6, <1>7, CarriedStable, Zenon
<1>9. CASE SkipBatch(n)
  BY <1>2, <1>7, <1>8, <1>9, XEventsUntouched, Preserve, Zenon DEF SkipBatch
<1>10. CASE SubmitBatch(n)
  <2> DEFINE batch == Head(pending[n])
  <2>1. batch.events \subseteq Event /\ batch.end \in Nat
    BY <1>5 DEF Batch
  <2>2. PICK unread \in SUBSET batch.events :
          /\ confirm' = [confirm EXCEPT ![n] =
               [active |-> TRUE, all |-> {e \in batch.events \ unread : Stored(e)} = batch.events,
                end |-> batch.end]]
          /\ \/ Send(n, [kind |-> "record", events |-> {e \in batch.events \ unread : ~Stored(e)}, to |-> 0])
             \/ UNCHANGED mempool
    BY <1>10, Zenon DEF SubmitBatch
  <2> HIDE DEF batch
  <2>3. /\ confirm'[n].all => {e \in batch.events \ unread : Stored(e)} = batch.events
        /\ confirm'[n].end = batch.end
        /\ \A m \in Node : confirm'[m] = confirm[m] \/ m = n
    BY <1>1, <2>2, Zenon DEF TypeOK
  <2>4. (\A e \in batch.events : Stored(e)) => Covered(batch.end)
    BY <1>6, Zenon DEF BatchOK, Covered, Stored, batch
  <2>5. Settled(batch.end) /\ \A e \in batch.events : Final(e)
    BY <1>6, Zenon DEF BatchOK, batch
  <2>6. confirm'[n].all => Settled(batch.end) /\ Covered(batch.end)
    BY <2>3, <2>4, <2>5, Zenon
  <2>7. ConfirmOK(confirm[n])'
    <3>1. ASSUME NEW x \in Int, Settled(x), Covered(x)
          PROVE  Settled(x)' /\ Covered(x)'
      BY <1>1, <1>2, <1>3, <3>1, SettledStable
    <3>2. confirm'[n].all => Settled(confirm[n].end)' /\ Covered(confirm[n].end)'
      BY <2>1, <2>3, <2>6, <3>1 DEF batch
    <3> QED
      BY <3>2 DEF ConfirmOK
  <2> DEFINE tx == [kind |-> "record", events |-> {e \in batch.events \ unread : ~Stored(e)}, to |-> 0]
  <2>8. tx \in Tx
    BY <2>1 DEF Tx, batch
  <2>9. TxOK(tx)
    BY <2>5 DEF TxOK
  <2>10. mempool' = [mempool EXCEPT ![n] = Append(mempool[n], tx)] \/ mempool' = mempool
    BY <2>2 DEF Send
  <2> HIDE DEF tx
  <2>11. Append(mempool[n], tx) \in Seq(Tx) /\ TxsOK(Append(mempool[n], tx))
    BY <1>1, <1>4, <2>8, <2>9, ChannelSteps, AppendElements
  <2>12. mempool'[n] = mempool[n] \/ mempool'[n] = Append(mempool[n], tx)
    BY <1>1, <2>10, Zenon DEF TypeOK
  <2>13. \A m \in Node : mempool'[m] = mempool[m] \/ m = n
    BY <1>1, <2>10, Zenon DEF TypeOK
  <2>14. TxsOK(mempool[n])'
    BY <1>1, <1>2, <1>3, <1>4, <2>11, <2>12, CarriedStable, Zenon
  <2> QED
    BY <1>2, <1>7, <1>8, <2>3, <2>7, <2>13, <2>14, XEventsUntouched, Preserve, Zenon
<1> QED
  BY <1>9, <1>10 DEF CommitStep

(* confirmVaultEvents sends a watermark only up to what is stored. *)
LEMMA ConfirmStepStep ==
    ASSUME PipelineInv, TypeOK', NEW n \in Node, ConfirmStep(n)
    PROVE  PipelineInv'
<1>1. TypeOK /\ ConfirmOK(confirm[n]) /\ TxsOK(mempool[n])
  BY DEF PipelineInv
<1>2. ChainStep /\ UNCHANGED <<xeventsVars, scan, queue, pending>>
  BY DEF ConfirmStep, ChainStep
<1>3. Grows
  BY <1>2, XEventsUntouched
<1>4. confirm[n] \in Confirm /\ mempool[n] \in Seq(Tx)
  BY <1>1 DEF TypeOK
<1>5. confirm'[n] = NoConfirm /\ \A m \in Node : confirm'[m] = confirm[m] \/ m = n
  BY <1>1 DEF ConfirmStep, TypeOK
<1>6. ConfirmOK(confirm[n])'
  BY <1>5 DEF ConfirmOK, NoConfirm
<1> DEFINE tx == [kind |-> "watermark", events |-> {}, to |-> confirm[n].end]
<1>7. CASE confirm[n].all /\ Send(n, tx)
  <2>1. tx \in Tx
    BY <1>4 DEF Confirm, Tx
  <2>2. TxOK(tx)
    BY <1>1, <1>7, Zenon DEF ConfirmStep, ConfirmOK, TxOK
  <2>3. mempool' = [mempool EXCEPT ![n] = Append(mempool[n], tx)]
    BY <1>7 DEF Send
  <2> HIDE DEF tx
  <2>4. Append(mempool[n], tx) \in Seq(Tx) /\ TxsOK(Append(mempool[n], tx))
    BY <1>1, <1>4, <2>1, <2>2, ChannelSteps, AppendElements, Zenon
  <2>5. mempool'[n] = Append(mempool[n], tx) /\ \A m \in Node : mempool'[m] = mempool[m] \/ m = n
    BY <1>1, <2>3 DEF TypeOK
  <2>6. TxsOK(mempool[n])'
    BY <1>1, <1>2, <1>3, <2>4, <2>5, CarriedStable, Zenon
  <2> QED
    BY <1>2, <1>5, <1>6, <2>5, <2>6, XEventsUntouched, Preserve, Zenon
<1>8. CASE UNCHANGED mempool
  BY <1>2, <1>5, <1>6, <1>8, XEventsUntouched, Preserve, Zenon
<1> QED
  BY <1>7, <1>8, Zenon DEF ConfirmStep

(* A node restarts with empty channels. *)
LEMMA RestartStep ==
    ASSUME PipelineInv, TypeOK', NEW n \in Node, Restart(n)
    PROVE  PipelineInv'
<1>1. TypeOK
  BY DEF PipelineInv
<1>2. ChainStep /\ UNCHANGED <<xeventsVars, mempool>>
  BY DEF Restart, ChainStep
<1>3. scan'[n] = Idle /\ queue'[n] = <<>> /\ pending'[n] = <<>> /\ confirm'[n] = NoConfirm
  BY <1>1 DEF Restart, TypeOK
<1>4. \A m \in Node : m = n \/ (/\ scan'[m] = scan[m] /\ queue'[m] = queue[m]
                               /\ pending'[m] = pending[m] /\ confirm'[m] = confirm[m])
  BY <1>1 DEF Restart, TypeOK
<1>5. ScanOK(scan[n])'
  BY <1>3 DEF ScanOK, Idle
<1>6. BatchesOK(queue[n])' /\ BatchesOK(pending[n])'
  BY <1>3 DEF BatchesOK
<1>7. ConfirmOK(confirm[n])'
  BY <1>3 DEF ConfirmOK, NoConfirm
<1> QED
  BY <1>2, <1>4, <1>5, <1>6, <1>7, XEventsUntouched, Preserve, Zenon

(* XEvents stores a batch: nothing stored is lost, and what it adds is       *)
(* final.                                                                    *)
LEMMA RecordStored ==
    ASSUME PipelineInv, NEW tx \in Tx, TxOK(tx), NEW top \in Watermarks,
           RecordVaultEventBatch(tx.events, top), UNCHANGED chainVars
    PROVE  Grows /\ StoredInv'
<1>1. TypeOK /\ StoredInv
  BY Zenon DEF PipelineInv
<1>2. Grows
  BY Zenon DEF RecordVaultEventBatch, Fits, Grows
<1>3. ASSUME NEW tm \in TokenMapping, NEW k \in Nonce
      PROVE  IF k < top[tm]
             THEN recorded'[tm][k] = blockOf[tm][k] /\ blockOf[tm][k] # 0 /\ blockOf[tm][k] + BlockDelay <= head
             ELSE recorded'[tm][k] = 0
  <2>1. /\ k \in Nat /\ tmWatermark[tm] \in Nat /\ top[tm] \in Nat /\ tmWatermark[tm] <= top[tm]
    <3>1. k \in Nat /\ tmWatermark[tm] \in Nat /\ top[tm] \in Nat
      BY <1>1 DEF TypeOK, Watermarks, Nonce
    <3>2. tmWatermark[tm] <= top[tm]
      BY Zenon DEF RecordVaultEventBatch, Fits
    <3> QED
      BY <3>1, <3>2
  <2>2. recorded'[tm][k] = IF tmWatermark[tm] <= k /\ k < top[tm]
                           THEN (CHOOSE e \in tx.events : e.tm = tm /\ e.nonce = k).block
                           ELSE recorded[tm][k]
    BY DEF RecordVaultEventBatch
  <2>3. CASE tmWatermark[tm] <= k /\ k < top[tm]
    <3>1. k \in tmWatermark[tm]..(top[tm] - 1)
      BY <2>1, <2>3
    <3>2. \E e \in tx.events : e.tm = tm /\ e.nonce = k
      BY <3>1, Zenon DEF RecordVaultEventBatch, Fits
    <3>3. PICK e \in tx.events : /\ e.tm = tm /\ e.nonce = k
                                 /\ e = CHOOSE d \in tx.events : d.tm = tm /\ d.nonce = k
      BY <3>2
    <3>4. Final(e)
      BY DEF TxOK
    <3>5. recorded'[tm][k] = e.block
      BY <2>2, <2>3, <3>3
    <3> QED
      BY <2>3, <3>3, <3>4, <3>5 DEF Final
  <2>4. CASE k < tmWatermark[tm]
    BY <1>1, <2>1, <2>2, <2>4 DEF StoredInv
  <2>5. CASE ~(k < top[tm])
    BY <1>1, <2>1, <2>2, <2>5 DEF StoredInv
  <2>6. (tmWatermark[tm] <= k /\ k < top[tm]) \/ k < tmWatermark[tm] \/ ~(k < top[tm])
    BY <2>1
  <2> QED
    BY <2>3, <2>4, <2>5, <2>6, Zenon
<1>4. tmWatermark' = top /\ head' = head /\ blockOf' = blockOf
  BY Zenon DEF RecordVaultEventBatch, chainVars
<1>5. StoredInv'
  BY <1>3, <1>4, Zenon DEF StoredInv
<1> QED
  BY <1>2, <1>5

(* A mined transaction: a stored batch, a new vault watermark, or nothing. *)
LEMMA MineStep ==
    ASSUME PipelineInv, TypeOK', NEW n \in Node, MineTx(n)
    PROVE  PipelineInv'
<1>1. /\ TypeOK /\ ChainInv /\ StoredInv /\ TxsOK(mempool[n])
      /\ Settled(vaultWatermark) /\ Covered(vaultWatermark)
  BY Zenon DEF PipelineInv
<1>2. UNCHANGED chainVars /\ ChainStep /\ UNCHANGED <<scan, queue, pending, confirm>>
  BY DEF MineTx, ChainStep, nodeVars
<1>3. mempool[n] \in Seq(Tx) /\ mempool[n] # <<>> /\ vaultWatermark \in Int
  BY <1>1 DEF TypeOK, MineTx
<1> DEFINE tx == Head(mempool[n])
<1>4. tx \in Tx /\ Tail(mempool[n]) \in Seq(Tx)
  BY <1>3, TailElements
<1>5. TxOK(tx) /\ TxsOK(Tail(mempool[n]))
  BY <1>1, <1>3, ChannelSteps, Zenon
<1>6. mempool'[n] = Tail(mempool[n]) /\ \A m \in Node : mempool'[m] = mempool[m] \/ m = n
  BY <1>1 DEF MineTx, TypeOK
<1>7. \/ \E top \in Watermarks : RecordVaultEventBatch(tx.events, top)
      \/ tx.kind = "watermark" /\ UpdateVaultWatermark(tx.to)
      \/ UNCHANGED xeventsVars
  BY Zenon DEF MineTx
<1> HIDE DEF tx
<1>8. ASSUME Grows PROVE TxsOK(mempool[n])'
  BY <1>1, <1>2, <1>4, <1>5, <1>6, <1>8, CarriedStable, Zenon
<1>9. CASE \E top \in Watermarks : RecordVaultEventBatch(tx.events, top)
  <2>1. Grows /\ StoredInv' /\ vaultWatermark' = vaultWatermark
    BY <1>2, <1>4, <1>5, <1>9, RecordStored, Zenon DEF RecordVaultEventBatch
  <2>2. Settled(vaultWatermark)' /\ Covered(vaultWatermark)'
    BY <1>1, <1>2, <1>3, <2>1, SettledStable, Zenon
  <2> QED
    BY <1>2, <1>6, <1>8, <2>1, <2>2, Preserve, Zenon
<1>10. CASE tx.kind = "watermark" /\ UpdateVaultWatermark(tx.to)
  <2>1. UNCHANGED <<tmWatermark, recorded>> /\ vaultWatermark' = tx.to /\ tx.to \in Int
    BY <1>4, <1>10 DEF UpdateVaultWatermark, Tx
  <2>2. Grows
    BY <1>1, <2>1 DEF Grows, TypeOK
  <2>3. StoredInv'
    BY <1>1, <1>2, <2>1, ChainPreserved
  <2>4. Settled(tx.to) /\ Covered(tx.to)
    BY <1>5, <1>10, Zenon DEF TxOK
  <2>5. Settled(vaultWatermark)' /\ Covered(vaultWatermark)'
    BY <1>1, <1>2, <2>1, <2>2, <2>4, SettledStable
  <2> QED
    BY <1>2, <1>6, <1>8, <2>2, <2>3, <2>5, Preserve, Zenon
<1>11. CASE UNCHANGED xeventsVars
  BY <1>2, <1>6, <1>8, <1>11, XEventsUntouched, Preserve, Zenon
<1> QED
  BY <1>7, <1>9, <1>10, <1>11

-----------------------------------------------------------------------------
(* The theorems.                                                             *)

(* Every variable of the pipeline keeps its type, whatever fails. *)
THEOREM TypeCorrect == Spec => []TypeOK
<1>1. Init => TypeOK
  BY EmptyTypes DEF Init, TypeOK
<1>2. TypeOK /\ [Next]_vars => TypeOK'
  BY TypeStep
<1> QED
  BY <1>1, <1>2, PTL DEF Spec

(* With a readable head, PipelineInv is inductive: it holds of the empty     *)
(* pipeline and every step of the code, of the chains and of an operator     *)
(* keeps it.                                                                 *)
THEOREM PipelineInvariant == HeadReadable => (Spec => []PipelineInv)
<1> SUFFICES ASSUME HeadReadable PROVE Spec => []PipelineInv
  OBVIOUS
<1>1. Init => PipelineInv
  <2> SUFFICES ASSUME Init PROVE PipelineInv
    OBVIOUS
  <2>1. TypeOK
    BY EmptyTypes DEF Init, TypeOK
  <2>2. ChainInv /\ StoredInv
    BY DEF Init, ChainInv, StoredInv, Nonce
  <2>3. Settled(vaultWatermark) /\ Covered(vaultWatermark)
    BY DEF Init, Settled, Covered
  <2>4. ASSUME NEW n \in Node
        PROVE  /\ ScanOK(scan[n]) /\ BatchesOK(queue[n]) /\ BatchesOK(pending[n])
               /\ ConfirmOK(confirm[n]) /\ TxsOK(mempool[n])
    BY SMTT(30) DEF Init, ScanOK, BatchesOK, ConfirmOK, TxsOK, Idle, NoConfirm
  <2> QED
    BY <2>1, <2>2, <2>3, <2>4, Zenon DEF PipelineInv
<1>2. PipelineInv /\ [Next]_vars => PipelineInv'
  <2> SUFFICES ASSUME PipelineInv, [Next]_vars PROVE PipelineInv'
    OBVIOUS
  <2>1. TypeOK'
    BY TypeStep, Zenon DEF PipelineInv
  <2>2. CASE UNCHANGED vars
    <3>1. ChainStep /\ UNCHANGED <<xeventsVars, scan, queue, pending, confirm, mempool>>
      BY <2>2 DEF vars, nodeVars, ChainStep
    <3> QED
      BY <2>1, <3>1, XEventsUntouched, Preserve, Zenon
  <2>3. CASE Next
    BY <2>1, <2>3, EnvironmentStep, RescueStep, ScanBeginStep, ScanRoundStep, ScanPushStep,
       QueueStepStep, CommitStepStep, ConfirmStepStep, MineStep, RestartStep DEF Next
  <2> QED
    BY <2>2, <2>3
<1> QED
  BY <1>1, <1>2, PTL DEF Spec

(* No deposit at or below the vault watermark is ever missing from XEvents,  *)
(* so no deposit is passed over by the scans that start above it.            *)
THEOREM NothingLost == HeadReadable => (Spec => []NoLostEvent)
<1>1. PipelineInv => NoLostEvent
  BY DEF PipelineInv, NoLostEvent
<1> QED
  BY <1>1, PipelineInvariant, PTL

(* Whatever XEvents stores is, and stays, what the source chain holds. *)
THEOREM StoredIsCanonical == HeadReadable => (Spec => []RecordedIsCanonical)
<1>1. PipelineInv => RecordedIsCanonical
  <2> SUFFICES ASSUME PipelineInv, NEW tm \in TokenMapping, NEW k \in Nonce
               PROVE  IF k < tmWatermark[tm] THEN recorded[tm][k] = blockOf[tm][k] /\ blockOf[tm][k] # 0
                      ELSE recorded[tm][k] = 0
    BY Zenon DEF RecordedIsCanonical
  <2>1. StoredInv
    BY DEF PipelineInv
  <2> QED
    BY <2>1 DEF StoredInv
<1> QED
  BY <1>1, PipelineInvariant, PTL
=============================================================================
