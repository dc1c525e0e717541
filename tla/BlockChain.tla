--------------------------- MODULE BlockChain ---------------------------
(* The chain database and its heads: core/blockchain.go, core/headerchain.go and
   the accessors of core/database_util.go.

   Blocks form a tree that is fixed in advance; what varies is which parts of
   them the database holds and what the canonical index and the heads name.  The
   writers are the importer (insertChain, under chainmu), the miner, the two
   steps of a receipt insertion, and the operations that rewind.  A section under
   bc.mu is one action; it is written as a function on a record r that carries
   the database, the heads in memory and the log of the databases after each
   write, because a crash keeps a prefix of the writes.

   Left out: the LRU caches (they are purged where the database shrinks), events
   and logs, uncles, BadHashes, and Insert with forceUpdateHead (a repair tool). *)
EXTENDS Integers, FiniteSets, Sequences, SequencesExt

CONSTANTS
  Block,      \* all blocks
  Genesis,
  None,       \* no block
  Parent,     \* [Block -> Block \cup {None}]
  Difficulty, \* [Block -> Nat]
  TxOf,       \* [Block -> SUBSET Tx], the transactions of a block
  Tx,
  Invalid,    \* blocks that ValidateBody, Process or ValidateState reject
  Early,      \* blocks whose time stamp may still be in the future
  Mined,      \* blocks that this node may seal
  MaxBatch,   \* bound: blocks in one InsertChain
  MaxFaults   \* bound: calls of SetHead, failed cycles of fast sync and crashes

VARIABLES
  db,      \* the database, see DbType
  mem,     \* currentBlock, hc.currentHeader and currentFastBlock
  pend,    \* what each writer is in the middle of
  future,  \* futureBlocks
  early,   \* the blocks whose time has not come
  fast,    \* the downloader is to sync fast
  sync,    \* the cycle of fast sync under way, see NewSync
  up,      \* "up", "down" after a crash, "dead" if the database cannot be loaded
  past,    \* what has happened, see Events
  faults

vars == <<db, mem, pend, future, early, fast, sync, up, past, faults>>

Path[b \in Block] == IF b = Genesis THEN <<b>> ELSE Append(Path[Parent[b]], b)
Ancestry == [b \in Block |-> Path[b]]
NumberOf == [b \in Block |-> Len(Ancestry[b]) - 1]
Number(b) == NumberOf[b]
TdOf == [b \in Block |-> FoldLeft(LAMBDA sum, x : sum + Difficulty[x], 0, Ancestry[b])]
Td(b) == TdOf[b]
Numbers == {Number(b) : b \in Block}

(* The assumptions on the tree: one root. *)
ASSUME TreeAssumption ==
  /\ Genesis \in Block /\ None \notin Block /\ Parent[Genesis] = None
  /\ \A b \in Block \ {Genesis} : Parent[b] \in Block
  /\ Invalid \cup Early \cup Mined \subseteq Block \ {Genesis}

(* header, body, td and state: the blocks whose header (with its number entry),
   body, total difficulty and state trie are stored. *)
DbType ==
  [header : SUBSET Block, body : SUBSET Block, td : SUBSET Block, state : SUBSET Block,
   canon : [Numbers -> Block \cup {None}], lookup : [Tx -> Block \cup {None}],
   headBlock : Block, headHeader : Block, headFast : Block]

MemType == [block : Block, header : Block, fast : Block]

Idle == [phase |-> "idle"]

(* The peer's head, the pivot (the genesis if there are too few blocks for one),
   the headers to roll back, and whether the pivot is committed and the headers
   were rolled back. *)
NewSync(b, p) ==
  [target |-> b, pivot |-> p, fresh |-> <<>>, committed |-> p = Genesis, failed |-> FALSE]
NoSync == NewSync(None, None)

(* A pivot was committed; the chain was rewound, below the pivot; a crash; the
   headers of an unfinished fast sync were left behind; a crash fell into a
   reorganisation or rewind. *)
Events == {"commit", "rewind", "stateless", "crash", "abandoned", "torn"}

Writers == {"import", "miner", "receipts"}

Rest(s) == SubSeq(s, 2, Len(s))

-----------------------------------------------------------------------
(* Reads. *)

GetBlock(d, b) == IF b \in d.header \cap d.body THEN b ELSE None
GetHeader(d, b) == IF b \in d.header THEN b ELSE None
HasBlockAndState(d, b) == b \in d.header \cap d.body \cap d.state

(* A run of a section under bc.mu. *)
Section == [db |-> db, mem |-> mem, log |-> <<db>>]
Put(r, d) == [r EXCEPT !.db = d, !.log = Append(@, d)]

(* WriteTxLookupEntries and DeleteTxLookupEntry. *)
WriteTxLookupEntries(d, b) ==
  [d EXCEPT !.lookup = [t \in Tx |-> IF t \in TxOf[b] THEN b ELSE @[t]]]
DeleteTxLookupEntry(r, t) == Put(r, [r.db EXCEPT !.lookup[t] = None])

SetCurrentHeader(r, b) ==
  [Put(r, [r.db EXCEPT !.headHeader = b]) EXCEPT !.mem.header = b]

-----------------------------------------------------------------------
(* insert makes b the head block.  The other heads follow only if b was not yet
   canonical at its number. *)
insert(r, b) ==
  LET updateHeads == r.db.canon[Number(b)] # b
      indexed == Put(r, [r.db EXCEPT !.canon[Number(b)] = b])
      headed  == [Put(indexed, [indexed.db EXCEPT !.headBlock = b]) EXCEPT !.mem.block = b]
      moved   == SetCurrentHeader(headed, b)
  IN  IF updateHeads
      THEN [Put(moved, [moved.db EXCEPT !.headFast = b]) EXCEPT !.mem.fast = b]
      ELSE headed

(* The two branches above the common block, newest first; a block that is not
   stored ends the walk. *)
RECURSIVE Branches(_, _, _, _, _)
Branches(d, old, new, oldChain, newChain) ==
  LET up1(b) == GetBlock(d, Parent[b])
  IN  IF old = None \/ new = None THEN [ok |-> FALSE]
      ELSE IF old = new THEN [ok |-> TRUE, old |-> oldChain, new |-> newChain]
      ELSE IF Number(old) > Number(new)
           THEN Branches(d, up1(old), new, Append(oldChain, old), newChain)
      ELSE IF Number(new) > Number(old)
           THEN Branches(d, old, up1(new), oldChain, Append(newChain, new))
      ELSE Branches(d, up1(old), up1(new), Append(oldChain, old), Append(newChain, new))

Txs(blocks) == UNION {TxOf[b] : b \in ToSet(blocks)}

Adopt(r, b) == LET t == insert(r, b) IN Put(t, WriteTxLookupEntries(t.db, b))

(* Faulty variants of reorg: only the newest block; the lookup entries are left. *)
reorgNewest(r, branches) ==
  FoldLeft(DeleteTxLookupEntry, Adopt(r, branches.new[1]),
           SetToSeq(Txs(branches.old) \ Txs(branches.new)))
reorgKeepsLookups(r, branches) == FoldLeft(Adopt, r, branches.new)

(* The writes of reorg: the new branch from its newest block down, then the
   lookup entries of the transactions it does not hold. *)
reorg(r, branches) ==
  FoldLeft(DeleteTxLookupEntry, FoldLeft(Adopt, r, branches.new),
           SetToSeq(Txs(branches.old) \ Txs(branches.new)))

(* WriteBlockAndState after its lock; coin is its choice between equals. *)
BetterIfLonger(r, b, coin) ==  \* faulty variant: the longest chain wins
  Number(b) > Number(r.mem.block) \/ (Number(b) = Number(r.mem.block) /\ coin)

Better(r, b, coin) ==
  Td(b) > Td(r.mem.block) \/ (Td(b) = Td(r.mem.block) /\ coin)

StoreBlock(d, b) ==
  [d EXCEPT !.header = @ \cup {b}, !.body = @ \cup {b}, !.state = @ \cup {b}]

SetNewHeadFirst(r, b) ==  \* faulty variant: the batch is written after the head
  LET h == insert(r, b) IN Put(h, WriteTxLookupEntries(StoreBlock(h.db, b), b))

(* The batch, with the lookup entries of the block, and the new head. *)
SetNewHead(r, b) == insert(Put(r, WriteTxLookupEntries(StoreBlock(r.db, b), b)), b)

WriteBlockAndState(r, b, coin) ==
  LET valued   == Put(r, [r.db EXCEPT !.td = @ \cup {b}])
      branches == Branches(r.db, r.mem.block, b, <<>>, <<>>)
      fits     == Parent[b] = r.mem.block
  IN  IF b \in r.db.body THEN r
      ELSE IF ~Better(r, b, coin) THEN Put(valued, StoreBlock(valued.db, b))
      ELSE IF ~fits /\ ~branches.ok THEN valued
      ELSE SetNewHead(IF fits THEN valued ELSE reorg(valued, branches), b)

Reorganises(r, b, coin) == b \notin r.db.body /\ Better(r, b, coin) /\ Parent[b] # r.mem.block
-----------------------------------------------------------------------
(* hc.WriteHeader. *)
RECURSIVE DropAbove(_, _)
DropAbove(r, n) ==
  IF n \notin Numbers \/ r.db.canon[n] = None THEN r
  ELSE DropAbove(Put(r, [r.db EXCEPT !.canon[n] = None]), n + 1)

RECURSIVE Reindex(_, _)
Reindex(r, b) ==
  IF r.db.canon[Number(b)] = b THEN r
  ELSE Reindex(Put(r, [r.db EXCEPT !.canon[Number(b)] = b]), Parent[b])

WriteHeader(r, b, coin) ==
  LET valued  == Put(r, [r.db EXCEPT !.td = @ \cup {b}])
      stored  == Put(valued, [valued.db EXCEPT !.header = @ \cup {b}])
      parents == Reindex(DropAbove(stored, Number(b) + 1), Parent[b])
      indexed == Put(parents, [parents.db EXCEPT !.canon[Number(b)] = b])
  IN  IF Td(b) > Td(r.mem.header) \/ (Td(b) = Td(r.mem.header) /\ coin)
      THEN SetCurrentHeader(indexed, b) ELSE stored

-----------------------------------------------------------------------
(* hc.SetHead: headers, bodies and difficulties go, block by block, and then the
   index from the old height down. *)
RECURSIVE DropHeaders(_, _, _)
DropHeaders(r, b, head) ==
  IF b = None \/ Number(b) <= head THEN [r EXCEPT !.mem.header = IF b = None THEN Genesis ELSE b]
  ELSE LET bodyless == Put(r, [r.db EXCEPT !.body = @ \ {b}])
           headless == Put(bodyless, [bodyless.db EXCEPT !.header = @ \ {b}])
           gone     == Put(headless, [headless.db EXCEPT !.td = @ \ {b}])
       IN  DropHeaders(gone, GetHeader(gone.db, Parent[b]), head)

DropIndex(r, height, head) ==
  FoldLeft(LAMBDA s, n : Put(s, [s.db EXCEPT !.canon[n] = None]),
           r, [i \in 1..height - head |-> height + 1 - i])

Loadable(d) == HasBlockAndState(d, d.headBlock)

loadLastState(r) ==
  LET d == r.db
      header == IF d.headHeader \in d.header THEN d.headHeader ELSE d.headBlock
      fastb  == IF GetBlock(d, d.headFast) # None THEN d.headFast ELSE d.headBlock
  IN  SetCurrentHeader([r EXCEPT !.mem.block = d.headBlock, !.mem.fast = fastb], header)

OrGenesis(b) == IF b = None THEN Genesis ELSE b

NotLowered(d, top, b) == b  \* faulty variant: the head stays

(* A head above the new head header moves to its block, if that is stored. *)
Lowered(d, top, b) == IF Number(top) < Number(b) THEN GetBlock(d, top) ELSE b

SetHead(r, head) ==
  LET dropped == DropHeaders(r, r.mem.header, head)
      cut     == DropIndex(dropped, Number(r.mem.header), head)
      rewound == SetCurrentHeader(cut, cut.mem.header)
      d       == rewound.db
      top     == rewound.mem.header
      blockb  == LET b == Lowered(d, top, r.mem.block)
                 IN  IF b # None /\ b \notin d.state THEN Genesis ELSE OrGenesis(b)
      headed  == Put(rewound, [d EXCEPT !.headBlock = blockb])
  IN  loadLastState(Put(headed, [headed.db EXCEPT !.headFast = OrGenesis(Lowered(d, top, r.mem.fast))]))

(* Rollback of one header: each head that is on it steps back. *)
RollbackOne(r, b) ==
  LET p  == Parent[b]
      r1 == IF r.mem.header = b THEN SetCurrentHeader(r, p) ELSE r
      r2 == IF r1.mem.fast = b
            THEN [Put(r1, [r1.db EXCEPT !.headFast = p]) EXCEPT !.mem.fast = p] ELSE r1
  IN  IF r2.mem.block = b
      THEN [Put(r2, [r2.db EXCEPT !.headBlock = p]) EXCEPT !.mem.block = p] ELSE r2

-----------------------------------------------------------------------
(* A section runs to its end, or the node dies in the middle of it. *)
Commit(r) == db' = r.db /\ mem' = r.mem /\ UNCHANGED up

Fault == faults < MaxFaults /\ faults' = faults + 1

Die == up' = "down" /\ mem' = mem

Torn(r) ==
  /\ Fault /\ Die
  /\ \E i \in 1..Len(r.log) - 1 : db' = r.log[i]

Init ==
  /\ db = [header |-> {Genesis}, body |-> {Genesis}, td |-> {Genesis}, state |-> {Genesis},
           canon |-> [n \in Numbers |-> IF n = 0 THEN Genesis ELSE None],
           lookup |-> [t \in Tx |-> None],
           headBlock |-> Genesis, headHeader |-> Genesis, headFast |-> Genesis]
  /\ mem = [block |-> Genesis, header |-> Genesis, fast |-> Genesis]
  /\ pend = [w \in Writers |-> Idle]
  /\ future = {} /\ early = Early /\ fast \in BOOLEAN /\ sync = NoSync /\ up = "up" /\ past = {}
  /\ faults = 0

(* A crash between sections. *)
Lost(how) ==
  /\ pend' = [w \in Writers |-> Idle] /\ future' = {} /\ sync' = NoSync
  /\ past' = past \cup {"crash"} \cup how
             \cup (IF sync # NoSync THEN {"abandoned"} ELSE {})
  /\ UNCHANGED <<early, fast>>

Crash == Fault /\ Die /\ Lost({}) /\ UNCHANGED db

(* The blocks of the cycle under way. *)
Syncing(b) == sync # NoSync /\ b # Genesis /\ b \in ToSet(Ancestry[sync.target])

(* InsertChain with a batch of linked blocks; in fast sync only those of the cycle,
   after its pivot (propagated blocks are discarded).  procFutureBlocks calls it
   for one queued block. *)
Linked(batch) == \A i \in 2..Len(batch) : Parent[batch[i]] = batch[i - 1]

Batches == {s \in UNION {[1..n -> Block \ {Genesis}] : n \in 1..MaxBatch} : Linked(s)}

Offered(batch) ==
  fast => /\ sync.committed
          /\ \A b \in ToSet(batch) :
               Syncing(b) /\ b \in db.header /\ Number(b) > Number(sync.pivot)

InsertChain(batch) ==
  /\ pend["import"] = Idle
  /\ pend' = [pend EXCEPT !["import"] = [phase |-> "check", rest |-> batch, prev |-> None]]
  /\ UNCHANGED <<db, mem, future, early, fast, sync, up, past, faults>>

Importing == pend["import"]
Next1 == Importing.rest[1]

Importer(p) ==
  /\ pend' = [pend EXCEPT !["import"] = p]
  /\ UNCHANGED <<db, mem, early, fast, sync, up, past, faults>>

AdvanceOnce ==  \* faulty variant: the loop runs once too often
  [phase |-> "check", rest |-> Rest(Importing.rest), prev |-> Next1]

(* The loop goes on to the next block, or ends. *)
Advance ==
  IF Len(Importing.rest) = 1 THEN Idle
  ELSE [phase |-> "check", rest |-> Rest(Importing.rest), prev |-> Next1]

HeaderKnown(b) == Parent[b] \in db.header \/ Importing.prev = Parent[b]

(* VerifyHeaders and ValidateBody. *)
Verdict(b) ==
  IF ~HeaderKnown(b) THEN "unknown ancestor"
  ELSE IF b \notin db.header /\ b \in early THEN "future"
  ELSE IF HasBlockAndState(db, b) THEN "known"
  ELSE IF ~HasBlockAndState(db, Parent[b]) THEN "unknown ancestor"
  ELSE "valid"

InsertCheck ==
  /\ Importing.phase = "check"
  /\ LET b == Next1
         queued == \/ Verdict(b) = "future"
                   \/ Verdict(b) = "unknown ancestor" /\ Parent[b] \in future
     IN  \/ Verdict(b) = "known" /\ Importer(Advance) /\ UNCHANGED future
         \/ queued /\ Importer(Advance) /\ future' = future \cup {b}
         \/ /\ Verdict(b) = "unknown ancestor" /\ ~queued
            /\ Importer(Idle) /\ UNCHANGED future
         \/ /\ Verdict(b) = "valid"
            /\ Importer([Importing EXCEPT !.phase = "process"]) /\ UNCHANGED future

(* The parent of the first block is read again; nil is dereferenced. *)
ParentGone == Importing.prev = None /\ GetBlock(db, Parent[Next1]) = None

InsertProcess ==
  /\ Importing.phase = "process" /\ ~ParentGone
  /\ Importer(IF Next1 \in Invalid THEN Idle ELSE [Importing EXCEPT !.phase = "td"])
  /\ UNCHANGED future

InsertPanics ==
  /\ Importing.phase = "process" /\ ParentGone
  /\ Die /\ Lost({}) /\ UNCHANGED <<db, faults>>

(* The parent's total difficulty is read before bc.mu is taken. *)
ReadTd ==
  /\ Importing.phase = "td"
  /\ Importer(IF Parent[Next1] \in db.td THEN [Importing EXCEPT !.phase = "write"] ELSE Idle)
  /\ UNCHANGED future

Fails(r, b, coin) ==
  Reorganises(r, b, coin) /\ ~Branches(r.db, r.mem.block, b, <<>>, <<>>).ok

InsertWrite(coin) ==
  /\ Importing.phase = "write"
  /\ LET b == Next1
     IN  /\ Commit(WriteBlockAndState(Section, b, coin))
         /\ pend' = [pend EXCEPT !["import"] = IF Fails(Section, b, coin) THEN Idle ELSE Advance]
         /\ future' = IF Fails(Section, b, coin) \/ b \in db.body THEN future ELSE future \ {b}
  /\ UNCHANGED <<early, fast, sync, past, faults>>

(* The miner seals a block on a parent it has worked on, and writes it. *)
Seal(b) ==
  /\ ~fast /\ pend["miner"] = Idle /\ b \in Mined \ (Invalid \cup early)
  /\ HasBlockAndState(db, Parent[b]) /\ Parent[b] = mem.block
  /\ pend' = [pend EXCEPT !["miner"] = [phase |-> "sealed", block |-> b]]
  /\ UNCHANGED <<db, mem, future, early, fast, sync, up, past, faults>>

MinerReadTd ==
  /\ pend["miner"].phase = "sealed"
  /\ pend' = [pend EXCEPT !["miner"] =
                IF Parent[@.block] \in db.td THEN [@ EXCEPT !.phase = "write"] ELSE Idle]
  /\ UNCHANGED <<db, mem, future, early, fast, sync, up, past, faults>>

MinerWrite(coin) ==
  /\ pend["miner"].phase = "write"
  /\ LET b == pend["miner"].block
     IN  /\ Commit(WriteBlockAndState(Section, b, coin))
         /\ future' = IF Fails(Section, b, coin) \/ b \in db.body THEN future ELSE future \ {b}
  /\ pend' = [pend EXCEPT !["miner"] = Idle]
  /\ UNCHANGED <<early, fast, sync, past, faults>>

-----------------------------------------------------------------------
(* Fast sync, in the order the downloader works in: headers of one peer; bodies
   and receipts from the lowest block up to the pivot; the state of the pivot, its
   commit, and the blocks after it through InsertChain. *)

SyncStart(b, p) ==
  /\ fast /\ sync = NoSync /\ Td(b) > Td(mem.block)
  /\ p \in ToSet(Ancestry[b]) \ {b}
  /\ sync' = NewSync(b, p)
  /\ UNCHANGED <<db, mem, pend, future, early, fast, up, past, faults>>

CanWriteHeader(b) ==
  /\ Syncing(b) /\ ~sync.failed /\ pend["import"] = Idle
  /\ Parent[b] \in db.header \cap db.td /\ b \notin db.header \cup early

InsertHeaderChain(b, coin) ==
  /\ CanWriteHeader(b)
  /\ Commit(WriteHeader(Section, b, coin))
  /\ sync' = [sync EXCEPT !.fresh = Append(@, b)]
  /\ UNCHANGED <<pend, future, early, fast, past, faults>>

InsertReceipts(b) ==
  /\ Syncing(b) /\ Number(b) <= Number(sync.pivot) /\ ~sync.committed
  /\ pend["receipts"] = Idle
  /\ b \in db.header /\ Parent[b] \in db.body
  /\ db' = IF b \in db.body THEN db
           ELSE WriteTxLookupEntries([db EXCEPT !.body = @ \cup {b}], b)
  /\ pend' = [pend EXCEPT !["receipts"] = [phase |-> "head", block |-> b]]
  /\ UNCHANGED <<mem, future, early, fast, sync, up, past, faults>>

InsertReceiptsHead ==
  /\ pend["receipts"] # Idle
  /\ LET b == pend["receipts"].block
     IN  IF b \in db.td /\ Td(mem.fast) < Td(b)
         THEN mem' = [mem EXCEPT !.fast = b] /\ db' = [db EXCEPT !.headFast = b]
         ELSE UNCHANGED <<mem, db>>
  /\ pend' = [pend EXCEPT !["receipts"] = Idle]
  /\ UNCHANGED <<future, early, fast, sync, up, past, faults>>

(* The state is that of the peer's head until the pivot is reached. *)
StateSync(b) ==
  /\ sync # NoSync /\ b \in {sync.target, sync.pivot} /\ b \in db.header \ db.state
  /\ db' = [db EXCEPT !.state = @ \cup {b}]
  /\ UNCHANGED <<mem, pend, future, early, fast, sync, up, past, faults>>

FastSyncCommitHead ==
  /\ sync # NoSync /\ ~sync.committed /\ pend["receipts"] = Idle
  /\ HasBlockAndState(db, sync.pivot)
  /\ mem' = [mem EXCEPT !.block = sync.pivot] /\ past' = past \cup {"commit"}
  /\ sync' = [sync EXCEPT !.committed = TRUE]
  /\ UNCHANGED <<db, pend, future, early, fast, up, faults>>

(* The cycle is over; so is fast sync once there is a block above the genesis. *)
EndSync ==
  /\ sync # NoSync /\ pend["receipts"] = Idle /\ pend["import"] = Idle
  /\ sync' = NoSync /\ fast' = (mem.block = Genesis)
  /\ UNCHANGED <<db, mem, pend, future, early, up>>

SyncDone ==
  /\ sync.target \in db.body \cup future /\ ~sync.failed
  /\ EndSync /\ UNCHANGED <<past, faults>>

(* Rollback of the new headers, the newest first, when a header does not come or
   is not valid; the content of the cycle is still being processed.  The headers
   stay in the database, and the next cycle does not index them again. *)
Rollback ==
  /\ sync # NoSync /\ ~sync.failed /\ Fault
  /\ LET last == Reverse(sync.fresh)
     IN  /\ Commit(FoldLeft(RollbackOne, Section, last))
         /\ past' = past \cup {"rewind"}
                     \cup (IF mem.block \in ToSet(last) THEN {"stateless"} ELSE {})
                     \cup (IF "rewind" \in past THEN {"abandoned"} ELSE {})
  /\ sync' = [sync EXCEPT !.fresh = <<>>, !.failed = TRUE]
  /\ UNCHANGED <<pend, future, early, fast>>

(* A cycle that fails when all its headers are processed leaves them in place. *)
SyncFails ==
  /\ \/ sync.failed /\ UNCHANGED <<past, faults>>
     \/ /\ ~sync.failed /\ sync.target \in db.header
        /\ past' = past \cup {"abandoned"} /\ Fault
  /\ EndSync

-----------------------------------------------------------------------
(* debug.setHead.  Like Rollback it takes bc.mu but not chainmu: a writer may be
   in the middle. *)

DebugSetHead(head) ==
  /\ Fault
  /\ past' = past \cup {"rewind"} \cup (IF sync # NoSync THEN {"abandoned"} ELSE {})
  /\ Commit(SetHead(Section, head))
  /\ future' = {} /\ UNCHANGED <<pend, early, fast, sync>>

Tick(b) ==
  /\ b \in early /\ early' = early \ {b}
  /\ UNCHANGED <<db, mem, pend, future, fast, sync, up, past, faults>>

-----------------------------------------------------------------------
(* A crash inside a section. *)
CrashInWrite(b, coin) ==
  /\ Torn(WriteBlockAndState(Section, b, coin))
  /\ Lost(IF Reorganises(Section, b, coin) THEN {"torn"} ELSE {})

CrashInHeader(b, coin) ==
  /\ CanWriteHeader(b)
  /\ Torn(WriteHeader(Section, b, coin)) /\ Lost({})

CrashInSetHead(head) ==
  /\ Torn(SetHead(Section, head)) /\ Lost({"torn", "rewind"})

Restart ==
  /\ up = "down"
  /\ IF Loadable(db)
     THEN LET r == loadLastState(Section)
          IN  db' = r.db /\ mem' = r.mem /\ up' = "up" /\ fast' = (fast /\ r.mem.block = Genesis)
     ELSE up' = "dead" /\ UNCHANGED <<db, mem, fast>>
  /\ UNCHANGED <<pend, future, early, sync, past, faults>>

-----------------------------------------------------------------------
Import ==
  \/ \E batch \in Batches : Offered(batch) /\ InsertChain(batch)
  \/ \E b \in future : InsertChain(<<b>>)
  \/ InsertCheck \/ InsertProcess \/ InsertPanics \/ ReadTd
  \/ \E coin \in BOOLEAN : InsertWrite(coin)

Mine ==
  \/ \E b \in Mined : Seal(b)
  \/ MinerReadTd
  \/ \E coin \in BOOLEAN : MinerWrite(coin)

FastSync ==
  \/ \E b \in Block \ {Genesis}, coin \in BOOLEAN : InsertHeaderChain(b, coin)
  \/ \E b \in Block \ {Genesis} : InsertReceipts(b)
  \/ InsertReceiptsHead
  \/ \E b, p \in Block : SyncStart(b, p)
  \/ \E b \in Block : StateSync(b)
  \/ FastSyncCommitHead \/ SyncDone \/ Rollback \/ SyncFails

Dies ==
  \/ Crash
  \/ \E coin \in BOOLEAN :
       \/ Importing.phase = "write" /\ CrashInWrite(Next1, coin)
       \/ pend["miner"].phase = "write" /\ CrashInWrite(pend["miner"].block, coin)
       \/ \E b \in Block \ {Genesis} : CrashInHeader(b, coin)
  \/ \E n \in Numbers : CrashInSetHead(n)

Next ==
  \/ up = "up" /\ \/ Import \/ Mine \/ FastSync \/ Dies
                   \/ \E n \in Numbers : DebugSetHead(n)
                   \/ \E b \in Block : Tick(b)
  \/ Restart

Spec == Init /\ [][Next]_vars
-----------------------------------------------------------------------
(* The database and the heads in memory hold blocks of the tree, and an import that
   is not idle has a block to work on (insertChain). *)
TypeOK ==
  /\ db \in DbType /\ mem \in MemType
  /\ future \subseteq Block /\ early \subseteq Early
  /\ up \in {"up", "down", "dead"} /\ fast \in BOOLEAN
  /\ past \subseteq Events
  /\ faults \in 0..MaxFaults
  /\ \A w \in {"miner", "receipts"} : pend[w] # Idle => pend[w].block \in Block
  /\ Importing # Idle => /\ Importing.rest # <<>> /\ ToSet(Importing.rest) \subseteq Block
                         /\ Importing.phase \in {"check", "process", "td", "write"}

Sound == up = "up" /\ past \cap {"torn", "abandoned"} = {}

(* The canonical index leads from the head block to the genesis, parent by
   parent, whatever was imported, mined, reorganised, fast-synced and rewound in
   whatever order, unless a crash fell into a reorganisation or a rewind
   (WriteBlockAndState, reorg, insert, WriteHeader, SetHead). *)
CanonicalLinked ==
  Sound => \A n \in 0..Number(mem.block) : db.canon[n] = Ancestry[mem.block][n + 1]

(* The heads in memory can be used: the head block has its header, body, total
   difficulty and state, and the other two have what GetTd and GetBlock need; a
   missing total difficulty would be a nil dereference in WriteBlockAndState.
   Rollback may take the head block below the pivot, where there is no state; a
   SetHead between the two steps of InsertReceiptChain, with the header inserted
   again, may take the body of the fast head. *)
HeadsBacked ==
  Sound =>
    /\ mem.block \in db.header \cap db.body \cap db.td
    /\ "stateless" \notin past => mem.block \in db.state
    /\ mem.header \in db.header \cap db.td
    /\ mem.fast \in db.header \cap db.td
    /\ "rewind" \notin past => mem.fast \in db.body

(* Wherever the node crashes outside a reorganisation and a rewind, it finds a
   head block with its state when it starts again (loadLastState): the block is
   in the database before the head names it. *)
RestartFindsHead ==
  past \cap {"torn", "stateless"} = {} => Loadable(db)

(* A transaction of the canonical chain up to the head is found in its canonical
   block, and, unless the chain was rewound or a crash intervened, none is found
   elsewhere: reorg and the batch of WriteBlockAndState keep the lookup entries
   in step. *)
LookupsCanonical ==
  Sound =>
    /\ \A b \in ToSet(Ancestry[mem.block]), t \in Tx : t \in TxOf[b] => db.lookup[t] = b
    /\ ~fast /\ past = {} =>
         \A t \in Tx : db.lookup[t] # None => db.lookup[t] \in ToSet(Ancestry[mem.block])

(* Full sync without rewinds and crashes: no complete block is heavier than the
   head, whatever the order in which importer and miner write. *)
HeadIsHeaviest ==
  past = {} /\ ~fast => \A b \in db.header \cap db.body : Td(b) <= Td(mem.block)

(* insert "will also reset the head header and the head fast sync block to this
   very same block if they are older or if they are on a different side chain":
   the head header is not behind the head block. *)
HeaderNotBehind ==
  past = {} => Number(mem.header) >= Number(mem.block)

(* "GetBlockByNumber always represents the canonical chain": nothing above the
   head header is indexed. *)
NothingAboveHead ==
  past = {} => \A n \in Numbers : n > Number(mem.block) /\ n > Number(mem.header) => db.canon[n] = None

(* The order of the writes of reorg "does not matter": a crash inside it leaves
   a head that can be loaded. *)
TornReorgLoads == "rewind" \notin past => Loadable(db)
=======================================================================
