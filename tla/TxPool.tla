---------------------------- MODULE TxPool ----------------------------
(* The transaction pool: core/tx_pool.go with the nonce-sorted lists and the
   price heap of core/tx_list.go and the local journal of core/tx_journal.go.

   Every operation runs under pool.mu, so an operation is one action, written
   as a function from the pool it finds to the pool it leaves.  What the code
   leaves to the runtime, the order in which a map is ranged over and in which
   equally priced transactions leave the heap, is an order o an action picks.

   A transaction is its sender, nonce and gas price; its cost is its price (one
   unit of gas, no value), so that one bound stands for the funds and the gas
   limit that txList.Filter compares with.  The caches costcap, gascap and
   txSortedMap.cache only save work and are left out. *)
EXTENDS Integers, FiniteSets, FiniteSetsExt, Sequences, SequencesExt

CONSTANTS
  Account,        \* senders
  MaxNonce,       \* bound: nonces are 0..MaxNonce
  Price,          \* gas prices
  Tx,             \* the transactions: sender, nonce and price
  Funds,          \* balances an account may have at a new head
  PriceBump,      \* TxPoolConfig.PriceBump, in percent
  AccountSlots, GlobalSlots, AccountQueue, GlobalQueue,  \* TxPoolConfig limits
  MaxReorg,       \* 64 in reset: a deeper reorg is not reinjected
  LocalSender,    \* accounts whose transactions AddLocal is called with
  MaxBatch,       \* bound: transactions in one AddRemotes
  MaxRemoved,     \* bound: blocks a new head removes
  MaxAdded,       \* bound: blocks a new head adds
  MaxOps          \* bound: operations in a behaviour

(* With AccountSlots = 0 the shaving of promoteExecutables would leave empty
   pending lists behind, which reset then indexes. *)
ASSUME ConfigAssumption ==
  /\ MaxNonce \in Nat /\ Price \subseteq Nat /\ Funds \subseteq Nat
  /\ {PriceBump, AccountSlots, GlobalSlots} \subseteq Nat \ {0}
  /\ {AccountQueue, GlobalQueue, MaxReorg, MaxBatch, MaxRemoved, MaxAdded, MaxOps} \subseteq Nat
  /\ Tx \subseteq [from : Account, nonce : 0..MaxNonce, price : Price]
  /\ LocalSender \subseteq Account

VARIABLES
  pool,   \* the TxPool, a record: see PoolType
  chain,  \* the canonical chain, a sequence of blocks of one transaction each
  ops     \* the operations so far

vars == <<pool, chain, ops>>

(* pending, queue, all, locals and gasPrice are the fields of the same names.
   items counts the copies of a transaction in priced.items, stales is
   priced.stales.  nonce is what pendingState.GetNonce returns, state the nonces
   and balances of currentState.  beats lists the accounts that have a heartbeat,
   the oldest first.  journal is the file, writer whether it is open. *)
PoolType ==
  [pending : [Account -> SUBSET Tx], queue : [Account -> SUBSET Tx],
   all : SUBSET Tx, items : [Tx -> Nat], stales : Int,
   nonce : [Account -> 0..MaxNonce + 1], beats : Seq(Account),
   state : [nonce : [Account -> 0..MaxNonce + 1], funds : [Account -> Funds]],
   locals : SUBSET Account, gasPrice : Price, journal : SUBSET Tx, writer : BOOLEAN]

(* An order the runtime may use: accounts by rank, and equally priced
   transactions by account and then up or down the nonces. *)
Orders ==
  [rank : {f \in [Account -> 1..Cardinality(Account)] : IsInjective(f)}, up : BOOLEAN]

-----------------------------------------------------------------------
(* txList: a set of transactions of one account with distinct nonces. *)

At(list, n) == {t \in list : t.nonce = n}

(* txList.Add: a transaction replaces one of the same nonce only for a price
   above the old one raised by PriceBump percent. *)
Fits(list, t) ==
  \A old \in At(list, t.nonce) : (old.price * (100 + PriceBump)) \div 100 < t.price

Put(list, t) == (list \ At(list, t.nonce)) \cup {t}

(* txList.Forward and Filter: what they remove. *)
Below(list, n) == {t \in list : t.nonce < n}
Above(list, n) == {t \in list : t.nonce > n}
Unpayable(list, funds) == {t \in list : t.price > funds}

(* txList.Cap: the transactions beyond the size lowest nonces. *)
Excess(list, size) == {t \in list : Cardinality(Below(list, t.nonce)) >= size}

(* txList.Ready: the run of consecutive nonces from the lowest one, if that is
   not above start. *)
Ready(list, start) ==
  IF Below(list, start + 1) = {} THEN {}
  ELSE LET low == Min({t.nonce : t \in list})
       IN  {t \in list : \A n \in low..t.nonce : At(list, n) # {}}

(* txList.Flatten: by increasing nonce. *)
Flatten(list) ==
  [i \in 1..Cardinality(list) |-> CHOOSE t \in list : Cardinality(Below(list, t.nonce)) = i - 1]

Size(lists) == MapThenSumSet(LAMBDA a : Cardinality(lists[a]), Account)

-----------------------------------------------------------------------
(* txPricedList: a heap that keeps what was removed from the pool until a
   quarter of it is stale. *)

Heap(p) == {t \in Tx : p.items[t] > 0}

HeapSize(p) == MapThenSumSet(LAMBDA t : p.items[t], Heap(p))

Removed(p) ==
  IF p.stales + 1 <= HeapSize(p) \div 4
  THEN [p EXCEPT !.stales = @ + 1]
  ELSE [p EXCEPT !.stales = 0, !.items = [t \in Tx |-> IF t \in p.all THEN 1 ELSE 0]]

Cheaper(t, u, o) ==
  \/ t.price < u.price
  \/ /\ t.price = u.price
     /\ \/ o.rank[t.from] < o.rank[u.from]
        \/ t.from = u.from /\ (IF o.up THEN t.nonce < u.nonce ELSE t.nonce > u.nonce)

Cheapest(S, o) == CHOOSE t \in S : \A u \in S \ {t} : Cheaper(t, u, o)

(* The stale heads Underpriced pops before it looks at the cheapest one. *)
RECURSIVE PopStale(_, _)
PopStale(p, o) ==
  LET t == Cheapest(Heap(p), o)
  IN  IF Heap(p) = {} \/ t \in p.all THEN p
      ELSE PopStale([p EXCEPT !.stales = @ - 1, !.items[t] = @ - 1], o)

(* The loop of Cap and Discard: pop up to count transactions cheaper than
   limit that are not of local accounts; the local ones are pushed back. *)
RECURSIVE Drain(_, _, _, _, _)
Drain(p, drop, count, limit, o) ==
  LET heap == {t \in Heap(p) : ~(t \in p.all /\ t.from \in p.locals /\ t.price < limit)}
      t    == Cheapest(heap, o)
      pop  == [p EXCEPT !.items[t] = @ - 1]
  IN  IF heap = {} \/ count = 0 \/ (t \in p.all /\ t.price >= limit)
      THEN [pool |-> p, drop |-> drop]
      ELSE IF t \notin p.all
           THEN Drain([pop EXCEPT !.stales = @ - 1], drop, count, limit, o)
           ELSE Drain(pop, Append(drop, t), count - 1, limit, o)

Discard(p, count, o) == Drain(p, <<>>, count, Max(Price) + 1, o)

Cap(p, price, o) == Drain(p, <<>>, HeapSize(p), price, o)

-----------------------------------------------------------------------
(* The pool's helpers. *)

(* delete(pool.all, hash); pool.priced.Removed() *)
Drop(p, t) == Removed([p EXCEPT !.all = @ \ {t}])
DropAll(p, list) == IF list = {} THEN p ELSE FoldLeft(Drop, p, Flatten(list))

(* The reception of t by a list that has let go of the one it replaces. *)
(* Faulty variant: the price heap is not told. *)
KnownUnpriced(p, t) == [p EXCEPT !.all = @ \cup {t}]

Known(p, t) == [p EXCEPT !.all = @ \cup {t}, !.items[t] = @ + 1]

enqueueTx(p, t) ==
  LET list == p.queue[t.from]
  IN  IF ~Fits(list, t) THEN p
      ELSE Known(DropAll([p EXCEPT !.queue[t.from] = Put(list, t)], At(list, t.nonce)), t)

NoBeat(p, a) == [p EXCEPT !.beats = Remove(@, a)]

Lower(x, y) == IF x < y THEN x ELSE y

(* Faulty variant: the account nonce is not taken back. *)
removeTxKeepsNonce(p, t) ==
  LET a    == t.from
      q    == Drop(p, t)
      list == q.pending[a]
  IN  IF t \notin p.all THEN p
      ELSE IF At(list, t.nonce) = {}
           THEN [q EXCEPT !.queue[a] = @ \ At(@, t.nonce)]
           ELSE FoldLeft(enqueueTx, [q EXCEPT !.pending[a] = Below(list, t.nonce)],
                         Flatten(Above(list, t.nonce)))

(* removeTx: the lists are searched by nonce.  A pending list that is left empty
   is deleted, and only a list that is not has its invalidated rest enqueued. *)
Unlist(p, t) ==
  LET a    == t.from
      list == p.pending[a]
      keep == Below(list, t.nonce)
      cut  == [p EXCEPT !.pending[a] = keep, !.nonce[a] = Lower(@, t.nonce)]
  IN  IF At(list, t.nonce) = {} THEN [p EXCEPT !.queue[a] = @ \ At(@, t.nonce)]
      ELSE IF keep = {} THEN NoBeat(cut, a)
      ELSE FoldLeft(enqueueTx, cut, Flatten(Above(list, t.nonce)))

removeTx(p, t) == IF t \in p.all THEN Unlist(Drop(p, t), t) ELSE p

(* Faulty variant: the pending nonce skips one. *)
promoteTxSkips(p, t) ==
  LET list == p.pending[t.from]
      q    == DropAll([p EXCEPT !.pending[t.from] = Put(list, t)], At(list, t.nonce))
  IN  IF ~Fits(list, t) THEN Drop(p, t) ELSE [q EXCEPT !.nonce[t.from] = t.nonce + 2]

Relearn(p, t) == IF t \in p.all THEN p ELSE Known(p, t)

promoteTx(p, t) ==
  LET a    == t.from
      list == p.pending[a]
      q    == Relearn(DropAll([p EXCEPT !.pending[a] = Put(list, t)], At(list, t.nonce)), t)
  IN  IF ~Fits(list, t) THEN Drop(p, t)
      ELSE [q EXCEPT !.beats = Append(Remove(@, a), a), !.nonce[a] = t.nonce + 1]

(* promoteExecutables, the body of its loop over the accounts: drop what is mined
   and what cannot be paid for, promote, and cut the rest to AccountQueue. *)
Unqueue(p, a, gone) == DropAll([p EXCEPT !.queue[a] = @ \ gone], gone)

DropOld(p, a) == Unqueue(p, a, Below(p.queue[a], p.state.nonce[a]))
DropCostly(p, a) == Unqueue(p, a, Unpayable(p.queue[a], p.state.funds[a]))
DropOver(p, a) ==
  Unqueue(p, a, IF a \in p.locals THEN {} ELSE Excess(p.queue[a], AccountQueue))

Promote(p, a, ready) ==
  FoldLeft(promoteTx, [p EXCEPT !.queue[a] = @ \ ready], Flatten(ready))
PromoteReady(p, a) == Promote(p, a, Ready(p.queue[a], p.nonce[a]))

PromoteAccount(p, a) == DropOver(PromoteReady(DropCostly(DropOld(p, a), a), a), a)

(* One round of the equalization: the highest nonce of every offender goes. *)
ShaveOne(p, a) ==
  LET t == Max({u.nonce : u \in p.pending[a]})
      x == At(p.pending[a], t)
  IN  DropAll([p EXCEPT !.pending[a] = @ \ x, !.nonce[a] = Lower(@, t)], x)

RECURSIVE Shave(_, _, _)
Shave(p, offenders, threshold) ==
  IF offenders = <<>> THEN p
  ELSE IF /\ Size(p.pending) > GlobalSlots
          /\ Cardinality(p.pending[Last(offenders)]) > threshold
       THEN Shave(FoldLeft(ShaveOne, p, offenders), offenders, threshold)
       ELSE p

(* The offenders so far are brought down to the next one, the largest first;
   in the end all of them to the limit or to the guaranteed slots. *)
RECURSIVE Equalize(_, _, _, _)
Equalize(p, offenders, spammers, o) ==
  IF Size(p.pending) <= GlobalSlots \/ spammers = {}
  THEN Shave(p, offenders, AccountSlots)
  ELSE LET len(a) == Cardinality(p.pending[a])
           next   == CHOOSE a \in spammers : \A b \in spammers \ {a} :
                       len(a) > len(b) \/ (len(a) = len(b) /\ o.rank[a] < o.rank[b])
       IN  Equalize(Shave(p, offenders, len(next)), Append(offenders, next), spammers \ {next}, o)

(* Faulty variant: an account with one slot too many is no spammer. *)
CapPendingLate(p, o) ==
  Equalize(p, <<>>, {a \in Account \ p.locals : Cardinality(p.pending[a]) > AccountSlots + 1}, o)

CapPending(p, o) ==
  Equalize(p, <<>>, {a \in Account \ p.locals : Cardinality(p.pending[a]) > AccountSlots}, o)

(* Sorted by heartbeat and taken from the end; an account without one has the
   zero time and sorts first. *)
Beat(p, a) == IF \E i \in DOMAIN p.beats : p.beats[i] = a
              THEN CHOOSE i \in DOMAIN p.beats : p.beats[i] = a ELSE 0

Newest(p, addresses, o) ==
  CHOOSE x \in addresses : \A y \in addresses \ {x} :
    Beat(p, x) > Beat(p, y) \/ (Beat(p, x) = Beat(p, y) /\ o.rank[x] > o.rank[y])

(* All queued transactions of an account, or the highest nonces of it. *)
Dropped(list, drop) ==
  IF Cardinality(list) <= drop THEN Flatten(list)
  ELSE Reverse(Flatten(Excess(list, Cardinality(list) - drop)))

RECURSIVE CapQueueFrom(_, _, _, _), CapQueueOf(_, _, _, _, _)
CapQueueOf(p, a, drop, addresses, o) ==
  CapQueueFrom(FoldLeft(removeTx, p, Dropped(p.queue[a], drop)),
               drop - Lower(drop, Cardinality(p.queue[a])), addresses \ {a}, o)
CapQueueFrom(p, drop, addresses, o) ==
  IF drop = 0 \/ addresses = {} THEN p
  ELSE CapQueueOf(p, Newest(p, addresses, o), drop, addresses, o)

(* Faulty variant: local accounts are dropped like the others. *)
CapQueueLocals(p, o) ==
  IF Size(p.queue) <= GlobalQueue THEN p
  ELSE CapQueueFrom(p, Size(p.queue) - GlobalQueue, {a \in Account : p.queue[a] # {}}, o)

CapQueue(p, o) ==
  IF Size(p.queue) <= GlobalQueue THEN p
  ELSE CapQueueFrom(p, Size(p.queue) - GlobalQueue,
                    {a \in Account \ p.locals : p.queue[a] # {}}, o)

InOrder(accounts, o) ==
  [i \in 1..Cardinality(accounts) |->
     CHOOSE a \in accounts : Cardinality({b \in accounts : o.rank[b] < o.rank[a]}) = i - 1]

promoteExecutables(p, accounts, o) ==
  CapQueue(CapPending(FoldLeft(PromoteAccount, p, InOrder(accounts, o)), o), o)

(* demoteUnexecutables, the body of its loop over the accounts: drop what is mined
   and what cannot be paid for, queue again what comes after that, and all of it
   if the next nonce is missing. *)
Requeue(p, a, list) ==
  FoldLeft(enqueueTx, [p EXCEPT !.pending[a] = @ \ ToSet(list)], list)

Unpend(p, a, gone) == DropAll([p EXCEPT !.pending[a] = @ \ gone], gone)

DemoteOld(p, a) == Unpend(p, a, Below(p.pending[a], p.state.nonce[a]))
DemoteUnpaid(p, a, costly) ==
  IF costly = {} THEN p
  ELSE Requeue(Unpend(p, a, costly), a,
               Flatten(Above(p.pending[a], Min({t.nonce : t \in costly})) \ costly))
DemoteCostly(p, a) == DemoteUnpaid(p, a, Unpayable(p.pending[a], p.state.funds[a]))
DemoteGapped(p, a) ==
  IF At(p.pending[a], p.state.nonce[a]) # {} THEN p
  ELSE Requeue(p, a, Reverse(Flatten(p.pending[a])))
DeleteEmpty(p, a) == IF p.pending[a] = {} THEN NoBeat(p, a) ELSE p

DemoteAccount(p, a) ==
  IF p.pending[a] = {} THEN p
  ELSE DeleteEmpty(DemoteGapped(DemoteCostly(DemoteOld(p, a), a), a), a)

demoteUnexecutables(p, o) == FoldLeft(DemoteAccount, p, InOrder(Account, o))

-----------------------------------------------------------------------
(* Adding transactions. *)

validateTx(p, t, local) ==
  /\ local \/ t.from \in p.locals \/ p.gasPrice <= t.price
  /\ p.state.nonce[t.from] <= t.nonce
  /\ t.price <= p.state.funds[t.from]

(* Faulty variant: what the price limit would refuse is not journaled. *)
journalTxPriced(p, t) ==
  IF p.writer /\ t.from \in p.locals /\ p.gasPrice <= t.price
  THEN [p EXCEPT !.journal = @ \cup {t}] ELSE p

journalTx(p, t) ==
  IF p.writer /\ t.from \in p.locals THEN [p EXCEPT !.journal = @ \cup {t}] ELSE p

Refused(p) == [pool |-> p, dirty |-> {}]
Replaced(p) == [pool |-> p, dirty |-> {}]
Accepted(p, t) == [pool |-> p, dirty |-> {t.from}]

(* add, once there is room: a pending transaction is replaced in place, any
   other goes to the queue and marks a local sender. *)
Marked(p, t, local) == IF local THEN [p EXCEPT !.locals = @ \cup {t.from}] ELSE p

Insert(p, t, local) ==
  LET list   == p.pending[t.from]
      inPend == Known(DropAll([p EXCEPT !.pending[t.from] = Put(list, t)], At(list, t.nonce)), t)
      queued == journalTx(Marked(enqueueTx(p, t), t, local), t)
  IN  IF At(list, t.nonce) # {}
      THEN IF Fits(list, t) THEN Replaced(journalTx(inPend, t)) ELSE Refused(p)
      ELSE IF ~Fits(p.queue[t.from], t) THEN Refused(p)
      ELSE IF At(p.queue[t.from], t.nonce) # {} THEN Replaced(queued) ELSE Accepted(queued, t)

Capacity == GlobalSlots + GlobalQueue

RemoveAll(drained) == FoldLeft(removeTx, drained.pool, drained.drop)

(* The pool is full: t is too cheap, or cheaper ones make room for it. *)
AddFull(p, t, local, o) ==
  IF t.from \notin p.locals /\ Heap(p) # {} /\ Cheapest(Heap(p), o).price >= t.price
  THEN Refused(p)
  ELSE Insert(RemoveAll(Discard(p, Cardinality(p.all) - (Capacity - 1), o)), t, local)

add(p, t, local, o) ==
  IF t \in p.all \/ ~validateTx(p, t, local) THEN Refused(p)
  ELSE IF Cardinality(p.all) < Capacity THEN Insert(p, t, local)
  ELSE AddFull(IF t.from \in p.locals THEN p ELSE PopStale(p, o), t, local, o)

(* addTxsLocked; addTx is the batch of one. *)
Both(r, s) == [pool |-> s.pool, dirty |-> r.dirty \cup s.dirty]

PromoteDirty(r, o) ==
  IF r.dirty = {} THEN r.pool ELSE promoteExecutables(r.pool, r.dirty, o)

addTxsLocked(p, txs, local, o) ==
  PromoteDirty(FoldLeft(LAMBDA r, t : Both(r, add(r.pool, t, local, o)), Refused(p), txs), o)

-----------------------------------------------------------------------
(* New heads. *)

Nonces(c) == [a \in Account |-> Cardinality({i \in DOMAIN c : c[i].from = a})]

IsChain(c) == \A i \in DOMAIN c : c[i].nonce = Nonces(SubSeq(c, 1, i - 1))[c[i].from]

(* The transactions only on the old branch, its newest block first. *)
Reinject(old, new, common) ==
  LET gone     == Reverse(SubSeq(old, common + 1, Len(old)))
      included == {new[i] : i \in common + 1..Len(new)}
      depth    == Max({Len(old) - Len(new), Len(new) - Len(old)})
  IN  IF depth > MaxReorg THEN <<>> ELSE SelectSeq(gone, LAMBDA t : t \notin included)

SetNonces(p) ==
  [p EXCEPT !.nonce = [a \in Account |->
     IF p.pending[a] = {} THEN @[a] ELSE Max({t.nonce : t \in p.pending[a]}) + 1]]

PromoteQueued(p, o) == promoteExecutables(p, {a \in Account : p.queue[a] # {}}, o)

reset(p, reinject, state, o) ==
  LET onHead == [p EXCEPT !.state = state, !.nonce = state.nonce]
      added  == addTxsLocked(onHead, reinject, FALSE, o)
  IN  PromoteQueued(SetNonces(demoteUnexecutables(added, o)), o)

-----------------------------------------------------------------------
(* The journal. *)

(* local(): what the pool holds for the local accounts. *)
Local(p) == UNION {p.pending[a] \cup p.queue[a] : a \in p.locals}

rotate(p) == [p EXCEPT !.journal = Local(p), !.writer = TRUE]

NewPool(state, journal) ==
  [pending |-> [a \in Account |-> {}], queue |-> [a \in Account |-> {}],
   all |-> {}, items |-> [t \in Tx |-> 0], stales |-> 0,
   nonce |-> state.nonce, beats |-> <<>>, state |-> state, locals |-> {},
   gasPrice |-> Min(Price), journal |-> journal, writer |-> FALSE]

(* txJournal.load: AddLocal for one transaction after the other. *)
load(p, txs, o) == FoldLeft(LAMBDA q, t : addTxsLocked(q, <<t>>, TRUE, o), p, txs)

-----------------------------------------------------------------------
Init ==
  /\ chain = <<>> /\ ops = 0
  /\ pool = rotate(NewPool([nonce |-> Nonces(<<>>), funds |-> [a \in Account |-> Max(Funds)]], {}))

AddLocal(t) ==
  pool' \in {addTxsLocked(pool, <<t>>, TRUE, o) : o \in Orders} /\ UNCHANGED chain

AddRemotes(txs) ==
  pool' \in {addTxsLocked(pool, txs, FALSE, o) : o \in Orders} /\ UNCHANGED chain

Reprice(p, price, o) == RemoveAll(Cap([p EXCEPT !.gasPrice = price], price, o))

SetGasPrice(price) ==
  pool' \in {Reprice(pool, price, o) : o \in Orders} /\ UNCHANGED chain

(* A chain head event: the blocks above common go, blocks come, and the balance
   of an account changes. *)
ChainHead(common, blocks, funds) ==
  LET new   == SubSeq(chain, 1, common) \o blocks
      state == [nonce |-> Nonces(new), funds |-> funds]
  IN  /\ IsChain(new)
      /\ chain' = new
      /\ pool' \in {reset(pool, Reinject(chain, new, common), state, o) : o \in Orders}

(* A block or state of the new head cannot be read: reset returns before it
   changes anything, and loop takes the new head all the same. *)
ChainHeadUnread(common, blocks) ==
  LET new == SubSeq(chain, 1, common) \o blocks
  IN  IsChain(new) /\ chain' = new /\ UNCHANGED pool

(* The eviction tick: the accounts without a heartbeat and those whose last one
   is older than Lifetime, the oldest ones. *)
EvictIdle(p, old, o) ==
  LET evict(q, a) == FoldLeft(removeTx, q, Flatten(q.queue[a]))
  IN  FoldLeft(evict, p, InOrder({a \in Account \ p.locals : Beat(p, a) <= old}, o))

Evict(old) ==
  pool' \in {EvictIdle(pool, old, o) : o \in Orders} /\ UNCHANGED chain

Rejournal == pool' = rotate(pool) /\ UNCHANGED chain

(* rotate closes the file and then fails to write or to open the new one. *)
RejournalFails == pool' = [pool EXCEPT !.writer = FALSE] /\ UNCHANGED chain

(* The node stops, at any moment, and NewTxPool starts from the journal. *)
Restart ==
  LET fresh == NewPool([nonce |-> Nonces(chain), funds |-> pool.state.funds], pool.journal)
  IN  /\ pool' \in {rotate(load(fresh, txs, o)) : txs \in SetToSeqs(pool.journal), o \in Orders}
      /\ UNCHANGED chain

Batch == UNION {[1..n -> Tx] : n \in 1..MaxBatch}
Blocks == UNION {[1..n -> Tx] : n \in 0..MaxAdded}
NewFunds == {pool.state.funds} \cup
  {[pool.state.funds EXCEPT ![a] = f] : a \in Account, f \in Funds}
Kept == {k \in 0..Len(chain) : k + MaxRemoved >= Len(chain)}

Operation ==
  \/ \E t \in Tx : t.from \in LocalSender /\ AddLocal(t)
  \/ \E txs \in Batch : AddRemotes(txs)
  \/ \E price \in Price : SetGasPrice(price)
  \/ \E k \in Kept, b \in Blocks, f \in NewFunds : ChainHead(k, b, f)
  \/ \E k \in Kept, b \in Blocks : ChainHeadUnread(k, b)
  \/ \E n \in 0..Len(pool.beats) : Evict(n)
  \/ Rejournal
  \/ RejournalFails
  \/ Restart

Next == ops < MaxOps /\ ops' = ops + 1 /\ Operation

Spec == Init /\ [][Next]_vars
-----------------------------------------------------------------------
(* The pool is a record of its fields. *)
TypeOK ==
  /\ pool \in PoolType
  /\ chain \in Seq(Tx) /\ IsChain(chain)

(* The pending list of an account holds exactly the nonces from the account's
   nonce in the current state up to the nonce pendingState hands out. *)
Contiguous(p) ==
  \A a \in Account :
    {t.nonce : t \in p.pending[a]} = p.state.nonce[a]..(p.nonce[a] - 1)

(* The pending lists, "contiguous transactions for the executable/pending queue"
   (core/tx_list.go), have no gap a miner would stop at, whatever sequence of
   removals, replacements, new heads and limits came before. *)
PendingIsContiguous == Contiguous(pool)

(* Nothing executable waits in the queue: a queued transaction is beyond a
   missing nonce. *)
QueueIsBeyondGap(p) ==
  \A a \in Account : \A t \in p.queue[a] : t.nonce > p.nonce[a]

(* As long as no block is taken off the chain, pending lists without gaps stay
   so, no nonce is handed out twice or skipped by pendingState, and no executable
   transaction is left in the queue, whichever way transactions leave: dropped
   for a better price, replaced, shaved, evicted, mined or no longer payable
   (promoteTx, removeTx, promoteExecutables, demoteUnexecutables, reset). *)
StaysExecutable ==
  [][Contiguous(pool) /\ QueueIsBeyondGap(pool) /\ IsPrefix(chain, chain')
       => Contiguous(pool)' /\ QueueIsBeyondGap(pool)']_vars

(* Whatever the reorgs, a pending list starts with the next nonce of its account
   (demoteUnexecutables postpones a list with a gap in front, and nothing later
   opens one); what the lists hold is known by hash; and what is known by hash is
   in the price heap, where Discard and Cap find it. *)
PoolConsistent ==
  /\ \A a \in Account :
       /\ pool.pending[a] # {} => At(pool.pending[a], pool.state.nonce[a]) # {}
       /\ pool.pending[a] \cup pool.queue[a] \subseteq pool.all
  /\ \A t \in pool.all : pool.items[t] > 0

(* More than GlobalSlots transactions are pending only while no account that is
   not local has more than its guaranteed AccountSlots (promoteExecutables), and
   but for local accounts the pool never holds more than its slots (add, Discard). *)
PoolWithinLimits ==
  /\ Size(pool.pending) > GlobalSlots =>
       \A a \in Account \ pool.locals : Cardinality(pool.pending[a]) <= AccountSlots
  /\ Cardinality({t \in pool.all : t.from \notin pool.locals}) <= Capacity

Pooled(p) == UNION {p.pending[a] \cup p.queue[a] : a \in Account}

(* Except at a new head or a restart, a transaction of a local account leaves the
   pool only for a better one of the same nonce: not for its price, the limits
   of the pool or its age (Discard, Cap, promoteExecutables, loop). *)
LocalsStay ==
  [][\/ pool'.state # pool.state
     \/ \A t \in Pooled(pool) : t.from \in pool.locals =>
          \E u \in Pooled(pool') : u.from = t.from /\ u.nonce = t.nonce /\ u.price >= t.price
     \/ Restart]_vars

(* While the journal is open, a transaction of a local account that enters the
   pool is in the journal when the operation ends, whether it came from the
   user, from a peer, from a reorg or from the journal itself (journalTx,
   rotate). *)
LocalsJournaled ==
  [][pool'.writer => \A t \in Pooled(pool') \ Pooled(pool) :
       t.from \in pool.locals => t \in pool'.journal]_vars

(* Every transaction known by hash is in one of the lists, as
   validateTxPoolInternals demands and as removeTx says of the transactions
   behind the one it removes. *)
AllInLists == pool.all \subseteq Pooled(pool)

(* priced.items without its stale entries is the size of the pool, the second
   demand of validateTxPoolInternals. *)
StalesExact == HeapSize(pool) - pool.stales = Size(pool.pending) + Size(pool.queue)
=======================================================================
