------------------------ MODULE DownloadQueue ------------------------
(* The download queue: mc/downloader/queue.go, as fetchParts and the processors of
   mc/downloader/downloader.go use it.

   A block is its number.  For each block the queue gets a body and, up to the
   pivot of a fast sync, receipts; both wait in a task queue, are reserved for a
   peer, and come back into a cache of limited size from which the processor
   takes the complete blocks in order.  Every operation of the queue holds its
   lock and is one action; the peers, the two fetchers and the processor
   interleave.  A task queue is a bag: pushing a header twice is possible.

   A peer that is registered answers its requests in order, with as many items as it likes, of which
   the first `good` fit; it may answer after the request has expired, or in the
   next cycle.  Left out: throughput, Idle and the Pending... counters, and
   CancelBodies and its siblings (the caller panics instead). *)
EXTENDS Integers, FiniteSets, Sequences, FiniteSetsExt

CONSTANTS
  LastBlock,       \* the blocks of the chain are 1..LastBlock
  Source,          \* peers
  NoData,          \* [Kind -> SUBSET Nat], the blocks with no such part
  blockCacheLimit, fsHeaderForceVerify,
  minExpired,      \* a request of at most so many items that expires drops the peer
  MaxRequest,      \* bound: items in a request
  MaxSent,         \* bound: unanswered requests to a peer, for each kind
  MaxEvents        \* bound: peers that leave or join, and further cycles

ASSUME QueueAssumption ==
  /\ LastBlock \in Nat /\ IsFiniteSet(Source) /\ MaxRequest \in Nat /\ MaxEvents \in Nat
  /\ fsHeaderForceVerify \in Nat /\ blockCacheLimit \in Nat /\ fsHeaderForceVerify < blockCacheLimit

VARIABLES
  q,        \* the queue, see QueueType
  peers,    \* the registered peers
  idles,    \* the idle peers that a round of fetchParts has still to serve
  busy,     \* the idle flags of the peers, inverted
  lacking,  \* what a peer is known not to have
  sent,     \* requests that a peer has not answered
  asleep,   \* the processor waits in WaitResults
  broken,   \* "no", or the error that ended the cycle
  events    \* counts up to MaxEvents

queueVars == <<q, peers, idles, busy, lacking, sent, asleep, broken, events>>

Kind == {"body", "receipt"}
Number == 1..LastBlock
Slot == 1..blockCacheLimit
NoResult == [header |-> 0, pending |-> 0, parts |-> {}]
Result == [header : Number, pending : Int, parts : SUBSET Kind]

QueueType ==
  [mode : {"full", "fast"}, pivot : 0..LastBlock, headerHead : 0..LastBlock,
   taskPool : [Kind -> SUBSET Number], taskQueue : [Kind -> [Number -> Nat]],
   pendPool : [Kind -> [Source -> Seq(Number)]], donePool : [Kind -> SUBSET Number],
   resultCache : [Slot -> Result \cup {NoResult}], resultOffset : 1..LastBlock + 1,
   closed : BOOLEAN]

(* Reset and Prepare. *)
NewQueue(offset, mode, pivot) ==
  [mode |-> mode, pivot |-> pivot, headerHead |-> offset - 1,
   taskPool |-> [k \in Kind |-> {}], taskQueue |-> [k \in Kind |-> [n \in Number |-> 0]],
   pendPool |-> [k \in Kind |-> [p \in Source |-> <<>>]], donePool |-> [k \in Kind |-> {}],
   resultCache |-> [i \in Slot |-> NoResult], resultOffset |-> offset, closed |-> FALSE]

(* The pivot leaves room for fsHeaderForceVerify blocks after it. *)
Modes == {<<"full", 0>>} \cup {<<"fast", n>> : n \in 0..LastBlock - fsHeaderForceVerify}

QueueInit ==
  /\ \E m \in Modes : q = NewQueue(1, m[1], m[2])
  /\ peers = Source /\ idles = [k \in Kind |-> {}]
  /\ busy = [k \in Kind |-> [p \in Source |-> FALSE]]
  /\ lacking = [p \in Source |-> {}]
  /\ sent = [k \in Kind |-> [p \in Source |-> <<>>]]
  /\ asleep = FALSE /\ broken = "no" /\ events = 0

Needed(s, n) == IF s.mode = "fast" /\ n <= s.pivot THEN Kind ELSE {"body"}

Waiting(s, k) == {n \in Number : s.taskQueue[k][n] > 0}
Times(list, n) == Cardinality({i \in DOMAIN list : list[i] = n})
Push(s, k, list) == [s EXCEPT !.taskQueue[k] = [n \in Number |-> @[n] + Times(list, n)]]
InFlight(s, k) == SumFunctionOnSet([p \in Source |-> Len(s.pendPool[k][p])], Source)

(* Faulty variant of Space: requests under way take no room. *)
SpaceIgnoresFlight(s, k) == blockCacheLimit - Cardinality(s.donePool[k])

Space(s, k) == blockCacheLimit - Cardinality(s.donePool[k]) - InFlight(s, k)

SlotOf(s, n) == n - s.resultOffset + 1

(* Faulty variant of Signal: nobody is woken. *)
SignalNever(when) == UNCHANGED asleep

(* active.Signal, called when `when` holds. *)
Signal(when) == asleep' = (asleep /\ ~when)

-----------------------------------------------------------------------
(* Schedule: headers up to n, in chain order. *)
Schedule(n) ==
  /\ broken = "no" /\ n > q.headerHead
  /\ LET new == q.headerHead + 1..n
         fast == {m \in new : q.mode = "fast" /\ m <= q.pivot}
         add(k) == IF k = "body" THEN new ELSE fast
     IN  q' = [q EXCEPT !.headerHead = n,
                        !.taskPool = [k \in Kind |-> @[k] \cup add(k)],
                        !.taskQueue = [k \in Kind |-> [m \in Number |->
                                         IF m \in add(k) THEN @[k][m] + 1 ELSE @[k][m]]]]
  /\ UNCHANGED <<peers, idles, busy, lacking, sent, asleep, broken, events>>

(* A round of fetchParts begins: the idle peers are listed. *)
IdlePeers(k) ==
  /\ broken = "no" /\ Waiting(q, k) # {} /\ idles[k] = {}
  /\ idles' = [idles EXCEPT ![k] = {p \in peers : ~busy[k][p]}]
  /\ UNCHANGED <<q, peers, busy, lacking, sent, asleep, broken, events>>

(* A task leaves the queue; its block gets a result container, unless it has one;
   or the part has nothing to fetch and is done (resultCache[index].Pending--). *)
Pop(s, k, n) == [s EXCEPT !.taskQueue[k][n] = @ - 1]
Hold(s, n) ==
  LET result == [header |-> n, pending |-> Cardinality(Needed(s, n)), parts |-> {}]
  IN  [s EXCEPT !.resultCache[SlotOf(s, n)] = IF @ = NoResult THEN result ELSE @]
Fill(r, k) == [r EXCEPT !.pending = @ - 1, !.parts = @ \cup {k}]
Noop(s, k, n) ==
  [s EXCEPT !.donePool[k] = @ \cup {n}, !.taskPool[k] = @ \ {n},
            !.resultCache[SlotOf(s, n)] = Fill(@, k)]

(* One turn of the loop of reserveHeaders: the task with the lowest number. *)
ReserveTask(s, k, p) ==
  LET n == Min(Waiting(s.q, k))
      popped == Pop(s.q, k, n)
      held == Hold(popped, n)
  IN  IF SlotOf(s.q, n) \notin Slot THEN [s EXCEPT !.q = popped, !.error = TRUE]
      ELSE IF n \in NoData[k]
      THEN [s EXCEPT !.q = Noop(held, k, n), !.space = @ - 1, !.progress = TRUE]
      ELSE IF n \in lacking[p]
      THEN [s EXCEPT !.q = held, !.skip = Append(@, n), !.proc = @ + 1]
      ELSE [s EXCEPT !.q = held, !.send = Append(@, n), !.proc = @ + 1]

(* The loop ends after Space turns at the latest: each takes one off space - proc. *)
ReserveMore(s, k, count) ==
  ~s.error /\ s.proc < s.space /\ Len(s.send) < count /\ Waiting(s.q, k) # {}
ReserveTurns(k, p, count) ==
  LET turn[i \in 0..Space(q, k)] ==
        IF i = 0 THEN [q |-> q, send |-> <<>>, skip |-> <<>>, space |-> Space(q, k), proc |-> 0,
                       progress |-> FALSE, error |-> FALSE]
        ELSE IF ReserveMore(turn[i - 1], k, count) THEN ReserveTask(turn[i - 1], k, p)
        ELSE turn[i - 1]
  IN  turn
reserveHeaders(k, p, count) == ReserveTurns(k, p, count)[Space(q, k)]

(* reserve and fetch for one of the listed peers.  If it has left by now, the
   request is made all the same and nobody answers it.  A peer that is already
   fetching would be the panic of fetchParts. *)
Reserve(k, p, count) ==
  LET s == reserveHeaders(k, p, count)
      back == Push(s.q, k, s.skip)
  IN  /\ broken = "no" /\ p \in idles[k] /\ Waiting(q, k) # {}
      /\ Space(q, k) > 0 /\ Len(sent[k][p]) < MaxSent
      /\ idles' = [idles EXCEPT ![k] = @ \ {p}]
      /\ \/ q.pendPool[k][p] # <<>> /\ UNCHANGED <<q, asleep, broken, busy, sent>>
         \/ /\ q.pendPool[k][p] = <<>> /\ s.error
            /\ q' = s.q /\ broken' = "index" /\ UNCHANGED <<asleep, busy, sent>>
         \/ /\ q.pendPool[k][p] = <<>> /\ ~s.error
            /\ Signal(s.progress)
            /\ IF s.send = <<>> THEN q' = back /\ UNCHANGED <<broken, busy, sent>>
               ELSE /\ q' = [back EXCEPT !.pendPool[k][p] = s.send]
                    /\ broken' = IF busy[k][p] /\ p \in peers THEN "panic" ELSE "no"
                    /\ IF p \in peers
                       THEN /\ busy' = [busy EXCEPT ![k][p] = TRUE]
                            /\ sent' = [sent EXCEPT ![k][p] = Append(@, s.send)]
                       ELSE UNCHANGED <<busy, sent>>
      /\ UNCHANGED <<peers, lacking, events>>

(* The round ends early when throttled. *)
Throttled(k) ==
  /\ broken = "no" /\ idles[k] # {} /\ (Space(q, k) <= 0 \/ Waiting(q, k) = {})
  /\ idles' = [idles EXCEPT ![k] = {}]
  /\ UNCHANGED <<q, peers, busy, lacking, sent, asleep, broken, events>>

-----------------------------------------------------------------------
(* The oldest request of p is answered with `items` items of which the first
   `good` are right. *)
Accepted(k, p, items, good) ==
  LET asked == Head(sent[k][p])
      request == q.pendPool[k][p]
      stored(i) == SlotOf(q, request[i]) \in Slot /\ q.resultCache[SlotOf(q, request[i])] # NoResult
      fits(i) == stored(i) /\ i <= good /\ request[i] = asked[i]
      tried == Min({items, Len(request)})
      accepted == Max({m \in 0..tried : \A i \in 1..m : fits(i)})
  IN  [count |-> accepted,
       failure |-> IF accepted = tried THEN "none"
                   ELSE IF stored(accepted + 1) THEN "invalid" ELSE "chain"]

deliver(k, p, items, good) ==
  LET request == q.pendPool[k][p]
      a == Accepted(k, p, items, good).count
      taken == {request[i] : i \in 1..a}
      emptied == [q EXCEPT !.pendPool[k][p] = <<>>,
                           !.donePool[k] = @ \cup taken, !.taskPool[k] = @ \ taken,
                           !.resultCache = [i \in Slot |->
                              IF @[i].header \in taken THEN Fill(@[i], k) ELSE @[i]]]
  IN  Push(emptied, k, SubSeq(request, a + 1, Len(request)))

Deliver(k, p, items, good) ==
  /\ sent[k][p] # <<>> /\ items <= Len(Head(sent[k][p])) /\ good <= items
  /\ sent' = [sent EXCEPT ![k][p] = Tail(@)]
  /\ \/ /\ broken = "no" /\ q.pendPool[k][p] # <<>>
        /\ LET r == Accepted(k, p, items, good)
           IN  /\ q' = deliver(k, p, items, good)
               /\ Signal(r.count > 0)
               /\ busy' = IF r.failure = "none" \/ (r.failure = "invalid" /\ r.count > 0)
                          THEN [busy EXCEPT ![k][p] = FALSE] ELSE busy
               /\ broken' = IF r.failure = "chain" THEN "chain" ELSE "no"
        /\ lacking' = IF items = 0
                      THEN [lacking EXCEPT ![p] = @ \cup Range(q.pendPool[k][p])] ELSE lacking
     \/ /\ broken = "no" /\ q.pendPool[k][p] = <<>>
        /\ busy' = [busy EXCEPT ![k][p] = FALSE]
        /\ UNCHANGED <<q, asleep, broken, lacking>>
     \/ /\ broken # "no"
        /\ UNCHANGED <<q, busy, asleep, broken, lacking>>
  /\ UNCHANGED <<peers, idles, events>>

(* The request of p goes back to the task queue. *)
Back(s, k, p) == [Push(s, k, s.pendPool[k][p]) EXCEPT !.pendPool[k][p] = <<>>]

(* Faulty variant of RevokeAll: the receipts are not put back. *)
RevokeLosesReceipts(s, p) ==
  [Back(s, "body", p) EXCEPT !.pendPool["receipt"][p] = <<>>]

(* Revoke. *)
RevokeAll(s, p) == Back(Back(s, "body", p), "receipt", p)

(* The connection goes, with its flags and its unanswered requests. *)
Leave(p) ==
  /\ peers' = peers \ {p}
  /\ busy' = [k \in Kind |-> [busy[k] EXCEPT ![p] = FALSE]]
  /\ lacking' = [lacking EXCEPT ![p] = {}]
  /\ sent' = [k \in Kind |-> [sent[k] EXCEPT ![p] = <<>>]]

(* expire: the request goes back; a peer that could not deliver a few is dropped. *)
Expire(k, p) ==
  /\ broken = "no" /\ q.pendPool[k][p] # <<>>
  /\ LET s == Back(q, k, p)
     IN  \/ /\ p \notin peers /\ q' = s /\ UNCHANGED <<peers, busy, lacking, sent>>
         \/ /\ p \in peers /\ Len(q.pendPool[k][p]) > minExpired
            /\ q' = s /\ busy' = [busy EXCEPT ![k][p] = FALSE]
            /\ UNCHANGED <<peers, lacking, sent>>
         \/ /\ p \in peers /\ Len(q.pendPool[k][p]) <= minExpired
            /\ q' = RevokeAll(s, p) /\ Leave(p)
  /\ UNCHANGED <<idles, asleep, broken, events>>

Event == events < MaxEvents /\ events' = events + 1

UnregisterPeer(p) ==
  /\ p \in peers /\ Event
  /\ Leave(p) /\ q' = RevokeAll(q, p)
  /\ UNCHANGED <<idles, asleep, broken>>

(* A peer comes back with a new connection, after the rounds that listed the old
   one. *)
RegisterPeer(p) ==
  /\ p \notin peers /\ Event /\ \A k \in Kind : p \notin idles[k]
  /\ peers' = peers \cup {p}
  /\ UNCHANGED <<q, idles, busy, lacking, sent, asleep, broken>>

-----------------------------------------------------------------------
(* The processor. *)
Ready(s, i) ==
  LET r == s.resultCache[i]
  IN  /\ r # NoResult /\ r.pending <= 0
      /\ s.mode = "fast" /\ r.header = s.pivot =>
           \A j \in 1..fsHeaderForceVerify : i + j \in Slot /\ s.resultCache[i + j] # NoResult

countProcessableItems(s) == Max({m \in 0..blockCacheLimit : \A i \in 1..m : Ready(s, i)})

(* Faulty variant of WaitResults: the tail of the cache is not cleared. *)
WaitResultsKeepsTail ==
  /\ broken = "no" /\ ~asleep /\ countProcessableItems(q) > 0
  /\ LET nproc == countProcessableItems(q)
         gone == {q.resultCache[i].header : i \in 1..nproc}
     IN  q' = [q EXCEPT !.donePool = [k \in Kind |-> @[k] \ gone],
                        !.resultCache = [i \in Slot |-> @[Min({i + nproc, blockCacheLimit})]],
                        !.resultOffset = @ + nproc]
  /\ UNCHANGED <<peers, idles, busy, lacking, sent, asleep, broken, events>>

WaitResults ==
  /\ broken = "no" /\ ~asleep /\ countProcessableItems(q) > 0
  /\ LET nproc == countProcessableItems(q)
         gone == {q.resultCache[i].header : i \in 1..nproc}
     IN  q' = [q EXCEPT !.donePool = [k \in Kind |-> @[k] \ gone],
                        !.resultCache = [i \in Slot |-> IF i + nproc \in Slot THEN @[i + nproc] ELSE NoResult],
                        !.resultOffset = @ + nproc]
  /\ UNCHANGED <<peers, idles, busy, lacking, sent, asleep, broken, events>>

WaitSleeps ==
  /\ broken = "no" /\ ~asleep /\ ~q.closed /\ countProcessableItems(q) = 0
  /\ asleep' = TRUE
  /\ UNCHANGED <<q, peers, idles, busy, lacking, sent, broken, events>>

(* The cycle ends early: it is cancelled, a step of it fails, the peers are gone or
   none has what is missing (spawnSync). *)
CancelSync ==
  /\ broken = "no"
  /\ broken' = "cancelled" /\ q' = [q EXCEPT !.closed = TRUE] /\ asleep' = FALSE
  /\ UNCHANGED <<peers, idles, busy, lacking, sent, events>>

(* Another cycle: Reset of the queue and of the peers, and Prepare.  It begins at
   the next block or, with an older ancestor, further back, and not behind the
   pivot. *)
Synchronise(offset, m) ==
  /\ broken # "no" /\ broken # "panic" /\ Event
  /\ offset <= q.resultOffset /\ (m[1] = "fast" => offset <= m[2] + 1)
  /\ q' = NewQueue(offset, m[1], m[2])
  /\ idles' = [k \in Kind |-> {}]
  /\ busy' = [k \in Kind |-> [p \in Source |-> FALSE]] /\ lacking' = [p \in Source |-> {}]
  /\ asleep' = FALSE /\ broken' = "no"
  /\ UNCHANGED <<peers, sent>>

QueueNext ==
  \/ \E n \in Number : Schedule(n)
  \/ \E k \in Kind : IdlePeers(k) \/ Throttled(k)
  \/ \E k \in Kind, p \in Source : Expire(k, p)
  \/ \E k \in Kind, p \in Source, count \in 1..MaxRequest : Reserve(k, p, count)
  \/ \E k \in Kind, p \in Source, items, good \in 0..MaxRequest : Deliver(k, p, items, good)
  \/ \E p \in Source : UnregisterPeer(p) \/ RegisterPeer(p)
  \/ WaitResults \/ WaitSleeps \/ CancelSync
  \/ \E n \in Number, m \in Modes : Synchronise(n, m)

QueueSpec == QueueInit /\ [][QueueNext]_queueVars
-----------------------------------------------------------------------
(* The queue and the flags of the peers, part of ResultsExact. *)
QueueTypeOK ==
  /\ q \in QueueType /\ peers \subseteq Source
  /\ asleep \in BOOLEAN /\ broken \in {"no", "cancelled", "index", "chain", "panic"}
  /\ events \in 0..MaxEvents

Wanted(s, k) == {n \in s.resultOffset..s.headerHead : k \in Needed(s, n)}

(* How often part k of block n waits, is asked for or is done. *)
Asked(s, k, n) == SumFunctionOnSet([p \in Source |-> Times(s.pendPool[k][p], n)], Source)
Held(s, k, n) == s.taskQueue[k][n] + Asked(s, k, n) + (IF n \in s.donePool[k] THEN 1 ELSE 0)

(* No part is lost or asked for twice: a scheduled part that the processor has not
   taken is done, or waits once, or is in the request of one peer, whatever
   expired, was revoked, answered in part or late (reserveHeaders, deliver,
   expire, Revoke, WaitResults). *)
PartsConserved ==
  broken \in {"no", "cancelled"} =>
    \A k \in Kind :
      /\ \A n \in Number : Held(q, k, n) = IF n \in Wanted(q, k) THEN 1 ELSE 0
      /\ q.taskPool[k] = Wanted(q, k) \ q.donePool[k]

(* The slot of a block is its own, and Pending counts exactly the parts that are
   missing: what WaitResults hands over is complete and in order. *)
ResultsExact ==
  /\ QueueTypeOK
  /\ \A i \in Slot : q.resultCache[i] # NoResult =>
       LET r == q.resultCache[i]
       IN  /\ r.header = q.resultOffset + i - 1
           /\ r.pending = Cardinality(Needed(q, r.header) \ r.parts)

(* The internal errors do not happen: reserveHeaders stays inside the cache ("index
   allocation went beyond available resultCache space"), a delivery finds its
   container, and no peer is given a second request. *)
NoInternalError == broken \in {"no", "cancelled"}

(* The download does not stall: while the processor sleeps, all headers are
   scheduled and blocks are missing, a request is out or there is room in the cache
   to ask for a part that waits (ShouldThrottleBlocks, countProcessableItems, the
   signals of deliver and reserveHeaders). *)
NoStall ==
  broken = "no" /\ asleep /\ q.headerHead = LastBlock /\ q.resultOffset <= LastBlock =>
    \E k \in Kind : InFlight(q, k) > 0 \/ (Waiting(q, k) # {} /\ Space(q, k) > 0)

(* A peer without a request is asked again: one that counts as fetching has a
   request in the pool or an answer on its way. *)
BusyHasRequest ==
  broken = "no" => \A k \in Kind, p \in peers :
    busy[k][p] => q.pendPool[k][p] # <<>> \/ sent[k][p] # <<>>
=======================================================================
