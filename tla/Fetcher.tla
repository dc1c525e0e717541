--------------------------- MODULE Fetcher ---------------------------
(* The block fetcher: mc/fetcher/fetcher.go.  Peers announce hashes or propagate
   blocks; the fetcher asks one announcer for the header, then for the body, and
   imports what fits on the chain, each block on a goroutine of its own.

   One action is one turn of the loop: the event of the select and then the head
   of the loop up to the next select.  Time is abstract: any announcement may be
   due, any request may have expired.  The maps of the Fetcher are one record f;
   an entry that is not there is <<>>, NoAnnounce or NoPeer.

   Left out: dropPeer (it does not change the fetcher), the broadcasts of an
   import, meters and hooks.  A reply with several bodies is several replies. *)
EXTENDS Integers, FiniteSets, Sequences, FiniteSetsExt

CONSTANTS
  Hash,         \* the blocks that may be announced
  Peer,
  Height,       \* [Hash -> Nat \ {0}], the number of a block
  Previous,     \* [Hash -> Hash \cup {NoHash}], NoHash: on the first block of the chain
  Content,      \* [Hash -> contents], transactions and uncles as a body carries them
  Empty,        \* the blocks without transactions and uncles
  Bogus,        \* the blocks that do not verify
  NoHash, NoPeer,
  hashLimit, blockLimit, maxUncleDist, maxQueueDist,
  MaxMessages   \* bound: announcements and propagated blocks

ASSUME FetcherAssumption ==
  /\ NoPeer \notin Peer /\ Height \in [Hash -> Nat]
  /\ IsFiniteSet(Hash) /\ blockLimit \in Nat /\ MaxMessages \in Nat

VARIABLES
  f,             \* the maps, see FetcherMaps
  known,         \* the hashes that getBlock finds
  fetchTimer,    \* the timers are set
  completeTimer,
  stopped,       \* the loop has ended
  messages       \* counts announcements and propagated blocks

fetcherVars == <<f, known, fetchTimer, completeTimer, stopped, messages>>

(* header: the header has arrived.  number is the announced one. *)
Announce == [origin : Peer, number : Nat, header : BOOLEAN]
NoAnnounce == [origin |-> NoPeer, number |-> 0, header |-> FALSE]

(* importing holds the step of the import goroutine of a hash. *)
Importing == {"none", "verify", "insert", "done"}

FetcherMaps ==
  [announces : [Peer -> Int], announced : [Hash -> Seq(Announce)],
   fetching : [Hash -> Announce \cup {NoAnnounce}], fetched : [Hash -> Seq(Announce)],
   completing : [Hash -> Announce \cup {NoAnnounce}],
   queue : SUBSET Hash, queues : [Peer -> Int], queued : [Hash -> Peer \cup {NoPeer}],
   importing : [Hash -> Importing]]

FetcherInit ==
  /\ f = [announces |-> [p \in Peer |-> 0], announced |-> [h \in Hash |-> <<>>],
          fetching |-> [h \in Hash |-> NoAnnounce], fetched |-> [h \in Hash |-> <<>>],
          completing |-> [h \in Hash |-> NoAnnounce],
          queue |-> {}, queues |-> [p \in Peer |-> 0], queued |-> [h \in Hash |-> NoPeer],
          importing |-> [h \in Hash |-> "none"]]
  /\ known = {} /\ fetchTimer = TRUE /\ completeTimer = TRUE
  /\ stopped = FALSE /\ messages = 0

chainHeight == Max({0} \cup {Height[h] : h \in known})

Announced(s) == {h \in Hash : s.announced[h] # <<>>}
Fetching(s) == {h \in Hash : s.fetching[h] # NoAnnounce}
Fetched(s) == {h \in Hash : s.fetched[h] # <<>>}
Completing(s) == {h \in Hash : s.completing[h] # NoAnnounce}
Queued(s) == {h \in Hash : s.queued[h] # NoPeer}

-----------------------------------------------------------------------
(* How often p is the origin of an entry for h. *)
By(list, p) == Cardinality({i \in DOMAIN list : list[i].origin = p})
Entries(s, h, p) ==
  By(s.announced[h], p) + By(<<s.fetching[h]>>, p) + By(s.fetched[h], p) + By(<<s.completing[h]>>, p)
Outstanding(s, H, p) == SumFunctionOnSet([h \in Hash |-> Entries(s, h, p)], H)

(* Faulty variant of forgetHash: the allowance is not given back. *)
forgetHashCounts(s, H) ==
  [s EXCEPT !.announced = [h \in Hash |-> IF h \in H THEN <<>> ELSE @[h]],
            !.fetching = [h \in Hash |-> IF h \in H THEN NoAnnounce ELSE @[h]],
            !.fetched = [h \in Hash |-> IF h \in H THEN <<>> ELSE @[h]],
            !.completing = [h \in Hash |-> IF h \in H THEN NoAnnounce ELSE @[h]]]

(* forgetHash for each h of H. *)
forgetHash(s, H) ==
  [s EXCEPT !.announces = [p \in Peer |-> @[p] - Outstanding(s, H, p)],
            !.announced = [h \in Hash |-> IF h \in H THEN <<>> ELSE @[h]],
            !.fetching = [h \in Hash |-> IF h \in H THEN NoAnnounce ELSE @[h]],
            !.fetched = [h \in Hash |-> IF h \in H THEN <<>> ELSE @[h]],
            !.completing = [h \in Hash |-> IF h \in H THEN NoAnnounce ELSE @[h]]]

(* Faulty variant of forgetBlock: the count of the peer stays. *)
forgetBlockCounts(s, H) == [s EXCEPT !.queued = [h \in Hash |-> IF h \in H THEN NoPeer ELSE @[h]]]

(* forgetBlock for each h of H. *)
forgetBlock(s, H) ==
  [s EXCEPT !.queues = [p \in Peer |-> @[p] - Cardinality({h \in H : s.queued[h] = p})],
            !.queued = [h \in Hash |-> IF h \in H THEN NoPeer ELSE @[h]]]

TooFar(n) == n - chainHeight < -maxUncleDist \/ n - chainHeight > maxQueueDist

(* Faulty variant of enqueue: a queued block is queued again. *)
enqueueAgain(s, p, h) ==
  IF s.queues[p] + 1 > blockLimit \/ TooFar(Height[h]) THEN forgetHash(s, {h})
  ELSE [s EXCEPT !.queues[p] = @ + 1, !.queued[h] = p, !.queue = @ \cup {h}]

enqueue(s, p, h) ==
  IF s.queues[p] + 1 > blockLimit \/ TooFar(Height[h]) THEN forgetHash(s, {h})
  ELSE IF s.queued[h] # NoPeer THEN s
  ELSE [s EXCEPT !.queues[p] = @ + 1, !.queued[h] = p, !.queue = @ \cup {h}]

(* The head of the loop: expired fetches, then the queue from the lowest number
   up to the first block that does not fit yet. *)
Imports(s) ==
  LET fit   == {h \in s.queue : Height[h] <= chainHeight + 1}
      stale == {h \in fit : Height[h] + maxUncleDist < chainHeight \/ h \in known}
  IN  forgetBlock([s EXCEPT !.queue = @ \ fit,
                            !.importing = [h \in Hash |-> IF h \in fit \ stale THEN "verify" ELSE @[h]]],
                  stale)

(* A turn of the loop whose event leaves s. *)
Turn(s) ==
  /\ ~stopped
  /\ \E expired \in SUBSET Fetching(s) : f' = Imports(forgetHash(s, expired))

(* rescheduleFetch and rescheduleComplete, called when `when` holds. *)
rescheduleFetch(s, when) == fetchTimer' = (fetchTimer \/ (when /\ Announced(s) # {}))

(* Faulty variant of rescheduleComplete: the timer is not set. *)
rescheduleCompleteNever(s, when) == UNCHANGED completeTimer

rescheduleComplete(s, when) == completeTimer' = (completeTimer \/ (when /\ Fetched(s) # {}))

Received == messages < MaxMessages /\ messages' = messages + 1

-----------------------------------------------------------------------
(* The events.  A peer may announce a hash without its number. *)
Notify(p, h, n) ==
  LET scheduled == [f EXCEPT !.announces[p] = @ + 1,
                             !.announced[h] = Append(@, [origin |-> p, number |-> n, header |-> FALSE])]
      refused == \/ f.announces[p] + 1 > hashLimit
                 \/ n > 0 /\ TooFar(n)
                 \/ h \in Fetching(f) \cup Completing(f)
      s == IF refused THEN f ELSE scheduled
  IN  /\ Received /\ h \notin known
      /\ Turn(s)
      /\ rescheduleFetch(s, ~refused /\ Cardinality(Announced(s)) = 1)
      /\ UNCHANGED <<known, completeTimer, stopped>>

Enqueue(p, h) ==
  /\ Received
  /\ Turn(enqueue(f, p, h))
  /\ UNCHANGED <<known, fetchTimer, completeTimer, stopped>>

Done(h) ==
  /\ f.importing[h] = "done"
  /\ Turn(forgetBlock(forgetHash([f EXCEPT !.importing[h] = "none"], {h}), {h}))
  /\ UNCHANGED <<known, fetchTimer, completeTimer, stopped, messages>>

(* The fetch timer: the hashes that are due are asked of one announcer each. *)
FetchTimer ==
  /\ fetchTimer
  /\ \E due \in SUBSET Announced(f) :
     \E pick \in [due -> UNION {Range(f.announced[h]) : h \in due}] :
       LET s == [forgetHash(f, due) EXCEPT !.fetching =
                   [h \in Hash |-> IF h \in due \ known THEN pick[h] ELSE @[h]]]
       IN  /\ \A h \in due : pick[h] \in Range(f.announced[h])
           /\ Turn(s)
           /\ fetchTimer' = (Announced(s) # {})
  /\ UNCHANGED <<known, completeTimer, stopped, messages>>

CompleteTimer ==
  /\ completeTimer
  /\ LET due == Fetched(f)
     IN  \E pick \in [due -> UNION {Range(f.fetched[h]) : h \in due}] :
           LET s == [forgetHash(f, due) EXCEPT !.completing =
                       [h \in Hash |-> IF h \in due \ known THEN pick[h] ELSE @[h]]]
           IN  /\ \A h \in due : pick[h] \in Range(f.fetched[h])
               /\ Turn(s)
               /\ completeTimer' = (Fetched(s) # {})
  /\ UNCHANGED <<known, fetchTimer, stopped, messages>>

(* A single header arrives; one that was not asked for goes to the downloader. *)
Requested(h) ==
  /\ f.fetching[h] # NoAnnounce /\ f.fetched[h] = <<>>
  /\ f.completing[h] = NoAnnounce /\ f.queued[h] = NoPeer

FilterHeader(h) ==
  LET a == [f.fetching[h] EXCEPT !.header = TRUE]
      headed == [f EXCEPT !.fetching[h] = a]
      s == IF a.number # Height[h] \/ h \in known THEN forgetHash(f, {h})
           ELSE IF h \in Empty THEN enqueue([headed EXCEPT !.completing[h] = a], a.origin, h)
           ELSE [headed EXCEPT !.fetched[h] = Append(@, a)]
  IN  /\ Requested(h)
      /\ Turn(s)
      /\ rescheduleComplete(s, Cardinality(Fetched(s)) = 1)
      /\ UNCHANGED <<known, fetchTimer, stopped, messages>>

(* A body arrives: every block in completion that it fits is reassembled and
   enqueued, in any order; what is too far or beyond the allowance of its peer is
   forgotten. *)
FilterBody(c) ==
  LET matched == {h \in Completing(f) : f.queued[h] = NoPeer /\ Content[h] = c}
      near == {h \in matched \ known : ~TooFar(Height[h])}
      from(H, p) == Cardinality({h \in H : f.completing[h].origin = p})
      put(kept) ==
        [forgetHash(f, matched \ kept) EXCEPT
           !.queues = [p \in Peer |-> @[p] + from(kept, p)],
           !.queued = [h \in Hash |-> IF h \in kept THEN f.completing[h].origin ELSE @[h]],
           !.queue = @ \cup kept]
  IN  /\ matched # {}
      /\ \E kept \in SUBSET near :
           /\ \A p \in Peer : from(kept, p) = Min({from(near, p), Max({0, blockLimit - f.queues[p]})})
           /\ Turn(put(kept))
      /\ UNCHANGED <<known, fetchTimer, completeTimer, stopped, messages>>

(* A reply that the fetcher did not ask for takes a turn of the loop all the same. *)
FilterUnknown ==
  /\ Turn(f)
  /\ UNCHANGED <<known, fetchTimer, completeTimer, stopped, messages>>

-----------------------------------------------------------------------
(* The goroutine of insert: parent and header, then the chain, then done. *)
Verify(h) ==
  /\ f.importing[h] = "verify"
  /\ f' = [f EXCEPT !.importing[h] =
             IF (Previous[h] # NoHash /\ Previous[h] \notin known) \/ h \in Bogus
             THEN "done" ELSE "insert"]
  /\ UNCHANGED <<known, fetchTimer, completeTimer, stopped, messages>>

InsertChainFetched(h) ==
  /\ f.importing[h] = "insert"
  /\ known' \in {known, known \cup {h}}
  /\ f' = [f EXCEPT !.importing[h] = "done"]
  /\ UNCHANGED <<fetchTimer, completeTimer, stopped, messages>>

(* The chain gets a block by other means; the fetcher does not notice. *)
OtherImport(h) ==
  /\ h \notin known \cup Bogus /\ (Previous[h] = NoHash \/ Previous[h] \in known)
  /\ known' = known \cup {h}
  /\ UNCHANGED <<f, fetchTimer, completeTimer, stopped, messages>>

Stop ==
  /\ ~stopped /\ stopped' = TRUE
  /\ UNCHANGED <<f, known, fetchTimer, completeTimer, messages>>

FetcherNext ==
  \/ \E p \in Peer, h \in Hash : Notify(p, h, Height[h]) \/ Notify(p, h, 0) \/ Enqueue(p, h)
  \/ \E h \in Hash : Done(h) \/ FilterHeader(h) \/ Verify(h) \/ InsertChainFetched(h) \/ OtherImport(h)
  \/ \E c \in {Content[h] : h \in Hash} : FilterBody(c)
  \/ FetchTimer \/ CompleteTimer \/ FilterUnknown \/ Stop

FetcherSpec == FetcherInit /\ [][FetcherNext]_fetcherVars
-----------------------------------------------------------------------
(* The maps of the fetcher, part of NoAnnounceLeak. *)
FetcherTypeOK ==
  /\ f \in FetcherMaps /\ known \subseteq Hash
  /\ fetchTimer \in BOOLEAN /\ completeTimer \in BOOLEAN
  /\ stopped \in BOOLEAN /\ messages \in 0..MaxMessages

(* A block is imported by one goroutine at a time, and its entry in queued, which
   keeps it from being queued again, lives exactly as long as the block is in the
   queue or in an import (enqueue, insert, forgetBlock). *)
ImportOnce ==
  /\ Queued(f) = f.queue \cup {h \in Hash : f.importing[h] # "none"}
  /\ \A h \in f.queue : f.importing[h] = "none"

(* The allowance of a peer is exact: queues counts the queued blocks it sent, and
   never more than blockLimit of them. *)
QueuesExact ==
  \A p \in Peer : /\ f.queues[p] = Cardinality({h \in Hash : f.queued[h] = p})
                  /\ f.queues[p] <= blockLimit

(* A peer is never refused for announcements that are settled: announces does not
   exceed what is outstanding of the peer (forgetHash at every way out). *)
NoAnnounceLeak ==
  /\ FetcherTypeOK
  /\ \A p \in Peer : f.announces[p] <= Outstanding(f, Hash, p)

(* The header of an announcement is there when a body is matched against it. *)
HeaderBeforeBody ==
  \A h \in Hash : /\ \A i \in DOMAIN f.fetched[h] : f.fetched[h][i].header
                  /\ h \in Completing(f) => f.completing[h].header

(* What waits for a timer has it: an announced hash is asked for, a fetched header
   gets its body, whatever the order of events and resets. *)
TimersSet ==
  ~stopped => /\ Announced(f) # {} => fetchTimer
              /\ Fetched(f) # {} => completeTimer

(* "Per peer announce counts to prevent memory exhaustion": the announcements
   outstanding of a peer stay within hashLimit. *)
AnnouncesBounded == \A p \in Peer : Outstanding(f, Hash, p) <= hashLimit
=======================================================================
