--------------------- MODULE DownloadQueueProofs ---------------------
(* Proofs about DownloadQueue, for any chain, peers and limits: the deliveries, the processor,
   the steps of the component, and its properties. *)
EXTENDS DownloadQueueLemmas

-----------------------------------------------------------------------
(* An answer of which a items are accepted. *)
Answer(s, k, p, a) ==
  LET request == s.pendPool[k][p]
      taken == {request[i] : i \in 1..a}
      emptied == [s EXCEPT !.pendPool[k][p] = <<>>,
                           !.donePool[k] = @ \cup taken, !.taskPool[k] = @ \ taken,
                           !.resultCache = [i \in Slot |->
                              IF @[i].header \in taken THEN Fill(@[i], k) ELSE @[i]]]
  IN  Push(emptied, k, SubSeq(request, a + 1, Len(request)))

(* deliver in the terms of the proofs. *)
LEMMA DeliverIsAnswer ==
  ASSUME NEW k, NEW p, NEW items, NEW good
  PROVE  deliver(k, p, items, good) = Answer(q, k, p, Accepted(k, p, items, good).count)
BY DEF deliver, Answer

(* At most the whole request is accepted, and its containers are there. *)
LEMMA AcceptedFacts ==
  ASSUME QueueInv(q, Zero), NEW k \in Kind, NEW p \in Source, NEW items \in Nat, NEW good
  PROVE  LET r == Accepted(k, p, items, good)
         IN  r.count \in 0..Len(q.pendPool[k][p]) /\ r.failure # "chain"
<1> DEFINE asked == Head(sent[k][p])
           request == q.pendPool[k][p]
           stored(i) == SlotOf(q, request[i]) \in Slot /\ q.resultCache[SlotOf(q, request[i])] # NoResult
           fits(i) == stored(i) /\ i <= good /\ request[i] = asked[i]
           tried == Min({items, Len(request)})
           ms == {m \in 0..tried : \A i \in 1..m : fits(i)}
           accepted == Max(ms)
<1>0. q \in QueueType BY DEF QueueInv, Framed
<1>1. request \in Seq(Number) BY <1>0, Fields
<1>2. Accepted(k, p, items, good) =
        [count |-> accepted, failure |-> IF accepted = tried THEN "none"
                                         ELSE IF stored(accepted + 1) THEN "invalid" ELSE "chain"]
  BY DEF Accepted
<1> HIDE DEF request, asked
<1>3. Len(request) \in Nat BY <1>1
<1>4. tried \in Nat /\ tried <= Len(request)
  <2>1. {items, Len(request)} \in SUBSET Nat BY <1>3
  <2>2. tried \in {items, Len(request)} /\ tried <= Len(request) BY <2>1, MinNat
  <2> QED BY <2>1, <2>2
<1> HIDE DEF tried
<1>5. accepted \in 0..tried
  <2>1. 0 \in ms BY <1>4
  <2>2. ms \in SUBSET (0..tried) OBVIOUS
  <2> HIDE DEF ms
  <2>3. accepted \in ms BY <1>4, <2>1, <2>2, MaxNat
  <2> QED BY <2>2, <2>3
<1>6. \A i \in 1..Len(request) : stored(i)
  <2> SUFFICES ASSUME NEW i \in 1..Len(request) PROVE stored(i) OBVIOUS
  <2>1. request[i] \in Number /\ request[i] \in Range(request) BY <1>1 DEF Range
  <2>2. Asked(q, k, request[i]) > 0 BY <1>0, <2>1, AskedNat DEF request
  <2>3. Stored(q, request[i]) BY <2>1, <2>2 DEF QueueInv, Filled
  <2> QED BY <2>3 DEF Stored
<1> HIDE DEF ms, accepted, stored
<1>7. accepted # tried => accepted + 1 \in 1..Len(request) BY <1>3, <1>4, <1>5
<1>8. accepted # tried => stored(accepted + 1) BY <1>6, <1>7
<1>9. accepted \in 0..Len(request) BY <1>3, <1>4, <1>5
<1> HIDE DEF accepted
<1> QED BY <1>2, <1>8, <1>9 DEF request

Answered(s, t, k, p, taken, rest) ==
  /\ t \in QueueType /\ SameWindow(s, t) /\ taken \in SUBSET Number
  /\ t.pendPool = [s.pendPool EXCEPT ![k][p] = <<>>]
  /\ t.donePool = [s.donePool EXCEPT ![k] = @ \cup taken]
  /\ t.taskPool = [s.taskPool EXCEPT ![k] = @ \ taken]
  /\ \A i \in Slot : t.resultCache[i] =
       IF s.resultCache[i].header \in taken THEN Fill(s.resultCache[i], k) ELSE s.resultCache[i]
  /\ \A n \in Number : t.taskQueue[k][n] = s.taskQueue[k][n] + Times(rest, n)
  /\ \A j \in Kind : j # k => t.taskQueue[j] = s.taskQueue[j]

(* What an answer changes in the queue. *)
LEMMA AnswerShape ==
  ASSUME NEW s \in QueueType, NEW k \in Kind, NEW p \in Source, NEW a \in 0..Len(s.pendPool[k][p])
  PROVE  LET request == s.pendPool[k][p]
         IN  Answered(s, Answer(s, k, p, a), k, p, {request[i] : i \in 1..a},
                      SubSeq(request, a + 1, Len(request)))
<1> DEFINE request == s.pendPool[k][p]
           taken == {request[i] : i \in 1..a}
           rest == SubSeq(request, a + 1, Len(request))
           pp == [s.pendPool EXCEPT ![k][p] = <<>>]
           dp == [s.donePool EXCEPT ![k] = @ \cup taken]
           tp == [s.taskPool EXCEPT ![k] = @ \ taken]
           rc == [i \in Slot |-> IF s.resultCache[i].header \in taken THEN Fill(s.resultCache[i], k)
                                 ELSE s.resultCache[i]]
           e == [s EXCEPT !.pendPool = pp, !.donePool = dp, !.taskPool = tp, !.resultCache = rc]
           t == Answer(s, k, p, a)
<1>1. /\ s.pendPool \in [Kind -> [Source -> Seq(Number)]] /\ s.donePool \in [Kind -> SUBSET Number]
      /\ s.taskPool \in [Kind -> SUBSET Number] /\ s.resultCache \in [Slot -> Result \cup {NoResult}]
  BY Fields
<1>2. t = Push(e, k, rest) BY <1>1 DEF Answer, QueueType
<1>3. request \in Seq(Number) BY <1>1
<1>4. taken \in SUBSET Number /\ rest \in Seq(Number)
  <2>1. a \in 0..Len(request) OBVIOUS
  <2> HIDE DEF request
  <2>2. \A i \in 1..a : request[i] \in Number BY <1>3, <2>1
  <2> QED BY <1>3, <2>1, <2>2
<1> HIDE DEF taken, rest
<1>5. pp \in [Kind -> [Source -> Seq(Number)]]
  <2>1. <<>> \in Seq(Number) OBVIOUS
  <2> QED BY <1>1, <2>1
<1>6. dp \in [Kind -> SUBSET Number] /\ tp \in [Kind -> SUBSET Number] BY <1>1, <1>4
<1>7. rc \in [Slot -> Result \cup {NoResult}]
  <2> SUFFICES ASSUME NEW i \in Slot
               PROVE  (IF s.resultCache[i].header \in taken THEN Fill(s.resultCache[i], k)
                       ELSE s.resultCache[i]) \in Result \cup {NoResult}
    OBVIOUS
  <2>1. s.resultCache[i].header \in taken => s.resultCache[i] \in Result BY <1>1, <1>4, Containers
  <2> QED BY <1>1, <2>1, FillType
<1>8. \A i \in Slot : rc[i] = IF s.resultCache[i].header \in taken THEN Fill(s.resultCache[i], k)
                              ELSE s.resultCache[i]
  OBVIOUS
<1> HIDE DEF pp, dp, tp, rc
<1>9. /\ e \in QueueType /\ SameWindow(s, e) /\ e.taskQueue = s.taskQueue
      /\ e.pendPool = pp /\ e.donePool = dp /\ e.taskPool = tp /\ e.resultCache = rc
  BY <1>5, <1>6, <1>7 DEF QueueType, SameWindow
<1> HIDE DEF e, t
<1>10. /\ t \in QueueType /\ SameFrame(e, t)
       /\ t.taskPool = e.taskPool /\ t.donePool = e.donePool /\ t.resultCache = e.resultCache
       /\ \A n \in Number : t.taskQueue[k][n] = e.taskQueue[k][n] + Times(rest, n)
       /\ \A j \in Kind : j # k => t.taskQueue[j] = e.taskQueue[j]
  BY <1>2, <1>4, <1>9, PushShape
<1>11. SameWindow(s, t) /\ t.pendPool = pp BY <1>9, <1>10 DEF SameFrame, SameWindow
<1>12. Answered(s, t, k, p, taken, rest) BY <1>4, <1>8, <1>9, <1>10, <1>11 DEF Answered, pp, dp, tp
<1> QED BY <1>12 DEF t, rest, taken

(* First the rest of the request goes back and the accepted parts are in the hand;
   then these are done. *)
LEMMA AnswerInv ==
  ASSUME NEW s, QueueInv(s, Zero), NEW k \in Kind, NEW p \in Source, NEW a \in 0..Len(s.pendPool[k][p])
  PROVE  LET t == Answer(s, k, p, a)
         IN  /\ QueueInv(t, Zero) /\ SameWindow(s, t)
             /\ a = 0 => t.donePool = s.donePool
<1> DEFINE request == s.pendPool[k][p]
           taken == {request[i] : i \in 1..a}
           rest == SubSeq(request, a + 1, Len(request))
           t == Answer(s, k, p, a)
           u == Give(s, k, p, <<>>)
           m == Push(u, k, rest)
           H == [j \in Kind |-> [n \in Number |-> IF j = k THEN In(n, taken) ELSE 0]]
<1>0. s \in QueueType BY DEF QueueInv, Framed
<1>1. /\ t \in QueueType /\ SameWindow(s, t) /\ taken \in SUBSET Number
      /\ t.pendPool = [s.pendPool EXCEPT ![k][p] = <<>>]
      /\ t.donePool = [s.donePool EXCEPT ![k] = @ \cup taken]
      /\ t.taskPool = [s.taskPool EXCEPT ![k] = @ \ taken]
      /\ \A i \in Slot : t.resultCache[i] =
           IF s.resultCache[i].header \in taken THEN Fill(s.resultCache[i], k) ELSE s.resultCache[i]
      /\ \A n \in Number : t.taskQueue[k][n] = s.taskQueue[k][n] + Times(rest, n)
      /\ \A j \in Kind : j # k => t.taskQueue[j] = s.taskQueue[j]
  <2>1. Answered(s, t, k, p, taken, rest) BY <1>0, AnswerShape
  <2> HIDE DEF t, taken, rest
  <2> QED BY <2>1 DEF Answered
<1>2. request \in Seq(Number) /\ <<>> \in Seq(Number) BY <1>0, Fields
<1>3. a \in 0..Len(request) OBVIOUS
<1>4. ASSUME NEW n \in Number
      PROVE  /\ Times(request, n) \in Nat /\ Times(request, n) <= Asked(s, k, n)
             /\ Asked(s, k, n) \in Nat /\ Asked(s, k, n) <= 1 /\ s.taskQueue[k][n] \in Nat
  <2>1. Times(request, n) \in Nat /\ Times(request, n) <= Asked(s, k, n) BY <1>0, AskedNat
  <2>2. /\ Asked(s, k, n) \in Nat /\ s.taskQueue[k][n] \in Nat /\ Zero[k][n] = 0
        /\ s.taskQueue[k][n] + Asked(s, k, n) + Zero[k][n] <= 1
    BY ZeroType, OnePlace, SMTT(30)
  <2> QED BY <2>1, <2>2
<1>5. a = 0 => taken = {} OBVIOUS
<1>6. \A n \in taken : n \in Range(request)
  <2> HIDE DEF request
  <2>1. \A i \in 1..a : i \in DOMAIN request BY <1>2, <1>3
  <2> QED BY <2>1 DEF Range
<1> HIDE DEF t, u
<1>7. /\ u \in QueueType /\ SameWindow(s, u) /\ u.taskQueue = s.taskQueue
      /\ u.taskPool = s.taskPool /\ u.donePool = s.donePool /\ u.resultCache = s.resultCache
      /\ u.pendPool = [s.pendPool EXCEPT ![k][p] = <<>>]
  <2>1. \A e \in Seq(Number) : Given(s, Give(s, k, p, e), k, p, e) BY <1>0, GiveShape
  <2>2. Given(s, u, k, p, <<>>) BY <1>2, <2>1 DEF u
  <2> QED BY <2>2 DEF Given
<1> HIDE DEF request
<1>8. \A n \in Number : Times(rest, n) = Times(request, n) - In(n, taken) /\ rest \in Seq(Number)
  <2> SUFFICES ASSUME NEW n \in Number
               PROVE  Times(rest, n) = Times(request, n) - In(n, taken) /\ rest \in Seq(Number)
    OBVIOUS
  <2>1. Times(request, n) <= 1 BY <1>4
  <2> QED BY <1>2, <1>3, <2>1, TimesSuffix DEF In
<1>9. rest \in Seq(Number) BY <1>2, <1>3
<1> HIDE DEF rest, taken, m
<1>10. /\ m \in QueueType /\ SameFrame(u, m)
       /\ m.taskPool = u.taskPool /\ m.donePool = u.donePool /\ m.resultCache = u.resultCache
       /\ \A n \in Number : m.taskQueue[k][n] = u.taskQueue[k][n] + Times(rest, n)
       /\ \A j \in Kind : j # k => m.taskQueue[j] = u.taskQueue[j]
  BY <1>7, <1>9, PushShape DEF m
<1>11. /\ H \in Hands /\ \A n \in Number : H[k][n] = In(n, taken) /\ In(n, taken) \in Nat
       /\ \A j \in Kind : j # k => H[j] = [n \in Number |-> 0]
  <2>1. \A n : In(n, taken) \in Nat BY DEF In
  <2>2. H \in Hands BY <2>1 DEF Hands
  <2> QED BY <2>1, <2>2
<1> HIDE DEF H
<1>12. SameWindow(s, m) /\ m.pendPool = [s.pendPool EXCEPT ![k][p] = <<>>]
  BY <1>7, <1>10 DEF SameFrame, SameWindow
<1>13. QueueInv(m, H)
  <2>1. /\ \A n : Asked(m, k, n) = Asked(s, k, n) - Times(s.pendPool[k][p], n) + Times(<<>>, n)
        /\ \A j \in Kind : \A n : j # k => Asked(m, j, n) = Asked(s, j, n)
    BY <1>0, <1>2, <1>10, <1>12, AskedSwap
  <2>2. ASSUME NEW j \in Kind, NEW n \in Number
        PROVE  /\ m.taskQueue[j][n] + Asked(m, j, n) + H[j][n] = s.taskQueue[j][n] + Asked(s, j, n) + Zero[j][n]
               /\ Asked(m, j, n) > 0 \/ H[j][n] > 0 => Asked(s, j, n) > 0 \/ Zero[j][n] > 0
    <3>1. CASE j = k
      <4>1. Asked(m, k, n) = Asked(s, k, n) - Times(request, n) BY <1>4, <2>1, TimesEmpty DEF request
      <4>2. m.taskQueue[k][n] = s.taskQueue[k][n] + (Times(request, n) - In(n, taken)) BY <1>7, <1>8, <1>10
      <4>3. H[k][n] = In(n, taken) /\ In(n, taken) \in Nat BY <1>11
      <4>4. In(n, taken) > 0 => Asked(s, k, n) > 0
        <5>1. In(n, taken) > 0 => n \in taken BY DEF In
        <5>2. n \in Range(request) => Asked(s, k, n) > 0 BY <1>0, AskedNat DEF request
        <5> QED BY <1>6, <5>1, <5>2
      <4>5. Zero[k][n] = 0 BY ZeroType
      <4>6. Times(request, n) \in Nat /\ Asked(s, k, n) \in Nat /\ s.taskQueue[k][n] \in Nat
            /\ Times(request, n) <= Asked(s, k, n)
        BY <1>4
      <4>7. m.taskQueue[k][n] + Asked(m, k, n) + H[k][n] = s.taskQueue[k][n] + Asked(s, k, n) + Zero[k][n]
        BY <4>1, <4>2, <4>3, <4>5, <4>6
      <4>8. Asked(m, k, n) > 0 \/ H[k][n] > 0 => Asked(s, k, n) > 0 BY <4>1, <4>3, <4>4, <4>6
      <4> QED BY <3>1, <4>7, <4>8
    <3>2. CASE j # k
      <4>1. Asked(m, j, n) = Asked(s, j, n) /\ m.taskQueue[j][n] = s.taskQueue[j][n] BY <1>7, <1>10, <2>1, <3>2
      <4>2. H[j][n] = 0 /\ Zero[j][n] = 0 BY <1>11, <3>2, ZeroType
      <4> QED BY <4>1, <4>2
    <3> QED BY <3>1, <3>2
  <2> QED BY <1>7, <1>10, <1>11, <1>12, <2>2, ZeroType, MovedInv, SMTT(30) DEF SameWindow
<1>14. Finished(m, t, k, taken)
  <2>1. t.taskQueue = m.taskQueue
    <3>1. t.taskQueue \in [Kind -> [Number -> Nat]] /\ m.taskQueue \in [Kind -> [Number -> Nat]]
      BY <1>1, <1>10, Fields
    <3>2. \A n \in Number : t.taskQueue[k][n] = m.taskQueue[k][n] BY <1>1, <1>7, <1>10
    <3>3. t.taskQueue[k] = m.taskQueue[k] BY <3>1, <3>2
    <3>4. \A j \in Kind : t.taskQueue[j] = m.taskQueue[j] BY <1>1, <1>7, <1>10, <3>3
    <3> QED BY <3>1, <3>4
  <2>2. SameWindow(m, t) /\ t.pendPool = m.pendPool BY <1>1, <1>12 DEF SameWindow
  <2>3. m.donePool = s.donePool /\ m.taskPool = s.taskPool /\ m.resultCache = s.resultCache BY <1>7, <1>10
  <2> QED BY <1>1, <2>1, <2>2, <2>3 DEF Finished
<1>15. HandLess(H, Zero, k, taken)
  <2>1. \A n \in taken : H[k][n] > 0 BY <1>1, <1>11 DEF In
  <2>2. \A n \in Number : Zero[k][n] = H[k][n] - In(n, taken) BY <1>11, ZeroType
  <2>3. \A j \in Kind : j # k => Zero[j] = H[j] BY <1>11 DEF Zero
  <2> QED BY <2>1, <2>2, <2>3 DEF HandLess
<1>16. QueueInv(t, Zero) BY <1>1, <1>11, <1>13, <1>14, <1>15, ZeroType, FinishInv
<1>17. a = 0 => t.donePool = s.donePool
  <2>1. s.donePool \in [Kind -> SUBSET Number] BY <1>0, Fields
  <2>2. t.donePool = [s.donePool EXCEPT ![k] = s.donePool[k] \cup taken] BY <1>1
  <2>3. s.donePool[k] \cup {} = s.donePool[k] OBVIOUS
  <2>4. [s.donePool EXCEPT ![k] = s.donePool[k]] = s.donePool BY <2>1
  <2> QED BY <1>5, <2>2, <2>3, <2>4, Zenon
<1> QED BY <1>1, <1>16, <1>17 DEF t

-----------------------------------------------------------------------
(* The processor takes the first c blocks. *)
LEMMA CountFacts ==
  ASSUME NEW s
  PROVE  /\ countProcessableItems(s) \in 0..blockCacheLimit
         /\ \A i \in 1..countProcessableItems(s) : Ready(s, i)
         /\ countProcessableItems(s) = 0 => ~Ready(s, 1)
<1> DEFINE ms == {m \in 0..blockCacheLimit : \A i \in 1..m : Ready(s, i)}
           c == countProcessableItems(s)
<1>1. c = Max(ms) BY DEF countProcessableItems
<1>2. 0 \in ms /\ ms \in SUBSET (0..blockCacheLimit) BY QueueAssumption
<1>3. Ready(s, 1) => 1 \in ms
  <2>1. 1 \in 0..blockCacheLimit BY QueueAssumption
  <2>2. \A i \in 1..1 : i = 1 OBVIOUS
  <2> QED BY <2>1, <2>2
<1>4. \A m \in ms : \A i \in 1..m : Ready(s, i) OBVIOUS
<1> HIDE DEF ms, c
<1>5. c \in ms /\ \A m \in ms : m <= c BY <1>1, <1>2, QueueAssumption, MaxNat
<1>6. c = 0 => ~Ready(s, 1) BY <1>3, <1>5
<1> QED BY <1>2, <1>4, <1>5, <1>6 DEF c

(* A block that is ready has all its parts. *)
LEMMA ReadyDone ==
  ASSUME NEW s, NEW H, QueueInv(s, H), NEW i \in Slot, Ready(s, i)
  PROVE  /\ s.resultCache[i].header = s.resultOffset + i - 1
         /\ s.resultOffset + i - 1 \in Number /\ s.resultOffset + i - 1 <= s.headerHead
         /\ \A k \in Needed(s, s.resultOffset + i - 1) : s.resultOffset + i - 1 \in s.donePool[k]
<1> DEFINE r == s.resultCache[i]
<1>0. s \in QueueType BY DEF QueueInv, Framed
<1>1. r # NoResult /\ r.pending <= 0 BY DEF Ready
<1>2. Container(s, r, i) BY <1>1 DEF QueueInv, Exact
<1>3. r \in Result \cup {NoResult} BY <1>0, Fields
<1> HIDE DEF r
<1>4. r.header \in Number BY <1>1, <1>3, Containers
<1>5. r.header = s.resultOffset + i - 1 /\ r.header <= s.headerHead BY <1>2 DEF Container
<1>6. Needed(s, r.header) \ r.parts = {}
  <2> DEFINE A == Needed(s, r.header) \ r.parts
  <2>1. r.pending = Cardinality(A) BY <1>2 DEF Container
  <2>2. IsFiniteSet(A) BY KindFinite, FS_Subset
  <2> HIDE DEF A
  <2>3. Cardinality(A) \in Nat BY <2>2, FS_CardinalityType
  <2>4. Cardinality(A) = 0 BY <1>1, <2>1, <2>3
  <2>5. A = {} BY <2>2, <2>4, FS_EmptySet
  <2> QED BY <2>5 DEF A
<1>7. \A k \in Needed(s, r.header) : r.header \in s.donePool[k] BY <1>2, <1>6 DEF Container
<1> QED BY <1>4, <1>5, <1>7 DEF r

Taken(s, c) ==
  LET gone == {s.resultCache[i].header : i \in 1..c}
  IN  [s EXCEPT !.donePool = [k \in Kind |-> @[k] \ gone],
                !.resultCache = [i \in Slot |-> IF i + c \in Slot THEN @[i + c] ELSE NoResult],
                !.resultOffset = @ + c]

(* Taking results moves the window on and keeps the invariant. *)
LEMMA TakenInv ==
  ASSUME NEW s, QueueInv(s, Zero), NEW c \in 1..blockCacheLimit, \A i \in 1..c : Ready(s, i)
  PROVE  QueueInv(Taken(s, c), Zero)
<1> DEFINE o == s.resultOffset
           gone == {s.resultCache[i].header : i \in 1..c}
           dp == [k \in Kind |-> s.donePool[k] \ gone]
           rc == [i \in Slot |-> IF i + c \in Slot THEN s.resultCache[i + c] ELSE NoResult]
           off == o + c
           t == [s EXCEPT !.donePool = dp, !.resultCache = rc, !.resultOffset = off]
<1>0. s \in QueueType BY DEF QueueInv, Framed
<1>1. /\ s.donePool \in [Kind -> SUBSET Number] /\ s.resultCache \in [Slot -> Result \cup {NoResult}]
      /\ o \in 1..LastBlock + 1 /\ s.headerHead \in 0..LastBlock /\ LastBlock \in Nat /\ c \in Int /\ c >= 1
      /\ o \in Int /\ s.headerHead \in Int /\ s.pivot \in Int /\ blockCacheLimit \in Int
  BY <1>0, Fields, QueueAssumption
<1>2. \A i \in 1..c : i \in Slot BY <1>1 DEF Slot
<1>3. \A i \in 1..c : /\ s.resultCache[i].header = o + i - 1 /\ o + i - 1 <= s.headerHead
                      /\ \A k \in Needed(s, o + i - 1) : o + i - 1 \in s.donePool[k]
  BY <1>2, ReadyDone
<1>4. \A n : n \in gone <=> n \in Int /\ o <= n /\ n < off
  <2>1. ASSUME NEW n \in gone PROVE n \in Int /\ o <= n /\ n < off
    <3>1. PICK i \in 1..c : n = s.resultCache[i].header OBVIOUS
    <3>2. n = o + i - 1 BY <1>3, <3>1
    <3> QED BY <1>1, <3>2
  <2>2. ASSUME NEW n \in Int, o <= n, n < off PROVE n \in gone
    <3>1. n - o + 1 \in 1..c /\ o + (n - o + 1) - 1 = n BY <1>1, <2>2
    <3>2. s.resultCache[n - o + 1].header = n BY <1>3, <3>1
    <3> QED BY <3>1, <3>2
  <2> QED BY <2>1, <2>2
<1>5. \A n \in gone : n <= s.headerHead /\ \A k \in Needed(s, n) : n \in s.donePool[k]
  <2> SUFFICES ASSUME NEW n \in gone PROVE n <= s.headerHead /\ \A k \in Needed(s, n) : n \in s.donePool[k]
    OBVIOUS
  <2>1. PICK i \in 1..c : n = s.resultCache[i].header OBVIOUS
  <2>2. n = o + i - 1 BY <1>3, <2>1
  <2> QED BY <1>3, <2>2
<1> HIDE DEF gone
<1>6. off \in Int /\ off <= s.headerHead + 1
  <2>1. off - 1 \in gone BY <1>1, <1>4
  <2> QED BY <1>1, <1>5, <2>1
<1>7. off \in 1..LastBlock + 1 BY <1>1, <1>6
<1>8. dp \in [Kind -> SUBSET Number] /\ \A k \in Kind : dp[k] = s.donePool[k] \ gone BY <1>1
<1>9. /\ rc \in [Slot -> Result \cup {NoResult}]
      /\ \A i \in Slot : rc[i] = IF i + c \in Slot THEN s.resultCache[i + c] ELSE NoResult
  BY <1>1
<1>10. Taken(s, c) = t BY DEF Taken, gone
<1> HIDE DEF dp, rc, off
<1>11. /\ t \in QueueType /\ t.mode = s.mode /\ t.pivot = s.pivot /\ t.headerHead = s.headerHead
       /\ t.taskPool = s.taskPool /\ t.taskQueue = s.taskQueue /\ t.pendPool = s.pendPool
       /\ t.donePool = dp /\ t.resultCache = rc /\ t.resultOffset = off
  BY <1>0, <1>7, <1>8, <1>9 DEF QueueType
<1> HIDE DEF t, o
<1>12. \A n : Needed(t, n) = Needed(s, n) BY <1>11 DEF Needed
<1>13. \A k \in Kind : Wanted(t, k) = Wanted(s, k) \ gone
  <2>1. \A n \in off..s.headerHead : n \in o..s.headerHead /\ n \notin gone BY <1>1, <1>4, <1>6 DEF off
  <2>2. \A n \in o..s.headerHead : n \notin gone => n \in off..s.headerHead BY <1>1, <1>4, <1>6
  <2> QED BY <1>11, <1>12, <2>1, <2>2 DEF Wanted, o
<1>14. \A k \in Kind, n \in Number : n \in gone /\ n \in Wanted(s, k) => n \in s.donePool[k]
  BY <1>5 DEF Wanted
<1>15. \A k : \A n : Asked(t, k, n) = Asked(s, k, n) BY <1>11 DEF Asked
<1>16. Framed(t)
  <2>1. s.mode = "fast" => s.pivot + fsHeaderForceVerify <= LastBlock BY DEF QueueInv, Framed
  <2> QED BY <1>6, <1>11, <2>1 DEF Framed
<1>17. Balanced(t, Zero)
  <2> SUFFICES ASSUME NEW k \in Kind, NEW n \in Number
               PROVE  Held(t, k, n) + Zero[k][n] = In(n, Wanted(t, k))
    BY DEF Balanced
  <2>1. /\ s.taskQueue[k][n] \in Nat /\ Asked(s, k, n) \in Nat /\ Zero[k][n] = 0
        /\ s.taskQueue[k][n] + Asked(s, k, n) + In(n, s.donePool[k]) + Zero[k][n] = In(n, Wanted(s, k))
    BY ZeroType, OnePlace, SMTT(30)
  <2>2. Held(t, k, n) = s.taskQueue[k][n] + Asked(s, k, n) + In(n, dp[k]) BY <1>11, <1>15 DEF Held, In
  <2>3. In(n, s.donePool[k]) \in Nat /\ In(n, dp[k]) \in Nat BY DEF In
  <2>4. CASE n \in gone
    <3>1. In(n, dp[k]) = 0 /\ In(n, Wanted(t, k)) = 0 BY <1>8, <1>13, <2>4 DEF In
    <3>2. In(n, s.donePool[k]) = In(n, Wanted(s, k)) \/ In(n, Wanted(s, k)) = 0 BY <1>14, <2>4 DEF In
    <3> QED BY <2>1, <2>2, <2>3, <3>1, <3>2, SMTT(30)
  <2>5. CASE n \notin gone
    <3>1. In(n, dp[k]) = In(n, s.donePool[k]) /\ In(n, Wanted(t, k)) = In(n, Wanted(s, k))
      BY <1>8, <1>13, <2>5 DEF In
    <3> QED BY <2>1, <2>2, <2>3, <3>1
  <2> QED BY <2>4, <2>5
<1>18. Pooled(t)
  <2> SUFFICES ASSUME NEW k \in Kind PROVE t.taskPool[k] = Wanted(t, k) \ t.donePool[k] BY DEF Pooled
  <2>1. s.taskPool[k] = Wanted(s, k) \ s.donePool[k] BY DEF QueueInv, Pooled
  <2>2. \A n \in Wanted(s, k) : n \in gone => n \in s.donePool[k] BY <1>5 DEF Wanted
  <2> QED BY <1>8, <1>11, <1>13, <2>1, <2>2
<1>19. Filled(t, Zero)
  <2> SUFFICES ASSUME NEW k \in Kind, NEW n \in Number,
                      n \in t.donePool[k] \/ Asked(t, k, n) > 0 \/ Zero[k][n] > 0
               PROVE  Stored(t, n)
    BY DEF Filled
  <2>1. n \in dp[k] \/ Asked(s, k, n) > 0 BY <1>11, <1>15, ZeroType
  <2>2. n \in s.donePool[k] \/ Asked(s, k, n) > 0 BY <1>8, <2>1
  <2>3. Stored(s, n) BY <2>2 DEF QueueInv, Filled
  <2>4. n \in Wanted(s, k) BY <2>2, ZeroType, OnePlace, SMTT(30)
  <2>5. n \notin gone
    <3>1. n \in dp[k] => n \notin gone BY <1>8
    <3>2. Asked(s, k, n) > 0 => n \notin s.donePool[k] BY ZeroType, OnePlace, SMTT(30)
    <3> QED BY <1>14, <2>1, <2>4, <3>1, <3>2
  <2>6. n \in Int /\ n >= off
    <3>1. n \in Int BY DEF Number
    <3>2. n >= o BY <1>1, <2>4, <3>1 DEF Wanted, o
    <3> QED BY <1>4, <1>6, <2>5, <3>1, <3>2
  <2>7. n - o + 1 \in Slot /\ s.resultCache[n - o + 1] # NoResult BY <2>3 DEF Stored, SlotOf, o
  <2>8. n - off + 1 \in Slot /\ (n - off + 1) + c = n - o + 1
    <3>1. n - o + 1 <= blockCacheLimit BY <1>1, <2>6, <2>7 DEF Slot
    <3>2. (n - off + 1) + c = n - o + 1 BY <1>1, <2>6 DEF off
    <3>3. n - off + 1 \in 1..blockCacheLimit BY <1>1, <1>6, <2>6, <3>1 DEF off
    <3> QED BY <3>2, <3>3 DEF Slot
  <2>9. rc[n - off + 1] = s.resultCache[n - o + 1] BY <1>9, <2>7, <2>8
  <2> QED BY <1>11, <2>7, <2>8, <2>9 DEF Stored, SlotOf
<1>20. Exact(t)
  <2> SUFFICES ASSUME NEW i \in Slot, t.resultCache[i] # NoResult
               PROVE  Container(t, t.resultCache[i], i)
    BY DEF Exact
  <2>1. i + c \in Slot /\ t.resultCache[i] = s.resultCache[i + c] BY <1>9, <1>11
  <2> DEFINE r == s.resultCache[i + c]
  <2>2. Container(s, r, i + c) BY <2>1 DEF QueueInv, Exact
  <2> HIDE DEF r
  <2>3. r.header = o + (i + c) - 1 /\ r.header <= s.headerHead BY <2>2 DEF Container, o
  <2>4. i \in Int /\ i >= 1 BY <1>1 DEF Slot
  <2>5. r.header = off + i - 1 BY <1>1, <2>3, <2>4 DEF off
  <2>6. r.header \notin gone BY <1>4, <1>6, <2>4, <2>5
  <2>7. {k \in Kind : r.header \in t.donePool[k]} = {k \in Kind : r.header \in s.donePool[k]}
    BY <1>8, <1>11, <2>6
  <2>8. Container(t, r, i) BY <1>11, <1>12, <2>2, <2>3, <2>5, <2>7 DEF Container
  <2> QED BY <2>1, <2>8 DEF r
<1>21. QueueInv(t, Zero) BY <1>16, <1>17, <1>18, <1>19, <1>20 DEF QueueInv
<1> QED BY <1>10, <1>21

(* The processor that finds the next block complete does not sleep. *)
LEMMA CompleteReady ==
  ASSUME NEW s, QueueInv(s, Zero), Complete(s)
  PROVE  Ready(s, 1)
<1> DEFINE o == s.resultOffset
           r == s.resultCache[1]
<1>0. s \in QueueType BY DEF QueueInv, Framed
<1>1. o \in Int /\ s.donePool \in [Kind -> SUBSET Number] /\ "body" \in Kind
      /\ fsHeaderForceVerify \in Int /\ blockCacheLimit \in Int
  BY <1>0, Fields DEF Kind
<1>2. \A n \in s.donePool["body"] : n \in Number /\ Stored(s, n) BY <1>1 DEF QueueInv, Filled
<1>3. "body" \in Needed(s, o) BY DEF Needed, Kind
<1>4. Stored(s, o) BY <1>2, <1>3 DEF Complete
<1>5. SlotOf(s, o) = 1 BY <1>1 DEF SlotOf
<1>6. 1 \in Slot /\ r # NoResult BY <1>4, <1>5 DEF Stored
<1>7. Container(s, r, 1) BY <1>6 DEF QueueInv, Exact
<1> HIDE DEF r
<1>8. r.header = o BY <1>1, <1>7 DEF Container
<1>9. Needed(s, o) \ r.parts = {} BY <1>7, <1>8, KindFinite DEF Container, Complete
<1>10. r.pending <= 0
  <2>1. Cardinality({}) = 0 BY FS_EmptySet, Zenon
  <2>2. r.pending = Cardinality({}) BY <1>7, <1>8, <1>9 DEF Container
  <2> QED BY <2>1, <2>2
<1>11. ASSUME s.mode = "fast", r.header = s.pivot, NEW j \in 1..fsHeaderForceVerify
       PROVE  1 + j \in Slot /\ s.resultCache[1 + j] # NoResult
  <2>1. o + j \in s.donePool["body"] BY <1>8, <1>11 DEF Complete
  <2>2. Stored(s, o + j) BY <1>2, <2>1
  <2>3. SlotOf(s, o + j) = 1 + j BY <1>1 DEF SlotOf
  <2> QED BY <2>2, <2>3 DEF Stored
<1> QED BY <1>6, <1>10, <1>11 DEF Ready, r

-----------------------------------------------------------------------
(* More headers, and a new queue. *)
Scheduled(s, n) ==
  LET new == s.headerHead + 1..n
      fast == {m \in new : s.mode = "fast" /\ m <= s.pivot}
      add(k) == IF k = "body" THEN new ELSE fast
  IN  [s EXCEPT !.headerHead = n,
                !.taskPool = [k \in Kind |-> @[k] \cup add(k)],
                !.taskQueue = [k \in Kind |-> [m \in Number |->
                                 IF m \in add(k) THEN @[k][m] + 1 ELSE @[k][m]]]]

(* Scheduling headers adds their parts, each in one place. *)
LEMMA ScheduledInv ==
  ASSUME NEW s, QueueInv(s, Zero), NEW n \in Number, n > s.headerHead
  PROVE  LET t == Scheduled(s, n)
         IN  /\ QueueInv(t, Zero) /\ t.donePool = s.donePool
             /\ t.mode = s.mode /\ t.pivot = s.pivot /\ t.resultOffset = s.resultOffset
<1> DEFINE new == s.headerHead + 1..n
           fast == {m \in new : s.mode = "fast" /\ m <= s.pivot}
           add(k) == IF k = "body" THEN new ELSE fast
           tp == [k \in Kind |-> s.taskPool[k] \cup add(k)]
           tq == [k \in Kind |-> [m \in Number |-> IF m \in add(k) THEN s.taskQueue[k][m] + 1
                                                   ELSE s.taskQueue[k][m]]]
           t == [s EXCEPT !.headerHead = n, !.taskPool = tp, !.taskQueue = tq]
<1>0. s \in QueueType BY DEF QueueInv, Framed
<1>1. /\ s.taskPool \in [Kind -> SUBSET Number] /\ s.taskQueue \in [Kind -> [Number -> Nat]]
      /\ s.headerHead \in 0..LastBlock /\ LastBlock \in Nat /\ s.resultOffset \in 1..LastBlock + 1
      /\ s.headerHead \in Int /\ s.resultOffset \in Int /\ n \in Int /\ n \in 0..LastBlock
      /\ s.resultOffset <= s.headerHead + 1
  BY <1>0, Fields, QueueAssumption DEF Number, QueueInv, Framed
<1>2. new \in SUBSET Number BY <1>1 DEF Number
<1>3. \A k \in Kind : add(k) = {m \in new : k \in Needed(s, m)} BY DEF Needed, Kind
<1>4. Scheduled(s, n) = t BY DEF Scheduled
<1> HIDE DEF add
<1>5. tp \in [Kind -> SUBSET Number] /\ \A k \in Kind : tp[k] = s.taskPool[k] \cup add(k)
  BY <1>1, <1>2, <1>3
<1>6. /\ tq \in [Kind -> [Number -> Nat]]
      /\ \A k \in Kind, m \in Number : tq[k][m] = s.taskQueue[k][m] + In(m, add(k))
  <2>1. \A k \in Kind, m \in Number :
          s.taskQueue[k][m] \in Nat /\ s.taskQueue[k][m] + 1 \in Nat /\ s.taskQueue[k][m] + 0 = s.taskQueue[k][m]
    BY <1>1
  <2>2. tq \in [Kind -> [Number -> Nat]] BY <2>1
  <2> QED BY <2>1, <2>2 DEF In
<1> HIDE DEF tp, tq
<1>7. /\ t \in QueueType /\ t.mode = s.mode /\ t.pivot = s.pivot /\ t.headerHead = n
      /\ t.taskPool = tp /\ t.taskQueue = tq /\ t.pendPool = s.pendPool
      /\ t.donePool = s.donePool /\ t.resultCache = s.resultCache /\ t.resultOffset = s.resultOffset
  BY <1>0, <1>1, <1>5, <1>6 DEF QueueType
<1> HIDE DEF t
<1>8. \A m : Needed(t, m) = Needed(s, m) /\ SlotOf(t, m) = SlotOf(s, m) BY <1>7 DEF Needed, SlotOf
<1>9. \A k \in Kind : Wanted(t, k) = Wanted(s, k) \cup add(k) /\ Wanted(s, k) \cap add(k) = {}
  <2>1. \A m : m \in s.resultOffset..n <=> m \in s.resultOffset..s.headerHead \/ m \in new BY <1>1
  <2>2. \A m \in s.resultOffset..s.headerHead : m \notin new BY <1>1
  <2> HIDE DEF new
  <2> QED BY <1>3, <1>7, <1>8, <2>1, <2>2 DEF Wanted
<1>10. \A k : \A m : Asked(t, k, m) = Asked(s, k, m) BY <1>7 DEF Asked
<1>11. Framed(t)
  <2>1. s.mode = "fast" => s.pivot + fsHeaderForceVerify <= LastBlock BY DEF QueueInv, Framed
  <2>2. s.resultOffset <= n + 1 BY <1>1
  <2> QED BY <1>7, <2>1, <2>2 DEF Framed
<1>12. Balanced(t, Zero)
  <2> SUFFICES ASSUME NEW k \in Kind, NEW m \in Number
               PROVE  Held(t, k, m) + Zero[k][m] = In(m, Wanted(t, k))
    BY DEF Balanced
  <2>1. /\ s.taskQueue[k][m] \in Nat /\ Asked(s, k, m) \in Nat /\ Zero[k][m] = 0
        /\ s.taskQueue[k][m] + Asked(s, k, m) + In(m, s.donePool[k]) + Zero[k][m] = In(m, Wanted(s, k))
    BY ZeroType, OnePlace, SMTT(30)
  <2>2. Held(t, k, m) = (s.taskQueue[k][m] + In(m, add(k))) + Asked(s, k, m) + In(m, s.donePool[k])
    BY <1>6, <1>7, <1>10 DEF Held, In
  <2>3. In(m, Wanted(t, k)) = In(m, Wanted(s, k)) + In(m, add(k)) BY <1>9 DEF In
  <2>4. In(m, s.donePool[k]) \in Nat /\ In(m, add(k)) \in Nat BY DEF In
  <2> QED BY <2>1, <2>2, <2>3, <2>4
<1>13. Pooled(t)
  <2> SUFFICES ASSUME NEW k \in Kind PROVE t.taskPool[k] = Wanted(t, k) \ t.donePool[k] BY DEF Pooled
  <2>1. s.taskPool[k] = Wanted(s, k) \ s.donePool[k] BY DEF QueueInv, Pooled
  <2>2. s.donePool[k] \in SUBSET Number BY <1>0, Fields
  <2>3. s.donePool[k] \in SUBSET Wanted(s, k) BY <2>2, ZeroType, OnePlace, SMTT(30)
  <2> QED BY <1>5, <1>7, <1>9, <2>1, <2>3
<1>14. \A m : Stored(t, m) <=> Stored(s, m) BY <1>7, <1>8 DEF Stored
<1>15. Filled(t, Zero) BY <1>7, <1>10, <1>14 DEF QueueInv, Filled
<1>16. Exact(t)
  <2> SUFFICES ASSUME NEW i \in Slot, t.resultCache[i] # NoResult
               PROVE  Container(t, t.resultCache[i], i)
    BY DEF Exact
  <2>1. Container(s, s.resultCache[i], i) /\ t.resultCache[i] = s.resultCache[i] BY <1>7 DEF QueueInv, Exact
  <2>2. s.resultCache[i].header \in Int
    <3>1. s.resultCache[i] \in Result \cup {NoResult} BY <1>0, Fields
    <3> QED BY <3>1, Containers
  <2>3. s.resultCache[i].header <= n BY <1>1, <2>1, <2>2 DEF Container
  <2> QED BY <1>7, <1>8, <2>1, <2>3 DEF Container
<1>17. QueueInv(t, Zero) BY <1>11, <1>12, <1>13, <1>15, <1>16 DEF QueueInv
<1> QED BY <1>4, <1>7, <1>17

(* A prepared queue satisfies the invariant. *)
LEMMA NewQueueInv ==
  ASSUME NEW offset \in 1..LastBlock + 1, NEW m \in Modes
  PROVE  QueueInv(NewQueue(offset, m[1], m[2]), Zero)
<1> DEFINE s == NewQueue(offset, m[1], m[2])
<1>1. /\ m[1] \in {"full", "fast"} /\ m[2] \in 0..LastBlock
      /\ m[1] = "fast" => m[2] + fsHeaderForceVerify <= LastBlock
  BY QueueAssumption DEF Modes
<1>2. offset - 1 \in 0..LastBlock BY QueueAssumption
<1>3. [k \in Kind |-> [p \in Source |-> <<>>]] \in [Kind -> [Source -> Seq(Number)]]
  <2>1. <<>> \in Seq(Number) OBVIOUS
  <2> QED BY <2>1
<1>4. /\ s.mode = m[1] /\ s.pivot = m[2] /\ s.headerHead = offset - 1 /\ s.resultOffset = offset
      /\ s.taskPool = [k \in Kind |-> {}] /\ s.taskQueue = [k \in Kind |-> [n \in Number |-> 0]]
      /\ s.pendPool = [k \in Kind |-> [p \in Source |-> <<>>]] /\ s.donePool = [k \in Kind |-> {}]
      /\ s.resultCache = [i \in Slot |-> NoResult] /\ s.closed = FALSE
  BY DEF NewQueue
<1>5. s \in QueueType BY <1>1, <1>2, <1>3 DEF NewQueue, QueueType
<1> HIDE DEF s
<1>6. \A k : Wanted(s, k) = {}
  <2>1. offset..(offset - 1) = {} BY QueueAssumption
  <2> QED BY <1>4, <2>1 DEF Wanted
<1>7. \A k \in Kind : s.donePool[k] = {} /\ s.taskPool[k] = {} BY <1>4
<1>8. \A k \in Kind, n \in Number : s.taskQueue[k][n] = 0 BY <1>4
<1>9. \A k \in Kind, n \in Number : Asked(s, k, n) = 0
  <2>1. Range(<<>>) = {} BY DEF Range
  <2>2. \A k \in Kind, p \in Source : s.pendPool[k][p] = <<>> BY <1>4
  <2>3. \A k \in Kind, p \in Source, n \in Number : n \notin Range(s.pendPool[k][p]) BY <2>1, <2>2
  <2> QED BY <1>5, <2>3, AskedNat
<1>10. Framed(s)
  <2>1. offset <= (offset - 1) + 1 BY QueueAssumption
  <2> QED BY <1>1, <1>4, <1>5, <2>1 DEF Framed
<1>11. Balanced(s, Zero)
  <2> SUFFICES ASSUME NEW k \in Kind, NEW n \in Number
               PROVE  Held(s, k, n) + Zero[k][n] = In(n, Wanted(s, k))
    BY DEF Balanced
  <2>1. In(n, Wanted(s, k)) = 0 BY <1>6 DEF In
  <2>2. Held(s, k, n) = 0 BY <1>7, <1>8, <1>9 DEF Held
  <2> QED BY <2>1, <2>2, ZeroType
<1>12. Pooled(s) BY <1>6, <1>7 DEF Pooled
<1>13. Filled(s, Zero) BY <1>7, <1>9, ZeroType DEF Filled
<1>14. Exact(s) BY <1>4 DEF Exact
<1> QED BY <1>10, <1>11, <1>12, <1>13, <1>14 DEF QueueInv, s

(* Complete depends on the window and on what is done. *)
LEMMA SameComplete ==
  ASSUME NEW s, NEW t, t.mode = s.mode, t.pivot = s.pivot, t.resultOffset = s.resultOffset,
         t.donePool = s.donePool
  PROVE  Complete(t) <=> Complete(s)
BY DEF Complete, Needed

(* Revoke puts back the bodies, then the receipts. *)
LEMMA RevokeInv ==
  ASSUME NEW s, QueueInv(s, Zero), NEW p \in Source
  PROVE  LET t == RevokeAll(s, p)
         IN  QueueInv(t, Zero) /\ t.donePool = s.donePool /\ SameWindow(s, t)
<1> DEFINE u == Back(s, "body", p)
           t == Back(u, "receipt", p)
<1>0. s \in QueueType /\ "body" \in Kind /\ "receipt" \in Kind BY DEF QueueInv, Framed, Kind
<1>1. QueueInv(u, Zero) /\ u.donePool = s.donePool /\ SameWindow(s, u) BY <1>0, BackInv
<1>2. QueueInv(t, Zero) /\ t.donePool = u.donePool /\ SameWindow(u, t) BY <1>0, <1>1, BackInv
<1>3. RevokeAll(s, p) = t BY DEF RevokeAll
<1>4. SameWindow(s, t) BY <1>1, <1>2 DEF SameWindow
<1> QED BY <1>1, <1>2, <1>3, <1>4

-----------------------------------------------------------------------
(* The flags of the peers. *)
LEMMA BusyFree ==
  ASSUME FlagsInv, NEW k \in Kind, NEW p \in Source, NEW b, b = busy \/ b = [busy EXCEPT ![k][p] = FALSE]
  PROVE  b \in [Kind -> [Source -> BOOLEAN]] /\ \A j \in Kind : \A x \in idles[j] : ~b[j][x]
<1>1. /\ idles \in [Kind -> SUBSET Source] /\ busy \in [Kind -> [Source -> BOOLEAN]]
      /\ \A j \in Kind : \A x \in idles[j] : ~busy[j][x]
  BY DEF FlagsInv
<1>2. CASE b = busy BY <1>1, <1>2
<1>3. CASE b = [busy EXCEPT ![k][p] = FALSE]
  <2>1. b \in [Kind -> [Source -> BOOLEAN]] BY <1>1, <1>3
  <2>2. \A j \in Kind, x \in Source : b[j][x] => busy[j][x] BY <1>1, <1>3
  <2>3. \A j \in Kind : \A x \in idles[j] : x \in Source BY <1>1
  <2> QED BY <1>1, <2>1, <2>2, <2>3
<1> QED BY <1>2, <1>3

(* A peer that leaves is no longer fetching. *)
LEMMA LeaveFlags ==
  ASSUME FlagsInv, NEW p \in Source, Leave(p), idles' = idles, events' \in 0..MaxEvents
  PROVE  FlagsInv'
<1>1. /\ idles \in [Kind -> SUBSET Source] /\ busy \in [Kind -> [Source -> BOOLEAN]] /\ peers \subseteq Source
      /\ \A j \in Kind : \A x \in idles[j] : ~busy[j][x]
  BY DEF FlagsInv
<1>2. busy' = [k \in Kind |-> [busy[k] EXCEPT ![p] = FALSE]] /\ peers' \subseteq Source BY <1>1 DEF Leave
<1>3. busy' \in [Kind -> [Source -> BOOLEAN]] BY <1>1, <1>2
<1>4. \A j \in Kind, x \in Source : busy'[j][x] => busy[j][x] BY <1>1, <1>2
<1>5. \A j \in Kind : \A x \in idles[j] : x \in Source BY <1>1
<1> QED BY <1>1, <1>2, <1>3, <1>4, <1>5 DEF FlagsInv

(* An event counts towards the bound. *)
LEMMA EventBound ==
  ASSUME FlagsInv, Event PROVE events' \in 0..MaxEvents
BY QueueAssumption DEF FlagsInv, Event

(* Every step keeps the idle peers apart from the busy ones. *)
LEMMA FlagsStep ==
  ASSUME FlagsInv, QueueNext PROVE FlagsInv'
<1>1. /\ idles \in [Kind -> SUBSET Source] /\ busy \in [Kind -> [Source -> BOOLEAN]] /\ peers \subseteq Source
      /\ events \in 0..MaxEvents /\ \A k \in Kind : \A p \in idles[k] : ~busy[k][p]
  BY DEF FlagsInv
<1>2. ASSUME NEW n \in Number, Schedule(n) PROVE FlagsInv'
  BY <1>1, <1>2 DEF FlagsInv, Schedule
<1>3. ASSUME NEW k \in Kind, IdlePeers(k) PROVE FlagsInv'
  <2>1. idles' = [idles EXCEPT ![k] = {p \in peers : ~busy[k][p]}] /\ UNCHANGED <<peers, busy, events>>
    BY <1>3 DEF IdlePeers
  <2>2. idles' \in [Kind -> SUBSET Source] BY <1>1, <2>1
  <2>3. \A j \in Kind : \A p \in idles'[j] : ~busy[j][p] BY <1>1, <2>1
  <2> QED BY <1>1, <2>1, <2>2, <2>3 DEF FlagsInv
<1>4. ASSUME NEW k \in Kind, Throttled(k) PROVE FlagsInv'
  <2>1. idles' = [idles EXCEPT ![k] = {}] /\ UNCHANGED <<peers, busy, events>> BY <1>4 DEF Throttled
  <2>2. idles' \in [Kind -> SUBSET Source] BY <1>1, <2>1
  <2>3. \A j \in Kind : \A p \in idles'[j] : ~busy[j][p] BY <1>1, <2>1
  <2> QED BY <1>1, <2>1, <2>2, <2>3 DEF FlagsInv
<1>5. ASSUME NEW k \in Kind, NEW p \in Source, NEW count \in 1..MaxRequest, Reserve(k, p, count)
      PROVE  FlagsInv'
  <2>1. /\ idles' = [idles EXCEPT ![k] = @ \ {p}] /\ UNCHANGED <<peers, events>>
        /\ busy' = busy \/ busy' = [busy EXCEPT ![k][p] = TRUE]
    BY <1>5 DEF Reserve
  <2>2. idles' \in [Kind -> SUBSET Source] BY <1>1, <2>1
  <2>3. busy' \in [Kind -> [Source -> BOOLEAN]]
    <3>1. CASE busy' = busy BY <1>1, <3>1
    <3>2. CASE busy' = [busy EXCEPT ![k][p] = TRUE]
      <4>1. [busy[k] EXCEPT ![p] = TRUE] \in [Source -> BOOLEAN] BY <1>1
      <4>2. busy' = [busy EXCEPT ![k] = [busy[k] EXCEPT ![p] = TRUE]] BY <1>1, <3>2
      <4> QED BY <1>1, <4>1, <4>2
    <3> QED BY <2>1, <3>1, <3>2
  <2>4. \A j \in Kind : \A x \in idles'[j] : x \in idles[j] /\ x \in Source /\ (j = k => x # p) BY <1>1, <2>1
  <2>5. \A j \in Kind, x \in Source : (j = k => x # p) => busy'[j][x] = busy[j][x] BY <1>1, <2>1
  <2>6. \A j \in Kind : \A x \in idles'[j] : ~busy'[j][x] BY <1>1, <2>4, <2>5
  <2> QED BY <1>1, <2>1, <2>2, <2>3, <2>6 DEF FlagsInv
<1>6. ASSUME NEW k \in Kind, NEW p \in Source, NEW items \in 0..MaxRequest, NEW good \in 0..MaxRequest,
             Deliver(k, p, items, good)
      PROVE  FlagsInv'
  <2>1. busy' = busy \/ busy' = [busy EXCEPT ![k][p] = FALSE] BY <1>6 DEF Deliver
  <2>2. UNCHANGED <<peers, idles, events>> BY <1>6 DEF Deliver
  <2>3. busy' \in [Kind -> [Source -> BOOLEAN]] /\ \A j \in Kind : \A x \in idles[j] : ~busy'[j][x]
    BY <2>1, BusyFree
  <2> QED BY <1>1, <2>2, <2>3 DEF FlagsInv
<1>7. ASSUME NEW k \in Kind, NEW p \in Source, Expire(k, p) PROVE FlagsInv'
  <2>1. UNCHANGED <<idles, events>> BY <1>7 DEF Expire
  <2>2. \/ peers' = peers /\ busy' = busy
        \/ peers' = peers /\ busy' = [busy EXCEPT ![k][p] = FALSE]
        \/ Leave(p)
    BY <1>7 DEF Expire
  <2>3. CASE Leave(p) BY <1>1, <2>1, <2>3, LeaveFlags
  <2>4. CASE peers' = peers /\ (busy' = busy \/ busy' = [busy EXCEPT ![k][p] = FALSE])
    <3>1. busy' \in [Kind -> [Source -> BOOLEAN]] /\ \A j \in Kind : \A x \in idles[j] : ~busy'[j][x]
      BY <2>4, BusyFree
    <3> QED BY <1>1, <2>1, <2>4, <3>1 DEF FlagsInv
  <2> QED BY <2>2, <2>3, <2>4
<1>8. ASSUME NEW p \in Source, UnregisterPeer(p) PROVE FlagsInv'
  BY <1>8, EventBound, LeaveFlags DEF UnregisterPeer
<1>9. ASSUME NEW p \in Source, RegisterPeer(p) PROVE FlagsInv'
  <2>1. events' \in 0..MaxEvents BY <1>9, EventBound DEF RegisterPeer
  <2>2. peers' \subseteq Source /\ UNCHANGED <<idles, busy>> BY <1>1, <1>9 DEF RegisterPeer
  <2> QED BY <1>1, <2>1, <2>2 DEF FlagsInv
<1>10. ASSUME WaitResults \/ WaitSleeps \/ CancelSync PROVE FlagsInv'
  <2>1. UNCHANGED <<peers, idles, busy, events>> BY <1>10 DEF WaitResults, WaitSleeps, CancelSync
  <2> QED BY <1>1, <2>1 DEF FlagsInv
<1>11. ASSUME NEW n \in Number, NEW m \in Modes, Synchronise(n, m) PROVE FlagsInv'
  <2>1. events' \in 0..MaxEvents BY <1>11, EventBound DEF Synchronise
  <2>2. /\ idles' = [k \in Kind |-> {}] /\ busy' = [k \in Kind |-> [p \in Source |-> FALSE]] /\ peers' = peers
    BY <1>11 DEF Synchronise
  <2>3. idles' \in [Kind -> SUBSET Source] /\ busy' \in [Kind -> [Source -> BOOLEAN]]
        /\ \A k \in Kind : idles'[k] = {}
    BY <2>2
  <2> QED BY <1>1, <2>1, <2>2, <2>3 DEF FlagsInv
<1> QED BY <1>2, <1>3, <1>4, <1>5, <1>6, <1>7, <1>8, <1>9, <1>10, <1>11 DEF QueueNext

-----------------------------------------------------------------------
(* The queue and the processor, action by action. *)
LEMMA Sleeps ==
  ASSUME RunInv, NEW t, t.mode = q.mode, t.pivot = q.pivot, t.resultOffset = q.resultOffset,
         t.donePool = q.donePool, q' = t, broken' = broken, asleep' \in BOOLEAN, asleep' => asleep
  PROVE  RunInv'
<1>1. Complete(t) <=> Complete(q) BY SameComplete
<1>2. Complete(q)' <=> Complete(q) BY <1>1 DEF Complete, Needed
<1> QED BY <1>2 DEF RunInv

(* reserveHeaders keeps the invariant and runs into no error. *)
LEMMA ReserveStep ==
  ASSUME CycleInv, NEW k \in Kind, NEW p \in Source, NEW count, Reserve(k, p, count)
  PROVE  QueueInv(q', Zero) /\ RunInv'
<1> DEFINE s == reserveHeaders(k, p, count)
           back == Push(s.q, k, s.skip)
<1>1. QueueInv(q, Zero) /\ FlagsInv /\ RunInv /\ asleep \in BOOLEAN BY DEF CycleInv, RunInv
<1>2. Space(q, k) > 0 /\ p \in idles[k] /\ broken = "no" BY DEF Reserve
<1>3. CASE q.pendPool[k][p] # <<>>
  <2>1. q' = q /\ asleep' = asleep /\ broken' = broken BY <1>3 DEF Reserve
  <2> QED BY <1>1, <2>1, Sleeps
<1>4. CASE q.pendPool[k][p] = <<>>
  <2>1. TurnInv(k, s) BY <1>1, <1>2, LoopInv
  <2>2. ~s.error /\ s.progress \in BOOLEAN /\ (~s.progress => s.q.donePool = q.donePool)
    BY <2>1 DEF TurnInv, TurnType
  <2>3. /\ s.send = <<>> => QueueInv(back, Zero)
        /\ QueueInv(Give(back, k, p, s.send), Zero)
        /\ SameWindow(q, back) /\ back.donePool = s.q.donePool
        /\ SameWindow(q, Give(back, k, p, s.send))
        /\ Give(back, k, p, s.send).donePool = s.q.donePool
    BY <1>4, <2>1, ReserveInv
  <2>4. asleep' = (asleep /\ ~s.progress) BY <1>4, <2>2 DEF Reserve, Signal
  <2>5. \/ s.send = <<>> /\ q' = back /\ broken' = broken
        \/ q' = Give(back, k, p, s.send) /\ broken' = IF busy[k][p] /\ p \in peers THEN "panic" ELSE "no"
    BY <1>4, <2>2 DEF Reserve, Give
  <2>6. ~busy[k][p] BY <1>1, <1>2 DEF FlagsInv
  <2>7. broken' = "no" BY <1>2, <2>5, <2>6
  <2> HIDE DEF s, back
  <2>8. QueueInv(q', Zero) /\ SameWindow(q, q') /\ q'.donePool = s.q.donePool BY <2>3, <2>5
  <2>9. asleep' \in BOOLEAN /\ (asleep' => asleep /\ ~s.progress) BY <1>1, <2>2, <2>4
  <2>10. CASE s.progress
    <3>1. ~asleep' BY <2>9, <2>10
    <3> QED BY <2>7, <2>8, <2>9, <3>1 DEF RunInv
  <2>11. CASE ~s.progress
    <3>1. q'.donePool = q.donePool BY <2>2, <2>8, <2>11
    <3>2. RunInv' BY <1>1, <1>2, <2>7, <2>8, <2>9, <3>1, Sleeps DEF SameWindow
    <3> QED BY <2>8, <3>2
  <2> QED BY <2>2, <2>10, <2>11
<1> QED BY <1>3, <1>4

(* deliver keeps the invariant and finds its containers. *)
LEMMA DeliverStep ==
  ASSUME CycleInv, NEW k \in Kind, NEW p \in Source, NEW items \in Nat, NEW good, Deliver(k, p, items, good)
  PROVE  QueueInv(q', Zero) /\ RunInv'
<1> DEFINE r == Accepted(k, p, items, good)
<1>1. QueueInv(q, Zero) /\ RunInv /\ asleep \in BOOLEAN BY DEF CycleInv, RunInv
<1>2. CASE q' = q /\ asleep' = asleep /\ broken' = broken BY <1>1, <1>2, Sleeps
<1>3. CASE /\ broken = "no" /\ q' = deliver(k, p, items, good) /\ Signal(r.count > 0)
           /\ broken' = IF r.failure = "chain" THEN "chain" ELSE "no"
  <2>1. r.count \in 0..Len(q.pendPool[k][p]) /\ r.failure # "chain" BY <1>1, AcceptedFacts
  <2>2. q' = Answer(q, k, p, r.count) BY <1>3, DeliverIsAnswer
  <2>3. asleep' = (asleep /\ ~(r.count > 0)) /\ broken' = broken BY <1>3, <2>1 DEF Signal
  <2> HIDE DEF r
  <2>4. QueueInv(q', Zero) /\ SameWindow(q, q') /\ (r.count = 0 => q'.donePool = q.donePool)
    BY <1>1, <2>1, <2>2, AnswerInv
  <2>5. asleep' \in BOOLEAN /\ (asleep' => asleep /\ ~(r.count > 0)) BY <2>3
  <2>6. r.count = 0 \/ r.count > 0
    <3>1. Len(q.pendPool[k][p]) \in Nat
      <4>0. q \in QueueType BY <1>1 DEF QueueInv, Framed
      <4>p. q.pendPool \in [Kind -> [Source -> Seq(Number)]] BY <4>0, Fields
      <4>1. q.pendPool[k][p] \in Seq(Number) BY <4>p
      <4> QED BY <4>1
    <3> QED BY <2>1, <3>1
  <2>7. CASE r.count = 0
    <3>1. q'.donePool = q.donePool BY <2>4, <2>7
    <3>2. RunInv' BY <1>1, <2>3, <2>4, <2>5, <3>1, Sleeps DEF SameWindow
    <3> QED BY <2>4, <3>2
  <2>8. CASE r.count > 0
    <3>1. ~asleep' BY <2>5, <2>8
    <3> QED BY <1>1, <2>3, <2>4, <2>5, <3>1 DEF RunInv
  <2> QED BY <2>6, <2>7, <2>8
<1> QED BY <1>2, <1>3 DEF Deliver

(* Expiry and revocation put a request back and keep the invariant. *)
LEMMA BackStep ==
  ASSUME CycleInv, NEW p \in Source,
         (\E k \in Kind : Expire(k, p)) \/ UnregisterPeer(p)
  PROVE  QueueInv(q', Zero) /\ RunInv'
<1>1. QueueInv(q, Zero) /\ RunInv /\ asleep \in BOOLEAN BY DEF CycleInv, RunInv
<1>2. asleep' = asleep /\ broken' = broken BY DEF Expire, UnregisterPeer
<1>3. QueueInv(q', Zero) /\ q'.donePool = q.donePool /\ SameWindow(q, q')
  <2>1. CASE UnregisterPeer(p)
    <3>1. q' = RevokeAll(q, p) BY <2>1 DEF UnregisterPeer
    <3> QED BY <1>1, <3>1, RevokeInv
  <2>2. ASSUME NEW k \in Kind, Expire(k, p)
        PROVE  QueueInv(q', Zero) /\ q'.donePool = q.donePool /\ SameWindow(q, q')
    <3> DEFINE t == Back(q, k, p)
    <3>1. q' = t \/ q' = RevokeAll(t, p) BY <2>2 DEF Expire
    <3>2. QueueInv(t, Zero) /\ t.donePool = q.donePool /\ SameWindow(q, t) BY <1>1, BackInv
    <3> HIDE DEF t
    <3>3. CASE q' = t BY <3>2, <3>3
    <3>4. CASE q' = RevokeAll(t, p)
      <4>1. QueueInv(q', Zero) /\ q'.donePool = t.donePool /\ SameWindow(t, q') BY <3>2, <3>4, RevokeInv
      <4> QED BY <3>2, <4>1 DEF SameWindow
    <3> QED BY <3>1, <3>3, <3>4
  <2> QED BY <2>1, <2>2
<1>4. RunInv' BY <1>1, <1>2, <1>3, Sleeps DEF SameWindow
<1> QED BY <1>3, <1>4

(* Every step keeps the invariant of the queue. *)
LEMMA QueueStep ==
  ASSUME CycleInv, QueueNext
  PROVE  QueueInv(q', Zero) /\ RunInv'
<1>0. QueueInv(q, Zero) /\ RunInv /\ asleep \in BOOLEAN /\ broken \in {"no", "cancelled"}
  BY DEF CycleInv, RunInv
<1>1. ASSUME q' = q, asleep' = asleep, broken' = broken PROVE QueueInv(q', Zero) /\ RunInv'
  BY <1>0, <1>1, Sleeps
<1>2. ASSUME NEW n \in Number, Schedule(n) PROVE QueueInv(q', Zero) /\ RunInv'
  <2>1. n > q.headerHead /\ q' = Scheduled(q, n) /\ asleep' = asleep /\ broken' = broken
    BY <1>2 DEF Schedule, Scheduled
  <2>2. /\ QueueInv(q', Zero) /\ q'.donePool = q.donePool
        /\ q'.mode = q.mode /\ q'.pivot = q.pivot /\ q'.resultOffset = q.resultOffset
    BY <1>0, <2>1, ScheduledInv
  <2> QED BY <1>0, <2>1, <2>2, Sleeps
<1>3. ASSUME NEW k \in Kind, IdlePeers(k) \/ Throttled(k) PROVE QueueInv(q', Zero) /\ RunInv'
  BY <1>1, <1>3 DEF IdlePeers, Throttled
<1>4. ASSUME NEW k \in Kind, NEW p \in Source, NEW count \in 1..MaxRequest, Reserve(k, p, count)
      PROVE  QueueInv(q', Zero) /\ RunInv'
  BY <1>4, ReserveStep
<1>5. ASSUME NEW k \in Kind, NEW p \in Source, NEW items \in 0..MaxRequest, NEW good \in 0..MaxRequest,
             Deliver(k, p, items, good)
      PROVE  QueueInv(q', Zero) /\ RunInv'
  <2>1. items \in Nat BY QueueAssumption
  <2> QED BY <1>5, <2>1, DeliverStep
<1>6. ASSUME NEW p \in Source, (\E k \in Kind : Expire(k, p)) \/ UnregisterPeer(p)
      PROVE  QueueInv(q', Zero) /\ RunInv'
  BY <1>6, BackStep
<1>7. ASSUME NEW p \in Source, RegisterPeer(p) PROVE QueueInv(q', Zero) /\ RunInv'
  BY <1>1, <1>7 DEF RegisterPeer
<1>8. ASSUME WaitResults PROVE QueueInv(q', Zero) /\ RunInv'
  <2> DEFINE c == countProcessableItems(q)
  <2>1. c > 0 /\ q' = Taken(q, c) /\ ~asleep /\ asleep' = asleep /\ broken' = broken
    BY <1>8 DEF WaitResults, Taken
  <2>2. c \in 0..blockCacheLimit /\ \A i \in 1..c : Ready(q, i) BY CountFacts
  <2> HIDE DEF c
  <2>3. c \in 1..blockCacheLimit BY <2>1, <2>2, QueueAssumption
  <2>4. QueueInv(q', Zero) BY <1>0, <2>1, <2>2, <2>3, TakenInv
  <2> QED BY <1>0, <2>1, <2>4 DEF RunInv
<1>9. ASSUME WaitSleeps PROVE QueueInv(q', Zero) /\ RunInv'
  <2>1. q' = q /\ asleep' = TRUE /\ broken' = broken /\ countProcessableItems(q) = 0 BY <1>9 DEF WaitSleeps
  <2>2. ~Ready(q, 1) BY <2>1, CountFacts
  <2>3. ~Complete(q) BY <1>0, <2>2, CompleteReady
  <2>4. ~Complete(q)' BY <2>1, <2>3 DEF Complete, Needed
  <2> QED BY <1>0, <2>1, <2>4 DEF RunInv
<1>10. ASSUME CancelSync PROVE QueueInv(q', Zero) /\ RunInv'
  <2>1. q' = [q EXCEPT !.closed = TRUE] /\ asleep' = FALSE /\ broken' = "cancelled" BY <1>10 DEF CancelSync
  <2>2. q \in QueueType BY <1>0 DEF QueueInv, Framed
  <2>3. /\ q' \in QueueType /\ q'.mode = q.mode /\ q'.pivot = q.pivot /\ q'.headerHead = q.headerHead
        /\ q'.resultOffset = q.resultOffset /\ q'.taskPool = q.taskPool /\ q'.donePool = q.donePool
        /\ q'.resultCache = q.resultCache /\ q'.taskQueue = q.taskQueue /\ q'.pendPool = q.pendPool
    BY <2>1, <2>2 DEF QueueType
  <2>4. \A k \in Kind, n \in Number :
          /\ q'.taskQueue[k][n] + Asked(q', k, n) + Zero[k][n] = q.taskQueue[k][n] + Asked(q, k, n) + Zero[k][n]
          /\ Asked(q', k, n) > 0 \/ Zero[k][n] > 0 => Asked(q, k, n) > 0 \/ Zero[k][n] > 0
    BY <2>3 DEF Asked
  <2>5. QueueInv(q', Zero) BY <1>0, <2>3, <2>4, ZeroType, MovedInv
  <2> QED BY <2>1, <2>5 DEF RunInv
<1>11. ASSUME NEW n \in Number, NEW m \in Modes, Synchronise(n, m) PROVE QueueInv(q', Zero) /\ RunInv'
  <2>1. q' = NewQueue(n, m[1], m[2]) /\ asleep' = FALSE /\ broken' = "no" BY <1>11 DEF Synchronise
  <2>2. n \in 1..LastBlock + 1 BY QueueAssumption DEF Number
  <2>3. QueueInv(q', Zero) BY <2>1, <2>2, NewQueueInv
  <2> QED BY <2>1, <2>3 DEF RunInv
<1> QED BY <1>2, <1>3, <1>4, <1>5, <1>6, <1>7, <1>8, <1>9, <1>10, <1>11 DEF QueueNext

-----------------------------------------------------------------------
(* A part of the window that is missing is asked for, or it waits and there is room:
   what is done fits into the window beside it. *)
LEMMA MissingPart ==
  ASSUME NEW s, QueueInv(s, Zero), NEW k \in Kind, NEW m \in Wanted(s, k), m \notin s.donePool[k],
         m - s.resultOffset < blockCacheLimit
  PROVE  InFlight(s, k) > 0 \/ (Waiting(s, k) # {} /\ Space(s, k) > 0)
<1> DEFINE o == s.resultOffset
           W == o..(o + blockCacheLimit - 1)
           done == s.donePool[k]
<1>1. s \in QueueType BY DEF QueueInv, Framed
<1>2. /\ o \in 1..LastBlock + 1 /\ o \in Int /\ blockCacheLimit \in Nat /\ done \in SUBSET Number
      /\ s.headerHead \in 0..LastBlock /\ LastBlock \in Nat
  BY <1>1, Fields, QueueAssumption
<1>3. m \in Number /\ m \in Int /\ o <= m BY <1>2 DEF Wanted, Number
<1>4. InFlight(s, k) \in Nat BY <1>1, FlightBound
<1>5. SUFFICES ASSUME InFlight(s, k) = 0 PROVE Waiting(s, k) # {} /\ Space(s, k) > 0 BY <1>4
<1>6. Asked(s, k, m) = 0
  <2>1. IsFiniteSet(Flight(s, k)) /\ Cardinality(Flight(s, k)) = 0
    <3>1. Cardinality(Flight(s, k)) \in Nat /\ Cardinality(Flight(s, k)) <= 0 /\ IsFiniteSet(Flight(s, k))
      BY <1>1, <1>5, FlightBound
    <3> QED BY <3>1
  <2>2. Flight(s, k) = {} BY <2>1, FS_EmptySet
  <2>3. ~(Asked(s, k, m) > 0) BY <1>1, <2>2, FlightBound
  <2>4. Asked(s, k, m) \in Nat BY <1>1, AskedNat
  <2> QED BY <2>3, <2>4
<1>7. m \in Waiting(s, k)
  <2>1. s.taskQueue[k][m] + Asked(s, k, m) + In(m, done) + Zero[k][m] = In(m, Wanted(s, k))
        /\ s.taskQueue[k][m] \in Nat
    <3>1. Placed(s, Zero, k, m) BY <1>3, ZeroType, OnePlaced
    <3> QED BY <3>1 DEF Placed
  <2>2. Zero[k][m] = 0 BY <1>3, ZeroType
  <2>3. In(m, done) = 0 /\ In(m, Wanted(s, k)) = 1 BY DEF In
  <2>4. s.taskQueue[k][m] = 1 BY <1>6, <2>1, <2>2, <2>3
  <2> QED BY <1>3, <2>4 DEF Waiting
<1>8. done \subseteq W \ {m}
  <2>1. ASSUME NEW n \in done PROVE n \in W
    <3>1. n \in Number /\ n \in Int BY <1>2 DEF Number
    <3>2. Stored(s, n) BY <3>1 DEF QueueInv, Filled
    <3>3. n - o + 1 \in 1..blockCacheLimit BY <3>2 DEF Stored, SlotOf, Slot
    <3> QED BY <1>2, <3>1, <3>3
  <2> QED BY <2>1
<1>9. IsFiniteSet(W) /\ Cardinality(W) = blockCacheLimit
  <2> DEFINE last == o + blockCacheLimit - 1
  <2>1. last \in Int /\ ~(o > last) /\ last - o + 1 = blockCacheLimit BY <1>2, QueueAssumption
  <2> HIDE DEF last
  <2>2. IsFiniteSet(o..last) /\ Cardinality(o..last) = IF o > last THEN 0 ELSE last - o + 1
    BY <1>2, <2>1, FS_Interval
  <2> QED BY <2>1, <2>2 DEF last
<1>10. m \in W BY <1>2, <1>3
<1> HIDE DEF W, o, done
<1>11. Cardinality(W \ {m}) = blockCacheLimit - 1 /\ IsFiniteSet(W \ {m}) BY <1>9, <1>10, FS_RemoveElement
<1>12. Cardinality(done) <= blockCacheLimit - 1 /\ Cardinality(done) \in Nat
  BY <1>8, <1>11, FS_Subset, FS_CardinalityType
<1>13. Space(s, k) > 0
  <2>1. Space(s, k) = blockCacheLimit - Cardinality(done) - 0 BY <1>5 DEF Space, done
  <2> QED BY <1>2, <1>12, <2>1
<1> QED BY <1>7, <1>13

(* While the next block is not complete, a part of the window is missing. *)
LEMMA NextMissing ==
  ASSUME NEW s, QueueInv(s, Zero), ~Complete(s), s.headerHead = LastBlock, s.resultOffset <= LastBlock
  PROVE  \E k \in Kind : InFlight(s, k) > 0 \/ (Waiting(s, k) # {} /\ Space(s, k) > 0)
<1>1. s \in QueueType /\ (s.mode = "fast" => s.pivot + fsHeaderForceVerify <= LastBlock)
  BY DEF QueueInv, Framed
<1>2. /\ s.resultOffset \in Int /\ LastBlock \in Int /\ s.pivot \in Int
      /\ blockCacheLimit \in Nat /\ fsHeaderForceVerify \in Nat /\ fsHeaderForceVerify < blockCacheLimit
  BY <1>1, Fields, QueueAssumption
<1>3. CASE \E k \in Needed(s, s.resultOffset) : s.resultOffset \notin s.donePool[k]
  <2>1. PICK k \in Needed(s, s.resultOffset) : s.resultOffset \notin s.donePool[k] BY <1>3
  <2>2. k \in Kind BY KindFinite
  <2>3. s.resultOffset \in Wanted(s, k) /\ s.resultOffset - s.resultOffset < blockCacheLimit
    BY <1>2 DEF Wanted
  <2> QED BY <2>1, <2>2, <2>3, MissingPart
<1>4. CASE /\ s.mode = "fast" /\ s.resultOffset = s.pivot
           /\ \E j \in 1..fsHeaderForceVerify : s.resultOffset + j \notin s.donePool["body"]
  <2>1. PICK j \in 1..fsHeaderForceVerify : s.resultOffset + j \notin s.donePool["body"] BY <1>4
  <2> DEFINE m == s.resultOffset + j
  <2>2. "body" \in Kind /\ "body" \in Needed(s, m) BY DEF Needed, Kind
  <2>3. m \in s.resultOffset..s.headerHead /\ m - s.resultOffset < blockCacheLimit BY <1>1, <1>2, <1>4
  <2>4. m \in Wanted(s, "body") BY <2>2, <2>3 DEF Wanted
  <2> HIDE DEF m
  <2>5. m \notin s.donePool["body"] BY <2>1 DEF m
  <2> QED BY <2>2, <2>3, <2>4, <2>5, MissingPart
<1> QED BY <1>3, <1>4 DEF Complete

-----------------------------------------------------------------------
(* The invariant holds at first. *)
LEMMA FirstCycle == QueueInit => CycleInv
<1> SUFFICES ASSUME QueueInit PROVE CycleInv OBVIOUS
<1>1. PICK m \in Modes : q = NewQueue(1, m[1], m[2]) BY DEF QueueInit
<1>2. 1 \in 1..LastBlock + 1 BY QueueAssumption
<1>3. QueueInv(q, Zero) BY <1>1, <1>2, NewQueueInv
<1>4. /\ peers = Source /\ idles = [k \in Kind |-> {}] /\ busy = [k \in Kind |-> [p \in Source |-> FALSE]]
      /\ asleep = FALSE /\ broken = "no" /\ events = 0
  BY DEF QueueInit
<1>5. idles \in [Kind -> SUBSET Source] /\ busy \in [Kind -> [Source -> BOOLEAN]]
      /\ \A k \in Kind : idles[k] = {}
  BY <1>4
<1>6. FlagsInv BY <1>4, <1>5, QueueAssumption DEF FlagsInv
<1>7. RunInv BY <1>4 DEF RunInv
<1> QED BY <1>3, <1>6, <1>7 DEF CycleInv

(* Every step keeps the invariant of the component. *)
LEMMA QueueInvNext == QueueInv(q', Zero) => QueueInv(q, Zero)'
BY DEF QueueInv, Framed, Balanced, Pooled, Filled, Exact, Stored, Container, SlotOf, Needed, Wanted, Held,
   Asked, Times, In, Zero

(* The queue of the downloader keeps its books in every step of fetchParts, of the peers and
   of the processor, and in a new cycle: every part that is wanted is in one pool, a part that
   is asked for has its container, an idle peer is not fetching, and the processor sleeps only
   when the next block is not complete. *)
THEOREM QueueInvariant == QueueSpec => []CycleInv
<1>1. CycleInv /\ [QueueNext]_queueVars => CycleInv'
  <2> SUFFICES ASSUME CycleInv, [QueueNext]_queueVars PROVE CycleInv' OBVIOUS
  <2>1. CASE QueueNext
    <3>1. FlagsInv' BY <2>1, FlagsStep DEF CycleInv
    <3>2. QueueInv(q', Zero) /\ RunInv' BY <2>1, QueueStep
    <3> QED BY <3>1, <3>2, QueueInvNext DEF CycleInv
  <2>2. CASE UNCHANGED queueVars
    <3>1. QueueInv(q, Zero) /\ FlagsInv /\ RunInv /\ q' = q BY <2>2 DEF CycleInv, queueVars
    <3>2. FlagsInv' BY <2>2, <3>1 DEF FlagsInv, queueVars
    <3>3. broken' = broken /\ asleep' = asleep /\ asleep \in BOOLEAN BY <2>2, <3>1 DEF RunInv, queueVars
    <3>4. RunInv' BY <3>1, <3>3, Sleeps
    <3> QED BY <3>1, <3>2, <3>4, QueueInvNext DEF CycleInv
  <2> QED BY <2>1, <2>2
<1> QED BY <1>1, FirstCycle, PTL DEF QueueSpec

(* Every part of a scheduled block that is wanted is in one place, the task queue, one request
   or the done pool, and taskPool has the ones not done: nothing reserved, delivered short,
   timed out or revoked is lost or fetched twice. *)
THEOREM QueueConservesParts == QueueSpec => []PartsConserved
<1>1. CycleInv => PartsConserved
  <2> SUFFICES ASSUME CycleInv, NEW k \in Kind
               PROVE  /\ \A n \in Number : Held(q, k, n) = IF n \in Wanted(q, k) THEN 1 ELSE 0
                      /\ q.taskPool[k] = Wanted(q, k) \ q.donePool[k]
    BY DEF PartsConserved
  <2>1. QueueInv(q, Zero) BY DEF CycleInv
  <2>2. q.taskPool[k] = Wanted(q, k) \ q.donePool[k] BY <2>1 DEF QueueInv, Pooled
  <2>3. ASSUME NEW n \in Number PROVE Held(q, k, n) = In(n, Wanted(q, k))
    <3>1. Held(q, k, n) + Zero[k][n] = In(n, Wanted(q, k)) BY <2>1 DEF QueueInv, Balanced
    <3>p. Placed(q, Zero, k, n) BY <2>1, ZeroType, OnePlaced
    <3>2. q.taskQueue[k][n] \in Nat /\ Asked(q, k, n) \in Nat BY <3>p DEF Placed
    <3>3. Held(q, k, n) \in Nat BY <3>2 DEF Held
    <3> QED BY <3>1, <3>3, ZeroType
  <2> QED BY <2>2, <2>3 DEF In
<1> QED BY <1>1, QueueInvariant, PTL

(* A container of the result cache is in the slot of its block and its pending counter is the
   number of its parts that are still missing. *)
THEOREM QueueResultsExact == QueueSpec => []ResultsExact
<1>1. CycleInv => ResultsExact
  <2> SUFFICES ASSUME CycleInv PROVE ResultsExact OBVIOUS
  <2>1. QueueInv(q, Zero) /\ FlagsInv /\ RunInv BY DEF CycleInv
  <2>2. QueueTypeOK BY <2>1 DEF QueueTypeOK, QueueInv, Framed, FlagsInv, RunInv
  <2>3. Exact(q) BY <2>1 DEF QueueInv
  <2> QED BY <2>2, <2>3 DEF ResultsExact, Exact, Container
<1> QED BY <1>1, QueueInvariant, PTL

(* A cycle never ends with one of the queue's own errors: no reservation falls outside of the
   result cache, no delivery finds its container gone, no busy peer is given a request. *)
THEOREM QueueNoInternalError == QueueSpec => []NoInternalError
<1>1. CycleInv => NoInternalError BY DEF CycleInv, RunInv, NoInternalError
<1> QED BY <1>1, QueueInvariant, PTL

(* While the processor sleeps in WaitResults and blocks are missing, a part is in flight or one
   waits and the throttle leaves room to reserve it. *)
THEOREM QueueNoStall == QueueSpec => []NoStall
<1>1. CycleInv => NoStall BY NextMissing DEF CycleInv, RunInv, NoStall
<1> QED BY <1>1, QueueInvariant, PTL
=======================================================================
