--------------------- MODULE DownloadQueueLemmas ---------------------
(* The parts of the queue of DownloadQueue: the invariant of the queue, what the operations on
   its pools do to it, and the loop of reserveHeaders. For any chain, peers and limits. *)
EXTENDS DownloadQueue, Sums, FiniteSetTheorems, TLAPS

-----------------------------------------------------------------------
(* How often an item is in a list. *)
Places(list, n) == {i \in DOMAIN list : list[i] = n}

(* The number of places of an item in a list is a number. *)
LEMMA TimesNat ==
  ASSUME NEW S, NEW list \in Seq(S), NEW n
  PROVE  /\ IsFiniteSet(Places(list, n)) /\ Times(list, n) = Cardinality(Places(list, n))
         /\ Times(list, n) \in Nat
         /\ Times(list, n) = 0 <=> n \notin Range(list)
<1>1. Places(list, n) \in SUBSET (1..Len(list)) /\ Len(list) \in Nat BY DEF Places
<1>2. IsFiniteSet(1..Len(list)) BY <1>1, FS_Interval
<1>3. IsFiniteSet(Places(list, n)) BY <1>1, <1>2, FS_Subset
<1>4. Times(list, n) = Cardinality(Places(list, n)) BY DEF Times, Places
<1>5. Cardinality(Places(list, n)) = 0 <=> Places(list, n) = {} BY <1>3, FS_EmptySet
<1>6. Places(list, n) = {} <=> n \notin Range(list) BY DEF Places, Range
<1> QED BY <1>3, <1>4, <1>5, <1>6, FS_CardinalityType

(* The empty list holds nothing. *)
LEMMA TimesEmpty == ASSUME NEW n PROVE Times(<<>>, n) = 0
<1>1. {i \in DOMAIN <<>> : <<>>[i] = n} = {} OBVIOUS
<1>2. Cardinality({}) = 0 BY FS_EmptySet, Zenon
<1> QED BY <1>1, <1>2 DEF Times

(* A task appended to a request is counted once more, the others as before. *)
LEMMA TimesAppend ==
  ASSUME NEW S, NEW list \in Seq(S), NEW a \in S, NEW n
  PROVE  Times(Append(list, a), n) = Times(list, n) + (IF n = a THEN 1 ELSE 0)
<1> DEFINE l == Len(list) + 1
           more == Append(list, a)
<1>1. /\ more \in Seq(S) /\ DOMAIN more = 1..l /\ DOMAIN list = 1..Len(list) /\ Len(list) \in Nat
      /\ more[l] = a /\ \A i \in 1..Len(list) : more[i] = list[i]
  OBVIOUS
<1> HIDE DEF more
<1>2. (\A i : i \in 1..l <=> i \in 1..Len(list) \/ i = l) /\ l \notin 1..Len(list) BY <1>1
<1> HIDE DEF l
<1>3. Places(more, n) = IF n = a THEN Places(list, n) \cup {l} ELSE Places(list, n)
  BY <1>1, <1>2 DEF Places
<1>4. l \notin Places(list, n) BY <1>1, <1>2 DEF Places
<1>5. IsFiniteSet(Places(list, n)) /\ Times(list, n) = Cardinality(Places(list, n))
      /\ Times(more, n) = Cardinality(Places(more, n)) /\ Times(list, n) \in Nat
  BY <1>1, TimesNat
<1>6. Cardinality(Places(list, n) \cup {l}) = Cardinality(Places(list, n)) + 1
  BY <1>4, <1>5, FS_AddElement
<1>7. Times(more, n) = Times(list, n) + (IF n = a THEN 1 ELSE 0) BY <1>3, <1>5, <1>6
<1> QED BY <1>7 DEF more

(* An item that is there once has one place. *)
LEMMA TimesOne ==
  ASSUME NEW S, NEW list \in Seq(S), NEW n
  PROVE  /\ Times(list, n) <= 1 => \A i, j \in DOMAIN list : list[i] = n /\ list[j] = n => i = j
         /\ \A i \in DOMAIN list : Places(list, n) = {i} => Times(list, n) = 1
<1>1. IsFiniteSet(Places(list, n)) /\ Times(list, n) = Cardinality(Places(list, n)) /\ Times(list, n) \in Nat
  BY TimesNat
<1>2. \A i : Cardinality({i}) = 1 BY FS_Singleton
<1>3. ASSUME Times(list, n) <= 1, NEW i \in DOMAIN list, NEW j \in DOMAIN list, list[i] = n, list[j] = n
      PROVE  i = j
  <2>1. i \in Places(list, n) /\ j \in Places(list, n) BY <1>3 DEF Places
  <2>2. Cardinality(Places(list, n)) = 0 <=> Places(list, n) = {} BY <1>1, FS_EmptySet
  <2>3. Cardinality(Places(list, n)) = 1 BY <1>1, <1>3, <2>1, <2>2
  <2>4. \E x : Places(list, n) = {x} BY <1>1, <2>3, FS_Singleton
  <2> QED BY <2>1, <2>4
<1> QED BY <1>1, <1>2, <1>3

(* A list without its first items. *)
LEMMA TimesSuffix ==
  ASSUME NEW S, NEW list \in Seq(S), NEW a \in 0..Len(list), NEW n, Times(list, n) <= 1
  PROVE  /\ SubSeq(list, a + 1, Len(list)) \in Seq(S)
         /\ Times(SubSeq(list, a + 1, Len(list)), n) =
              Times(list, n) - (IF n \in {list[i] : i \in 1..a} THEN 1 ELSE 0)
<1> DEFINE rest == SubSeq(list, a + 1, Len(list))
           l == Len(list)
<1>1. /\ rest \in Seq(S) /\ DOMAIN rest = 1..(l - a) /\ DOMAIN list = 1..l /\ l \in Nat /\ a \in Nat /\ a <= l
      /\ \A i \in 1..(l - a) : rest[i] = list[i + a]
  OBVIOUS
<1> HIDE DEF rest, l
<1>2. /\ Times(list, n) \in Nat /\ Times(rest, n) \in Nat
      /\ Times(list, n) = 0 <=> n \notin Range(list)
      /\ Times(rest, n) = 0 <=> n \notin Range(rest)
  BY <1>1, TimesNat
<1>3. \A i, j \in 1..l : list[i] = n /\ list[j] = n => i = j BY <1>1, TimesOne
<1>4. /\ \A i \in 1..(l - a) : i + a \in 1..l
      /\ \A i \in 1..l : i \in 1..a \/ (i - a \in 1..(l - a) /\ rest[i - a] = list[i])
      /\ \A i \in 1..a : i \in 1..l
      /\ \A i \in 1..(l - a) : i + a \notin 1..a
  BY <1>1
<1>5. CASE n \in {list[i] : i \in 1..a}
  <2>1. PICK i \in 1..a : list[i] = n BY <1>5
  <2>2. n \in Range(list) BY <1>1, <1>4, <2>1 DEF Range
  <2>3. n \notin Range(rest)
    <3>1. ASSUME NEW j \in 1..(l - a), rest[j] = n PROVE FALSE
      <4>1. list[j + a] = n /\ j + a \in 1..l /\ i \in 1..l /\ j + a \notin 1..a BY <1>1, <1>4, <3>1
      <4> QED BY <1>3, <2>1, <4>1
    <3> QED BY <1>1, <3>1 DEF Range
  <2> QED BY <1>1, <1>2, <1>5, <2>2, <2>3 DEF rest, l
<1>6. CASE n \notin {list[i] : i \in 1..a}
  <2>1. n \in Range(list) => n \in Range(rest)
    <3>1. ASSUME NEW i \in 1..l, list[i] = n PROVE n \in Range(rest)
      <4>1. i \notin 1..a BY <1>6, <3>1
      <4>2. i - a \in 1..(l - a) /\ rest[i - a] = n BY <1>4, <3>1, <4>1
      <4> QED BY <1>1, <4>2 DEF Range
    <3> QED BY <1>1, <3>1 DEF Range
  <2>2. n \in Range(rest) => n \in Range(list)
    BY <1>1, <1>4 DEF Range
  <2>3. ASSUME n \in Range(rest) PROVE Times(rest, n) = 1
    <3>1. PICK i \in 1..(l - a) : rest[i] = n BY <1>1, <2>3 DEF Range
    <3>2. ASSUME NEW j \in 1..(l - a), rest[j] = n PROVE j = i
      <4>1. i + a \in 1..l /\ j + a \in 1..l /\ list[i + a] = n /\ list[j + a] = n BY <1>1, <1>4, <3>1, <3>2
      <4>2. i + a = j + a BY <1>3, <4>1
      <4> QED BY <1>1, <4>2
    <3>3. Places(rest, n) = {i} BY <1>1, <3>1, <3>2 DEF Places
    <3> QED BY <1>1, <3>1, <3>3, TimesOne
  <2> QED BY <1>1, <1>2, <1>6, <2>1, <2>2, <2>3 DEF rest, l
<1> QED BY <1>5, <1>6

(* A list has at least as many places as items. *)
LEMMA ItemsBound ==
  ASSUME NEW S, NEW list \in Seq(S)
  PROVE  /\ IsFiniteSet(Range(list)) /\ Cardinality(Range(list)) <= Len(list)
         /\ Len(list) \in Nat /\ Cardinality(Range(list)) \in Nat
<1>1. list \in [1..Len(list) -> Range(list)] /\ Len(list) \in Nat
      /\ \A x \in Range(list) : \E i \in 1..Len(list) : list[i] = x
  BY DEF Range
<1>2. list \in Surjection(1..Len(list), Range(list)) BY <1>1 DEF Surjection
<1>3. IsFiniteSet(1..Len(list)) /\ Cardinality(1..Len(list)) = Len(list)
  <2>1. 1 \in Int /\ Len(list) \in Int BY <1>1
  <2>2. Cardinality(1..Len(list)) = IF 1 > Len(list) THEN 0 ELSE Len(list) - 1 + 1 BY <2>1, FS_Interval
  <2>3. IsFiniteSet(1..Len(list)) BY <2>1, FS_Interval
  <2> QED BY <1>1, <2>2, <2>3
<1>4. IsFiniteSet(Range(list)) /\ Cardinality(Range(list)) <= Len(list) BY <1>2, <1>3, FS_Surjection
<1> QED BY <1>1, <1>4, FS_CardinalityType

-----------------------------------------------------------------------
(* Least and greatest numbers. *)
LEMMA MinNat ==
  ASSUME NEW S \in SUBSET Nat, S # {}
  PROVE  Min(S) \in S /\ \A n \in S : Min(S) <= n
<1>1. PICK m \in S : \A n \in S : m <= n BY LeastNat
<1> QED BY <1>1 DEF Min

(* A bounded set of numbers has a greatest one. *)
LEMMA MaxNat ==
  ASSUME NEW N \in Nat, NEW S \in SUBSET (0..N), S # {}
  PROVE  Max(S) \in S /\ \A n \in S : n <= Max(S)
<1> DEFINE T == {N - n : n \in S}
<1>1. T \in SUBSET Nat /\ T # {} /\ \A n \in S : N - n \in T OBVIOUS
<1>2. \A t \in T : \E n \in S : t = N - n OBVIOUS
<1> HIDE DEF T
<1>3. PICK t \in T : \A u \in T : t <= u BY <1>1, LeastNat
<1>4. PICK m \in S : t = N - m BY <1>2
<1>5. \A n \in S : n <= m BY <1>1, <1>3, <1>4
<1>6. \A n \in S : m >= n BY <1>5
<1>7. Max(S) \in S /\ \A n \in S : Max(S) >= n BY <1>6 DEF Max
<1> QED BY <1>7
-----------------------------------------------------------------------
(* The invariant of the queue s, when the parts that H counts are in nobody's pool:
   reserveHeaders has taken them out of the task queue. *)
Hands == [Kind -> [Number -> Nat]]
Zero == [k \in Kind |-> [n \in Number |-> 0]]
In(n, S) == IF n \in S THEN 1 ELSE 0

(* The frame of the window: what is scheduled ends at most one block behind it. *)
Framed(s) ==
  /\ s \in QueueType /\ s.resultOffset <= s.headerHead + 1
  /\ s.mode = "fast" => s.pivot + fsHeaderForceVerify <= LastBlock

(* Every part that is wanted is in one place, and no other part anywhere. *)
Balanced(s, H) == \A k \in Kind, n \in Number : Held(s, k, n) + H[k][n] = In(n, Wanted(s, k))
Pooled(s) == \A k \in Kind : s.taskPool[k] = Wanted(s, k) \ s.donePool[k]

(* A part that is asked for or done has its container. *)
Stored(s, n) == SlotOf(s, n) \in Slot /\ s.resultCache[SlotOf(s, n)] # NoResult
Filled(s, H) ==
  \A k \in Kind, n \in Number :
    n \in s.donePool[k] \/ Asked(s, k, n) > 0 \/ H[k][n] > 0 => Stored(s, n)

(* A container is in the slot of its block and knows what is done. *)
Container(s, r, i) ==
  /\ r.header = s.resultOffset + i - 1 /\ r.header <= s.headerHead
  /\ r.parts = {k \in Kind : r.header \in s.donePool[k]}
  /\ r.pending = Cardinality(Needed(s, r.header) \ r.parts)
Exact(s) == \A i \in Slot : s.resultCache[i] # NoResult => Container(s, s.resultCache[i], i)

QueueInv(s, H) == Framed(s) /\ Balanced(s, H) /\ Pooled(s) /\ Filled(s, H) /\ Exact(s)

(* The next block is complete, so that the processor can take it. *)
Complete(s) ==
  /\ \A k \in Needed(s, s.resultOffset) : s.resultOffset \in s.donePool[k]
  /\ s.mode = "fast" /\ s.resultOffset = s.pivot =>
       \A j \in 1..fsHeaderForceVerify : s.resultOffset + j \in s.donePool["body"]

(* The invariant of the component: a peer that is listed as idle is not fetching; no
   internal error; the processor sleeps only when the next block is not complete. *)
FlagsInv ==
  /\ peers \subseteq Source /\ events \in 0..MaxEvents
  /\ idles \in [Kind -> SUBSET Source] /\ busy \in [Kind -> [Source -> BOOLEAN]]
  /\ \A k \in Kind : \A p \in idles[k] : ~busy[k][p]
RunInv ==
  /\ broken \in {"no", "cancelled"} /\ asleep \in BOOLEAN
  /\ broken = "no" /\ asleep => ~Complete(q)
CycleInv == QueueInv(q, Zero) /\ FlagsInv /\ RunInv

(* The loop of reserveHeaders: what it holds, and the room that is left. *)
Hand(k, st) == [j \in Kind |-> [n \in Number |-> IF j = k THEN Times(st.send, n) + Times(st.skip, n) ELSE 0]]
TurnType ==
  [q : QueueType, send : Seq(Number), skip : Seq(Number), space : Int, proc : Int,
   progress : BOOLEAN, error : BOOLEAN]
SameFrame(s, t) ==
  /\ t.mode = s.mode /\ t.pivot = s.pivot /\ t.headerHead = s.headerHead
  /\ t.resultOffset = s.resultOffset /\ t.pendPool = s.pendPool /\ t.closed = s.closed
TurnInv(k, st) ==
  /\ st \in TurnType /\ ~st.error /\ QueueInv(st.q, Hand(k, st)) /\ SameFrame(q, st.q)
  /\ st.proc = Len(st.send) + Len(st.skip) /\ st.proc <= st.space
  /\ st.space = Space(st.q, k)
  /\ ~st.progress => st.q.donePool = q.donePool

-----------------------------------------------------------------------
(* What the definitions give. *)
LEMMA KindFinite ==
  /\ IsFiniteSet(Kind)
  /\ \A s, n : Needed(s, n) \subseteq Kind /\ IsFiniteSet(Needed(s, n))
<1>1. IsFiniteSet({"body"}) BY FS_Singleton
<1>2. IsFiniteSet({"body"} \cup {"receipt"}) BY <1>1, FS_AddElement
<1>3. Kind = {"body"} \cup {"receipt"} BY DEF Kind
<1>4. IsFiniteSet(Kind) BY <1>2, <1>3
<1>5. \A s, n : Needed(s, n) \subseteq Kind BY DEF Needed, Kind
<1> QED BY <1>4, <1>5, FS_Subset

(* The types of the fields of the queue and of their entries. *)
LEMMA Fields ==
  ASSUME NEW s \in QueueType
  PROVE  /\ s.mode \in {"full", "fast"} /\ s.pivot \in 0..LastBlock /\ s.headerHead \in 0..LastBlock
         /\ s.resultOffset \in 1..LastBlock + 1 /\ s.closed \in BOOLEAN
         /\ s.taskPool \in [Kind -> SUBSET Number] /\ s.donePool \in [Kind -> SUBSET Number]
         /\ s.taskQueue \in [Kind -> [Number -> Nat]]
         /\ s.pendPool \in [Kind -> [Source -> Seq(Number)]]
         /\ s.resultCache \in [Slot -> Result \cup {NoResult}]
         /\ s.pivot \in Int /\ s.headerHead \in Int /\ s.resultOffset \in Int /\ LastBlock \in Int
         /\ blockCacheLimit \in Int /\ fsHeaderForceVerify \in Int
BY QueueAssumption DEF QueueType

(* A task waits a number of times. *)
LEMMA QueueNat ==
  ASSUME NEW s \in QueueType, NEW k \in Kind, NEW n \in Number PROVE s.taskQueue[k][n] \in Nat
<1>1. s.taskQueue \in [Kind -> [Number -> Nat]] BY Fields
<1> QED BY <1>1

(* The hand holds a task a number of times. *)
LEMMA HandNat ==
  ASSUME NEW H \in Hands, NEW k \in Kind, NEW n \in Number PROVE H[k][n] \in Nat
BY DEF Hands

(* A task is in a number of requests. *)
LEMMA AskedNat ==
  ASSUME NEW s \in QueueType, NEW k \in Kind, NEW n
  PROVE  /\ Asked(s, k, n) \in Nat
         /\ \A p \in Source : /\ Times(s.pendPool[k][p], n) \in Nat
                              /\ Times(s.pendPool[k][p], n) <= Asked(s, k, n)
         /\ (\A p \in Source : n \notin Range(s.pendPool[k][p])) => Asked(s, k, n) = 0
         /\ \A p \in Source : n \in Range(s.pendPool[k][p]) => Asked(s, k, n) > 0
<1> DEFINE f == [p \in Source |-> Times(s.pendPool[k][p], n)]
<1>1. \A p \in Source : s.pendPool[k][p] \in Seq(Number) BY Fields
<1>2. \A p \in Source : /\ f[p] = Times(s.pendPool[k][p], n) /\ f[p] \in Nat
                        /\ f[p] = 0 <=> n \notin Range(s.pendPool[k][p])
  BY <1>1, TimesNat
<1>3. Asked(s, k, n) = SumFunctionOnSet(f, Source) BY DEF Asked
<1> HIDE DEF f
<1>4. /\ SumFunctionOnSet(f, Source) \in Nat
      /\ \A p \in Source : f[p] <= SumFunctionOnSet(f, Source)
      /\ (\A p \in Source : f[p] = 0) => SumFunctionOnSet(f, Source) = 0
  BY <1>2, SumNat, QueueAssumption
<1> QED BY <1>2, <1>3, <1>4

(* When the request of one peer changes, what is asked for changes by the difference. *)
LEMMA AskedSwap ==
  ASSUME NEW s \in QueueType, NEW t \in QueueType, NEW k \in Kind, NEW p \in Source, NEW list \in Seq(Number),
         t.pendPool = [s.pendPool EXCEPT ![k][p] = list]
  PROVE  /\ \A n : Asked(t, k, n) = Asked(s, k, n) - Times(s.pendPool[k][p], n) + Times(list, n)
         /\ \A j \in Kind : \A n : j # k => Asked(t, j, n) = Asked(s, j, n)
<1>0. /\ s.pendPool \in [Kind -> [Source -> Seq(Number)]] /\ t.pendPool \in [Kind -> [Source -> Seq(Number)]]
  BY Fields
<1>1. /\ \A j \in Kind : j # k => t.pendPool[j] = s.pendPool[j]
      /\ t.pendPool[k][p] = list /\ \A x \in Source : x # p => t.pendPool[k][x] = s.pendPool[k][x]
  BY <1>0
<1>2. ASSUME NEW n PROVE Asked(t, k, n) = Asked(s, k, n) - Times(s.pendPool[k][p], n) + Times(list, n)
  <2> DEFINE f == [x \in Source |-> Times(s.pendPool[k][x], n)]
             g == [x \in Source |-> Times(t.pendPool[k][x], n)]
  <2>1. \A x \in Source : f[x] = Times(s.pendPool[k][x], n) /\ g[x] = Times(t.pendPool[k][x], n)
    OBVIOUS
  <2>2. \A x \in Source : Times(s.pendPool[k][x], n) \in Nat /\ Times(t.pendPool[k][x], n) \in Nat
    BY <1>0, TimesNat
  <2>3. Asked(s, k, n) = SumFunctionOnSet(f, Source) /\ Asked(t, k, n) = SumFunctionOnSet(g, Source)
    BY DEF Asked
  <2> HIDE DEF f, g
  <2>4. \A x \in Source : f[x] \in Int /\ g[x] \in Int BY <2>1, <2>2
  <2>5. \A x \in Source : x # p => f[x] = g[x] BY <1>1, <2>1
  <2>6. SumFunctionOnSet(g, Source) = SumFunctionOnSet(f, Source) - f[p] + g[p]
    BY <2>4, <2>5, SumShift, QueueAssumption
  <2> QED BY <1>1, <2>1, <2>3, <2>6
<1>3. ASSUME NEW j \in Kind, NEW n, j # k PROVE Asked(t, j, n) = Asked(s, j, n)
  BY <1>1, <1>3, Zenon DEF Asked
<1> QED BY <1>2, <1>3

(* The change of AskedSwap under one name. *)
Swapped(s, t, k, p, list) ==
  /\ \A n : Asked(t, k, n) = Asked(s, k, n) - Times(s.pendPool[k][p], n) + Times(list, n)
  /\ \A j \in Kind : \A n : j # k => Asked(t, j, n) = Asked(s, j, n)

(* Replacing one source's request changes what is asked for by the two lists. *)
LEMMA RequestSwapped ==
  ASSUME NEW s \in QueueType, NEW t \in QueueType, NEW k \in Kind, NEW p \in Source, NEW list \in Seq(Number),
         t.pendPool = [s.pendPool EXCEPT ![k][p] = list]
  PROVE  Swapped(s, t, k, p, list)
BY AskedSwap DEF Swapped

(* A part in the hand, waiting, asked for or done is wanted, and in no other place. *)
LEMMA OnePlace ==
  ASSUME NEW s, NEW H \in Hands, QueueInv(s, H), NEW k \in Kind, NEW n \in Number
  PROVE  /\ s.taskQueue[k][n] \in Nat /\ Asked(s, k, n) \in Nat /\ H[k][n] \in Nat
         /\ s.taskQueue[k][n] + Asked(s, k, n) + In(n, s.donePool[k]) + H[k][n] = In(n, Wanted(s, k))
         /\ n \in s.donePool[k] => s.taskQueue[k][n] = 0 /\ Asked(s, k, n) = 0 /\ H[k][n] = 0
         /\ s.taskQueue[k][n] > 0 \/ Asked(s, k, n) > 0 \/ H[k][n] > 0 => n \notin s.donePool[k]
         /\ s.taskQueue[k][n] > 0 \/ Asked(s, k, n) > 0 \/ H[k][n] > 0 \/ n \in s.donePool[k] =>
              n \in Wanted(s, k)
         /\ s.taskQueue[k][n] + Asked(s, k, n) + H[k][n] <= 1
<1>1. s \in QueueType /\ Held(s, k, n) + H[k][n] = In(n, Wanted(s, k))
  BY DEF QueueInv, Framed, Balanced
<1>2. s.taskQueue[k][n] \in Nat /\ H[k][n] \in Nat BY <1>1, Fields DEF Hands
<1>3. Asked(s, k, n) \in Nat BY <1>1, AskedNat
<1>4. /\ Held(s, k, n) = s.taskQueue[k][n] + Asked(s, k, n) + In(n, s.donePool[k])
      /\ In(n, s.donePool[k]) \in Nat /\ In(n, Wanted(s, k)) \in Nat /\ In(n, Wanted(s, k)) <= 1
      /\ n \in s.donePool[k] <=> In(n, s.donePool[k]) > 0
      /\ n \in Wanted(s, k) <=> In(n, Wanted(s, k)) > 0
  BY DEF Held, In
<1> QED BY <1>1, <1>2, <1>3, <1>4

(* What is wanted depends on the mode, the pivot and the scheduled headers only. *)
LEMMA SameWanted ==
  ASSUME NEW s, NEW t, t.mode = s.mode, t.pivot = s.pivot, t.headerHead = s.headerHead,
         t.resultOffset = s.resultOffset
  PROVE  /\ \A k : Wanted(t, k) = Wanted(s, k) /\ \A n : Needed(t, n) = Needed(s, n)
         /\ \A n : SlotOf(t, n) = SlotOf(s, n)
BY DEF Wanted, Needed, SlotOf

(* The sum of OnePlace under one name. *)
Placed(s, H, k, n) ==
  /\ s.taskQueue[k][n] \in Nat /\ Asked(s, k, n) \in Nat /\ H[k][n] \in Nat
  /\ s.taskQueue[k][n] + Asked(s, k, n) + In(n, s.donePool[k]) + H[k][n] = In(n, Wanted(s, k))

(* A part of a wanted block is in one place. *)
LEMMA OnePlaced ==
  ASSUME NEW s, NEW H \in Hands, QueueInv(s, H), NEW k \in Kind, NEW n \in Number
  PROVE  Placed(s, H, k, n)
BY OnePlace DEF Placed

(* Parts that move between the task queue, the requests and the hand. *)
LEMMA MovedInv ==
  ASSUME NEW s, NEW t \in QueueType, NEW G \in Hands, NEW H \in Hands, QueueInv(s, G),
         t.mode = s.mode, t.pivot = s.pivot, t.headerHead = s.headerHead, t.resultOffset = s.resultOffset,
         t.taskPool = s.taskPool, t.donePool = s.donePool, t.resultCache = s.resultCache,
         \A k \in Kind, n \in Number :
            /\ t.taskQueue[k][n] + Asked(t, k, n) + H[k][n] = s.taskQueue[k][n] + Asked(s, k, n) + G[k][n]
            /\ Asked(t, k, n) > 0 \/ H[k][n] > 0 => Asked(s, k, n) > 0 \/ G[k][n] > 0
  PROVE  QueueInv(t, H)
<1>1. /\ \A k : Wanted(t, k) = Wanted(s, k) /\ \A n : Needed(t, n) = Needed(s, n)
      /\ \A n : SlotOf(t, n) = SlotOf(s, n)
  BY SameWanted
<1>2. Framed(t) BY DEF QueueInv, Framed
<1>3. Balanced(t, H)
  <2> SUFFICES ASSUME NEW k \in Kind, NEW n \in Number
               PROVE  Held(t, k, n) + H[k][n] = In(n, Wanted(t, k))
    BY DEF Balanced
  <2>1. /\ s.taskQueue[k][n] \in Nat /\ Asked(s, k, n) \in Nat /\ G[k][n] \in Nat
        /\ s.taskQueue[k][n] + Asked(s, k, n) + In(n, s.donePool[k]) + G[k][n] = In(n, Wanted(s, k))
    BY OnePlace
  <2>2. t.taskQueue[k][n] \in Nat /\ Asked(t, k, n) \in Nat /\ H[k][n] \in Nat
    BY QueueNat, HandNat, AskedNat
  <2>3. In(n, t.donePool[k]) = In(n, s.donePool[k]) /\ In(n, s.donePool[k]) \in Nat
        /\ In(n, Wanted(t, k)) = In(n, Wanted(s, k))
    BY <1>1 DEF In
  <2>4. Held(t, k, n) = t.taskQueue[k][n] + Asked(t, k, n) + In(n, t.donePool[k]) BY DEF Held, In
  <2>5. t.taskQueue[k][n] + Asked(t, k, n) + H[k][n] = s.taskQueue[k][n] + Asked(s, k, n) + G[k][n] OBVIOUS
  <2> DEFINE a == t.taskQueue[k][n]
             b == Asked(t, k, n)
             h == H[k][n]
             c == s.taskQueue[k][n]
             d == Asked(s, k, n)
             g == G[k][n]
             i == In(n, s.donePool[k])
             w == In(n, Wanted(s, k))
  <2>6. a \in Nat /\ b \in Nat /\ h \in Nat /\ c \in Nat /\ d \in Nat /\ g \in Nat /\ i \in Nat
    BY <2>1, <2>2, <2>3
  <2>7. c + d + i + g = w /\ a + b + h = c + d + g BY <2>1, <2>5
  <2>8. Held(t, k, n) = a + b + i /\ In(n, Wanted(t, k)) = w BY <2>3, <2>4
  <2> HIDE DEF a, b, h, c, d, g, i, w
  <2>9. a + b + i + h = w BY <2>6, <2>7
  <2> QED BY <2>8, <2>9, Zenon DEF h
<1>4. Pooled(t) BY <1>1 DEF QueueInv, Pooled
<1>5. \A n : Stored(t, n) <=> Stored(s, n) BY <1>1 DEF Stored
<1>6. Filled(t, H) BY <1>5 DEF QueueInv, Filled
<1>7. Exact(t)
  <2>1. \A i, r : Container(s, r, i) => Container(t, r, i) BY <1>1 DEF Container
  <2> QED BY <2>1 DEF QueueInv, Exact
<1> QED BY <1>2, <1>3, <1>4, <1>6, <1>7 DEF QueueInv

(* The premise of MovedInv under one name. *)
Rearranged(s, t, G, H) ==
  \A k \in Kind, n \in Number :
     /\ t.taskQueue[k][n] + Asked(t, k, n) + H[k][n] = s.taskQueue[k][n] + Asked(s, k, n) + G[k][n]
     /\ Asked(t, k, n) > 0 \/ H[k][n] > 0 => Asked(s, k, n) > 0 \/ G[k][n] > 0

(* Tasks that only change places keep the invariant. *)
LEMMA RearrangedInv ==
  ASSUME NEW s, NEW t \in QueueType, NEW G \in Hands, NEW H \in Hands, QueueInv(s, G),
         t.mode = s.mode, t.pivot = s.pivot, t.headerHead = s.headerHead, t.resultOffset = s.resultOffset,
         t.taskPool = s.taskPool, t.donePool = s.donePool, t.resultCache = s.resultCache,
         Rearranged(s, t, G, H)
  PROVE  QueueInv(t, H)
BY MovedInv DEF Rearranged

(* A slot is empty or holds a container of a block. *)
LEMMA Containers ==
  ASSUME NEW r \in Result \cup {NoResult}
  PROVE  /\ r # NoResult <=> r.header \in Number
         /\ r # NoResult => r \in Result
         /\ r \in Result => r.pending \in Int /\ r.parts \in SUBSET Kind /\ r.header \in Number
         /\ r.header \in Int
<1>1. NoResult.header = 0 /\ 0 \notin Number BY DEF NoResult, Number
<1>2. r \in Result => r.header \in Number /\ r.pending \in Int /\ r.parts \in SUBSET Kind BY DEF Result
<1> QED BY <1>1, <1>2, QueueAssumption DEF Number

(* One part less is missing. *)
LEMMA PartLess ==
  ASSUME NEW s, NEW n, NEW P \in SUBSET Kind, NEW k \in Needed(s, n), k \notin P
  PROVE  /\ Cardinality(Needed(s, n) \ (P \cup {k})) = Cardinality(Needed(s, n) \ P) - 1
         /\ Cardinality(Needed(s, n) \ P) \in Nat
<1> DEFINE A == Needed(s, n) \ P
<1>1. IsFiniteSet(A) BY KindFinite, FS_Subset
<1>2. k \in A /\ Needed(s, n) \ (P \cup {k}) = A \ {k} OBVIOUS
<1> HIDE DEF A
<1>3. Cardinality(A \ {k}) = Cardinality(A) - 1 /\ Cardinality(A) \in Nat
  BY <1>1, <1>2, FS_RemoveElement, FS_CardinalityType
<1> QED BY <1>2, <1>3 DEF A

(* Parts in the hand are done: an answer, or a part with nothing to fetch. *)
SameWindow(s, t) ==
  /\ t.mode = s.mode /\ t.pivot = s.pivot /\ t.headerHead = s.headerHead /\ t.resultOffset = s.resultOffset
Finished(s, t, k, taken) ==
  /\ SameWindow(s, t) /\ t.taskQueue = s.taskQueue /\ t.pendPool = s.pendPool
  /\ t.donePool = [s.donePool EXCEPT ![k] = @ \cup taken]
  /\ t.taskPool = [s.taskPool EXCEPT ![k] = @ \ taken]
  /\ \A i \in Slot : t.resultCache[i] =
       IF s.resultCache[i].header \in taken THEN Fill(s.resultCache[i], k) ELSE s.resultCache[i]
HandLess(H, G, k, taken) ==
  /\ \A n \in taken : H[k][n] > 0
  /\ \A n \in Number : G[k][n] = H[k][n] - In(n, taken)
  /\ \A j \in Kind : j # k => G[j] = H[j]

(* A part that is in hand is finished: it moves to donePool and its container counts
   it. *)
LEMMA FinishInv ==
  ASSUME NEW s, NEW t \in QueueType, NEW H \in Hands, NEW G \in Hands, QueueInv(s, H),
         NEW k \in Kind, NEW taken \in SUBSET Number,
         Finished(s, t, k, taken), HandLess(H, G, k, taken)
  PROVE  QueueInv(t, G)
<1>0. s \in QueueType BY DEF QueueInv, Framed
<1>1. /\ \A j : Wanted(t, j) = Wanted(s, j) /\ \A n : Needed(t, n) = Needed(s, n)
      /\ \A n : SlotOf(t, n) = SlotOf(s, n)
  BY SameWanted DEF Finished, SameWindow
<1>2. \A n \in taken : n \in Number /\ n \in Wanted(s, k) /\ n \notin s.donePool[k] /\ Stored(s, n)
  <2> SUFFICES ASSUME NEW n \in taken
               PROVE  n \in Number /\ n \in Wanted(s, k) /\ n \notin s.donePool[k] /\ Stored(s, n)
    OBVIOUS
  <2>1. n \in Number /\ H[k][n] > 0 BY DEF HandLess
  <2>2. n \in Wanted(s, k) /\ n \notin s.donePool[k] BY <2>1, OnePlace
  <2> QED BY <2>1, <2>2 DEF QueueInv, Filled
<1>3. /\ s.donePool \in [Kind -> SUBSET Number] /\ s.taskPool \in [Kind -> SUBSET Number]
      /\ \A i \in Slot : s.resultCache[i] \in Result \cup {NoResult}
      /\ \A i \in Slot : t.resultCache[i] \in Result \cup {NoResult}
  BY <1>0, Fields
<1>4. /\ t.donePool[k] = s.donePool[k] \cup taken /\ t.taskPool[k] = s.taskPool[k] \ taken
      /\ \A j \in Kind : j # k => t.donePool[j] = s.donePool[j] /\ t.taskPool[j] = s.taskPool[j]
  BY <1>3 DEF Finished
<1>5. Framed(t) BY DEF QueueInv, Framed, Finished, SameWindow
<1>6. Balanced(t, G)
  <2> SUFFICES ASSUME NEW j \in Kind, NEW n \in Number
               PROVE  Held(t, j, n) + G[j][n] = In(n, Wanted(t, j))
    BY DEF Balanced
  <2>1. /\ s.taskQueue[j][n] \in Nat /\ Asked(s, j, n) \in Nat /\ H[j][n] \in Nat
        /\ s.taskQueue[j][n] + Asked(s, j, n) + In(n, s.donePool[j]) + H[j][n] = In(n, Wanted(s, j))
    BY OnePlace
  <2>2. t.taskQueue[j][n] = s.taskQueue[j][n] BY DEF Finished
  <2>3. Asked(t, j, n) = Asked(s, j, n) BY DEF Asked, Finished
  <2>4. Held(t, j, n) = t.taskQueue[j][n] + Asked(t, j, n) + In(n, t.donePool[j]) BY DEF Held, In
  <2>5. CASE j # k
    <3>1. G[j] = H[j] /\ t.donePool[j] = s.donePool[j] BY <1>4, <2>5 DEF HandLess
    <3>2. In(n, s.donePool[j]) \in Nat BY DEF In
    <3> QED BY <1>1, <2>1, <2>2, <2>3, <2>4, <3>1, <3>2
  <2>6. CASE j = k
    <3>1. In(n, t.donePool[k]) = In(n, s.donePool[k]) + In(n, taken) BY <1>2, <1>4 DEF In
    <3>2. In(n, s.donePool[k]) \in Nat /\ In(n, taken) \in Nat BY DEF In
    <3>3. G[k][n] = H[k][n] - In(n, taken) BY DEF HandLess
    <3> QED BY <1>1, <2>1, <2>2, <2>3, <2>4, <2>6, <3>1, <3>2, <3>3
  <2> QED BY <2>5, <2>6
<1>7. Pooled(t) BY <1>1, <1>4 DEF QueueInv, Pooled
<1>8. ASSUME NEW i \in Slot
      PROVE  /\ t.resultCache[i] # NoResult <=> s.resultCache[i] # NoResult
             /\ t.resultCache[i].header = s.resultCache[i].header
  <2> DEFINE r == s.resultCache[i]
  <2>1. r \in Result \cup {NoResult} BY <1>3
  <2>2. /\ r # NoResult <=> r.header \in Number
        /\ t.resultCache[i] # NoResult <=> t.resultCache[i].header \in Number
    BY <1>3, Containers
  <2>3. CASE r.header \in taken
    <3>1. r \in Result BY <2>1, <2>2, <2>3, Containers
    <3>2. t.resultCache[i] = Fill(r, k) BY <2>3 DEF Finished
    <3>3. Fill(r, k).header = r.header BY <3>1 DEF Result, Fill
    <3> QED BY <2>2, <3>2, <3>3
  <2>4. CASE r.header \notin taken BY <2>4 DEF Finished
  <2> QED BY <2>3, <2>4
<1>9. \A n : Stored(t, n) <=> Stored(s, n) BY <1>1, <1>8 DEF Stored
<1>10. Filled(t, G)
  <2> SUFFICES ASSUME NEW j \in Kind, NEW n \in Number,
                      n \in t.donePool[j] \/ Asked(t, j, n) > 0 \/ G[j][n] > 0
               PROVE  Stored(s, n)
    BY <1>9 DEF Filled
  <2>1. Asked(t, j, n) = Asked(s, j, n) BY DEF Asked, Finished
  <2>2. G[j][n] > 0 => H[j][n] > 0
    <3>1. H[j][n] \in Nat /\ In(n, taken) \in Nat BY DEF Hands, In
    <3>2. G[j][n] = H[j][n] \/ G[j][n] = H[j][n] - In(n, taken) BY DEF HandLess
    <3> QED BY <3>1, <3>2
  <2>3. n \in t.donePool[j] => n \in s.donePool[j] \/ n \in taken BY <1>4
  <2> QED BY <1>2, <2>1, <2>2, <2>3 DEF QueueInv, Filled
<1>11. Exact(t)
  <2> SUFFICES ASSUME NEW i \in Slot, t.resultCache[i] # NoResult
               PROVE  Container(t, t.resultCache[i], i)
    BY DEF Exact
  <2> DEFINE r == s.resultCache[i]
  <2>1. r # NoResult /\ r \in Result /\ Container(s, r, i)
    BY <1>3, <1>8, Containers DEF QueueInv, Exact
  <2>2. t.resultCache[i] = IF r.header \in taken THEN Fill(r, k) ELSE r BY DEF Finished
  <2> HIDE DEF r
  <2>3. r.pending \in Int /\ r.parts \in SUBSET Kind /\ r.header \in Number BY <2>1, Containers
  <2>4. t.headerHead = s.headerHead /\ t.resultOffset = s.resultOffset BY DEF Finished, SameWindow
  <2>5. CASE r.header \in taken
    <3>1. Fill(r, k).header = r.header /\ Fill(r, k).pending = r.pending - 1 /\ Fill(r, k).parts = r.parts \cup {k}
      BY <2>1 DEF Result, Fill
    <3>2. k \notin r.parts /\ r.parts \cup {k} = {j \in Kind : r.header \in t.donePool[j]}
      BY <1>2, <1>4, <2>1, <2>5 DEF Container
    <3>3. k \in Needed(s, r.header) BY <1>2, <2>5 DEF Wanted
    <3>4. Cardinality(Needed(s, r.header) \ (r.parts \cup {k})) = Cardinality(Needed(s, r.header) \ r.parts) - 1
      BY <2>3, <3>2, <3>3, PartLess
    <3>5. Container(t, Fill(r, k), i) BY <1>1, <2>1, <2>4, <3>1, <3>2, <3>4 DEF Container
    <3> QED BY <2>2, <2>5, <3>5
  <2>6. CASE r.header \notin taken
    <3>1. {j \in Kind : r.header \in t.donePool[j]} = {j \in Kind : r.header \in s.donePool[j]}
      BY <1>4, <2>6
    <3>2. Container(t, r, i) BY <1>1, <2>1, <2>4, <3>1 DEF Container
    <3> QED BY <2>2, <2>6, <3>2
  <2> QED BY <2>5, <2>6
<1> QED BY <1>5, <1>6, <1>7, <1>10, <1>11 DEF QueueInv

-----------------------------------------------------------------------
(* What the operations on the pools do to the fields of the queue. *)
LEMMA PushShape ==
  ASSUME NEW s \in QueueType, NEW k \in Kind, NEW list \in Seq(Number)
  PROVE  LET t == Push(s, k, list)
         IN  /\ t \in QueueType /\ SameFrame(s, t)
             /\ t.taskPool = s.taskPool /\ t.donePool = s.donePool /\ t.resultCache = s.resultCache
             /\ t.taskQueue \in [Kind -> [Number -> Nat]]
             /\ \A n \in Number : t.taskQueue[k][n] = s.taskQueue[k][n] + Times(list, n)
             /\ \A j \in Kind : j # k => t.taskQueue[j] = s.taskQueue[j]
<1> DEFINE f == [n \in Number |-> s.taskQueue[k][n] + Times(list, n)]
           t == [s EXCEPT !.taskQueue = [s.taskQueue EXCEPT ![k] = f]]
<1>1. s.taskQueue \in [Kind -> [Number -> Nat]] BY Fields
<1>2. \A n \in Number : Times(list, n) \in Nat BY TimesNat
<1>3. f \in [Number -> Nat] /\ \A n \in Number : f[n] = s.taskQueue[k][n] + Times(list, n)
  BY <1>1, <1>2
<1>4. Push(s, k, list) = t BY <1>1 DEF Push, QueueType
<1> HIDE DEF f
<1>5. [s.taskQueue EXCEPT ![k] = f] \in [Kind -> [Number -> Nat]] BY <1>1, <1>3
<1>6. /\ t \in QueueType /\ SameFrame(s, t)
      /\ t.taskPool = s.taskPool /\ t.donePool = s.donePool /\ t.resultCache = s.resultCache
      /\ t.taskQueue = [s.taskQueue EXCEPT ![k] = f]
  BY <1>5 DEF QueueType, SameFrame
<1> HIDE DEF t
<1>7. t.taskQueue[k] = f /\ \A j \in Kind : j # k => t.taskQueue[j] = s.taskQueue[j] BY <1>1, <1>6
<1> QED BY <1>3, <1>4, <1>5, <1>6, <1>7

(* The queue t is s after n is taken out of the task queue and has its container. *)
Created(s, n) == [header |-> n, pending |-> Cardinality(Needed(s, n)), parts |-> {}]
Took(s, t, k, n, c, new) ==
  /\ t \in QueueType /\ SameFrame(s, t) /\ t.taskPool = s.taskPool /\ t.donePool = s.donePool
  /\ t.taskQueue = [s.taskQueue EXCEPT ![k][n] = s.taskQueue[k][n] - 1]
  /\ t.resultCache = [s.resultCache EXCEPT ![c] = IF s.resultCache[c] = NoResult THEN new
                                                  ELSE s.resultCache[c]]
(* What taking a task from the queue and creating its container changes. *)
LEMMA TakeShape ==
  ASSUME NEW s \in QueueType, NEW k \in Kind, NEW n \in Number, s.taskQueue[k][n] > 0, SlotOf(s, n) \in Slot
  PROVE  Took(s, Hold(Pop(s, k, n), n), k, n, SlotOf(s, n), Created(s, n)) /\ Created(s, n) \in Result
<1> DEFINE i == SlotOf(s, n)
           new == [header |-> n, pending |-> Cardinality(Needed(s, n)), parts |-> {}]
           tq == [s.taskQueue EXCEPT ![k][n] = s.taskQueue[k][n] - 1]
           rc == [s.resultCache EXCEPT ![i] = IF s.resultCache[i] = NoResult THEN new ELSE s.resultCache[i]]
           u == [s EXCEPT !.taskQueue = tq]
           t == [u EXCEPT !.resultCache = rc]
<1>1. s.taskQueue \in [Kind -> [Number -> Nat]] /\ s.resultCache \in [Slot -> Result \cup {NoResult}]
  BY Fields
<1>2. Pop(s, k, n) = u BY <1>1 DEF Pop, QueueType
<1>3. tq \in [Kind -> [Number -> Nat]]
  <2>1. s.taskQueue[k][n] - 1 \in Nat BY <1>1
  <2> QED BY <1>1, <2>1
<1> HIDE DEF tq
<1>4. u \in QueueType /\ SameFrame(s, u) /\ u.taskPool = s.taskPool /\ u.donePool = s.donePool
      /\ u.resultCache = s.resultCache /\ u.taskQueue = tq
  BY <1>3 DEF QueueType, SameFrame
<1>5. SlotOf(u, n) = i /\ Needed(u, n) = Needed(s, n) BY <1>4 DEF SlotOf, Needed, SameFrame
<1>6. new \in Result
  <2>1. Cardinality(Needed(s, n)) \in Nat BY KindFinite, FS_CardinalityType
  <2> QED BY <2>1 DEF Result
<1> HIDE DEF u, i
<1>7. Hold(u, n) = t BY <1>4, <1>5 DEF Hold, QueueType
<1>8. rc \in [Slot -> Result \cup {NoResult}] BY <1>1, <1>6
<1> HIDE DEF rc
<1>9. /\ t \in QueueType /\ SameFrame(u, t) /\ t.taskPool = u.taskPool /\ t.donePool = u.donePool
      /\ t.taskQueue = u.taskQueue /\ t.resultCache = rc
  BY <1>4, <1>8 DEF QueueType, SameFrame
<1> HIDE DEF t
<1>10. SameFrame(s, t) BY <1>4, <1>9 DEF SameFrame
<1>11. Took(s, t, k, n, i, new) BY <1>4, <1>9, <1>10 DEF Took, tq, rc
<1>12. Created(s, n) = new BY DEF Created
<1> HIDE DEF new
<1> QED BY <1>2, <1>6, <1>7, <1>11, <1>12 DEF i

(* Filling in a part keeps the type of a container. *)
LEMMA FillType ==
  ASSUME NEW r \in Result, NEW k \in Kind
  PROVE  /\ Fill(r, k) \in Result /\ Fill(r, k).header = r.header
         /\ Fill(r, k).pending = r.pending - 1 /\ Fill(r, k).parts = r.parts \cup {k}
<1> DEFINE a == r.pending - 1
           b == r.parts \cup {k}
<1>1. a \in Int /\ b \in SUBSET Kind BY DEF Result
<1>2. Fill(r, k) = [r EXCEPT !.pending = a, !.parts = b] BY DEF Fill
<1> HIDE DEF a, b
<1>3. [r EXCEPT !.pending = a, !.parts = b] \in Result BY <1>1 DEF Result
<1>4. LET u == [r EXCEPT !.pending = a, !.parts = b]
      IN  u.header = r.header /\ u.pending = a /\ u.parts = b
  BY <1>1 DEF Result
<1> QED BY <1>2, <1>3, <1>4 DEF a, b

(* The queue t is s after n has become done with its container c. *)
Nooped(s, t, k, n, c) ==
  /\ t \in QueueType /\ SameFrame(s, t) /\ t.taskQueue = s.taskQueue
  /\ t.donePool = [s.donePool EXCEPT ![k] = @ \cup {n}]
  /\ t.taskPool = [s.taskPool EXCEPT ![k] = @ \ {n}]
  /\ t.resultCache = [s.resultCache EXCEPT ![c] = Fill(s.resultCache[c], k)]
(* What finishing an empty block (isNoop) changes. *)
LEMMA NoopShape ==
  ASSUME NEW s \in QueueType, NEW k \in Kind, NEW n \in Number, SlotOf(s, n) \in Slot,
         s.resultCache[SlotOf(s, n)] \in Result
  PROVE  Nooped(s, Noop(s, k, n), k, n, SlotOf(s, n))
<1> DEFINE i == SlotOf(s, n)
           dp == [s.donePool EXCEPT ![k] = @ \cup {n}]
           tp == [s.taskPool EXCEPT ![k] = @ \ {n}]
           rc == [s.resultCache EXCEPT ![i] = Fill(s.resultCache[i], k)]
           t == [s EXCEPT !.donePool = dp, !.taskPool = tp, !.resultCache = rc]
<1>1. /\ s.resultCache \in [Slot -> Result \cup {NoResult}]
      /\ s.donePool \in [Kind -> SUBSET Number] /\ s.taskPool \in [Kind -> SUBSET Number]
  BY Fields
<1>2. Fill(s.resultCache[i], k) \in Result BY FillType
<1>3. dp \in [Kind -> SUBSET Number] /\ tp \in [Kind -> SUBSET Number] BY <1>1
<1>4. Noop(s, k, n) = t
  BY <1>1 DEF Noop, QueueType
<1> HIDE DEF dp, tp
<1>5. rc \in [Slot -> Result \cup {NoResult}] BY <1>1, <1>2
<1> HIDE DEF rc
<1>6. t \in QueueType /\ SameFrame(s, t) /\ t.taskQueue = s.taskQueue
      /\ t.donePool = dp /\ t.taskPool = tp /\ t.resultCache = rc
  BY <1>3, <1>5 DEF QueueType, SameFrame
<1> HIDE DEF t, i
<1>7. Nooped(s, t, k, n, i) BY <1>6 DEF Nooped, dp, tp, rc
<1> QED BY <1>4, <1>7 DEF i

(* Putting a request back. *)
Backed(s, t, k, p, u) ==
  /\ t \in QueueType /\ SameWindow(s, t) /\ t.closed = s.closed
  /\ t.taskPool = s.taskPool /\ t.donePool = s.donePool /\ t.resultCache = s.resultCache
  /\ t.pendPool = [s.pendPool EXCEPT ![k][p] = <<>>]
  /\ t.taskQueue = u.taskQueue
(* What putting tasks back into the queue changes. *)
LEMMA BackShape ==
  ASSUME NEW s \in QueueType, NEW k \in Kind, NEW p \in Source
  PROVE  Backed(s, Back(s, k, p), k, p, Push(s, k, s.pendPool[k][p]))
<1> DEFINE u == Push(s, k, s.pendPool[k][p])
           pp == [s.pendPool EXCEPT ![k][p] = <<>>]
           t == [u EXCEPT !.pendPool = pp]
<1>1. s.pendPool \in [Kind -> [Source -> Seq(Number)]] BY Fields
<1>2. /\ u \in QueueType /\ SameFrame(s, u)
      /\ u.taskPool = s.taskPool /\ u.donePool = s.donePool /\ u.resultCache = s.resultCache
  BY <1>1, PushShape
<1>3. Back(s, k, p) = [u EXCEPT !.pendPool[k][p] = <<>>] BY DEF Back
<1> HIDE DEF u
<1>4. pp \in [Kind -> [Source -> Seq(Number)]] BY <1>1
<1>5. Back(s, k, p) = t BY <1>2, <1>3 DEF QueueType, SameFrame
<1> HIDE DEF pp
<1>6. /\ t \in QueueType /\ SameWindow(s, t) /\ t.closed = s.closed
      /\ t.taskPool = u.taskPool /\ t.donePool = u.donePool /\ t.resultCache = u.resultCache
      /\ t.pendPool = pp /\ t.taskQueue = u.taskQueue
  BY <1>2, <1>4 DEF QueueType, SameFrame, SameWindow
<1> HIDE DEF t
<1>7. Backed(s, t, k, p, u) BY <1>2, <1>6 DEF Backed, pp
<1> QED BY <1>5, <1>7 DEF u

-----------------------------------------------------------------------
(* A task is taken into the hand and its block gets a container. *)
HandMore(H, G, k, n) ==
  /\ G[k][n] = H[k][n] + 1
  /\ \A m \in Number : m # n => G[k][m] = H[k][m]
  /\ \A j \in Kind : j # k => G[j] = H[j]

(* Taking a task from the queue into the hand keeps the invariant. *)
LEMMA TakeInv ==
  ASSUME NEW s, NEW H \in Hands, NEW G \in Hands, QueueInv(s, H), NEW k \in Kind, NEW n \in Number,
         s.taskQueue[k][n] > 0, SlotOf(s, n) \in Slot, HandMore(H, G, k, n)
  PROVE  LET t == Hold(Pop(s, k, n), n)
         IN  QueueInv(t, G) /\ SameFrame(s, t) /\ t.donePool = s.donePool
<1> DEFINE t == Hold(Pop(s, k, n), n)
           c == SlotOf(s, n)
           new == Created(s, n)
<1>0. s \in QueueType BY DEF QueueInv, Framed
<1>1. /\ t \in QueueType /\ SameFrame(s, t) /\ t.taskPool = s.taskPool /\ t.donePool = s.donePool
      /\ t.taskQueue = [s.taskQueue EXCEPT ![k][n] = s.taskQueue[k][n] - 1]
      /\ t.resultCache = [s.resultCache EXCEPT ![c] = IF s.resultCache[c] = NoResult THEN new
                                                      ELSE s.resultCache[c]]
      /\ new \in Result /\ c \in Slot
  <2>1. Took(s, t, k, n, c, new) /\ new \in Result BY <1>0, TakeShape
  <2> HIDE DEF t, new, c
  <2>2. c \in Slot BY DEF c
  <2> QED BY <2>1, <2>2 DEF Took
<1>2. new.header = n /\ new.pending = Cardinality(Needed(s, n)) /\ new.parts = {} BY DEF Created
<1>3. c = n - s.resultOffset + 1 /\ n \in Int /\ s.resultOffset \in Int
  BY <1>0, Fields DEF SlotOf, Number
<1> HIDE DEF t, c, new
<1>4. /\ s.taskQueue \in [Kind -> [Number -> Nat]] /\ s.resultCache \in [Slot -> Result \cup {NoResult}]
  BY <1>0, Fields
<1>5. /\ \A j : Wanted(t, j) = Wanted(s, j) /\ \A m : Needed(t, m) = Needed(s, m)
      /\ \A m : SlotOf(t, m) = SlotOf(s, m)
  <2>1. /\ t.mode = s.mode /\ t.pivot = s.pivot /\ t.headerHead = s.headerHead
        /\ t.resultOffset = s.resultOffset
    BY <1>1 DEF SameFrame
  <2> QED BY <2>1, SameWanted, Zenon
<1>6. /\ t.taskQueue[k][n] = s.taskQueue[k][n] - 1
      /\ \A m \in Number : m # n => t.taskQueue[k][m] = s.taskQueue[k][m]
      /\ \A j \in Kind : j # k => t.taskQueue[j] = s.taskQueue[j]
  BY <1>1, <1>4
<1>7. /\ t.resultCache[c] # NoResult
      /\ s.resultCache[c] = NoResult => t.resultCache[c] = new
      /\ s.resultCache[c] # NoResult => t.resultCache[c] = s.resultCache[c]
      /\ \A i \in Slot : i # c => t.resultCache[i] = s.resultCache[i]
  <2>1. new # NoResult BY <1>1, <1>2, Containers
  <2> QED BY <1>1, <1>4, <2>1
<1>8. Framed(t) BY <1>1 DEF QueueInv, Framed, SameFrame
<1>9. Balanced(t, G)
  <2> SUFFICES ASSUME NEW j \in Kind, NEW m \in Number
               PROVE  Held(t, j, m) + G[j][m] = In(m, Wanted(t, j))
    BY DEF Balanced
  <2>1. /\ s.taskQueue[j][m] \in Nat /\ Asked(s, j, m) \in Nat /\ H[j][m] \in Nat
        /\ s.taskQueue[j][m] + Asked(s, j, m) + In(m, s.donePool[j]) + H[j][m] = In(m, Wanted(s, j))
    BY OnePlaced DEF Placed
  <2>2. Asked(t, j, m) = Asked(s, j, m) BY <1>1 DEF Asked, SameFrame
  <2>3. Held(t, j, m) = t.taskQueue[j][m] + Asked(t, j, m) + In(m, t.donePool[j]) BY DEF Held, In
  <2>4. In(m, s.donePool[j]) \in Nat BY DEF In
  <2>5. t.taskQueue[j][m] + G[j][m] = s.taskQueue[j][m] + H[j][m]
    <3>1. CASE j = k /\ m = n BY <1>6, <2>1, <3>1 DEF HandMore
    <3>2. CASE j = k /\ m # n BY <1>6, <3>2 DEF HandMore
    <3>3. CASE j # k BY <1>6, <3>3 DEF HandMore
    <3> QED BY <3>1, <3>2, <3>3
  <2>6. t.taskQueue[j][m] \in Nat /\ G[j][m] \in Nat
    <3>1. t \in QueueType BY <1>1
    <3> QED BY <3>1, QueueNat, HandNat
  <2>7. In(m, t.donePool[j]) = In(m, s.donePool[j]) /\ In(m, Wanted(t, j)) = In(m, Wanted(s, j)) BY <1>1, <1>5
  <2> DEFINE a == t.taskQueue[j][m]
             g == G[j][m]
             b == s.taskQueue[j][m]
             h == H[j][m]
             d == Asked(s, j, m)
             i == In(m, s.donePool[j])
             w == In(m, Wanted(s, j))
  <2>8. a \in Nat /\ g \in Nat /\ b \in Nat /\ h \in Nat /\ d \in Nat /\ i \in Nat BY <2>1, <2>4, <2>6
  <2>9. b + d + i + h = w /\ a + g = b + h BY <2>1, <2>5
  <2>10. Held(t, j, m) = a + d + i /\ In(m, Wanted(t, j)) = w BY <2>2, <2>3, <2>7
  <2> HIDE DEF a, g, b, h, d, i, w
  <2>11. a + d + i + g = w BY <2>8, <2>9
  <2> QED BY <2>10, <2>11, Zenon DEF g
<1>10. Pooled(t) BY <1>1, <1>5 DEF QueueInv, Pooled
<1>11. Stored(t, n) /\ \A m : Stored(s, m) => Stored(t, m)
  BY <1>1, <1>5, <1>7 DEF Stored, c
<1>12. Filled(t, G)
  <2> SUFFICES ASSUME NEW j \in Kind, NEW m \in Number,
                      m \in t.donePool[j] \/ Asked(t, j, m) > 0 \/ G[j][m] > 0
               PROVE  Stored(t, m)
    BY DEF Filled
  <2>1. Asked(t, j, m) = Asked(s, j, m) BY <1>1 DEF Asked, SameFrame
  <2>2. m = n \/ G[j][m] = H[j][m] BY DEF HandMore
  <2>3. m = n \/ Stored(s, m) BY <1>1, <2>1, <2>2 DEF QueueInv, Filled
  <2> QED BY <1>11, <2>3
<1>13. Exact(t)
  <2> SUFFICES ASSUME NEW i \in Slot, t.resultCache[i] # NoResult
               PROVE  Container(t, t.resultCache[i], i)
    BY DEF Exact
  <2>1. \A r : Container(s, r, i) => Container(t, r, i) BY <1>1, <1>5 DEF Container, SameFrame
  <2>2. CASE s.resultCache[i] # NoResult
    <3>1. Container(s, s.resultCache[i], i) BY <2>2 DEF QueueInv, Exact
    <3>2. t.resultCache[i] = s.resultCache[i] BY <1>7, <2>2
    <3> QED BY <2>1, <3>1, <3>2
  <2>3. CASE s.resultCache[i] = NoResult
    <3>1. i = c /\ t.resultCache[i] = new BY <1>7, <2>3
    <3>2. ~Stored(s, n) BY <2>3, <3>1 DEF Stored, c
    <3>3. \A j \in Kind : n \notin s.donePool[j] BY <3>2 DEF QueueInv, Filled
    <3>4. {} = {j \in Kind : n \in s.donePool[j]} /\ Needed(s, n) \ {} = Needed(s, n) BY <3>3
    <3>5. n = s.resultOffset + i - 1 BY <1>3, <3>1
    <3>6. n <= s.headerHead
      <4>1. n \in Wanted(s, k) BY OnePlace
      <4>2. n \in s.resultOffset..s.headerHead BY <4>1 DEF Wanted
      <4> QED BY <1>0, <4>2, Fields
    <3>7. Container(s, new, i) BY <1>2, <3>4, <3>5, <3>6 DEF Container
    <3> QED BY <2>1, <3>1, <3>7
  <2> QED BY <2>2, <2>3
<1>14. QueueInv(t, G) BY <1>8, <1>9, <1>10, <1>12, <1>13 DEF QueueInv
<1> QED BY <1>1, <1>14 DEF t

(* A part in the hand with nothing to fetch is done at once. *)
LEMMA NoopInv ==
  ASSUME NEW s, NEW H \in Hands, NEW G \in Hands, QueueInv(s, H), NEW k \in Kind, NEW n \in Number,
         HandMore(G, H, k, n)
  PROVE  LET t == Noop(s, k, n)
         IN  /\ QueueInv(t, G) /\ SameFrame(s, t)
             /\ t.donePool = [s.donePool EXCEPT ![k] = @ \cup {n}] /\ n \notin s.donePool[k]
<1> DEFINE t == Noop(s, k, n)
           c == SlotOf(s, n)
<1>0. s \in QueueType BY DEF QueueInv, Framed
<1>1. H[k][n] > 0 /\ \A m \in Number : G[k][m] \in Nat /\ H[k][m] \in Nat BY DEF HandMore, Hands
<1>2. c \in Slot /\ s.resultCache[c] # NoResult BY <1>1 DEF QueueInv, Filled, Stored
<1>3. s.resultCache \in [Slot -> Result \cup {NoResult}] BY <1>0, Fields
<1>4. s.resultCache[c] \in Result BY <1>2, <1>3, Containers
<1>5. /\ t \in QueueType /\ SameFrame(s, t) /\ t.taskQueue = s.taskQueue
      /\ t.donePool = [s.donePool EXCEPT ![k] = @ \cup {n}]
      /\ t.taskPool = [s.taskPool EXCEPT ![k] = @ \ {n}]
      /\ t.resultCache = [s.resultCache EXCEPT ![c] = Fill(s.resultCache[c], k)]
  <2>1. Nooped(s, t, k, n, c) BY <1>0, <1>2, <1>4, NoopShape
  <2> HIDE DEF t, c
  <2> QED BY <2>1 DEF Nooped
<1>6. c = n - s.resultOffset + 1 /\ n \in Int /\ s.resultOffset \in Int
  <2> HIDE DEF t
  <2>1. n \in Int BY DEF Number
  <2>2. s.resultOffset \in Int BY <1>0, Fields
  <2>3. c = n - s.resultOffset + 1 BY DEF SlotOf
  <2> QED BY <2>1, <2>2, <2>3
<1> HIDE DEF t, c
<1>7. \A i \in Slot : s.resultCache[i].header = n => i = c
  <2> SUFFICES ASSUME NEW i \in Slot, s.resultCache[i].header = n PROVE i = c OBVIOUS
  <2>1. s.resultCache[i] # NoResult BY <1>3, Containers
  <2>2. n = s.resultOffset + i - 1 BY <2>1 DEF QueueInv, Exact, Container
  <2>3. i \in Int BY QueueAssumption DEF Slot
  <2> QED BY <1>6, <2>2, <2>3
<1>8. s.resultCache[c].header = n
  <2>1. s.resultCache[c].header = s.resultOffset + c - 1 BY <1>2 DEF QueueInv, Exact, Container
  <2> QED BY <1>6, <2>1
<1>9. ASSUME NEW i \in Slot
      PROVE  t.resultCache[i] = IF s.resultCache[i].header \in {n} THEN Fill(s.resultCache[i], k)
                                ELSE s.resultCache[i]
  <2>1. CASE i = c BY <1>2, <1>3, <1>5, <1>8, <2>1
  <2>2. CASE i # c
    <3>1. t.resultCache[i] = s.resultCache[i] BY <1>3, <1>5, <2>2
    <3>2. s.resultCache[i].header \notin {n} BY <1>7, <2>2
    <3> QED BY <3>1, <3>2
  <2> QED BY <2>1, <2>2
<1>10. Finished(s, t, k, {n}) BY <1>5, <1>9 DEF Finished, SameFrame, SameWindow
<1>11. HandLess(H, G, k, {n})
  <2>1. ASSUME NEW m \in Number PROVE G[k][m] = H[k][m] - In(m, {n})
    <3>1. CASE m = n BY <1>1, <3>1 DEF HandMore, In
    <3>2. CASE m # n BY <1>1, <3>2 DEF HandMore, In
    <3> QED BY <3>1, <3>2
  <2>2. \A j \in Kind : j # k => G[j] = H[j] BY DEF HandMore
  <2> QED BY <1>1, <2>1, <2>2 DEF HandLess
<1>12. QueueInv(t, G)
  <2>1. t \in QueueType /\ {n} \in SUBSET Number BY <1>5
  <2> QED BY <2>1, <1>10, <1>11, FinishInv
<1>13. n \notin s.donePool[k] BY <1>1, OnePlace
<1> QED BY <1>5, <1>12, <1>13 DEF t

(* A request goes back: expire and Revoke. *)
LEMMA BackInv ==
  ASSUME NEW s, QueueInv(s, Zero), NEW k \in Kind, NEW p \in Source
  PROVE  LET t == Back(s, k, p)
         IN  QueueInv(t, Zero) /\ t.donePool = s.donePool /\ SameWindow(s, t)
             /\ t.pendPool = [s.pendPool EXCEPT ![k][p] = <<>>]
<1> DEFINE t == Back(s, k, p)
           list == s.pendPool[k][p]
<1>0. s \in QueueType BY DEF QueueInv, Framed
<1>1. /\ t \in QueueType /\ SameWindow(s, t)
      /\ t.taskPool = s.taskPool /\ t.donePool = s.donePool /\ t.resultCache = s.resultCache
      /\ t.pendPool = [s.pendPool EXCEPT ![k][p] = <<>>]
      /\ t.taskQueue = Push(s, k, list).taskQueue
  <2>1. Backed(s, t, k, p, Push(s, k, list)) BY <1>0, BackShape
  <2> HIDE DEF t, list
  <2> QED BY <2>1 DEF Backed
<1>2. list \in Seq(Number) /\ <<>> \in Seq(Number)
  <2>1. s.pendPool \in [Kind -> [Source -> Seq(Number)]] BY <1>0, Fields
  <2> HIDE DEF t
  <2> QED BY <2>1
<1> HIDE DEF t, list
<1>3. /\ \A n \in Number : t.taskQueue[k][n] = s.taskQueue[k][n] + Times(list, n)
      /\ \A j \in Kind : j # k => t.taskQueue[j] = s.taskQueue[j]
  <2> DEFINE u == Push(s, k, list)
  <2>1. /\ \A n \in Number : u.taskQueue[k][n] = s.taskQueue[k][n] + Times(list, n)
        /\ \A j \in Kind : j # k => u.taskQueue[j] = s.taskQueue[j]
    BY <1>0, <1>2, PushShape, Zenon
  <2>2. t.taskQueue = u.taskQueue BY <1>1
  <2> QED BY <2>1, <2>2, Zenon
<1>4. /\ \A n : Asked(t, k, n) = Asked(s, k, n) - Times(s.pendPool[k][p], n) + Times(<<>>, n)
      /\ \A j \in Kind : \A n : j # k => Asked(t, j, n) = Asked(s, j, n)
  <2>1. t \in QueueType /\ t.pendPool = [s.pendPool EXCEPT ![k][p] = <<>>] BY <1>1
  <2> DEFINE e == <<>>
  <2>2. e \in Seq(Number) /\ t.pendPool = [s.pendPool EXCEPT ![k][p] = e] BY <1>2, <2>1
  <2> HIDE DEF e
  <2>3. Swapped(s, t, k, p, e) BY <1>0, <2>1, <2>2, RequestSwapped
  <2> QED BY <2>3, Zenon DEF e, Swapped
<1>5. Zero \in Hands /\ \A j \in Kind, n \in Number : Zero[j][n] = 0 BY DEF Zero, Hands
<1>6. ASSUME NEW j \in Kind, NEW n \in Number
      PROVE  /\ t.taskQueue[j][n] + Asked(t, j, n) + Zero[j][n] = s.taskQueue[j][n] + Asked(s, j, n) + Zero[j][n]
             /\ Asked(t, j, n) > 0 \/ Zero[j][n] > 0 => Asked(s, j, n) > 0 \/ Zero[j][n] > 0
  <2>1. /\ s.taskQueue[j][n] \in Nat /\ Asked(s, j, n) \in Nat BY <1>5, OnePlace
  <2>2. Times(list, n) \in Nat /\ Times(<<>>, n) = 0 BY <1>2, TimesNat, TimesEmpty
  <2>3. CASE j = k
    <3>1. t.taskQueue[k][n] = s.taskQueue[k][n] + Times(list, n) BY <1>3
    <3>2. Asked(t, k, n) = Asked(s, k, n) - Times(list, n) + Times(<<>>, n) BY <1>4 DEF list
    <3>3. Zero[k][n] = 0 BY <1>5
    <3> DEFINE a == s.taskQueue[k][n]
               b == Asked(s, k, n)
               x == Times(list, n)
    <3>4. a \in Nat /\ b \in Nat /\ x \in Nat BY <2>1, <2>2, <2>3
    <3>5. t.taskQueue[k][n] = a + x /\ Asked(t, k, n) = b - x BY <2>2, <3>1, <3>2, <3>4
    <3> HIDE DEF a, b, x
    <3>6. (a + x) + (b - x) + 0 = a + b + 0 /\ (b - x > 0 \/ 0 > 0 => b > 0 \/ 0 > 0) BY <3>4
    <3> QED BY <2>3, <3>3, <3>5, <3>6 DEF a, b
  <2>4. CASE j # k BY <1>3, <1>4, <2>4
  <2> QED BY <2>3, <2>4
<1>7. QueueInv(t, Zero) BY <1>1, <1>5, <1>6, MovedInv DEF SameWindow
<1> QED BY <1>1, <1>7 DEF t

-----------------------------------------------------------------------
(* The room in the cache. *)
LEMMA UnionBound ==
  ASSUME NEW A, NEW B, IsFiniteSet(A), IsFiniteSet(B), NEW a \in Nat, NEW b \in Nat,
         Cardinality(A) <= a, Cardinality(B) <= b
  PROVE  IsFiniteSet(A \cup B) /\ Cardinality(A \cup B) <= a + b /\ a + b \in Nat
<1>1. Cardinality(A \cup B) = Cardinality(A) + Cardinality(B) - Cardinality(A \cap B) /\ IsFiniteSet(A \cup B)
  BY FS_Union
<1>2. IsFiniteSet(A \cap B) BY FS_Subset
<1>3. Cardinality(A) \in Nat /\ Cardinality(B) \in Nat /\ Cardinality(A \cap B) \in Nat BY <1>2, FS_CardinalityType
<1> QED BY <1>1, <1>3

(* Arithmetic of the room: what is done, in flight and in hand fits the window. *)
LEMMA LessRoom ==
  ASSUME NEW a \in Int, NEW b \in Nat, NEW d \in Nat, NEW f \in Nat, NEW x \in Nat, NEW y \in Nat, NEW l \in Nat,
         a <= b, b <= d + (f + (x + y)), x + y < l - d - f
  PROVE  a < l
OBVIOUS

(* There are finitely many block numbers. *)
LEMMA NumbersFinite == ASSUME NEW S \in SUBSET Number PROVE IsFiniteSet(S) /\ Cardinality(S) \in Nat
<1>1. IsFiniteSet(Number) BY QueueAssumption, FS_Interval DEF Number
<1> QED BY <1>1, FS_Subset, FS_CardinalityType

(* The parts asked for are at most as many as the places in the requests. *)
Flight(s, k) == UNION {Range(s.pendPool[k][p]) : p \in Source}
(* The parts in flight are a finite set, no larger than the number of places in requests. *)
LEMMA FlightBound ==
  ASSUME NEW s \in QueueType, NEW k \in Kind
  PROVE  /\ IsFiniteSet(Flight(s, k)) /\ Cardinality(Flight(s, k)) <= InFlight(s, k)
         /\ InFlight(s, k) \in Nat /\ Cardinality(Flight(s, k)) \in Nat
         /\ \A p \in Source : Len(s.pendPool[k][p]) <= InFlight(s, k)
         /\ \A n : Asked(s, k, n) > 0 => n \in Flight(s, k)
<1> DEFINE A == [p \in Source |-> Range(s.pendPool[k][p])]
           f == [p \in Source |-> Len(s.pendPool[k][p])]
<1>1. \A p \in Source : s.pendPool[k][p] \in Seq(Number) BY Fields
<1>2. \A p \in Source : A[p] = Range(s.pendPool[k][p]) /\ f[p] = Len(s.pendPool[k][p]) OBVIOUS
<1>3. Flight(s, k) = UNION {A[p] : p \in Source} BY DEF Flight
<1>4. InFlight(s, k) = SumFunctionOnSet(f, Source) BY DEF InFlight
<1> HIDE DEF A, f
<1>5. \A p \in Source : IsFiniteSet(A[p]) /\ f[p] \in Nat /\ Cardinality(A[p]) <= f[p]
  BY <1>1, <1>2, ItemsBound
<1>6. IsFiniteSet(Flight(s, k)) /\ Cardinality(Flight(s, k)) <= InFlight(s, k)
  BY <1>3, <1>4, <1>5, SumCovers, QueueAssumption
<1>7. InFlight(s, k) \in Nat /\ \A p \in Source : f[p] <= InFlight(s, k)
  BY <1>4, <1>5, SumNat, QueueAssumption
<1>8. ASSUME NEW n, Asked(s, k, n) > 0 PROVE n \in Flight(s, k)
  <2>1. ~(\A p \in Source : n \notin Range(s.pendPool[k][p])) BY <1>8, AskedNat
  <2> QED BY <2>1 DEF Flight
<1> QED BY <1>2, <1>6, <1>7, <1>8, FS_CardinalityType

(* The hand of the loop of reserveHeaders counts every task a number of times. *)
LEMMA HandType ==
  ASSUME NEW k \in Kind, NEW st \in TurnType
  PROVE  /\ Hand(k, st) \in Hands
         /\ \A n \in Number : /\ Hand(k, st)[k][n] = Times(st.send, n) + Times(st.skip, n)
                              /\ Times(st.send, n) \in Nat /\ Times(st.skip, n) \in Nat
                              /\ Hand(k, st)[k][n] > 0 => n \in Range(st.send) \cup Range(st.skip)
         /\ \A j \in Kind : j # k => Hand(k, st)[j] = [n \in Number |-> 0]
<1>1. st.send \in Seq(Number) /\ st.skip \in Seq(Number) BY DEF TurnType
<1>2. ASSUME NEW n \in Number
      PROVE  /\ Times(st.send, n) \in Nat /\ Times(st.skip, n) \in Nat
             /\ Times(st.send, n) = 0 <=> n \notin Range(st.send)
             /\ Times(st.skip, n) = 0 <=> n \notin Range(st.skip)
  BY <1>1, TimesNat
<1>3. Hand(k, st) \in Hands BY <1>2 DEF Hand, Hands
<1>4. \A n \in Number : Hand(k, st)[k][n] = Times(st.send, n) + Times(st.skip, n) BY DEF Hand
<1>5. ASSUME NEW j \in Kind, j # k PROVE Hand(k, st)[j] = [n \in Number |-> 0]
  BY <1>5 DEF Hand
<1> QED BY <1>2, <1>3, <1>4, <1>5

(* Wanted has no holes below the lowest task: a part of an earlier block is done,
   asked for or in the hand, and these are fewer than the cache has slots. *)
LEMMA TaskHasSlot ==
  ASSUME NEW k \in Kind, NEW st, TurnInv(k, st), st.proc < st.space, Waiting(st.q, k) # {}
  PROVE  LET n == Min(Waiting(st.q, k))
         IN  n \in Number /\ st.q.taskQueue[k][n] > 0 /\ SlotOf(st.q, n) \in Slot
<1> DEFINE s == st.q
           n == Min(Waiting(s, k))
           H == Hand(k, st)
           B == s.donePool[k] \cup (Flight(s, k) \cup (Range(st.send) \cup Range(st.skip)))
<1>1. st \in TurnType /\ QueueInv(s, H) /\ s \in QueueType BY DEF TurnInv, QueueInv, Framed
<1>2. H \in Hands BY <1>1, HandType
<1>3. /\ s.taskQueue \in [Kind -> [Number -> Nat]] /\ s.resultOffset \in 1..LastBlock + 1
      /\ s.headerHead \in 0..LastBlock /\ s.donePool[k] \in SUBSET Number /\ s.pivot \in Int
  BY <1>1, Fields
<1>4. n \in Number /\ s.taskQueue[k][n] > 0 /\ \A m \in Number : s.taskQueue[k][m] > 0 => n <= m
  <2>1. Waiting(s, k) \in SUBSET Nat BY DEF Waiting, Number
  <2>2. n \in Waiting(s, k) /\ \A m \in Waiting(s, k) : n <= m BY <2>1, MinNat
  <2> QED BY <2>2 DEF Waiting
<1>5. n \in Wanted(s, k) BY <1>1, <1>2, <1>4, OnePlace
<1>6. n \in s.resultOffset..s.headerHead /\ k \in Needed(s, n) BY <1>5 DEF Wanted
<1> HIDE DEF s, n, H
<1>7. n \in Int /\ s.resultOffset \in Int /\ s.headerHead \in Int /\ LastBlock \in Int
      /\ s.resultOffset <= n /\ n <= LastBlock /\ s.resultOffset >= 1
  <2> DEFINE lo == s.resultOffset
             hi == s.headerHead
  <2>1. /\ lo \in 1..LastBlock + 1 /\ hi \in 0..LastBlock /\ n \in lo..hi /\ LastBlock \in Int
    BY <1>3, <1>6, QueueAssumption
  <2> HIDE DEF lo, hi
  <2>2. n \in Int /\ lo \in Int /\ hi \in Int /\ lo <= n /\ n <= LastBlock /\ lo >= 1 BY <2>1
  <2> QED BY <2>1, <2>2 DEF lo, hi
<1>8. ASSUME NEW m \in s.resultOffset..(n - 1) PROVE m \in B
  <2>1. m \in Number /\ m \in s.resultOffset..s.headerHead /\ ~(n <= m) /\ m <= n /\ m \in Int
    BY <1>3, <1>6, <1>7 DEF Number
  <2>2. k \in Needed(s, m) BY <1>3, <1>6, <1>7, <2>1 DEF Needed
  <2>3. m \in Wanted(s, k) BY <2>1, <2>2 DEF Wanted
  <2>4. /\ s.taskQueue[k][m] \in Nat /\ Asked(s, k, m) \in Nat /\ H[k][m] \in Nat
        /\ s.taskQueue[k][m] + Asked(s, k, m) + In(m, s.donePool[k]) + H[k][m] = In(m, Wanted(s, k))
    BY <1>1, <1>2, <2>1, OnePlaced DEF Placed
  <2>5. In(m, Wanted(s, k)) = 1 BY <2>3 DEF In
  <2>6. s.taskQueue[k][m] = 0 BY <1>4, <2>1, <2>4
  <2>7. m \in s.donePool[k] \/ In(m, s.donePool[k]) = 0 BY DEF In
  <2>8. m \in s.donePool[k] \/ Asked(s, k, m) > 0 \/ H[k][m] > 0
    <3> DEFINE a == Asked(s, k, m)
               h == H[k][m]
    <3>1. a \in Nat /\ h \in Nat /\ 0 + a + In(m, s.donePool[k]) + h = 1 BY <2>4, <2>5, <2>6
    <3> HIDE DEF a, h
    <3>2. m \in s.donePool[k] \/ 0 + a + 0 + h = 1 BY <2>7, <3>1
    <3>3. m \in s.donePool[k] \/ a > 0 \/ h > 0 BY <3>1, <3>2
    <3> QED BY <3>3 DEF a, h
  <2>9. Asked(s, k, m) > 0 => m \in Flight(s, k) BY <1>1, FlightBound
  <2>10. H[k][m] > 0 => m \in Range(st.send) \cup Range(st.skip) BY <1>1, <2>1, HandType DEF H
  <2> QED BY <2>8, <2>9, <2>10
<1>9. IsFiniteSet(B) /\ Cardinality(B) <= Cardinality(s.donePool[k]) + (InFlight(s, k) + (Len(st.send) + Len(st.skip)))
  <2>1. st.send \in Seq(Number) /\ st.skip \in Seq(Number) BY <1>1 DEF TurnType
  <2> DEFINE C == Range(st.send)
             D == Range(st.skip)
             E == Flight(s, k)
             F == s.donePool[k]
  <2>2. /\ IsFiniteSet(C) /\ Cardinality(C) <= Len(st.send) /\ Cardinality(C) \in Nat /\ Len(st.send) \in Nat
        /\ IsFiniteSet(D) /\ Cardinality(D) <= Len(st.skip) /\ Cardinality(D) \in Nat /\ Len(st.skip) \in Nat
    BY <2>1, ItemsBound
  <2>3. /\ IsFiniteSet(E) /\ Cardinality(E) <= InFlight(s, k) /\ InFlight(s, k) \in Nat /\ Cardinality(E) \in Nat
    BY <1>1, FlightBound
  <2>f. F \in SUBSET Number BY <1>3
  <2> HIDE DEF C, D, E, F
  <2>4. IsFiniteSet(F) /\ Cardinality(F) \in Nat /\ Cardinality(F) <= Cardinality(F) BY <2>f, NumbersFinite
  <2>5. /\ IsFiniteSet(C \cup D) /\ Cardinality(C \cup D) <= Len(st.send) + Len(st.skip)
        /\ Len(st.send) + Len(st.skip) \in Nat
    BY <2>2, UnionBound
  <2>6. /\ IsFiniteSet(E \cup (C \cup D))
        /\ Cardinality(E \cup (C \cup D)) <= InFlight(s, k) + (Len(st.send) + Len(st.skip))
        /\ InFlight(s, k) + (Len(st.send) + Len(st.skip)) \in Nat
    BY <2>3, <2>5, UnionBound
  <2>7. /\ IsFiniteSet(F \cup (E \cup (C \cup D)))
        /\ Cardinality(F \cup (E \cup (C \cup D))) <=
             Cardinality(F) + (InFlight(s, k) + (Len(st.send) + Len(st.skip)))
    BY <2>4, <2>6, UnionBound
  <2> QED BY <2>7 DEF C, D, E, F
<1> HIDE DEF B
<1>10. Cardinality(s.resultOffset..(n - 1)) <= Cardinality(B) /\ Cardinality(B) \in Nat
  <2>1. s.resultOffset..(n - 1) \in SUBSET B BY <1>8
  <2> QED BY <1>9, <2>1, FS_Subset, FS_CardinalityType
<1>11. Cardinality(s.resultOffset..(n - 1)) = n - s.resultOffset
  <2>1. n - 1 \in Int /\ s.resultOffset \in Int BY <1>7
  <2>2. Cardinality(s.resultOffset..(n - 1)) =
          IF s.resultOffset > n - 1 THEN 0 ELSE (n - 1) - s.resultOffset + 1
    BY <2>1, FS_Interval
  <2> QED BY <1>7, <2>2
<1>12. n - s.resultOffset < blockCacheLimit
  <2>1. /\ Len(st.send) + Len(st.skip) < Space(s, k) BY DEF TurnInv, s
  <2>2. Space(s, k) = blockCacheLimit - Cardinality(s.donePool[k]) - InFlight(s, k) BY DEF Space
  <2>3. /\ Cardinality(s.donePool[k]) \in Nat /\ InFlight(s, k) \in Nat /\ blockCacheLimit \in Nat
    BY <1>1, <1>3, NumbersFinite, FlightBound, QueueAssumption
  <2>4. Len(st.send) \in Nat /\ Len(st.skip) \in Nat
    <3>1. st.send \in Seq(Number) /\ st.skip \in Seq(Number) BY <1>1 DEF TurnType
    <3> QED BY <3>1, ItemsBound
  <2>5. n - s.resultOffset \in Int /\ n - s.resultOffset <= Cardinality(B) BY <1>7, <1>10, <1>11
  <2>6. Len(st.send) + Len(st.skip) < blockCacheLimit - Cardinality(s.donePool[k]) - InFlight(s, k)
    BY <2>1, <2>2
  <2> QED BY <1>9, <1>10, <2>3, <2>4, <2>5, <2>6, LessRoom
<1>13. SlotOf(s, n) \in Slot
  <2>1. n - s.resultOffset + 1 \in 1..blockCacheLimit BY <1>7, <1>12, QueueAssumption
  <2> QED BY <2>1 DEF SlotOf, Slot
<1> QED BY <1>4, <1>13 DEF s, n

-----------------------------------------------------------------------
(* One turn of the loop of reserveHeaders. *)
LEMMA FrameTrans ==
  ASSUME NEW s, NEW t, NEW u, SameFrame(s, t), SameFrame(t, u) PROVE SameFrame(s, u)
BY DEF SameFrame

(* Appending makes a request one longer. *)
LEMMA LenAppend ==
  ASSUME NEW S, NEW a \in Seq(S), NEW b \in Seq(S), NEW n \in S
  PROVE  /\ Len(Append(a, n)) + Len(b) = Len(a) + Len(b) + 1
         /\ Len(a) + Len(Append(b, n)) = Len(a) + Len(b) + 1
<1>1. Len(a) \in Nat /\ Len(b) \in Nat OBVIOUS
<1>2. Len(Append(a, n)) = Len(a) + 1 /\ Len(Append(b, n)) = Len(b) + 1 OBVIOUS
<1> QED BY <1>1, <1>2

(* One more part in the hand. *)
LEMMA HandAppend ==
  ASSUME NEW k \in Kind, NEW st \in TurnType, NEW tt \in TurnType, NEW n \in Number,
         \/ tt.send = Append(st.send, n) /\ tt.skip = st.skip
         \/ tt.skip = Append(st.skip, n) /\ tt.send = st.send
  PROVE  /\ HandMore(Hand(k, st), Hand(k, tt), k, n)
         /\ Len(tt.send) + Len(tt.skip) = Len(st.send) + Len(st.skip) + 1
<1>1. st.send \in Seq(Number) /\ st.skip \in Seq(Number) BY DEF TurnType
<1>2. \A m \in Number : /\ Hand(k, st)[k][m] = Times(st.send, m) + Times(st.skip, m)
                        /\ Hand(k, tt)[k][m] = Times(tt.send, m) + Times(tt.skip, m)
                        /\ Times(st.send, m) \in Nat /\ Times(st.skip, m) \in Nat
  BY HandType
<1>3. \A m \in Number : Times(tt.send, m) + Times(tt.skip, m) =
                        Times(st.send, m) + Times(st.skip, m) + (IF m = n THEN 1 ELSE 0)
  <2> SUFFICES ASSUME NEW m \in Number
               PROVE  Times(tt.send, m) + Times(tt.skip, m) =
                      Times(st.send, m) + Times(st.skip, m) + (IF m = n THEN 1 ELSE 0)
    OBVIOUS
  <2>1. CASE tt.send = Append(st.send, n) /\ tt.skip = st.skip
    <3>1. Times(tt.send, m) = Times(st.send, m) + (IF m = n THEN 1 ELSE 0) BY <1>1, <2>1, TimesAppend
    <3> QED BY <1>2, <2>1, <3>1
  <2>2. CASE tt.skip = Append(st.skip, n) /\ tt.send = st.send
    <3>1. Times(tt.skip, m) = Times(st.skip, m) + (IF m = n THEN 1 ELSE 0) BY <1>1, <2>2, TimesAppend
    <3> QED BY <1>2, <2>2, <3>1
  <2> QED BY <2>1, <2>2
<1>4. \A j \in Kind : j # k => Hand(k, st)[j] = [m \in Number |-> 0] /\ Hand(k, tt)[j] = [m \in Number |-> 0]
  BY HandType
<1>5. Hand(k, tt)[k][n] = Hand(k, st)[k][n] + 1
  <2> DEFINE a == Hand(k, st)[k][n]
             b == Hand(k, tt)[k][n]
  <2>1. b = Times(st.send, n) + Times(st.skip, n) + (IF n = n THEN 1 ELSE 0) BY <1>2, <1>3, Zenon
  <2>2. a = Times(st.send, n) + Times(st.skip, n) BY <1>2
  <2> HIDE DEF a, b
  <2>3. b = a + 1 BY <2>1, <2>2
  <2> QED BY <2>3 DEF a, b
<1>6. \A m \in Number : m # n => Hand(k, tt)[k][m] = Hand(k, st)[k][m] BY <1>2, <1>3
<1>7. \A j \in Kind : j # k => Hand(k, tt)[j] = Hand(k, st)[j] BY <1>4
<1>8. HandMore(Hand(k, st), Hand(k, tt), k, n) BY <1>5, <1>6, <1>7 DEF HandMore
<1>9. Len(tt.send) + Len(tt.skip) = Len(st.send) + Len(st.skip) + 1
  <2>1. /\ Len(Append(st.send, n)) + Len(st.skip) = Len(st.send) + Len(st.skip) + 1
        /\ Len(st.send) + Len(Append(st.skip, n)) = Len(st.send) + Len(st.skip) + 1
    BY <1>1, LenAppend
  <2> QED BY <2>1, Zenon
<1> QED BY <1>8, <1>9

(* The hand with one more part, as a function of its own. *)
LEMMA HandPlus ==
  ASSUME NEW H \in Hands, NEW k \in Kind, NEW n \in Number
  PROVE  \E G \in Hands : HandMore(H, G, k, n)
<1> DEFINE G == [j \in Kind |-> [m \in Number |-> IF j = k /\ m = n THEN H[j][m] + 1 ELSE H[j][m]]]
<1>1. G \in Hands BY DEF Hands
<1>2. G[k][n] = H[k][n] + 1 OBVIOUS
<1>3. \A m \in Number : m # n => G[k][m] = H[k][m] OBVIOUS
<1>4. ASSUME NEW j \in Kind, j # k PROVE G[j] = H[j]
  <2>1. G[j] = [m \in Number |-> H[j][m]] BY <1>4
  <2>2. H[j] \in [Number -> Nat] BY DEF Hands
  <2> QED BY <2>1, <2>2
<1> HIDE DEF G
<1>5. HandMore(H, G, k, n) BY <1>2, <1>3, <1>4 DEF HandMore
<1> QED BY <1>1, <1>5

(* The loop of reserveHeaders changes nothing that is in flight. *)
LEMMA SameSpace ==
  ASSUME NEW s, NEW t, NEW k, SameFrame(s, t) PROVE InFlight(t, k) = InFlight(s, k)
BY DEF SameFrame, InFlight

(* One turn of the loop of reserveHeaders keeps its invariant. *)
LEMMA TaskInv ==
  ASSUME NEW k \in Kind, NEW p, NEW st, TurnInv(k, st), st.proc < st.space, Waiting(st.q, k) # {}
  PROVE  TurnInv(k, ReserveTask(st, k, p))
<1> DEFINE s == st.q
           n == Min(Waiting(s, k))
           held == Hold(Pop(s, k, n), n)
           H == Hand(k, st)
           tt == ReserveTask(st, k, p)
<1>1. /\ st \in TurnType /\ ~st.error /\ QueueInv(s, H) /\ s \in QueueType /\ SameFrame(q, s)
      /\ st.proc = Len(st.send) + Len(st.skip) /\ st.space = Space(s, k)
      /\ ~st.progress => s.donePool = q.donePool
  BY DEF TurnInv, QueueInv, Framed
<1>2. H \in Hands BY <1>1, HandType
<1>3. n \in Number /\ s.taskQueue[k][n] > 0 /\ SlotOf(s, n) \in Slot BY TaskHasSlot
<1>4. PICK G \in Hands : HandMore(H, G, k, n) BY <1>2, <1>3, HandPlus
<1>5. tt = IF n \in NoData[k] THEN [st EXCEPT !.q = Noop(held, k, n), !.space = @ - 1, !.progress = TRUE]
           ELSE IF n \in lacking[p] THEN [st EXCEPT !.q = held, !.skip = Append(@, n), !.proc = @ + 1]
           ELSE [st EXCEPT !.q = held, !.send = Append(@, n), !.proc = @ + 1]
  BY <1>3 DEF ReserveTask
<1> HIDE DEF s, n, H, tt
<1>6. \A F \in Hands : HandMore(H, F, k, n) => QueueInv(held, F) /\ SameFrame(s, held) /\ held.donePool = s.donePool
  BY <1>1, <1>2, <1>3, TakeInv
<1>7. held \in QueueType BY <1>4, <1>6 DEF QueueInv, Framed
<1>8. SameFrame(s, held) /\ held.donePool = s.donePool BY <1>4, <1>6
<1> HIDE DEF held
<1>9. /\ st.send \in Seq(Number) /\ st.skip \in Seq(Number) /\ st.space \in Int /\ st.proc \in Int
      /\ st.progress \in BOOLEAN
  BY <1>1 DEF TurnType
<1>10. CASE n \in NoData[k]
  <2> DEFINE t == Noop(held, k, n)
             sp == st.space - 1
  <2>1. /\ QueueInv(t, H) /\ SameFrame(held, t)
        /\ t.donePool = [held.donePool EXCEPT ![k] = @ \cup {n}] /\ n \notin held.donePool[k]
    BY <1>2, <1>3, <1>4, <1>6, NoopInv
  <2>2. t \in QueueType /\ SameFrame(q, t) BY <1>1, <1>8, <2>1, FrameTrans DEF QueueInv, Framed
  <2>3. tt = [st EXCEPT !.q = t, !.space = sp, !.progress = TRUE] BY <1>5, <1>10
  <2>4. Space(t, k) = st.space - 1
    <3>1. held.donePool \in [Kind -> SUBSET Number] BY <1>7, Fields
    <3>2. t.donePool[k] = held.donePool[k] \cup {n} BY <2>1, <3>1
    <3>3. IsFiniteSet(held.donePool[k]) /\ Cardinality(held.donePool[k]) \in Nat BY <3>1, NumbersFinite
    <3>4. Cardinality(t.donePool[k]) = Cardinality(held.donePool[k]) + 1 BY <2>1, <3>2, <3>3, FS_AddElement
    <3>5. InFlight(t, k) = InFlight(held, k) /\ InFlight(held, k) = InFlight(s, k)
      <4>1. SameFrame(s, held) /\ SameFrame(held, t) BY <1>8, <2>1
      <4> QED BY <4>1, SameSpace
    <3>6. InFlight(s, k) \in Nat /\ blockCacheLimit \in Int
      <4>1. InFlight(s, k) \in Nat BY <1>1, FlightBound, Zenon
      <4> QED BY <4>1, QueueAssumption
    <3>7. st.space = blockCacheLimit - Cardinality(held.donePool[k]) - InFlight(s, k) BY <1>1, <1>8 DEF Space
    <3>8. Space(t, k) = blockCacheLimit - (Cardinality(held.donePool[k]) + 1) - InFlight(s, k)
      BY <3>4, <3>5 DEF Space
    <3> QED BY <3>3, <3>6, <3>7, <3>8
  <2>5. sp \in Int /\ st.proc <= sp BY <1>9
  <2>6. sp = Space(t, k) BY <2>4
  <2> HIDE DEF t, sp
  <2>7. /\ tt \in TurnType /\ tt.q = t /\ tt.space = sp /\ tt.progress /\ tt.send = st.send
        /\ tt.skip = st.skip /\ tt.proc = st.proc /\ ~tt.error
    BY <1>1, <2>2, <2>3, <2>5 DEF TurnType
  <2>8. Hand(k, tt) = H BY <2>7 DEF Hand, H
  <2> QED BY <1>1, <2>1, <2>2, <2>5, <2>6, <2>7, <2>8 DEF TurnInv, tt
<1>11. CASE n \notin NoData[k]
  <2> DEFINE more == Append(st.skip, n)
             most == Append(st.send, n)
             pr == st.proc + 1
  <2>1. more \in Seq(Number) /\ most \in Seq(Number) /\ pr \in Int /\ pr <= st.space BY <1>3, <1>9
  <2>2. tt = [st EXCEPT !.q = held, !.skip = more, !.proc = pr]
        \/ tt = [st EXCEPT !.q = held, !.send = most, !.proc = pr]
    BY <1>5, <1>11
  <2> HIDE DEF more, most, pr
  <2>3. /\ tt \in TurnType /\ tt.q = held /\ tt.space = st.space /\ tt.proc = pr
        /\ tt.progress = st.progress /\ ~tt.error
        /\ \/ tt.send = most /\ tt.skip = st.skip
           \/ tt.skip = more /\ tt.send = st.send
    <3>1. CASE tt = [st EXCEPT !.q = held, !.skip = more, !.proc = pr]
      BY <1>1, <1>7, <2>1, <3>1 DEF TurnType
    <3>2. CASE tt = [st EXCEPT !.q = held, !.send = most, !.proc = pr]
      <4>1. tt \in TurnType BY <1>1, <1>7, <2>1, <3>2 DEF TurnType
      <4>2. /\ tt.q = held /\ tt.space = st.space /\ tt.proc = pr /\ tt.progress = st.progress
            /\ tt.error = st.error /\ tt.send = most /\ tt.skip = st.skip
        BY <1>1, <3>2 DEF TurnType
      <4> QED BY <1>1, <4>1, <4>2
    <3> QED BY <2>2, <3>1, <3>2
  <2>4. HandMore(H, Hand(k, tt), k, n) /\ Len(tt.send) + Len(tt.skip) = Len(st.send) + Len(st.skip) + 1
    BY <1>1, <1>3, <2>3, HandAppend DEF H, more, most
  <2>5. Hand(k, tt) \in Hands BY <2>3, HandType
  <2>6. QueueInv(held, Hand(k, tt)) BY <1>6, <2>4, <2>5
  <2>7. tt.proc = Len(tt.send) + Len(tt.skip) BY <1>1, <2>3, <2>4 DEF pr
  <2>8. Space(held, k) = Space(s, k) BY <1>8, SameSpace DEF Space
  <2>9. SameFrame(q, held) BY <1>1, <1>8, FrameTrans
  <2>10. ~tt.progress => held.donePool = q.donePool BY <1>1, <1>8, <2>3
  <2> QED BY <1>1, <2>1, <2>3, <2>6, <2>7, <2>8, <2>9, <2>10 DEF TurnInv, tt
<1> QED BY <1>10, <1>11

-----------------------------------------------------------------------
(* The loop of reserveHeaders, turn by turn. *)
FirstTurn(k) ==
  [q |-> q, send |-> <<>>, skip |-> <<>>, space |-> Space(q, k), proc |-> 0,
   progress |-> FALSE, error |-> FALSE]
NextTurn(k, p, count, st) == IF ReserveMore(st, k, count) THEN ReserveTask(st, k, p) ELSE st
TurnOf(k, p, count, g, i) == IF i = 0 THEN FirstTurn(k) ELSE NextTurn(k, p, count, g[i - 1])
AreTurns(k, p, count, N, g) == g = [i \in 0..N |-> TurnOf(k, p, count, g, i)]

(* The function that ReserveTurns names satisfies its equation, if one does. *)
LEMMA TurnsChosen ==
  ASSUME NEW k, NEW p, NEW count
  PROVE  ReserveTurns(k, p, count) = CHOOSE g : AreTurns(k, p, count, Space(q, k), g)
BY DEF ReserveTurns, AreTurns, TurnOf, FirstTurn, NextTurn

(* Some function satisfies the equation of the loop of reserveHeaders. *)
LEMMA TurnsExist ==
  ASSUME NEW k, NEW p, NEW count, NEW N \in Nat
  PROVE  \E g : AreTurns(k, p, count, N, g)
<1> DEFINE T == {n \in Nat : \E g : AreTurns(k, p, count, n, g)}
<1>1. 0 \in T
  <2> DEFINE g == [i \in 0..0 |-> FirstTurn(k)]
  <2>1. \A i \in 0..0 : i = 0 OBVIOUS
  <2>2. AreTurns(k, p, count, 0, g) BY <2>1 DEF AreTurns, TurnOf
  <2> QED BY <2>2
<1>2. ASSUME NEW n \in Nat, n \in T PROVE n + 1 \in T
  <2>1. PICK g : AreTurns(k, p, count, n, g) BY <1>2
  <2> DEFINE h == [i \in 0..(n + 1) |-> IF i = n + 1 THEN NextTurn(k, p, count, g[n]) ELSE g[i]]
  <2>2. \A i \in 0..n : g[i] = TurnOf(k, p, count, g, i) BY <2>1, Zenon DEF AreTurns
  <2>3. \A i \in 0..(n + 1) : h[i] = IF i = n + 1 THEN NextTurn(k, p, count, g[n]) ELSE g[i] OBVIOUS
  <2>4. h = [i \in 0..(n + 1) |-> h[i]] OBVIOUS
  <2> HIDE DEF h
  <2>5. ASSUME NEW i \in 0..(n + 1) PROVE h[i] = TurnOf(k, p, count, h, i)
    <3>1. CASE i = n + 1
      <4>1. i # 0 /\ i - 1 = n /\ n \in 0..(n + 1) /\ n # n + 1 BY <3>1
      <4>2. h[n] = g[n] BY <2>3, <4>1
      <4>3. h[i] = NextTurn(k, p, count, g[n]) BY <2>3, <3>1
      <4>4. TurnOf(k, p, count, h, i) = NextTurn(k, p, count, h[n]) BY <4>1 DEF TurnOf
      <4> QED BY <4>2, <4>3, <4>4
    <3>2. CASE i # n + 1
      <4>1. i \in 0..n BY <3>2
      <4>2. h[i] = TurnOf(k, p, count, g, i) BY <2>2, <2>3, <3>2, <4>1
      <4>3. i = 0 => TurnOf(k, p, count, g, i) = TurnOf(k, p, count, h, i) BY DEF TurnOf
      <4>4. ASSUME i # 0 PROVE TurnOf(k, p, count, g, i) = TurnOf(k, p, count, h, i)
        <5>1. i - 1 \in 0..(n + 1) /\ i - 1 # n + 1 BY <3>2, <4>4
        <5>2. h[i - 1] = g[i - 1] BY <2>3, <5>1
        <5> QED BY <5>2 DEF TurnOf
      <4> QED BY <4>2, <4>3, <4>4
    <3> QED BY <3>1, <3>2
  <2>6. h = [i \in 0..(n + 1) |-> TurnOf(k, p, count, h, i)] BY <2>4, <2>5
  <2>7. AreTurns(k, p, count, n + 1, h) BY <2>6 DEF AreTurns
  <2> QED BY <2>7
<1> HIDE DEF T
<1>3. \A n \in Nat : n \in T BY <1>1, <1>2, InductionSet
<1> QED BY <1>3 DEF T

(* The turns of reserveHeaders: the first, and each after the one before. *)
LEMMA TurnsUnfold ==
  ASSUME NEW k, NEW p, NEW count, Space(q, k) \in Nat
  PROVE  LET turn == ReserveTurns(k, p, count)
         IN  /\ turn[0] = FirstTurn(k)
             /\ \A i \in 0..Space(q, k) : i # 0 => turn[i] = NextTurn(k, p, count, turn[i - 1])
<1> DEFINE turn == ReserveTurns(k, p, count)
           N == Space(q, k)
<1>1. AreTurns(k, p, count, N, turn)
  <2>1. \E g : AreTurns(k, p, count, N, g) BY TurnsExist
  <2>2. turn = CHOOSE g : AreTurns(k, p, count, N, g) BY TurnsChosen
  <2> QED BY <2>1, <2>2
<1>2. 0 \in 0..N OBVIOUS
<1> HIDE DEF turn, N
<1>3. \A i \in 0..N : turn[i] = TurnOf(k, p, count, turn, i) BY <1>1, Zenon DEF AreTurns
<1>4. turn[0] = FirstTurn(k) BY <1>2, <1>3 DEF TurnOf
<1>5. \A i \in 0..N : i # 0 => turn[i] = NextTurn(k, p, count, turn[i - 1]) BY <1>3 DEF TurnOf
<1> QED BY <1>4, <1>5 DEF turn, N

(* Between the operations nothing is in hand. *)
LEMMA ZeroType == Zero \in Hands /\ \A k \in Kind, n \in Number : Zero[k][n] = 0
BY DEF Zero, Hands

(* The room in the result cache is an integer. *)
LEMMA SpaceType ==
  ASSUME NEW s \in QueueType, NEW k \in Kind
  PROVE  Space(s, k) \in Int
<1>1. s.donePool[k] \in SUBSET Number BY Fields
<1>2. Cardinality(s.donePool[k]) \in Nat /\ InFlight(s, k) \in Nat BY <1>1, NumbersFinite, FlightBound
<1> QED BY <1>2, QueueAssumption DEF Space

(* The loop keeps its invariant, and so its result has it. *)
LEMMA LoopInv ==
  ASSUME NEW k \in Kind, NEW p, NEW count, QueueInv(q, Zero), Space(q, k) > 0
  PROVE  TurnInv(k, reserveHeaders(k, p, count))
<1> DEFINE turn == ReserveTurns(k, p, count)
           N == Space(q, k)
           T == {i \in Nat : i <= N => TurnInv(k, turn[i])}
<1>0. q \in QueueType BY DEF QueueInv, Framed
<1>1. N \in Nat BY <1>0, SpaceType
<1>2. /\ turn[0] = FirstTurn(k)
      /\ \A i \in 0..N : i # 0 => turn[i] = NextTurn(k, p, count, turn[i - 1])
  BY <1>1, TurnsUnfold
<1> HIDE DEF turn
<1>3. TurnInv(k, FirstTurn(k))
  <2> DEFINE st == FirstTurn(k)
  <2>1. /\ st \in TurnType /\ st.q = q /\ st.send = <<>> /\ st.skip = <<>> /\ st.space = N /\ st.proc = 0
        /\ ~st.progress /\ ~st.error
    <3>1. st = [q |-> q, send |-> <<>>, skip |-> <<>>, space |-> N, proc |-> 0,
                progress |-> FALSE, error |-> FALSE]
      BY DEF FirstTurn
    <3> HIDE DEF st, N
    <3>2. <<>> \in Seq(Number) /\ N \in Int /\ 0 \in Int BY <1>1
    <3>3. st \in TurnType BY <1>0, <3>1, <3>2 DEF TurnType
    <3> QED BY <3>1, <3>3
  <2> HIDE DEF st, N
  <2>2. Hand(k, st) = Zero
    <3>1. \A n : Times(st.send, n) + Times(st.skip, n) = 0 BY <2>1, TimesEmpty
    <3> QED BY <3>1 DEF Hand, Zero
  <2>3. st.proc = Len(st.send) + Len(st.skip) BY <2>1
  <2>4. SameFrame(q, q) BY DEF SameFrame
  <2>5. st.proc <= st.space BY <1>1, <2>1
  <2>6. QueueInv(st.q, Hand(k, st)) /\ SameFrame(q, st.q) BY <2>1, <2>2, <2>4
  <2>7. st.space = Space(st.q, k) BY <2>1 DEF N
  <2>8. TurnInv(k, st) BY <2>1, <2>3, <2>5, <2>6, <2>7 DEF TurnInv
  <2> QED BY <2>8 DEF st
<1> HIDE DEF N
<1>4. 0 \in T BY <1>2, <1>3
<1>5. ASSUME NEW i \in Nat, i \in T PROVE i + 1 \in T
  <2> SUFFICES ASSUME i + 1 <= N PROVE TurnInv(k, turn[i + 1]) OBVIOUS
  <2>1. i + 1 \in 0..N /\ i + 1 # 0 /\ (i + 1) - 1 = i /\ i <= N BY <1>1
  <2>2. turn[i + 1] = NextTurn(k, p, count, turn[i]) BY <1>2, <2>1
  <2>3. TurnInv(k, turn[i]) BY <1>5, <2>1
  <2>4. ReserveMore(turn[i], k, count) => TurnInv(k, ReserveTask(turn[i], k, p))
    BY <2>3, TaskInv DEF ReserveMore
  <2> QED BY <2>2, <2>3, <2>4 DEF NextTurn
<1> HIDE DEF T
<1>6. \A i \in Nat : i \in T BY <1>4, <1>5, InductionSet
<1>7. TurnInv(k, turn[N]) BY <1>1, <1>6 DEF T
<1> QED BY <1>7 DEF reserveHeaders, turn, N

(* After the loop: the skipped tasks go back, and the others become the request. *)
Give(s, k, p, list) == [s EXCEPT !.pendPool[k][p] = list]
Given(s, t, k, p, list) ==
  /\ t \in QueueType /\ SameWindow(s, t) /\ t.closed = s.closed /\ t.taskQueue = s.taskQueue
  /\ t.taskPool = s.taskPool /\ t.donePool = s.donePool /\ t.resultCache = s.resultCache
  /\ t.pendPool = [s.pendPool EXCEPT ![k][p] = list]
(* What recording a request changes. *)
LEMMA GiveShape ==
  ASSUME NEW s \in QueueType, NEW k \in Kind, NEW p \in Source, NEW list \in Seq(Number)
  PROVE  Given(s, Give(s, k, p, list), k, p, list)
<1> DEFINE pp == [s.pendPool EXCEPT ![k][p] = list]
<1>1. s.pendPool \in [Kind -> [Source -> Seq(Number)]] BY Fields
<1>2. pp \in [Kind -> [Source -> Seq(Number)]] BY <1>1
<1>3. Give(s, k, p, list) = [s EXCEPT !.pendPool = pp] BY DEF Give, QueueType
<1> HIDE DEF pp
<1>4. LET t == [s EXCEPT !.pendPool = pp]
      IN  /\ t \in QueueType /\ SameWindow(s, t) /\ t.closed = s.closed /\ t.taskQueue = s.taskQueue
          /\ t.taskPool = s.taskPool /\ t.donePool = s.donePool /\ t.resultCache = s.resultCache
          /\ t.pendPool = pp
  BY <1>2 DEF QueueType, SameWindow
<1> QED BY <1>3, <1>4 DEF Given, pp

(* After its loop reserveHeaders puts back what it skipped and records the request:
   nothing stays in hand. *)
LEMMA ReserveInv ==
  ASSUME NEW k \in Kind, NEW p \in Source, NEW st, TurnInv(k, st), q.pendPool[k][p] = <<>>
  PROVE  LET back == Push(st.q, k, st.skip)
         IN  /\ st.send = <<>> => QueueInv(back, Zero)
             /\ QueueInv(Give(back, k, p, st.send), Zero)
             /\ SameWindow(q, back) /\ back.donePool = st.q.donePool
             /\ SameWindow(q, Give(back, k, p, st.send))
             /\ Give(back, k, p, st.send).donePool = st.q.donePool
<1> DEFINE s == st.q
           H == Hand(k, st)
           back == Push(s, k, st.skip)
           t == Give(back, k, p, st.send)
           M == [j \in Kind |-> [n \in Number |-> IF j = k THEN Times(st.send, n) ELSE 0]]
<1>1. st \in TurnType /\ QueueInv(s, H) /\ s \in QueueType /\ SameFrame(q, s)
  BY DEF TurnInv, QueueInv, Framed
<1>2. st.send \in Seq(Number) /\ st.skip \in Seq(Number) BY <1>1 DEF TurnType
<1>3. /\ H \in Hands
      /\ \A n \in Number : /\ H[k][n] = Times(st.send, n) + Times(st.skip, n)
                           /\ Times(st.send, n) \in Nat /\ Times(st.skip, n) \in Nat
      /\ \A j \in Kind : j # k => H[j] = [n \in Number |-> 0]
  BY <1>1, HandType
<1>4. /\ M \in Hands /\ \A n \in Number : M[k][n] = Times(st.send, n)
      /\ \A j \in Kind, n \in Number : j # k => M[j][n] = 0
  BY <1>3 DEF Hands
<1>5. /\ back \in QueueType /\ SameFrame(s, back)
      /\ back.taskPool = s.taskPool /\ back.donePool = s.donePool /\ back.resultCache = s.resultCache
      /\ \A n \in Number : back.taskQueue[k][n] = s.taskQueue[k][n] + Times(st.skip, n)
      /\ \A j \in Kind : j # k => back.taskQueue[j] = s.taskQueue[j]
  BY <1>1, <1>2, PushShape
<1> HIDE DEF s, H, back, M
<1>6. /\ t \in QueueType /\ SameWindow(back, t) /\ t.taskQueue = back.taskQueue
      /\ t.taskPool = back.taskPool /\ t.donePool = back.donePool /\ t.resultCache = back.resultCache
      /\ t.pendPool = [back.pendPool EXCEPT ![k][p] = st.send]
  <2>1. Given(back, t, k, p, st.send) BY <1>2, <1>5, GiveShape
  <2> HIDE DEF t
  <2> QED BY <2>1 DEF Given
<1> HIDE DEF t
<1>7. QueueInv(back, M)
  <2>1. \A j \in Kind, n \in Number : Asked(back, j, n) = Asked(s, j, n) BY <1>5 DEF Asked, SameFrame
  <2>2. ASSUME NEW j \in Kind, NEW n \in Number
        PROVE  /\ back.taskQueue[j][n] + Asked(back, j, n) + M[j][n] = s.taskQueue[j][n] + Asked(s, j, n) + H[j][n]
               /\ Asked(back, j, n) > 0 \/ M[j][n] > 0 => Asked(s, j, n) > 0 \/ H[j][n] > 0
    <3>1. s.taskQueue[j][n] \in Nat /\ Asked(s, j, n) \in Nat BY <1>1, <1>3, OnePlace
    <3>2. CASE j = k
      <4>1. /\ H[k][n] = Times(st.send, n) + Times(st.skip, n) /\ M[k][n] = Times(st.send, n)
            /\ Times(st.send, n) \in Nat /\ Times(st.skip, n) \in Nat
            /\ back.taskQueue[k][n] = s.taskQueue[k][n] + Times(st.skip, n)
        BY <1>3, <1>4, <1>5
      <4>2. Asked(back, k, n) = Asked(s, k, n) /\ Asked(s, k, n) \in Nat /\ s.taskQueue[k][n] \in Nat
        BY <2>1, <3>1, <3>2
      <4>3. /\ back.taskQueue[k][n] + Asked(back, k, n) + M[k][n] = s.taskQueue[k][n] + Asked(s, k, n) + H[k][n]
            /\ Asked(back, k, n) > 0 \/ M[k][n] > 0 => Asked(s, k, n) > 0 \/ H[k][n] > 0
        <5> DEFINE a == s.taskQueue[k][n]
                   b == Asked(s, k, n)
                   x == Times(st.send, n)
                   y == Times(st.skip, n)
        <5>1. a \in Nat /\ b \in Nat /\ x \in Nat /\ y \in Nat BY <4>1, <4>2
        <5>2. /\ back.taskQueue[k][n] = a + y /\ Asked(back, k, n) = b /\ M[k][n] = x /\ H[k][n] = x + y
          BY <4>1, <4>2
        <5> HIDE DEF a, b, x, y
        <5>3. (a + y) + b + x = a + b + (x + y) /\ (b > 0 \/ x > 0 => b > 0 \/ x + y > 0) BY <5>1
        <5> QED BY <5>2, <5>3 DEF a, b
      <4> QED BY <3>2, <4>3
    <3>3. CASE j # k
      <4>1. H[j][n] = 0 /\ M[j][n] = 0 BY <1>3, <1>4, <3>3
      <4>2. back.taskQueue[j][n] = s.taskQueue[j][n] BY <1>5, <3>3
      <4> QED BY <2>1, <3>1, <4>1, <4>2
    <3> QED BY <3>2, <3>3
  <2>3. back.mode = s.mode /\ back.pivot = s.pivot /\ back.headerHead = s.headerHead
        /\ back.resultOffset = s.resultOffset
    BY <1>5 DEF SameFrame
  <2>4. Rearranged(s, back, H, M) BY <2>2 DEF Rearranged
  <2> QED BY <1>1, <1>3, <1>4, <1>5, <2>3, <2>4, RearrangedInv
<1>8. ASSUME st.send = <<>> PROVE QueueInv(back, Zero)
  <2>1. \A n : Times(st.send, n) = 0 BY <1>8, TimesEmpty
  <2>2. M = Zero BY <2>1 DEF M, Zero
  <2> QED BY <1>7, <2>2
<1>9. QueueInv(t, Zero)
  <2>1. back.pendPool[k][p] = <<>> BY <1>1, <1>5 DEF SameFrame
  <2>2. /\ \A n : Asked(t, k, n) = Asked(back, k, n) - Times(back.pendPool[k][p], n) + Times(st.send, n)
        /\ \A j \in Kind : \A n : j # k => Asked(t, j, n) = Asked(back, j, n)
    BY <1>2, <1>5, <1>6, AskedSwap
  <2>3. ASSUME NEW j \in Kind, NEW n \in Number
        PROVE  /\ t.taskQueue[j][n] + Asked(t, j, n) + Zero[j][n] = back.taskQueue[j][n] + Asked(back, j, n) + M[j][n]
               /\ Asked(t, j, n) > 0 \/ Zero[j][n] > 0 => Asked(back, j, n) > 0 \/ M[j][n] > 0
    <3>1. back.taskQueue[j][n] \in Nat /\ Asked(back, j, n) \in Nat BY <1>4, <1>7, OnePlace
    <3>2. Zero[j][n] = 0 /\ t.taskQueue[j][n] = back.taskQueue[j][n] BY <1>6, ZeroType
    <3>3. Times(back.pendPool[k][p], n) = 0 BY <2>1, TimesEmpty
    <3>4. CASE j = k
      <4>1. Times(st.send, n) \in Nat /\ M[k][n] = Times(st.send, n) BY <1>3, <1>4
      <4>2. Asked(t, k, n) = Asked(back, k, n) - Times(back.pendPool[k][p], n) + Times(st.send, n) BY <2>2
      <4>3. Asked(t, k, n) = Asked(back, k, n) + Times(st.send, n)
        <5> DEFINE b == Asked(back, k, n)
                   x == Times(st.send, n)
        <5>1. b \in Nat /\ x \in Nat BY <3>1, <3>4, <4>1
        <5>2. Asked(t, k, n) = b - 0 + x BY <3>3, <4>2
        <5> HIDE DEF b, x
        <5>3. b - 0 + x = b + x BY <5>1
        <5> QED BY <5>2, <5>3 DEF b, x
      <4> DEFINE a == back.taskQueue[k][n]
                 b == Asked(back, k, n)
                 x == Times(st.send, n)
      <4>4. a \in Nat /\ b \in Nat /\ x \in Nat BY <3>1, <3>4, <4>1
      <4>5. t.taskQueue[k][n] = a /\ Asked(t, k, n) = b + x /\ Zero[k][n] = 0 /\ M[k][n] = x
        BY <3>2, <3>4, <4>1, <4>3
      <4> HIDE DEF a, b, x
      <4>6. a + (b + x) + 0 = a + b + x /\ (b + x > 0 \/ 0 > 0 => b > 0 \/ x > 0) BY <4>4
      <4> QED BY <3>4, <4>5, <4>6 DEF a, b
    <3>5. CASE j # k BY <1>4, <2>2, <3>1, <3>2, <3>5
    <3> QED BY <3>4, <3>5
  <2> QED BY <1>4, <1>6, <1>7, <2>3, ZeroType, MovedInv DEF SameWindow
<1>10. SameWindow(q, back) /\ SameWindow(q, t) BY <1>1, <1>5, <1>6 DEF SameFrame, SameWindow
<1> QED BY <1>5, <1>6, <1>8, <1>9, <1>10 DEF s, back, t
=======================================================================
