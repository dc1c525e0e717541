------------------------ MODULE FetcherProofs ------------------------
(* Proofs about Fetcher, for any blocks, peers and limits. *)
EXTENDS Fetcher, Sums, FiniteSetTheorems, TLAPS

(* The shape of the maps; the counters are typed with what they count. *)
MapsInv(s) ==
  s \in [announces : {s.announces}, announced : [Hash -> Seq(Announce)],
         fetching : [Hash -> Announce \cup {NoAnnounce}], fetched : [Hash -> Seq(Announce)],
         completing : [Hash -> Announce \cup {NoAnnounce}],
         queue : SUBSET Hash, queues : {s.queues}, queued : [Hash -> Peer \cup {NoPeer}],
         importing : [Hash -> Importing]]

(* ImportOnce of the maps s. *)
ImportInv(s) ==
  /\ Queued(s) = s.queue \cup {h \in Hash : s.importing[h] # "none"}
  /\ \A h \in s.queue : s.importing[h] = "none"

(* HeaderBeforeBody of the maps s. *)
HeaderInv(s) ==
  \A h \in Hash : /\ \A i \in DOMAIN s.fetched[h] : s.fetched[h][i].header
                  /\ s.completing[h] # NoAnnounce => s.completing[h].header

(* QueuesExact, of the counts of the peers and the owners of the queued blocks. *)
Of(owner, p) == {h \in Hash : owner[h] = p}
Exact(counts, owner) ==
  /\ counts \in [Peer -> Int]
  /\ \A p \in Peer : counts[p] = Cardinality(Of(owner, p)) /\ counts[p] <= blockLimit
CountInv(s) == Exact(s.queues, s.queued)

(* NoAnnounceLeak of the maps s. *)
LeakInv(s) ==
  /\ s.announces \in [Peer -> Int]
  /\ \A p \in Peer : s.announces[p] <= Outstanding(s, Hash, p)

Inv(s) == MapsInv(s) /\ ImportInv(s) /\ HeaderInv(s) /\ CountInv(s) /\ LeakInv(s)

(* The sets that are counted are finite. *)
LEMMA OfFinite ==
  ASSUME NEW owner, NEW p
  PROVE  IsFiniteSet(Of(owner, p)) /\ Cardinality(Of(owner, p)) \in Nat
<1>1. Of(owner, p) \in SUBSET Hash BY DEF Of
<1>2. IsFiniteSet(Of(owner, p)) BY <1>1, FS_Subset, FetcherAssumption
<1> QED BY <1>2, FS_CardinalityType

(* Giving blocks up lowers the counts of their owners. *)
LEMMA ExactForget ==
  ASSUME NEW counts, NEW owner \in [Hash -> Peer \cup {NoPeer}], Exact(counts, owner),
         NEW H \in SUBSET Hash
  PROVE  Exact([p \in Peer |-> counts[p] - Cardinality({h \in H : owner[h] = p})],
               [h \in Hash |-> IF h \in H THEN NoPeer ELSE owner[h]])
<1> DEFINE gone(p) == {h \in H : owner[h] = p}
           rest == [h \in Hash |-> IF h \in H THEN NoPeer ELSE owner[h]]
           less == [p \in Peer |-> counts[p] - Cardinality(gone(p))]
<1>1. ASSUME NEW p \in Peer
      PROVE  /\ Cardinality(gone(p)) \in Nat
             /\ Cardinality(Of(rest, p)) = Cardinality(Of(owner, p)) - Cardinality(gone(p))
  <2>1. /\ Of(owner, p) \cap gone(p) = gone(p) /\ gone(p) \in SUBSET Of(owner, p)
        /\ Of(rest, p) = Of(owner, p) \ gone(p)
    BY FetcherAssumption DEF Of
  <2> HIDE DEF gone, rest
  <2>2. IsFiniteSet(gone(p)) BY <2>1, OfFinite, FS_Subset
  <2>3. Cardinality(gone(p)) \in Nat BY <2>2, FS_CardinalityType
  <2>4. Cardinality(Of(owner, p) \ gone(p)) = Cardinality(Of(owner, p)) - Cardinality(Of(owner, p) \cap gone(p))
    BY OfFinite, FS_Difference
  <2> QED BY <2>1, <2>3, <2>4
<1> HIDE DEF gone, rest
<1>2. \A p \in Peer : /\ counts[p] \in Int /\ counts[p] = Cardinality(Of(owner, p)) /\ counts[p] <= blockLimit
                      /\ less[p] = counts[p] - Cardinality(gone(p))
  BY DEF Exact
<1>3. \A p \in Peer : less[p] \in Int /\ less[p] = Cardinality(Of(rest, p)) /\ less[p] <= blockLimit
  BY <1>1, <1>2, FetcherAssumption
<1>4. less \in [Peer -> Int]
  <2>1. \A p \in Peer : counts[p] - Cardinality(gone(p)) \in Int BY <1>1, <1>2
  <2> QED BY <2>1
<1> HIDE DEF less
<1>5. Exact(less, rest) BY <1>3, <1>4 DEF Exact
<1> QED BY <1>5, Zenon DEF less, rest, gone

(* The counts and the owners once the blocks K are in, each from its new owner. *)
Among(K, new, p) == {h \in K : new[h] = p}
Raised(counts, K, new) == [p \in Peer |-> counts[p] + Cardinality(Among(K, new, p))]
Joined(owner, K, new) == [h \in Hash |-> IF h \in K THEN new[h] ELSE owner[h]]

(* Taking in blocks that nobody owned raises the counts of the new owners. *)
LEMMA ExactTake ==
  ASSUME NEW counts, NEW owner \in [Hash -> Peer \cup {NoPeer}], Exact(counts, owner),
         NEW K \in SUBSET Hash, NEW new, \A h \in K : owner[h] = NoPeer /\ new[h] \in Peer,
         \A p \in Peer : counts[p] + Cardinality(Among(K, new, p)) <= blockLimit
  PROVE  Exact(Raised(counts, K, new), Joined(owner, K, new))
<1> DEFINE come(p) == {h \in K : new[h] = p}
           all == [h \in Hash |-> IF h \in K THEN new[h] ELSE owner[h]]
           more == [p \in Peer |-> counts[p] + Cardinality(come(p))]
<1>1. ASSUME NEW p \in Peer
      PROVE  /\ Cardinality(come(p)) \in Nat
             /\ Cardinality(Of(all, p)) = Cardinality(Of(owner, p)) + Cardinality(come(p))
  <2>1. /\ Of(owner, p) \cap come(p) = {} /\ come(p) \in SUBSET Hash
        /\ Of(all, p) = Of(owner, p) \cup come(p)
    BY FetcherAssumption DEF Of
  <2> HIDE DEF come, all
  <2>2. IsFiniteSet(come(p)) BY <2>1, FetcherAssumption, FS_Subset
  <2>3. Cardinality(come(p)) \in Nat BY <2>2, FS_CardinalityType
  <2>4. Cardinality(Of(owner, p) \cup come(p)) =
          Cardinality(Of(owner, p)) + Cardinality(come(p)) - Cardinality(Of(owner, p) \cap come(p))
    BY <2>2, OfFinite, FS_Union
  <2>5. Cardinality({}) = 0 BY FS_EmptySet, Zenon
  <2>6. Cardinality(Of(owner, p)) \in Nat BY OfFinite
  <2>7. Cardinality(Of(owner, p) \cap come(p)) = 0 BY <2>1, <2>5
  <2>8. Cardinality(Of(all, p)) = Cardinality(Of(owner, p) \cup come(p)) BY <2>1
  <2> QED BY <2>3, <2>4, <2>6, <2>7, <2>8
<1>2. \A p \in Peer : counts[p] + Cardinality(come(p)) <= blockLimit BY DEF Among
<1> HIDE DEF come, all
<1>3. \A p \in Peer : /\ counts[p] \in Int /\ counts[p] = Cardinality(Of(owner, p))
                      /\ more[p] = counts[p] + Cardinality(come(p))
  BY DEF Exact
<1>4. \A p \in Peer : more[p] = Cardinality(Of(all, p)) /\ more[p] <= blockLimit
  BY <1>1, <1>2, <1>3
<1>5. more \in [Peer -> Int]
  <2>1. \A p \in Peer : counts[p] + Cardinality(come(p)) \in Int BY <1>1, <1>3
  <2> QED BY <2>1
<1> HIDE DEF more
<1>6. Exact(more, all) BY <1>4, <1>5 DEF Exact
<1> QED BY <1>6, Zenon DEF more, all, come, Raised, Joined, Among

(* One block. *)
LEMMA ExactTakeOne ==
  ASSUME NEW counts, NEW owner \in [Hash -> Peer \cup {NoPeer}], Exact(counts, owner),
         NEW p \in Peer, NEW h \in Hash, owner[h] = NoPeer, counts[p] + 1 <= blockLimit
  PROVE  Exact([counts EXCEPT ![p] = @ + 1], [owner EXCEPT ![h] = p])
<1> DEFINE all == [owner EXCEPT ![h] = p]
           more == [counts EXCEPT ![p] = @ + 1]
<1>1. counts \in [Peer -> Int] BY DEF Exact
<1>2. Of(all, p) = Of(owner, p) \cup {h} /\ h \notin Of(owner, p)
      /\ \A q \in Peer \ {p} : Of(all, q) = Of(owner, q)
  BY FetcherAssumption DEF Of
<1>3. Cardinality(Of(owner, p) \cup {h}) = Cardinality(Of(owner, p)) + 1
  BY <1>2, OfFinite, FS_AddElement
<1>4. more \in [Peer -> Int] /\ more[p] = counts[p] + 1 /\ \A q \in Peer \ {p} : more[q] = counts[q]
  BY <1>1
<1> HIDE DEF all, more
<1>5. Exact(more, all) BY <1>2, <1>3, <1>4 DEF Exact
<1> QED BY <1>5 DEF more, all

-----------------------------------------------------------------------
(* Counting the entries of a peer. *)
Listed(list, p) == {i \in DOMAIN list : list[i].origin = p}

(* A peer has a number of announcements in a list. *)
LEMMA ByNat ==
  ASSUME NEW S, NEW list \in Seq(S), NEW p
  PROVE  IsFiniteSet(Listed(list, p)) /\ By(list, p) = Cardinality(Listed(list, p)) /\ By(list, p) \in Nat
<1>1. Listed(list, p) \in SUBSET (1..Len(list)) /\ Len(list) \in Nat BY DEF Listed
<1>2. IsFiniteSet(1..Len(list)) BY <1>1, FS_Interval
<1>3. IsFiniteSet(Listed(list, p)) BY <1>1, <1>2, FS_Subset
<1>4. By(list, p) = Cardinality(Listed(list, p)) BY DEF By, Listed
<1> QED BY <1>3, <1>4, FS_CardinalityType

(* The empty list holds no announcement. *)
LEMMA ByEmpty == ASSUME NEW p PROVE By(<<>>, p) = 0
<1>1. {i \in DOMAIN <<>> : <<>>[i].origin = p} = {} OBVIOUS
<1>2. Cardinality({}) = 0 BY FS_EmptySet, Zenon
<1> QED BY <1>1, <1>2 DEF By

(* An appended announcement counts for its own peer. *)
LEMMA ByAppend ==
  ASSUME NEW S, NEW list \in Seq(S), NEW a \in S, NEW p
  PROVE  By(Append(list, a), p) = By(list, p) + (IF a.origin = p THEN 1 ELSE 0)
<1> DEFINE n == Len(list) + 1
           more == Append(list, a)
<1>1. /\ more \in Seq(S) /\ DOMAIN more = 1..n /\ DOMAIN list = 1..Len(list) /\ Len(list) \in Nat
      /\ more[n] = a /\ \A i \in 1..Len(list) : more[i] = list[i]
  OBVIOUS
<1> HIDE DEF more
<1>2. /\ \A i : i \in 1..n <=> i \in 1..Len(list) \/ i = n
      /\ n \notin 1..Len(list)
  BY <1>1
<1> HIDE DEF n
<1>3. Listed(more, p) = IF a.origin = p THEN Listed(list, p) \cup {n} ELSE Listed(list, p)
  BY <1>1, <1>2 DEF Listed
<1>4. n \notin Listed(list, p) BY <1>1, <1>2 DEF Listed
<1>5. IsFiniteSet(Listed(list, p)) /\ By(list, p) = Cardinality(Listed(list, p))
      /\ By(more, p) = Cardinality(Listed(more, p)) /\ By(list, p) \in Nat
  BY <1>1, ByNat
<1>6. Cardinality(Listed(list, p) \cup {n}) = Cardinality(Listed(list, p)) + 1
  BY <1>4, <1>5, FS_AddElement
<1>7. By(more, p) = By(list, p) + (IF a.origin = p THEN 1 ELSE 0) BY <1>3, <1>5, <1>6
<1> QED BY <1>7 DEF more

(* A single announcement counts for its own peer. *)
LEMMA ByOne == ASSUME NEW a, NEW p PROVE By(<<a>>, p) = IF a.origin = p THEN 1 ELSE 0
<1>1. <<>> \in Seq({a}) /\ <<a>> = Append(<<>>, a) OBVIOUS
<1>2. By(Append(<<>>, a), p) = By(<<>>, p) + (IF a.origin = p THEN 1 ELSE 0) BY <1>1, ByAppend
<1>3. By(<<a>>, p) = By(Append(<<>>, a), p) BY <1>1
<1> QED BY <1>2, <1>3, ByEmpty

(* A single announcement counts as zero or one. *)
LEMMA ByOneNat == ASSUME NEW a, NEW p PROVE By(<<a>>, p) \in Nat
BY ByOne

(* How much of the allowance of p goes to h. *)
LEMMA EntriesNat ==
  ASSUME NEW s, MapsInv(s), NEW h \in Hash, NEW p
  PROVE  /\ By(s.announced[h], p) \in Nat /\ By(s.fetched[h], p) \in Nat
         /\ Entries(s, h, p) \in Nat
         /\ Entries(s, h, p) = By(s.announced[h], p) + (IF s.fetching[h].origin = p THEN 1 ELSE 0)
                               + By(s.fetched[h], p) + (IF s.completing[h].origin = p THEN 1 ELSE 0)
<1>1. s.announced[h] \in Seq(Announce) /\ s.fetched[h] \in Seq(Announce) BY DEF MapsInv
<1>2. By(s.announced[h], p) \in Nat /\ By(s.fetched[h], p) \in Nat BY <1>1, ByNat
<1>3. /\ By(<<s.fetching[h]>>, p) = IF s.fetching[h].origin = p THEN 1 ELSE 0
      /\ By(<<s.completing[h]>>, p) = IF s.completing[h].origin = p THEN 1 ELSE 0
  BY ByOne
<1> QED BY <1>2, <1>3 DEF Entries

(* What is outstanding of p, hash by hash. *)
Dues(s, p) == [h \in Hash |-> Entries(s, h, p)]

(* What is outstanding of a peer for a hash is a number. *)
LEMMA DuesNat ==
  ASSUME NEW s, MapsInv(s), NEW p
  PROVE  /\ \A h \in Hash : Dues(s, p)[h] = Entries(s, h, p) /\ Dues(s, p)[h] \in Nat /\ Dues(s, p)[h] \in Int
         /\ \A H \in SUBSET Hash : /\ IsFiniteSet(H)
                                   /\ Outstanding(s, H, p) = SumFunctionOnSet(Dues(s, p), H)
                                   /\ Outstanding(s, H, p) \in Int
<1>1. \A h \in Hash : Dues(s, p)[h] = Entries(s, h, p) /\ Dues(s, p)[h] \in Nat BY EntriesNat DEF Dues
<1>2. \A H : Outstanding(s, H, p) = SumFunctionOnSet(Dues(s, p), H) BY DEF Outstanding, Dues
<1>3. \A h \in Hash : Dues(s, p)[h] \in Int BY <1>1
<1>4. \A H \in SUBSET Hash : IsFiniteSet(H) BY FetcherAssumption, FS_Subset
<1>5. \A H \in SUBSET Hash : SumFunctionOnSet(Dues(s, p), H) \in Int BY <1>3, <1>4, SumType
<1> QED BY <1>1, <1>2, <1>3, <1>4, <1>5

(* New entries can only raise what is outstanding. *)
LEMMA LeakMore ==
  ASSUME NEW s, NEW t, MapsInv(s), MapsInv(t), LeakInv(s), t.announces = s.announces,
         \A h \in Hash, p \in Peer : Entries(s, h, p) <= Entries(t, h, p)
  PROVE  LeakInv(t)
<1>1. ASSUME NEW p \in Peer PROVE t.announces[p] <= Outstanding(t, Hash, p)
  <2>1. Hash \in SUBSET Hash /\ IsFiniteSet(Hash) BY FetcherAssumption
  <2>2. \A h \in Hash : Dues(s, p)[h] \in Int /\ Dues(t, p)[h] \in Int /\ Dues(s, p)[h] <= Dues(t, p)[h]
    BY DuesNat
  <2>3. SumFunctionOnSet(Dues(s, p), Hash) <= SumFunctionOnSet(Dues(t, p), Hash) BY <2>1, <2>2, SumMono
  <2>4. /\ Outstanding(s, Hash, p) = SumFunctionOnSet(Dues(s, p), Hash) /\ Outstanding(s, Hash, p) \in Int
        /\ Outstanding(t, Hash, p) = SumFunctionOnSet(Dues(t, p), Hash) /\ Outstanding(t, Hash, p) \in Int
    BY <2>1, DuesNat
  <2>5. s.announces[p] \in Int /\ s.announces[p] <= Outstanding(s, Hash, p) BY DEF LeakInv
  <2> QED BY <2>3, <2>4, <2>5
<1> QED BY <1>1 DEF LeakInv

(* The entries are those of the four stages. *)
LEMMA LeakSame ==
  ASSUME NEW s, NEW t, MapsInv(s), MapsInv(t), LeakInv(s), t.announces = s.announces,
         t.announced = s.announced, t.fetching = s.fetching, t.fetched = s.fetched, t.completing = s.completing
  PROVE  LeakInv(t)
<1>1. \A h \in Hash, p \in Peer : Entries(t, h, p) = Entries(s, h, p) BY DEF Entries
<1>2. \A h \in Hash, p \in Peer : Entries(s, h, p) \in Nat BY EntriesNat
<1>3. \A h \in Hash, p \in Peer : Entries(s, h, p) <= Entries(t, h, p) BY <1>1, <1>2
<1> QED BY <1>3, LeakMore

(* An entry of one of the single stages that is new, or of the same peer as before. *)
Kept(a, b) == b = a \/ a = NoAnnounce \/ b.origin = a.origin

(* A step that loses no announcement of the later stages keeps the counters covered. *)
LEMMA LeakStage ==
  ASSUME NEW s, NEW t, MapsInv(s), MapsInv(t), LeakInv(s), t.announces = s.announces,
         t.announced = s.announced, t.fetched = s.fetched,
         \A h \in Hash : Kept(s.fetching[h], t.fetching[h]) /\ Kept(s.completing[h], t.completing[h])
  PROVE  LeakInv(t)
<1>1. ASSUME NEW h \in Hash, NEW p \in Peer PROVE Entries(s, h, p) <= Entries(t, h, p)
  <2>1. NoAnnounce.origin # p BY FetcherAssumption DEF NoAnnounce
  <2>2. /\ s.fetching[h].origin = p => t.fetching[h].origin = p
        /\ s.completing[h].origin = p => t.completing[h].origin = p
    BY <2>1 DEF Kept
  <2> DEFINE n == By(s.announced[h], p)
             m == By(s.fetched[h], p)
  <2>3. /\ n \in Nat /\ m \in Nat
        /\ Entries(s, h, p) = n + (IF s.fetching[h].origin = p THEN 1 ELSE 0)
                              + m + (IF s.completing[h].origin = p THEN 1 ELSE 0)
    BY EntriesNat
  <2>4. Entries(t, h, p) = n + (IF t.fetching[h].origin = p THEN 1 ELSE 0)
                           + m + (IF t.completing[h].origin = p THEN 1 ELSE 0)
    BY EntriesNat
  <2> HIDE DEF n, m
  <2> QED BY <2>2, <2>3, <2>4
<1> QED BY <1>1, LeakMore

(* A header that arrives makes an entry in fetched. *)
LEMMA LeakFetched ==
  ASSUME NEW s, NEW t, MapsInv(s), MapsInv(t), LeakInv(s), t.announces = s.announces,
         NEW h \in Hash, NEW a \in Announce,
         t.announced = s.announced, t.fetched = [s.fetched EXCEPT ![h] = Append(s.fetched[h], a)],
         t.fetching = s.fetching, t.completing = s.completing
  PROVE  LeakInv(t)
<1>1. s.fetched \in [Hash -> Seq(Announce)] BY DEF MapsInv
<1>2. ASSUME NEW g \in Hash, NEW p \in Peer PROVE Entries(s, g, p) <= Entries(t, g, p)
  <2>1. By(s.fetched[g], p) \in Nat /\ By(t.fetched[g], p) \in Nat BY EntriesNat
  <2>2. By(s.fetched[g], p) <= By(t.fetched[g], p)
    <3>1. CASE g = h
      <4>1. t.fetched[g] = Append(s.fetched[g], a) /\ s.fetched[g] \in Seq(Announce) BY <1>1, <3>1
      <4>2. By(t.fetched[g], p) = By(s.fetched[g], p) + (IF a.origin = p THEN 1 ELSE 0)
        BY <4>1, ByAppend
      <4> QED BY <2>1, <4>2
    <3>2. CASE g # h
      <4>1. t.fetched[g] = s.fetched[g] BY <1>1, <3>2
      <4> QED BY <2>1, <4>1
    <3> QED BY <3>1, <3>2
  <2> DEFINE n == By(s.announced[g], p)
             x == By(<<s.fetching[g]>>, p)
             y == By(<<s.completing[g]>>, p)
  <2>3. Entries(s, g, p) = n + x + By(s.fetched[g], p) + y BY Zenon DEF Entries
  <2>4. Entries(t, g, p) = n + x + By(t.fetched[g], p) + y BY Zenon DEF Entries
  <2>5. x \in Nat /\ y \in Nat BY ByOneNat
  <2>6. n \in Nat BY EntriesNat
  <2> HIDE DEF n, x, y
  <2> QED BY <2>1, <2>2, <2>3, <2>4, <2>5, <2>6
<1> QED BY <1>2, LeakMore

(* An announcement that is scheduled is counted. *)
LEMMA LeakAnnounce ==
  ASSUME NEW s, NEW t, MapsInv(s), MapsInv(t), LeakInv(s), NEW p \in Peer, NEW h \in Hash,
         NEW a \in Announce, a.origin = p, t.announces = [s.announces EXCEPT ![p] = @ + 1],
         t.announced = [s.announced EXCEPT ![h] = Append(s.announced[h], a)],
         t.fetching = s.fetching, t.fetched = s.fetched, t.completing = s.completing
  PROVE  LeakInv(t)
<1>1. s.announced \in [Hash -> Seq(Announce)] BY DEF MapsInv
<1>2. \A r : By(Append(s.announced[h], a), r) = By(s.announced[h], r) + (IF a.origin = r THEN 1 ELSE 0)
  BY <1>1, ByAppend
<1>3. ASSUME NEW g \in Hash, NEW r \in Peer
      PROVE  Entries(t, g, r) = Entries(s, g, r) + (IF g = h /\ r = p THEN 1 ELSE 0)
  <2>0. \E n \in Nat : /\ Entries(s, g, r) = By(s.announced[g], r) + n /\ By(s.announced[g], r) \in Nat
                      /\ Entries(t, g, r) = By(t.announced[g], r) + n /\ By(t.announced[g], r) \in Nat
    <3> DEFINE x == By(<<s.fetching[g]>>, r)
               y == By(s.fetched[g], r)
               z == By(<<s.completing[g]>>, r)
    <3>1. Entries(s, g, r) = By(s.announced[g], r) + x + y + z BY Zenon DEF Entries
    <3>2. Entries(t, g, r) = By(t.announced[g], r) + x + y + z BY Zenon DEF Entries
    <3>3. x \in Nat /\ z \in Nat BY ByOneNat
    <3>6. y \in Nat /\ By(s.announced[g], r) \in Nat BY EntriesNat
    <3>7. By(t.announced[g], r) \in Nat BY EntriesNat
    <3> HIDE DEF x, y, z
    <3>4. x + y + z \in Nat BY <3>3, <3>6
    <3>5. /\ Entries(s, g, r) = By(s.announced[g], r) + (x + y + z)
          /\ Entries(t, g, r) = By(t.announced[g], r) + (x + y + z)
      BY <3>1, <3>2, <3>3, <3>6, <3>7
    <3> QED BY <3>4, <3>5, <3>6, <3>7
  <2>1. CASE g = h
    <3>1. t.announced[g] = Append(s.announced[h], a) BY <1>1, <2>1
    <3>2. By(t.announced[g], r) = By(s.announced[g], r) + (IF r = p THEN 1 ELSE 0) BY <1>2, <2>1, <3>1
    <3> QED BY <2>0, <2>1, <3>2
  <2>2. CASE g # h
    <3>1. By(t.announced[g], r) = By(s.announced[g], r) BY <1>1, <2>2
    <3> QED BY <2>0, <2>2, <3>1
  <2> QED BY <2>1, <2>2
<1>4. s.announces \in [Peer -> Int] BY DEF LeakInv
<1>5. /\ t.announces \in [Peer -> Int] /\ t.announces[p] = s.announces[p] + 1
      /\ \A r \in Peer : r # p => t.announces[r] = s.announces[r]
  BY <1>4
<1>6. ASSUME NEW r \in Peer PROVE t.announces[r] <= Outstanding(t, Hash, r)
  <2> DEFINE old == Dues(s, r)
             new == Dues(t, r)
  <2>1. Hash \in SUBSET Hash /\ IsFiniteSet(Hash) BY FetcherAssumption
  <2>2. /\ \A g \in Hash : old[g] \in Int /\ old[g] = Entries(s, g, r)
        /\ \A g \in Hash : new[g] \in Int /\ new[g] = Entries(t, g, r)
        /\ Outstanding(s, Hash, r) = SumFunctionOnSet(old, Hash) /\ Outstanding(s, Hash, r) \in Int
        /\ Outstanding(t, Hash, r) = SumFunctionOnSet(new, Hash) /\ Outstanding(t, Hash, r) \in Int
    BY <2>1, DuesNat
  <2> HIDE DEF old, new
  <2>3. \A g \in Hash : new[g] = old[g] + (IF g = h /\ r = p THEN 1 ELSE 0) BY <1>3, <2>2
  <2>4. \A g \in Hash : g # h => old[g] = new[g] BY <2>2, <2>3
  <2>5. SumFunctionOnSet(new, Hash) = SumFunctionOnSet(old, Hash) - old[h] + new[h]
    BY <2>1, <2>2, <2>4, SumShift
  <2>6. new[h] = old[h] + (IF r = p THEN 1 ELSE 0) BY <2>3
  <2>7. Outstanding(t, Hash, r) = Outstanding(s, Hash, r) + (IF r = p THEN 1 ELSE 0) BY <2>2, <2>5, <2>6
  <2>8. s.announces[r] \in Int /\ s.announces[r] <= Outstanding(s, Hash, r) BY DEF LeakInv
  <2> QED BY <1>5, <2>2, <2>7, <2>8
<1> QED BY <1>5, <1>6 DEF LeakInv

-----------------------------------------------------------------------
(* Well-typed updates of the four stages keep the shape. *)
LEMMA UpdateStages ==
  ASSUME NEW s, MapsInv(s), NEW a,
         NEW b \in [Hash -> Seq(Announce)], NEW c \in [Hash -> Announce \cup {NoAnnounce}],
         NEW d \in [Hash -> Seq(Announce)], NEW e \in [Hash -> Announce \cup {NoAnnounce}]
  PROVE  MapsInv([s EXCEPT !.announces = a, !.announced = b, !.fetching = c, !.fetched = d, !.completing = e])
BY DEF MapsInv

(* forgetHash only takes entries away, and leaves the queue alone. *)
LEMMA ForgetHash ==
  ASSUME NEW s, MapsInv(s), NEW H \in SUBSET Hash
  PROVE  LET t == forgetHash(s, H)
         IN  /\ MapsInv(t)
             /\ t.queue = s.queue /\ t.queued = s.queued /\ t.importing = s.importing
             /\ t.queues = s.queues
             /\ \A h \in Hash :
                  /\ t.announced[h] = IF h \in H THEN <<>> ELSE s.announced[h]
                  /\ t.fetched[h] = IF h \in H THEN <<>> ELSE s.fetched[h]
                  /\ t.fetching[h] = IF h \in H THEN NoAnnounce ELSE s.fetching[h]
                  /\ t.completing[h] = IF h \in H THEN NoAnnounce ELSE s.completing[h]
<1> DEFINE a == [p \in Peer |-> s.announces[p] - Outstanding(s, H, p)]
           b == [h \in Hash |-> IF h \in H THEN <<>> ELSE s.announced[h]]
           c == [h \in Hash |-> IF h \in H THEN NoAnnounce ELSE s.fetching[h]]
           d == [h \in Hash |-> IF h \in H THEN <<>> ELSE s.fetched[h]]
           e == [h \in Hash |-> IF h \in H THEN NoAnnounce ELSE s.completing[h]]
           t == [s EXCEPT !.announces = a, !.announced = b, !.fetching = c, !.fetched = d, !.completing = e]
<1>1. forgetHash(s, H) = t
  BY Zenon DEF forgetHash
<1>2. /\ b \in [Hash -> Seq(Announce)] /\ d \in [Hash -> Seq(Announce)]
      /\ c \in [Hash -> Announce \cup {NoAnnounce}] /\ e \in [Hash -> Announce \cup {NoAnnounce}]
  <2>1. <<>> \in Seq(Announce) OBVIOUS
  <2> QED BY <2>1 DEF MapsInv
<1>3. MapsInv(t) /\ t.queue = s.queue /\ t.queued = s.queued /\ t.importing = s.importing
      /\ t.queues = s.queues
      /\ t.announced = b /\ t.fetched = d /\ t.fetching = c /\ t.completing = e
  <2> HIDE DEF a, b, c, d, e
  <2>1. MapsInv(t) BY <1>2, UpdateStages
  <2> HIDE DEF t
  <2> QED BY <2>1 DEF MapsInv, t
<1>4. \A h \in Hash : b[h] = IF h \in H THEN <<>> ELSE s.announced[h] OBVIOUS
<1>5. \A h \in Hash : c[h] = IF h \in H THEN NoAnnounce ELSE s.fetching[h] OBVIOUS
<1>6. \A h \in Hash : d[h] = IF h \in H THEN <<>> ELSE s.fetched[h] OBVIOUS
<1>7. \A h \in Hash : e[h] = IF h \in H THEN NoAnnounce ELSE s.completing[h] OBVIOUS
<1> HIDE DEF a, b, c, d, e, t
<1>8. LET u == forgetHash(s, H)
      IN  /\ MapsInv(u)
          /\ u.queue = s.queue /\ u.queued = s.queued /\ u.importing = s.importing
          /\ u.queues = s.queues
          /\ u.announced = b /\ u.fetched = d /\ u.fetching = c /\ u.completing = e
  BY <1>1, <1>3, Zenon
<1> QED BY <1>4, <1>5, <1>6, <1>7, <1>8

(* forgetHash gives back what is outstanding for the hashes it forgets. *)
LEMMA ForgetHashGives ==
  ASSUME NEW s, MapsInv(s), NEW H
  PROVE  forgetHash(s, H).announces = [p \in Peer |-> s.announces[p] - Outstanding(s, H, p)]
BY DEF forgetHash, MapsInv

(* What is forgotten is given back, no more and no less. *)
LEMMA LeakForget ==
  ASSUME NEW s, MapsInv(s), LeakInv(s), NEW H \in SUBSET Hash
  PROVE  LeakInv(forgetHash(s, H))
<1> DEFINE t == forgetHash(s, H)
<1>1. /\ MapsInv(t) /\ t.announces = [p \in Peer |-> s.announces[p] - Outstanding(s, H, p)]
      /\ \A h \in Hash :
           /\ t.announced[h] = IF h \in H THEN <<>> ELSE s.announced[h]
           /\ t.fetched[h] = IF h \in H THEN <<>> ELSE s.fetched[h]
           /\ t.fetching[h] = IF h \in H THEN NoAnnounce ELSE s.fetching[h]
           /\ t.completing[h] = IF h \in H THEN NoAnnounce ELSE s.completing[h]
  BY ForgetHash, ForgetHashGives
<1> HIDE DEF t
<1>2. ASSUME NEW p \in Peer, NEW h \in Hash
      PROVE  Entries(t, h, p) = IF h \in H THEN 0 ELSE Entries(s, h, p)
  <2>1. CASE h \in H
    <3>1. NoAnnounce.origin # p BY FetcherAssumption DEF NoAnnounce
    <3>2. By(t.announced[h], p) = 0 /\ By(t.fetched[h], p) = 0 BY <1>1, <2>1, ByEmpty
    <3>3. t.fetching[h].origin # p /\ t.completing[h].origin # p BY <1>1, <2>1, <3>1
    <3> QED BY <1>1, <2>1, <3>2, <3>3, EntriesNat
  <2>2. CASE h \notin H
    <3>1. /\ t.announced[h] = s.announced[h] /\ t.fetched[h] = s.fetched[h]
          /\ t.fetching[h] = s.fetching[h] /\ t.completing[h] = s.completing[h]
      BY <1>1, <2>2
    <3> QED BY <2>2, <3>1 DEF Entries
  <2> QED BY <2>1, <2>2
<1>3. s.announces \in [Peer -> Int] /\ \A p \in Peer : s.announces[p] <= Outstanding(s, Hash, p) BY DEF LeakInv
<1>4. ASSUME NEW p \in Peer
      PROVE  Outstanding(s, H, p) \in Int /\ t.announces[p] <= Outstanding(t, Hash, p)
  <2> DEFINE old == Dues(s, p)
             new == Dues(t, p)
             K == Hash \ H
  <2>1. H \cup K = Hash /\ H \cap K = {} /\ K \in SUBSET Hash /\ Hash \in SUBSET Hash OBVIOUS
  <2>2. /\ \A h \in Hash : old[h] \in Int /\ old[h] = Entries(s, h, p)
        /\ \A X \in SUBSET Hash : /\ IsFiniteSet(X) /\ Outstanding(s, X, p) \in Int
                                  /\ Outstanding(s, X, p) = SumFunctionOnSet(old, X)
    BY DuesNat
  <2>3. /\ \A h \in Hash : new[h] \in Nat /\ new[h] \in Int /\ new[h] = Entries(t, h, p)
        /\ \A X \in SUBSET Hash : Outstanding(t, X, p) = SumFunctionOnSet(new, X) /\ Outstanding(t, X, p) \in Int
    BY <1>1, DuesNat
  <2> HIDE DEF old, new, K
  <2>4. SumFunctionOnSet(old, Hash) = SumFunctionOnSet(old, H) + SumFunctionOnSet(old, K)
    BY <2>1, <2>2, SumUnion
  <2>5. SumFunctionOnSet(new, Hash) = SumFunctionOnSet(new, H) + SumFunctionOnSet(new, K)
    BY <2>1, <2>2, <2>3, SumUnion
  <2>6. SumFunctionOnSet(new, H) = 0
    <3>1. \A h \in H : new[h] = 0 /\ new[h] \in Nat BY <1>2, <2>3
    <3> QED BY <2>2, <3>1, SumNat
  <2>7. SumFunctionOnSet(new, K) = SumFunctionOnSet(old, K)
    <3>1. \A h \in K : new[h] = old[h] BY <1>2, <2>2, <2>3 DEF K
    <3> QED BY <2>1, <2>2, <3>1, SumSame
  <2>8. SumFunctionOnSet(old, K) \in Int /\ SumFunctionOnSet(old, H) \in Int BY <2>1, <2>2
  <2>9. Outstanding(t, Hash, p) = Outstanding(s, Hash, p) - Outstanding(s, H, p)
    BY <2>1, <2>2, <2>3, <2>4, <2>5, <2>6, <2>7, <2>8
  <2>10. Outstanding(s, H, p) \in Int /\ Outstanding(s, Hash, p) \in Int BY <2>1, <2>2
  <2>11. t.announces[p] = s.announces[p] - Outstanding(s, H, p) BY <1>1
  <2>12. s.announces[p] \in Int /\ s.announces[p] <= Outstanding(s, Hash, p) BY <1>3
  <2> QED BY <2>9, <2>10, <2>11, <2>12
<1>5. t.announces \in [Peer -> Int]
  <2>1. \A p \in Peer : s.announces[p] - Outstanding(s, H, p) \in Int BY <1>3, <1>4
  <2> QED BY <1>1, <2>1
<1>6. LeakInv(t) BY <1>4, <1>5 DEF LeakInv
<1> QED BY <1>6 DEF t

(* forgetBlock only takes entries out of queued. *)
LEMMA ForgetBlock ==
  ASSUME NEW s, MapsInv(s), NEW H \in SUBSET Hash
  PROVE  LET t == forgetBlock(s, H)
         IN  /\ MapsInv(t)
             /\ t.queue = s.queue /\ t.importing = s.importing
             /\ t.queued = [h \in Hash |-> IF h \in H THEN NoPeer ELSE s.queued[h]]
             /\ t.queues = [p \in Peer |-> s.queues[p] - Cardinality({h \in H : s.queued[h] = p})]
             /\ t.announces = s.announces /\ t.announced = s.announced /\ t.fetched = s.fetched
             /\ t.fetching = s.fetching /\ t.completing = s.completing
<1> DEFINE t == forgetBlock(s, H)
<1>1. /\ t.queue = s.queue /\ t.importing = s.importing /\ t.announces = s.announces
      /\ t.queued = [h \in Hash |-> IF h \in H THEN NoPeer ELSE s.queued[h]]
      /\ t.queues = [p \in Peer |-> s.queues[p] - Cardinality({h \in H : s.queued[h] = p})]
      /\ t.announced = s.announced /\ t.fetched = s.fetched
      /\ t.fetching = s.fetching /\ t.completing = s.completing
  BY DEF MapsInv, forgetBlock
<1>2. MapsInv(t)
  BY DEF MapsInv, forgetBlock
<1> QED BY <1>1, <1>2


(* No announcement and no fetched header is added. *)
Shrinks(s, t) == Announced(t) \subseteq Announced(s) /\ Fetched(t) \subseteq Fetched(s)

(* forgetHash keeps the invariant. *)
LEMMA ForgetHashInv ==
  ASSUME NEW s, Inv(s), NEW H \in SUBSET Hash
  PROVE  Inv(forgetHash(s, H)) /\ Shrinks(s, forgetHash(s, H))
<1> DEFINE t == forgetHash(s, H)
<1>1. /\ MapsInv(t) /\ t.queues = s.queues
      /\ t.queue = s.queue /\ t.queued = s.queued /\ t.importing = s.importing
      /\ \A h \in Hash :
           /\ t.announced[h] = IF h \in H THEN <<>> ELSE s.announced[h]
           /\ t.fetched[h] = IF h \in H THEN <<>> ELSE s.fetched[h]
           /\ t.completing[h] = IF h \in H THEN NoAnnounce ELSE s.completing[h]
  BY ForgetHash DEF Inv
<1> HIDE DEF t
<1>2. ImportInv(t) BY <1>1 DEF Inv, ImportInv, Queued
<1>3. HeaderInv(t) BY <1>1 DEF Inv, HeaderInv
<1>4. CountInv(t) BY <1>1 DEF Inv, CountInv
<1>5. Shrinks(s, t) BY <1>1 DEF Shrinks, Announced, Fetched
<1>6. LeakInv(t) BY LeakForget DEF Inv, t
<1> QED BY <1>1, <1>2, <1>3, <1>4, <1>5, <1>6 DEF Inv, t

(* The head of the loop hands blocks over from the queue to the goroutines. *)
LEMMA ImportsInv ==
  ASSUME NEW s, Inv(s)
  PROVE  Inv(Imports(s)) /\ Shrinks(s, Imports(s))
<1> DEFINE fit == {h \in s.queue : Height[h] <= chainHeight + 1}
           stale == {h \in fit : Height[h] + maxUncleDist < chainHeight \/ h \in known}
           step == [h \in Hash |-> IF h \in fit \ stale THEN "verify" ELSE s.importing[h]]
           u == [s EXCEPT !.queue = s.queue \ fit, !.importing = step]
           t == forgetBlock(u, stale)
<1>1. Imports(s) = t BY Zenon DEF Imports
<1>2. step \in [Hash -> Importing] BY DEF Inv, MapsInv, Importing
<1>3. fit \in SUBSET s.queue /\ stale \in SUBSET fit /\ s.queue \in SUBSET Hash BY DEF Inv, MapsInv
<1>4. \A h \in Hash : step[h] = IF h \in fit \ stale THEN "verify" ELSE s.importing[h] OBVIOUS
<1> HIDE DEF fit, stale, step
<1>5. /\ MapsInv(u) /\ u.queue = s.queue \ fit /\ u.importing = step /\ u.queued = s.queued
      /\ u.announced = s.announced /\ u.fetched = s.fetched /\ u.completing = s.completing
      /\ u.queues = s.queues /\ u.announces = s.announces /\ u.fetching = s.fetching
  BY <1>2, <1>3 DEF Inv, MapsInv
<1> HIDE DEF u
<1>6. /\ MapsInv(t) /\ t.queue = u.queue /\ t.importing = u.importing
      /\ t.queued = [h \in Hash |-> IF h \in stale THEN NoPeer ELSE u.queued[h]]
      /\ t.queues = [p \in Peer |-> u.queues[p] - Cardinality({h \in stale : u.queued[h] = p})]
      /\ t.announced = u.announced /\ t.fetched = u.fetched /\ t.completing = u.completing
      /\ t.announces = u.announces /\ t.fetching = u.fetching
  BY <1>3, <1>5, ForgetBlock
<1> HIDE DEF t
<1>7. ImportInv(t) BY <1>3, <1>4, <1>5, <1>6 DEF Inv, ImportInv, Queued
<1>8. HeaderInv(t) BY <1>5, <1>6 DEF Inv, HeaderInv
<1>9. CountInv(t)
  <2>1. Exact(u.queues, u.queued) /\ u.queued \in [Hash -> Peer \cup {NoPeer}] /\ stale \in SUBSET Hash
    BY <1>3, <1>5 DEF Inv, CountInv, MapsInv
  <2> QED BY <1>6, <2>1, ExactForget DEF CountInv
<1>10. Shrinks(s, t) BY <1>5, <1>6 DEF Shrinks, Announced, Fetched
<1>11. LeakInv(t) BY <1>5, <1>6, LeakSame DEF Inv
<1> QED BY <1>1, <1>6, <1>7, <1>8, <1>9, <1>10, <1>11 DEF Inv

(* A turn of the loop keeps the invariant if its event does. *)
LEMMA TurnInv ==
  ASSUME NEW s, Inv(s), Turn(s)
  PROVE  Inv(f') /\ Shrinks(s, f')
<1>1. PICK expired \in SUBSET Fetching(s) : f' = Imports(forgetHash(s, expired)) BY DEF Turn
<1>2. expired \in SUBSET Hash BY DEF Fetching
<1>3. Inv(forgetHash(s, expired)) /\ Shrinks(s, forgetHash(s, expired)) BY <1>2, ForgetHashInv
<1>4. Inv(f') /\ Shrinks(forgetHash(s, expired), f') BY <1>1, <1>3, ImportsInv
<1> QED BY <1>3, <1>4 DEF Shrinks

(* enqueue keeps the invariant. *)
LEMMA EnqueueInv ==
  ASSUME NEW s, Inv(s), NEW p \in Peer, NEW h \in Hash
  PROVE  Inv(enqueue(s, p, h)) /\ Shrinks(s, enqueue(s, p, h))
<1> USE FetcherAssumption
<1> DEFINE t == [s EXCEPT !.queues[p] = @ + 1, !.queued[h] = p, !.queue = @ \cup {h}]
<1>1. ASSUME s.queued[h] = NoPeer, s.queues[p] + 1 <= blockLimit PROVE Inv(t) /\ Shrinks(s, t)
  <2>0. s.queues[p] \in Int BY DEF Inv, CountInv, Exact
  <2>1. /\ MapsInv(t) /\ t.queues = [s.queues EXCEPT ![p] = @ + 1] /\ t.queue = s.queue \cup {h} /\ t.queued = [s.queued EXCEPT ![h] = p]
        /\ t.importing = s.importing /\ t.announces = s.announces /\ t.announced = s.announced
        /\ t.fetching = s.fetching /\ t.fetched = s.fetched /\ t.completing = s.completing
    BY DEF Inv, MapsInv
  <2> HIDE DEF t
  <2>2. ImportInv(t) BY <1>1, <2>1 DEF Inv, ImportInv, Queued, MapsInv
  <2>3. HeaderInv(t) BY <2>1 DEF Inv, HeaderInv
  <2>4. CountInv(t)
    <3>1. Exact(s.queues, s.queued) /\ s.queued \in [Hash -> Peer \cup {NoPeer}]
      BY DEF Inv, CountInv, MapsInv
    <3> QED BY <1>1, <2>1, <3>1, ExactTakeOne DEF CountInv
  <2>5. Shrinks(s, t) BY <2>1 DEF Shrinks, Announced, Fetched
  <2>6. LeakInv(t) BY <2>1, LeakSame DEF Inv
  <2> QED BY <2>1, <2>2, <2>3, <2>4, <2>5, <2>6 DEF Inv
<1>2. Inv(forgetHash(s, {h})) /\ Shrinks(s, forgetHash(s, {h})) BY ForgetHashInv
<1>3. Shrinks(s, s) BY DEF Shrinks
<1>4. enqueue(s, p, h) = forgetHash(s, {h}) \/ enqueue(s, p, h) = s
      \/ (s.queued[h] = NoPeer /\ ~(s.queues[p] + 1 > blockLimit) /\ enqueue(s, p, h) = t)
  BY Zenon DEF enqueue
<1>5. ~(s.queues[p] + 1 > blockLimit) => s.queues[p] + 1 <= blockLimit
  BY DEF Inv, CountInv, Exact
<1> HIDE DEF t
<1> QED BY <1>1, <1>2, <1>3, <1>4, <1>5

-----------------------------------------------------------------------
(* The timers, whether or not the loop has ended. *)
TimersInv == /\ Announced(f) # {} => fetchTimer
             /\ Fetched(f) # {} => completeTimer

FetcherInv == Inv(f) /\ TimersInv /\ fetchTimer \in BOOLEAN /\ completeTimer \in BOOLEAN

(* The invariant holds at first. *)
LEMMA InitInv == FetcherInit => FetcherInv
<1> SUFFICES ASSUME FetcherInit PROVE FetcherInv OBVIOUS
<1> USE DEF FetcherInit
<1>1. MapsInv(f)
  <2>1. <<>> \in Seq(Announce) OBVIOUS
  <2> QED BY <2>1 DEF MapsInv, Importing
<1>2. ImportInv(f) BY DEF ImportInv, Queued
<1>3. HeaderInv(f) BY DEF HeaderInv
<1>4. TimersInv BY DEF TimersInv
<1>5. CountInv(f)
  <2>1. \A p \in Peer : Of(f.queued, p) = {} /\ f.queues[p] = 0 BY FetcherAssumption DEF Of
  <2>2. f.queues \in [Peer -> Int] OBVIOUS
  <2>3. Cardinality({}) = 0 BY FS_EmptySet, Zenon
  <2>4. \A p \in Peer : f.queues[p] = Cardinality(Of(f.queued, p)) /\ f.queues[p] <= blockLimit
    <3> HIDE DEF FetcherInit
    <3> QED BY <2>1, <2>3, FetcherAssumption
  <2> HIDE DEF FetcherInit
  <2> QED BY <2>2, <2>4 DEF CountInv, Exact
<1>6. LeakInv(f)
  <2>1. f.announces \in [Peer -> Int] /\ \A p \in Peer : f.announces[p] = 0 OBVIOUS
  <2> HIDE DEF FetcherInit
  <2>2. ASSUME NEW p \in Peer PROVE f.announces[p] <= Outstanding(f, Hash, p)
    <3>1. (\A h \in Hash : Dues(f, p)[h] \in Nat) /\ Outstanding(f, Hash, p) = SumFunctionOnSet(Dues(f, p), Hash)
      BY <1>1, DuesNat
    <3>2. SumFunctionOnSet(Dues(f, p), Hash) \in Nat BY <3>1, SumNat, FetcherAssumption
    <3> QED BY <2>1, <3>1, <3>2
  <2> QED BY <2>1, <2>2 DEF LeakInv
<1> QED BY <1>1, <1>2, <1>3, <1>4, <1>5, <1>6 DEF FetcherInv, Inv

(* An announcement keeps the invariant. *)
LEMMA NotifyInv ==
  ASSUME FetcherInv, NEW p \in Peer, NEW h \in Hash, NEW n \in Nat, Notify(p, h, n)
  PROVE  FetcherInv'
<1> DEFINE a == [origin |-> p, number |-> n, header |-> FALSE]
           t == [f EXCEPT !.announces[p] = @ + 1, !.announced[h] = Append(@, a)]
<1>1. a \in Announce BY DEF Announce
<1>2. f.announced[h] \in Seq(Announce) BY DEF FetcherInv, Inv, MapsInv
<1>3. Append(f.announced[h], a) \in Seq(Announce) /\ Append(f.announced[h], a) # <<>>
  <2> HIDE DEF a
  <2> QED BY <1>1, <1>2
<1>4. /\ MapsInv(t) /\ t.queue = f.queue /\ t.queued = f.queued /\ t.importing = f.importing
      /\ t.announced = [f.announced EXCEPT ![h] = Append(f.announced[h], a)]
      /\ t.fetched = f.fetched /\ t.completing = f.completing /\ t.queues = f.queues
      /\ t.announces = [f.announces EXCEPT ![p] = @ + 1] /\ t.fetching = f.fetching
  <2> HIDE DEF a
  <2> QED BY <1>3 DEF FetcherInv, Inv, MapsInv
<1>5. \E s : /\ Inv(s) /\ Turn(s) /\ Fetched(s) = Fetched(f)
             /\ Announced(s) # {} => fetchTimer'
  <2>1. CASE Turn(f) /\ fetchTimer' = (fetchTimer \/ FALSE)
    BY <2>1 DEF FetcherInv, TimersInv
  <2>2. CASE Turn(t) /\ fetchTimer' = (fetchTimer \/ (Cardinality(Announced(t)) = 1 /\ Announced(t) # {}))
    <3> HIDE DEF t
    <3>0. LeakInv(t)
      <4>1. a.origin = p OBVIOUS
      <4> HIDE DEF a
      <4> QED BY <1>1, <1>4, <4>1, LeakAnnounce DEF FetcherInv, Inv
    <3>1. Inv(t) BY <1>4, <3>0 DEF FetcherInv, Inv, ImportInv, HeaderInv, CountInv, Queued
    <3>2. Announced(t) = Announced(f) \cup {h} /\ Fetched(t) = Fetched(f)
      BY <1>3, <1>4 DEF Announced, Fetched, FetcherInv, Inv, MapsInv
    <3>3. Announced(f) = {} => Cardinality(Announced(t)) = 1 BY <3>2, FS_Singleton
    <3> QED BY <2>2, <3>1, <3>2, <3>3 DEF FetcherInv, TimersInv
  <2> QED BY <2>1, <2>2 DEF Notify, rescheduleFetch
<1>6. Inv(f') /\ Announced(f') # {} => fetchTimer'
  BY <1>5, TurnInv DEF Shrinks
<1> QED BY <1>5, <1>6, TurnInv DEF FetcherInv, TimersInv, Notify, rescheduleFetch, Shrinks

(* The events that add no announcement and no fetched header. *)
LEMMA TurnKeepsTimers ==
  ASSUME FetcherInv, NEW s, Inv(s), Shrinks(f, s), Turn(s), UNCHANGED <<fetchTimer, completeTimer>>
  PROVE  FetcherInv'
BY TurnInv DEF FetcherInv, TimersInv, Shrinks

(* A propagated block keeps the invariant. *)
LEMMA EnqueueStep ==
  ASSUME FetcherInv, NEW p \in Peer, NEW h \in Hash, Enqueue(p, h)
  PROVE  FetcherInv'
<1>1. Inv(f) BY DEF FetcherInv
<1> QED BY <1>1, EnqueueInv, TurnKeepsTimers DEF Enqueue

(* The goroutine of h is over: its entry in queued goes with it. *)
LEMMA DoneInv ==
  ASSUME FetcherInv, NEW h \in Hash, Done(h)
  PROVE  FetcherInv'
<1> DEFINE u == [f EXCEPT !.importing[h] = "none"]
           v == forgetHash(u, {h})
           one == {h}
           t == forgetBlock(v, one)
<1>1. Inv(f) /\ f.importing[h] = "done" BY DEF FetcherInv, Done
<1>2. /\ MapsInv(u) /\ u.queue = f.queue /\ u.queued = f.queued
      /\ u.importing = [f.importing EXCEPT ![h] = "none"]
      /\ u.announced = f.announced /\ u.fetched = f.fetched /\ u.completing = f.completing
      /\ u.queues = f.queues /\ u.announces = f.announces /\ u.fetching = f.fetching
  BY <1>1 DEF Inv, MapsInv, Importing
<1> HIDE DEF u
<1>3. /\ MapsInv(v) /\ v.queue = u.queue /\ v.queued = u.queued /\ v.importing = u.importing
      /\ v.queues = u.queues
      /\ \A g \in Hash : /\ v.announced[g] = IF g \in {h} THEN <<>> ELSE u.announced[g]
                         /\ v.fetched[g] = IF g \in {h} THEN <<>> ELSE u.fetched[g]
                         /\ v.completing[g] = IF g \in {h} THEN NoAnnounce ELSE u.completing[g]
  BY <1>2, ForgetHash
<1>l. LeakInv(v)
  <2>1. LeakInv(u) BY <1>1, <1>2, LeakSame DEF Inv
  <2> QED BY <1>2, <2>1, LeakForget
<1> HIDE DEF v
<1>5. Turn(t) /\ UNCHANGED <<fetchTimer, completeTimer>> BY DEF Done, u, v
<1>o. one \in SUBSET Hash /\ \A g : g \in one <=> g = h OBVIOUS
<1> HIDE DEF one
<1>4. /\ MapsInv(t) /\ t.queue = v.queue /\ t.importing = v.importing
      /\ t.queued = [g \in Hash |-> IF g \in one THEN NoPeer ELSE v.queued[g]]
      /\ t.queues = [p \in Peer |-> v.queues[p] - Cardinality({g \in one : v.queued[g] = p})]
      /\ t.announced = v.announced /\ t.fetched = v.fetched /\ t.completing = v.completing
      /\ t.announces = v.announces /\ t.fetching = v.fetching
  BY <1>3, <1>o, ForgetBlock
<1> HIDE DEF t
<1>6. ImportInv(t) BY <1>1, <1>2, <1>3, <1>4, <1>o DEF Inv, ImportInv, Queued, MapsInv
<1>7. HeaderInv(t) BY <1>1, <1>2, <1>3, <1>4 DEF Inv, HeaderInv
<1>8. CountInv(t)
  <2>1. Exact(v.queues, v.queued) /\ v.queued \in [Hash -> Peer \cup {NoPeer}]
    BY <1>1, <1>2, <1>3 DEF Inv, CountInv, MapsInv
  <2> QED BY <1>4, <1>o, <2>1, ExactForget DEF CountInv
<1>9. Shrinks(f, t) BY <1>2, <1>3, <1>4 DEF Shrinks, Announced, Fetched
<1>10. LeakInv(t) BY <1>3, <1>4, <1>l, LeakSame
<1> QED BY <1>4, <1>5, <1>6, <1>7, <1>8, <1>9, <1>10, TurnKeepsTimers DEF Inv

(* The fetch timer keeps the invariant. *)
LEMMA FetchTimerInv == ASSUME FetcherInv, FetchTimer PROVE FetcherInv'
<1>1. PICK due \in SUBSET Announced(f) :
      \E pick \in [due -> UNION {Range(f.announced[h]) : h \in due}] :
         LET s == [forgetHash(f, due) EXCEPT !.fetching =
                     [h \in Hash |-> IF h \in due \ known THEN pick[h] ELSE @[h]]]
         IN  /\ \A h \in due : pick[h] \in Range(f.announced[h])
             /\ Turn(s)
             /\ fetchTimer' = (Announced(s) # {})
  BY Zenon DEF FetchTimer
<1>2. PICK pick :
         LET s == [forgetHash(f, due) EXCEPT !.fetching =
                     [h \in Hash |-> IF h \in due \ known THEN pick[h] ELSE @[h]]]
         IN  /\ \A h \in due : pick[h] \in Range(f.announced[h])
             /\ Turn(s)
             /\ fetchTimer' = (Announced(s) # {})
  BY <1>1, Zenon
<1> DEFINE v == forgetHash(f, due)
           c == [h \in Hash |-> IF h \in due \ known THEN pick[h] ELSE v.fetching[h]]
           s == [v EXCEPT !.fetching = c]
<1>3. (\A h \in due : pick[h] \in Range(f.announced[h])) /\ Turn(s) /\ fetchTimer' = (Announced(s) # {})
  BY <1>2, Zenon
<1>4. Inv(f) /\ due \in SUBSET Hash BY DEF FetcherInv, Announced
<1>5. Inv(v) /\ Shrinks(f, v) BY <1>4, ForgetHashInv
<1>6. \A h \in due : pick[h] \in Announce BY <1>3, <1>4 DEF Inv, MapsInv, Range
<1>g. \A h \in due : v.fetching[h] = NoAnnounce BY <1>4, ForgetHash DEF Inv
<1> HIDE DEF v
<1>7. c \in [Hash -> Announce \cup {NoAnnounce}] BY <1>5, <1>6 DEF Inv, MapsInv
<1>k. \A h \in Hash : c[h] = v.fetching[h] \/ v.fetching[h] = NoAnnounce BY <1>g
<1> HIDE DEF c
<1>8. /\ MapsInv(s) /\ s.queue = v.queue /\ s.queued = v.queued /\ s.importing = v.importing
      /\ s.announced = v.announced /\ s.fetched = v.fetched /\ s.completing = v.completing
      /\ s.queues = v.queues /\ s.announces = v.announces /\ s.fetching = c
  BY <1>5, <1>7 DEF Inv, MapsInv
<1> HIDE DEF s
<1>l. LeakInv(s) BY <1>5, <1>8, <1>k, LeakStage DEF Inv, Kept
<1>9. Inv(s) /\ Shrinks(f, s)
  BY <1>5, <1>8, <1>l DEF Inv, ImportInv, HeaderInv, CountInv, Queued, Shrinks, Announced, Fetched
<1>10. completeTimer' = completeTimer BY DEF FetchTimer
<1> QED BY <1>3, <1>9, <1>10, TurnInv DEF FetcherInv, TimersInv, Shrinks

(* The complete timer keeps the invariant. *)
LEMMA CompleteTimerInv == ASSUME FetcherInv, CompleteTimer PROVE FetcherInv'
<1> DEFINE due == Fetched(f)
<1>1. PICK pick :
         LET s == [forgetHash(f, due) EXCEPT !.completing =
                     [h \in Hash |-> IF h \in due \ known THEN pick[h] ELSE @[h]]]
         IN  /\ \A h \in due : pick[h] \in Range(f.fetched[h])
             /\ Turn(s)
             /\ completeTimer' = (Fetched(s) # {})
  BY Zenon DEF CompleteTimer
<1> DEFINE v == forgetHash(f, due)
           e == [h \in Hash |-> IF h \in due \ known THEN pick[h] ELSE v.completing[h]]
           s == [v EXCEPT !.completing = e]
<1>2. (\A h \in due : pick[h] \in Range(f.fetched[h])) /\ Turn(s) /\ completeTimer' = (Fetched(s) # {})
  BY <1>1, Zenon
<1>3. Inv(f) /\ due \in SUBSET Hash BY DEF FetcherInv, Fetched
<1> HIDE DEF due
<1>4. Inv(v) /\ Shrinks(f, v) BY <1>3, ForgetHashInv
<1>5. \A h \in due : pick[h] \in Announce /\ pick[h].header
  BY <1>2, <1>3 DEF Inv, MapsInv, HeaderInv, Range
<1>g. \A h \in due : v.completing[h] = NoAnnounce BY <1>3, ForgetHash DEF Inv
<1> HIDE DEF v
<1>6. e \in [Hash -> Announce \cup {NoAnnounce}] BY <1>4, <1>5 DEF Inv, MapsInv
<1>7. \A h \in Hash : e[h] = IF h \in due \ known THEN pick[h] ELSE v.completing[h] OBVIOUS
<1> HIDE DEF e
<1>8. /\ MapsInv(s) /\ s.queue = v.queue /\ s.queued = v.queued /\ s.importing = v.importing
      /\ s.announced = v.announced /\ s.fetched = v.fetched /\ s.completing = e
      /\ s.queues = v.queues /\ s.announces = v.announces /\ s.fetching = v.fetching
  BY <1>4, <1>6 DEF Inv, MapsInv
<1> HIDE DEF s
<1>l. LeakInv(s) BY <1>4, <1>7, <1>8, <1>g, LeakStage DEF Inv, Kept
<1>9. HeaderInv(s) BY <1>4, <1>5, <1>7, <1>8 DEF Inv, HeaderInv
<1>10. Inv(s) /\ Shrinks(f, s)
  BY <1>4, <1>8, <1>9, <1>l DEF Inv, ImportInv, CountInv, Queued, Shrinks, Announced, Fetched
<1>11. fetchTimer' = fetchTimer BY DEF CompleteTimer
<1> QED BY <1>2, <1>10, <1>11, TurnInv DEF FetcherInv, TimersInv, Shrinks

(* A header arrives: it is noted before the announcement moves on. *)
LEMMA FilterHeaderInv ==
  ASSUME FetcherInv, NEW h \in Hash, FilterHeader(h)
  PROVE  FetcherInv'
<1> DEFINE a == [f.fetching[h] EXCEPT !.header = TRUE]
           headed == [f EXCEPT !.fetching[h] = a]
           complete == [headed EXCEPT !.completing[h] = a]
           fetch == [headed EXCEPT !.fetched[h] = Append(@, a)]
           s == IF a.number # Height[h] \/ h \in known THEN forgetHash(f, {h})
                ELSE IF h \in Empty THEN enqueue(complete, a.origin, h) ELSE fetch
<1>1. /\ Requested(h) /\ Turn(s) /\ rescheduleComplete(s, Cardinality(Fetched(s)) = 1)
      /\ fetchTimer' = fetchTimer
  BY Zenon DEF FilterHeader
<1>2. Inv(f) BY DEF FetcherInv
<1>3. a \in Announce /\ a.header /\ a.origin \in Peer /\ a.origin = f.fetching[h].origin
  <2>1. f.fetching[h] \in Announce BY <1>1, <1>2 DEF Requested, Inv, MapsInv
  <2> QED BY <2>1 DEF Announce
<1> HIDE DEF a
<1>4. /\ MapsInv(headed) /\ headed.queue = f.queue /\ headed.queued = f.queued
      /\ headed.importing = f.importing /\ headed.announced = f.announced
      /\ headed.fetched = f.fetched /\ headed.completing = f.completing
      /\ headed.queues = f.queues /\ headed.announces = f.announces
      /\ headed.fetching = [f.fetching EXCEPT ![h] = a]
  BY <1>2, <1>3 DEF Inv, MapsInv
<1>l. LeakInv(headed)
  <2>1. f.fetching \in [Hash -> Announce \cup {NoAnnounce}] BY <1>2 DEF Inv, MapsInv
  <2>2. \A g \in Hash : headed.fetching[g].origin = f.fetching[g].origin BY <1>3, <1>4, <2>1
  <2> HIDE DEF headed
  <2> QED BY <1>2, <1>4, <2>2, LeakStage DEF Inv, Kept
<1> HIDE DEF headed
<1>5. /\ MapsInv(complete) /\ complete.queue = f.queue /\ complete.queued = f.queued
      /\ complete.importing = f.importing /\ complete.announced = f.announced
      /\ complete.fetched = f.fetched /\ complete.completing = [f.completing EXCEPT ![h] = a]
      /\ complete.queues = f.queues /\ complete.announces = f.announces /\ complete.fetching = headed.fetching
  BY <1>3, <1>4 DEF MapsInv
<1>6. f.fetched[h] \in Seq(Announce) BY <1>2 DEF Inv, MapsInv
<1>7. Append(f.fetched[h], a) \in Seq(Announce) /\ Append(f.fetched[h], a) # <<>>
      /\ \A i \in DOMAIN Append(f.fetched[h], a) : Append(f.fetched[h], a)[i].header
  <2> DEFINE list == f.fetched[h]
  <2>1. list \in Seq(Announce) BY <1>6
  <2>2. \A i \in DOMAIN list : list[i].header BY <1>2, Zenon DEF Inv, HeaderInv
  <2>3. a \in Announce BY <1>3
  <2> HIDE DEF list
  <2>4. /\ Append(list, a) \in Seq(Announce) /\ Len(Append(list, a)) = Len(list) + 1
        /\ Len(list) \in Nat
    BY <2>1, <2>3
  <2>5. Append(list, a) # <<>>
    <3>1. ASSUME Append(list, a) = <<>> PROVE FALSE BY <3>1, <2>4
    <3> QED BY <3>1, Zenon
  <2>6. /\ DOMAIN list = 1..Len(list) /\ Len(list) \in Nat
        /\ DOMAIN Append(list, a) = 1..Len(list) + 1
        /\ \A i \in 1..Len(list) + 1 : Append(list, a)[i] = IF i <= Len(list) THEN list[i] ELSE a
    BY <2>1, <2>3
  <2>7. ASSUME NEW i \in DOMAIN Append(list, a) PROVE Append(list, a)[i].header
    <3>1. Append(list, a)[i] = a \/ (i \in DOMAIN list /\ Append(list, a)[i] = list[i])
      BY <2>6
    <3> QED BY <1>3, <2>2, <3>1, Zenon
  <2> QED BY <2>4, <2>7, <2>5 DEF list
<1>8. /\ MapsInv(fetch) /\ fetch.queue = f.queue /\ fetch.queued = f.queued
      /\ fetch.importing = f.importing /\ fetch.announced = f.announced
      /\ fetch.fetched = [f.fetched EXCEPT ![h] = Append(f.fetched[h], a)]
      /\ fetch.completing = f.completing /\ fetch.queues = f.queues
      /\ fetch.announces = f.announces /\ fetch.fetching = headed.fetching
  BY <1>4, <1>7 DEF MapsInv
<1>9. s \in {forgetHash(f, {h}), enqueue(complete, a.origin, h), fetch} BY Zenon
<1> HIDE DEF complete, fetch
<1>10. Inv(complete) /\ Shrinks(f, complete)
  <2>1. HeaderInv(complete) BY <1>2, <1>3, <1>5 DEF Inv, HeaderInv, MapsInv
  <2>2. LeakInv(complete)
    <3>1. f.completing[h] = NoAnnounce /\ f.completing \in [Hash -> Announce \cup {NoAnnounce}]
      BY <1>1, <1>2 DEF Requested, Inv, MapsInv
    <3>2. \A g \in Hash : complete.completing[g] = headed.completing[g] \/ headed.completing[g] = NoAnnounce
      BY <1>4, <1>5, <3>1
    <3> QED BY <1>4, <1>5, <1>l, <3>2, LeakStage DEF Kept
  <2> QED BY <1>2, <1>5, <2>1, <2>2 DEF Inv, ImportInv, CountInv, Queued, Shrinks, Announced, Fetched
<1>11. Inv(fetch) /\ Announced(fetch) = Announced(f) /\ Fetched(fetch) = Fetched(f) \cup {h}
  <2>1. HeaderInv(fetch) BY <1>2, <1>7, <1>8 DEF Inv, HeaderInv, MapsInv
  <2>2. Fetched(fetch) = Fetched(f) \cup {h} BY <1>2, <1>7, <1>8 DEF Inv, Fetched, MapsInv
  <2>3. LeakInv(fetch) BY <1>3, <1>4, <1>6, <1>8, <1>l, LeakFetched
  <2> QED BY <1>2, <1>8, <2>1, <2>2, <2>3 DEF Inv, ImportInv, CountInv, Queued, Announced
<1> HIDE DEF s
<1>12. /\ Inv(s) /\ Announced(s) \subseteq Announced(f)
       /\ Fetched(s) \subseteq Fetched(f) \/ Fetched(s) = Fetched(f) \cup {h}
  <2>1. CASE s = forgetHash(f, {h}) BY <1>2, <2>1, ForgetHashInv DEF Shrinks
  <2>2. CASE s = enqueue(complete, a.origin, h)
    BY <1>3, <1>10, <2>2, EnqueueInv DEF Shrinks
  <2>3. CASE s = fetch BY <1>11, <2>3
  <2> QED BY <1>9, <2>1, <2>2, <2>3
<1>13. Fetched(s) # {} => completeTimer'
  <2>1. Fetched(s) # {} /\ Fetched(f) = {} => Cardinality(Fetched(s)) = 1 BY <1>12, FS_Singleton
  <2> QED BY <1>1, <1>12, <2>1 DEF rescheduleComplete, FetcherInv, TimersInv
<1>14. completeTimer' \in BOOLEAN BY <1>1 DEF rescheduleComplete
<1> QED BY <1>1, <1>12, <1>13, <1>14, TurnInv DEF FetcherInv, TimersInv, Shrinks

(* What FilterBody keeps fits in what a peer has left. *)
LEMMA RoomLeft ==
  ASSUME NEW wanted \in Nat, NEW left \in Nat
  PROVE  /\ Min({wanted, Max({0, left})}) \in Int
         /\ Min({wanted, Max({0, left})}) <= left
<1>1. Max({0, left}) = left BY DEF Max
<1>2. Min({wanted, left}) \in Int /\ Min({wanted, left}) <= left BY DEF Min
<1> QED BY <1>1, <1>2, Zenon

(* A body arrives: the blocks that are kept were not queued before. *)
LEMMA FilterBodyInv == ASSUME FetcherInv, NEW x, FilterBody(x) PROVE FetcherInv'
<1> USE FetcherAssumption
<1> DEFINE matched == {h \in Completing(f) : f.queued[h] = NoPeer /\ Content[h] = x}
           near == {h \in matched \ known : ~TooFar(Height[h])}
           from(H, p) == Cardinality({h \in H : f.completing[h].origin = p})
           put(kept) ==
             [forgetHash(f, matched \ kept) EXCEPT
                !.queues = [p \in Peer |-> @[p] + from(kept, p)],
                !.queued = [h \in Hash |-> IF h \in kept THEN f.completing[h].origin ELSE @[h]],
                !.queue = @ \cup kept]
<1>1. PICK kept \in SUBSET near :
        /\ \A p \in Peer : from(kept, p) = Min({from(near, p), Max({0, blockLimit - f.queues[p]})})
        /\ Turn(put(kept))
  BY Zenon DEF FilterBody
<1>2. UNCHANGED <<fetchTimer, completeTimer>> BY DEF FilterBody
<1>3. Inv(f) BY DEF FetcherInv
<1>4. /\ matched \in SUBSET Hash /\ kept \in SUBSET Hash
      /\ \A h \in kept : f.queued[h] = NoPeer /\ f.completing[h] # NoAnnounce
  BY DEF Completing
<1>5. \A h \in kept : f.completing[h].origin \in Peer
  BY <1>3, <1>4 DEF Inv, MapsInv, Announce
<1> DEFINE v == forgetHash(f, matched \ kept)
           counts == [p \in Peer |-> v.queues[p] + from(kept, p)]
           owner == [h \in Hash |-> IF h \in kept THEN f.completing[h].origin ELSE v.queued[h]]
           t == [v EXCEPT !.queues = counts, !.queued = owner, !.queue = v.queue \cup kept]
<1>6. Turn(t) BY <1>1, Zenon
<1>r. \A p \in Peer : f.queues[p] + from(kept, p) <= blockLimit
  <2> SUFFICES ASSUME NEW p \in Peer PROVE f.queues[p] + from(kept, p) <= blockLimit
    OBVIOUS
  <2>1. f.queues[p] \in Int /\ f.queues[p] <= blockLimit BY <1>3 DEF Inv, CountInv, Exact
  <2>2. from(kept, p) = Min({from(near, p), Max({0, blockLimit - f.queues[p]})}) BY <1>1
  <2>3. from(near, p) \in Nat
    <3>1. {h \in near : f.completing[h].origin = p} \in SUBSET Hash BY DEF Completing
    <3> HIDE DEF near
    <3>2. IsFiniteSet({h \in near : f.completing[h].origin = p}) BY <3>1, FS_Subset
    <3> QED BY <3>2, FS_CardinalityType
  <2> HIDE DEF from, near
  <2>4. blockLimit - f.queues[p] \in Nat BY <2>1
  <2>5. from(kept, p) \in Int /\ from(kept, p) <= blockLimit - f.queues[p]
    BY <2>2, <2>3, <2>4, RoomLeft
  <2> QED BY <2>1, <2>5
<1> HIDE DEF matched, near
<1>7. Inv(v) /\ Shrinks(f, v) /\ v.queued = f.queued /\ v.queues = f.queues
  <2>1. matched \ kept \in SUBSET Hash BY <1>4
  <2>2. Inv(v) /\ Shrinks(f, v) BY <1>3, <2>1, ForgetHashInv, Zenon
  <2>3. MapsInv(f) BY <1>3 DEF Inv
  <2>4. v.queued = f.queued /\ v.queues = f.queues BY <2>1, <2>3, ForgetHash, Zenon
  <2> QED BY <2>2, <2>4
<1> HIDE DEF v
<1>8. owner \in [Hash -> Peer \cup {NoPeer}] BY <1>5, <1>7 DEF Inv, MapsInv
<1>9. \A h \in Hash : owner[h] = IF h \in kept THEN f.completing[h].origin ELSE v.queued[h] OBVIOUS
<1> HIDE DEF counts, owner
<1>10. /\ MapsInv(t) /\ t.queue = v.queue \cup kept /\ t.queued = owner /\ t.importing = v.importing
       /\ t.announced = v.announced /\ t.fetched = v.fetched /\ t.completing = v.completing
       /\ t.queues = counts /\ t.announces = v.announces /\ t.fetching = v.fetching
  BY <1>4, <1>7, <1>8 DEF Inv, MapsInv
<1> HIDE DEF t
<1>11. ImportInv(t)
  <2>1. \A h \in kept : v.importing[h] = "none" BY <1>4, <1>7 DEF Inv, ImportInv, Queued
  <2>2. Queued(t) = Queued(v) \cup kept BY <1>4, <1>5, <1>7, <1>9, <1>10 DEF Queued
  <2> QED BY <1>7, <1>10, <2>1, <2>2 DEF Inv, ImportInv
<1>12. HeaderInv(t) BY <1>7, <1>10 DEF Inv, HeaderInv
<1>13. CountInv(t)
  <2> DEFINE new == [h \in kept |-> f.completing[h].origin]
  <2>1. \A h \in kept : new[h] = f.completing[h].origin OBVIOUS
  <2> HIDE DEF new
  <2>2. \A p \in Peer : {h \in kept : new[h] = p} = {h \in kept : f.completing[h].origin = p} BY <2>1
  <2>3. counts = [p \in Peer |-> f.queues[p] + Cardinality({h \in kept : new[h] = p})]
    BY <1>7, <2>2 DEF counts
  <2>4. owner = [h \in Hash |-> IF h \in kept THEN new[h] ELSE f.queued[h]]
    BY <1>7, <2>1 DEF owner
  <2>5. \A p \in Peer : f.queues[p] + Cardinality({h \in kept : new[h] = p}) <= blockLimit BY <1>r, <2>2
  <2>6. \A h \in kept : f.queued[h] = NoPeer /\ new[h] \in Peer BY <1>4, <1>5, <2>1
  <2>7. Exact(f.queues, f.queued) /\ f.queued \in [Hash -> Peer \cup {NoPeer}]
    BY <1>3 DEF Inv, CountInv, MapsInv
  <2>8. Exact([p \in Peer |-> f.queues[p] + Cardinality({h \in kept : new[h] = p})],
              [h \in Hash |-> IF h \in kept THEN new[h] ELSE f.queued[h]])
    <3>1. Exact(Raised(f.queues, kept, new), Joined(f.queued, kept, new))
      BY <1>4, <2>5, <2>6, <2>7, ExactTake DEF Among
    <3> QED BY <3>1 DEF Raised, Joined, Among
  <2> QED BY <1>10, <2>3, <2>4, <2>8 DEF CountInv
<1>14. Shrinks(f, t) BY <1>7, <1>10 DEF Shrinks, Announced, Fetched
<1>15. LeakInv(t) BY <1>7, <1>10, LeakSame DEF Inv
<1> QED BY <1>2, <1>6, <1>10, <1>11, <1>12, <1>13, <1>14, <1>15, TurnKeepsTimers DEF Inv

(* The goroutine of h goes on. *)
LEMMA GoroutineInv ==
  ASSUME FetcherInv, NEW h \in Hash, Verify(h) \/ InsertChainFetched(h)
  PROVE  FetcherInv'
<1>1. PICK step \in Importing \ {"none"} : f' = [f EXCEPT !.importing[h] = step]
  BY DEF Verify, InsertChainFetched, Importing
<1>2. Inv(f) /\ f.importing[h] # "none" BY DEF FetcherInv, Verify, InsertChainFetched
<1>3. /\ MapsInv(f') /\ f'.queue = f.queue /\ f'.queued = f.queued
      /\ f'.importing = [f.importing EXCEPT ![h] = step]
      /\ f'.announced = f.announced /\ f'.fetched = f.fetched /\ f'.completing = f.completing
      /\ f'.queues = f.queues /\ f'.announces = f.announces /\ f'.fetching = f.fetching
  BY <1>1, <1>2 DEF Inv, MapsInv
<1>4. ImportInv(f') BY <1>2, <1>3 DEF Inv, ImportInv, Queued, MapsInv
<1>5. HeaderInv(f') BY <1>2, <1>3 DEF Inv, HeaderInv
<1>6. Announced(f') = Announced(f) /\ Fetched(f') = Fetched(f) BY <1>3 DEF Announced, Fetched
<1>7. UNCHANGED <<fetchTimer, completeTimer>> BY DEF Verify, InsertChainFetched
<1>8. CountInv(f') BY <1>2, <1>3 DEF Inv, CountInv
<1>9. LeakInv(f') BY <1>2, <1>3, LeakSame DEF Inv
<1> QED BY <1>3, <1>4, <1>5, <1>6, <1>7, <1>8, <1>9 DEF FetcherInv, Inv, TimersInv

(* Every step keeps the invariant. *)
LEMMA NextInv == FetcherInv /\ [FetcherNext]_fetcherVars => FetcherInv'
<1> SUFFICES ASSUME FetcherInv, [FetcherNext]_fetcherVars PROVE FetcherInv' OBVIOUS
<1>1. CASE \E p \in Peer, h \in Hash : Notify(p, h, Height[h]) \/ Notify(p, h, 0) \/ Enqueue(p, h)
  BY <1>1, NotifyInv, EnqueueStep, FetcherAssumption
<1>2. CASE \E h \in Hash : Done(h) \/ FilterHeader(h) \/ Verify(h) \/ InsertChainFetched(h)
  BY <1>2, DoneInv, FilterHeaderInv, GoroutineInv
<1>3. CASE \E x \in {Content[h] : h \in Hash} : FilterBody(x)
  BY <1>3, FilterBodyInv
<1>4. CASE FetchTimer BY <1>4, FetchTimerInv
<1>5. CASE CompleteTimer BY <1>5, CompleteTimerInv
<1>6. CASE FilterUnknown
  <2>1. Inv(f) /\ Shrinks(f, f) BY DEF FetcherInv, Shrinks
  <2> QED BY <1>6, <2>1, TurnKeepsTimers DEF FilterUnknown
<1>7. CASE UNCHANGED <<f, fetchTimer, completeTimer>>
  BY <1>7 DEF FetcherInv, TimersInv
<1> QED BY <1>1, <1>2, <1>3, <1>4, <1>5, <1>6, <1>7
        DEF FetcherNext, OtherImport, Stop, fetcherVars

(* The inductive invariant of the loop and its goroutines. *)
THEOREM FetcherInvariant == FetcherSpec => []FetcherInv
BY InitInv, NextInv, PTL DEF FetcherSpec

(* A block is in the queue or in one import, never in two, and is marked as queued
   exactly as long (enqueue, insert, forgetBlock). *)
THEOREM ImportedOnce == FetcherSpec => []ImportOnce
<1>1. FetcherInv => ImportOnce BY DEF FetcherInv, Inv, ImportInv, ImportOnce
<1> QED BY <1>1, FetcherInvariant, PTL

(* The allowance of a peer is exact and never exceeded: queues counts the blocks it
   has in the queue or in an import, at most blockLimit (enqueue, forgetBlock). *)
THEOREM AllowanceExact == FetcherSpec => []QueuesExact
<1>1. FetcherInv => QueuesExact BY DEF FetcherInv, Inv, CountInv, Exact, Of, QueuesExact
<1> QED BY <1>1, FetcherInvariant, PTL

(* A body is never matched against an announcement without its header. *)
THEOREM HeaderKnown == FetcherSpec => []HeaderBeforeBody
<1>1. FetcherInv => HeaderBeforeBody BY DEF FetcherInv, Inv, HeaderInv, HeaderBeforeBody, Completing
<1> QED BY <1>1, FetcherInvariant, PTL

(* No announcement and no fetched header waits for a timer that is not set. *)
THEOREM NoTimerLost == FetcherSpec => []TimersSet
<1>1. FetcherInv => TimersSet BY DEF FetcherInv, TimersInv, TimersSet
<1> QED BY <1>1, FetcherInvariant, PTL

(* What the loop sees of the chain, and the bound. *)
FlagsInv == known \subseteq Hash /\ stopped \in BOOLEAN /\ messages \in 0..MaxMessages

(* Every step keeps the types of the remaining variables. *)
LEMMA NextFlags == FlagsInv /\ [FetcherNext]_fetcherVars => FlagsInv'
<1> SUFFICES ASSUME FlagsInv, [FetcherNext]_fetcherVars PROVE FlagsInv' OBVIOUS
<1> USE DEF FlagsInv
<1>1. Received => messages' \in 0..MaxMessages BY FetcherAssumption DEF Received
<1>2. CASE \E p \in Peer, h \in Hash : Notify(p, h, Height[h]) \/ Notify(p, h, 0) \/ Enqueue(p, h)
  <2>1. Received /\ UNCHANGED <<known, stopped>> BY <1>2, Zenon DEF Notify, Enqueue
  <2> QED BY <1>1, <2>1
<1>3. CASE \E h \in Hash : InsertChainFetched(h) \/ OtherImport(h)
  BY <1>3 DEF InsertChainFetched, OtherImport
<1>4. CASE \E h \in Hash : Done(h) \/ FilterHeader(h) \/ Verify(h)
  <2>1. UNCHANGED <<known, stopped, messages>> BY <1>4, Zenon DEF Done, FilterHeader, Verify
  <2> QED BY <2>1
<1>5. CASE \E x \in {Content[h] : h \in Hash} : FilterBody(x)
  <2>1. UNCHANGED <<known, stopped, messages>> BY <1>5, Zenon DEF FilterBody
  <2> QED BY <2>1
<1>6. CASE FetchTimer \/ CompleteTimer \/ FilterUnknown
  <2>1. UNCHANGED <<known, stopped, messages>> BY <1>6, Zenon DEF FetchTimer, CompleteTimer, FilterUnknown
  <2> QED BY <2>1
<1>7. CASE Stop BY <1>7 DEF Stop
<1>8. CASE UNCHANGED fetcherVars BY <1>8 DEF fetcherVars
<1> QED BY <1>2, <1>3, <1>4, <1>5, <1>6, <1>7, <1>8 DEF FetcherNext

(* The maps keep their types, and a peer is never charged for announcements that
   are settled: its counter does not exceed what is outstanding of it, however many
   hashes and peers there are and in whatever order announcements, replies,
   expiries and imports come (Notify, forgetHash). *)
THEOREM AnnouncesSettled == FetcherSpec => []NoAnnounceLeak
<1>1. FetcherInit => FlagsInv
  <2>1. FetcherInit => known = {} /\ stopped = FALSE /\ messages = 0 BY DEF FetcherInit
  <2>2. 0 \in 0..MaxMessages BY FetcherAssumption
  <2> QED BY <2>1, <2>2, Zenon DEF FlagsInv
<1>2. FetcherInv /\ FlagsInv => NoAnnounceLeak
  <2> SUFFICES ASSUME FetcherInv, FlagsInv PROVE NoAnnounceLeak OBVIOUS
  <2>1. MapsInv(f) /\ f.announces \in [Peer -> Int] /\ f.queues \in [Peer -> Int]
    BY DEF FetcherInv, Inv, LeakInv, CountInv, Exact
  <2>2. f \in FetcherMaps
    <3>1. f = [announces |-> f.announces, announced |-> f.announced, fetching |-> f.fetching,
               fetched |-> f.fetched, completing |-> f.completing, queue |-> f.queue,
               queues |-> f.queues, queued |-> f.queued, importing |-> f.importing]
      BY <2>1 DEF MapsInv
    <3>2. /\ f.announced \in [Hash -> Seq(Announce)] /\ f.fetching \in [Hash -> Announce \cup {NoAnnounce}]
          /\ f.fetched \in [Hash -> Seq(Announce)] /\ f.completing \in [Hash -> Announce \cup {NoAnnounce}]
          /\ f.queue \in SUBSET Hash /\ f.queued \in [Hash -> Peer \cup {NoPeer}]
          /\ f.importing \in [Hash -> Importing]
      BY <2>1 DEF MapsInv
    <3> QED BY <2>1, <3>1, <3>2 DEF FetcherMaps
  <2>3. \A p \in Peer : f.announces[p] <= Outstanding(f, Hash, p) BY DEF FetcherInv, Inv, LeakInv
  <2> QED BY <2>2, <2>3 DEF FetcherInv, FlagsInv, FetcherTypeOK, NoAnnounceLeak
<1> QED BY <1>1, <1>2, NextFlags, InitInv, NextInv, PTL DEF FetcherSpec
======================================================================
