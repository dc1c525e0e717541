----------------------------- MODULE WorkerProofs -----------------------------
(* Proofs about the event feed (Feed), the workers that a new configuration   *)
(* replaces, which learn of it through a feed (ConfigReload), and those that  *)
(* forward recorded events (MintForward).                                     *)
EXTENDS Feed, ConfigReload, MintForward, TLAPS

-------------------------------------------------------------------------------
(* Feed keeps its promise, for any subscriptions, senders, buffers and number *)
(* of sends: every step of Feed is a step of FeedSpec or leaves it alone.     *)

(* The elements of a sequence, and a sequence without repetitions.           *)
Elems(s) == {s[k] : k \in 1..Len(s)}
Distinct(s) == \A j, k \in 1..Len(s) : s[j] = s[k] => j = k

(* The channels still to be served. *)
Prefix(s, n) == {s[k] : k \in 1..n}

ArrayInv ==
    /\ inbox \in Seq(Sub) /\ sendCases \in Seq(Sub)
    /\ Distinct(inbox) /\ Distinct(sendCases)
    /\ Elems(inbox) \cap Elems(sendCases) = {}

SubsInv ==
    /\ sub \in [Sub -> {"new", "in", "removing", "gone"}]
    /\ \A c \in Sub : sub[c] \in {"in", "removing"} <=> c \in Elems(inbox) \cup Elems(sendCases)
    /\ \A c \in Sub : sub[c] = "removing" => c \in Elems(sendCases)

SendInv ==
    /\ active \in 0..Len(sendCases) /\ i \in 1..(active + 1)
    /\ lock \in Sender \cup {Nobody} /\ (lock = Nobody => active = 0)
    /\ pc \in {"fast", "select"}
    /\ sends \in 0..MaxSends

ChanInv ==
    /\ chan \in [Sub -> Seq(Nat)]
    /\ \A c \in Sub : Len(chan[c]) <= ChanCap

(* The inductive invariant: no channel is listed twice, one that is being    *)
(* removed is in sendCases, and between two sends nobody is to be served.    *)
FeedInv == ArrayInv /\ SubsInv /\ SendInv /\ ChanInv

-----------------------------------------------------------------------------
(* Sequences.                                                                *)

(* The elements of a list are its range. *)
LEMMA ElemsIsRange == ASSUME NEW s \in Seq(Sub) PROVE Range(s) = Elems(s)
BY DEF Range, Elems

(* A list without repetitions is an injection. *)
LEMMA DistinctIsInjective == ASSUME NEW s \in Seq(Sub), Distinct(s) PROVE IsInjective(s)
<1>1. DOMAIN s = 1..Len(s)
  OBVIOUS
<1> QED
  BY <1>1, Zenon DEF Distinct, IsInjective

(* The length of a list is a number. *)
LEMMA LenNat == ASSUME NEW s \in Seq(Sub) PROVE Len(s) \in Nat /\ \A k \in 1..Len(s) : s[k] \in Sub
OBVIOUS

(* The first place of an element that is listed is a place of it. *)
LEMMA FirstPlace == ASSUME NEW n \in Nat, NEW j, j = 1 PROVE j \in 1..(n + 1)
OBVIOUS

(* The elements of two lists in a row. *)
LEMMA ConcatElems ==
    ASSUME NEW s \in Seq(Sub), NEW t \in Seq(Sub)
    PROVE  /\ s \o t \in Seq(Sub) /\ Len(s \o t) = Len(s) + Len(t)
           /\ Elems(s \o t) = Elems(s) \cup Elems(t)
           /\ \A k \in 1..Len(s) : (s \o t)[k] = s[k]
           /\ \A k \in 1..Len(t) : (s \o t)[Len(s) + k] = t[k]
<1>1. /\ s \o t \in Seq(Sub) /\ Len(s \o t) = Len(s) + Len(t)
      /\ \A k \in 1..Len(s) : (s \o t)[k] = s[k]
      /\ \A k \in 1..Len(t) : (s \o t)[Len(s) + k] = t[k]
  OBVIOUS
<1>2. Len(s) \in Nat /\ Len(t) \in Nat
  BY LenNat
<1>3. ASSUME NEW k \in 1..(Len(s) + Len(t)), k > Len(s)
      PROVE  k - Len(s) \in 1..Len(t) /\ Len(s) + (k - Len(s)) = k
  BY <1>2, <1>3
<1>4. ASSUME NEW k \in 1..(Len(s) + Len(t)) PROVE (s \o t)[k] \in Elems(s) \cup Elems(t)
  <2>1. CASE k <= Len(s)
    BY <1>1, <1>2, <2>1 DEF Elems
  <2>2. CASE k > Len(s)
    BY <1>1, <1>3, <2>2 DEF Elems
  <2> QED
    BY <1>2, <2>1, <2>2
<1>5. \A k \in 1..Len(s) : k \in 1..(Len(s) + Len(t))
  BY <1>2
<1>6. \A k \in 1..Len(t) : Len(s) + k \in 1..(Len(s) + Len(t))
  BY <1>2
<1> HIDE DEF Elems
<1>7. Elems(s \o t) \subseteq Elems(s) \cup Elems(t)
  BY <1>1, <1>4 DEF Elems
<1>8. Elems(s) \subseteq Elems(s \o t)
  BY <1>1, <1>5 DEF Elems
<1>9. Elems(t) \subseteq Elems(s \o t)
  BY <1>1, <1>6 DEF Elems
<1> QED
  BY <1>1, <1>7, <1>8, <1>9

(* Two lists without repetitions and with nothing in common make one without
   repetitions. *)
LEMMA ConcatDistinct ==
    ASSUME NEW s \in Seq(Sub), NEW t \in Seq(Sub)
    PROVE  Distinct(s \o t) <=> Distinct(s) /\ Distinct(t) /\ Elems(s) \cap Elems(t) = {}
<1> DEFINE u == s \o t
<1>1. /\ u \in Seq(Sub) /\ Len(u) = Len(s) + Len(t)
      /\ \A k \in 1..Len(s) : u[k] = s[k]
      /\ \A k \in 1..Len(t) : u[Len(s) + k] = t[k]
  BY ConcatElems
<1>2. Len(s) \in Nat /\ Len(t) \in Nat
  BY LenNat
<1> HIDE DEF u
<1>3. \A k \in 1..Len(u) : \/ k \in 1..Len(s) /\ u[k] = s[k]
                           \/ k - Len(s) \in 1..Len(t) /\ u[k] = t[k - Len(s)]
  <2> SUFFICES ASSUME NEW k \in 1..Len(u), k \notin 1..Len(s)
               PROVE  k - Len(s) \in 1..Len(t) /\ u[k] = t[k - Len(s)]
    BY <1>1
  <2>1. k - Len(s) \in 1..Len(t) /\ Len(s) + (k - Len(s)) = k
    BY <1>1, <1>2
  <2> QED
    BY <1>1, <2>1
<1>4. ASSUME Distinct(u) PROVE Distinct(s) /\ Distinct(t) /\ Elems(s) \cap Elems(t) = {}
  <2>1. \A j, k \in 1..Len(u) : u[j] = u[k] => j = k
    BY <1>4 DEF Distinct
  <2>2. Distinct(s)
    BY <1>1, <1>2, <2>1 DEF Distinct
  <2>3. Distinct(t)
    <3> SUFFICES ASSUME NEW j \in 1..Len(t), NEW k \in 1..Len(t), t[j] = t[k] PROVE j = k
      BY DEF Distinct
    <3>1. Len(s) + j \in 1..Len(u) /\ Len(s) + k \in 1..Len(u)
      BY <1>1, <1>2
    <3>2. Len(s) + j = Len(s) + k
      BY <1>1, <2>1, <3>1
    <3> QED
      BY <1>2, <3>2
  <2>4. ASSUME NEW j \in 1..Len(s), NEW k \in 1..Len(t), s[j] = t[k] PROVE FALSE
    <3>1. j \in 1..Len(u) /\ Len(s) + k \in 1..Len(u) /\ j # Len(s) + k
      BY <1>1, <1>2
    <3> QED
      BY <1>1, <2>1, <2>4, <3>1
  <2> QED
    BY <2>2, <2>3, <2>4 DEF Elems
<1>5. ASSUME Distinct(s), Distinct(t), Elems(s) \cap Elems(t) = {} PROVE Distinct(u)
  <2> SUFFICES ASSUME NEW j \in 1..Len(u), NEW k \in 1..Len(u), u[j] = u[k] PROVE j = k
    BY DEF Distinct
  <2>1. CASE j \in 1..Len(s) /\ u[j] = s[j] /\ k \in 1..Len(s) /\ u[k] = s[k]
    BY <1>5, <2>1 DEF Distinct
  <2>2. CASE /\ j - Len(s) \in 1..Len(t) /\ u[j] = t[j - Len(s)]
             /\ k - Len(s) \in 1..Len(t) /\ u[k] = t[k - Len(s)]
    <3>1. j - Len(s) = k - Len(s)
      BY <1>5, <2>2 DEF Distinct
    <3> QED
      BY <1>1, <1>2, <3>1
  <2>3. ASSUME NEW a \in 1..Len(s), NEW b \in 1..Len(t), s[a] = t[b] PROVE FALSE
    BY <1>5, <2>3 DEF Elems
  <2> QED
    BY <1>3, <2>1, <2>2, <2>3
<1> QED
  BY <1>4, <1>5 DEF u

(* delete takes out one place and moves the later ones down. *)
LEMMA DeleteAt ==
    ASSUME NEW s \in Seq(Sub), NEW k \in 1..Len(s)
    PROVE  /\ delete(s, k) \in Seq(Sub) /\ Len(delete(s, k)) = Len(s) - 1
           /\ \A j \in 1..(Len(s) - 1) : delete(s, k)[j] = IF j < k THEN s[j] ELSE s[j + 1]
<1>1. Len(s) \in Nat
  BY LenNat
<1> DEFINE a == SubSeq(s, 1, k - 1)
           b == SubSeq(s, k + 1, Len(s))
<1>2. a \in Seq(Sub) /\ Len(a) = k - 1 /\ \A j \in 1..(k - 1) : a[j] = s[j]
  BY <1>1
<1>3. b \in Seq(Sub) /\ Len(b) = Len(s) - k /\ \A j \in 1..(Len(s) - k) : b[j] = s[k + j]
  BY <1>1
<1>4. delete(s, k) = a \o b
  BY DEF delete
<1> HIDE DEF a, b
<1>5. /\ a \o b \in Seq(Sub) /\ Len(a \o b) = Len(s) - 1
      /\ \A j \in 1..Len(a) : (a \o b)[j] = a[j]
      /\ \A j \in 1..Len(b) : (a \o b)[Len(a) + j] = b[j]
  <2>1. Len(a \o b) = Len(a) + Len(b)
    BY <1>2, <1>3, ConcatElems
  <2>2. Len(a) + Len(b) = Len(s) - 1
    BY <1>1, <1>2, <1>3
  <2> QED
    BY <1>2, <1>3, <2>1, <2>2, ConcatElems
<1>6. ASSUME NEW j \in 1..(Len(s) - 1) PROVE (a \o b)[j] = IF j < k THEN s[j] ELSE s[j + 1]
  <2>1. CASE j < k
    BY <1>1, <1>2, <1>5, <2>1
  <2>2. CASE ~(j < k)
    <3>1. j - (k - 1) \in 1..Len(b) /\ Len(a) + (j - (k - 1)) = j /\ k + (j - (k - 1)) = j + 1
      BY <1>1, <1>2, <1>3, <2>2
    <3>2. (a \o b)[j] = b[j - (k - 1)]
      BY <1>5, <3>1
    <3>3. b[j - (k - 1)] = s[j + 1]
      BY <1>3, <3>1
    <3> QED
      BY <2>2, <3>2, <3>3
  <2> QED
    BY <2>1, <2>2
<1> QED
  BY <1>4, <1>5, <1>6

(* What is left after delete, in all of the array and in a prefix of it. *)
LEMMA DeleteElems ==
    ASSUME NEW s \in Seq(Sub), Distinct(s), NEW k \in 1..Len(s), NEW n \in 0..Len(s)
    PROVE  /\ Distinct(delete(s, k))
           /\ Elems(delete(s, k)) = Elems(s) \ {s[k]}
           /\ Prefix(delete(s, k), IF k <= n THEN n - 1 ELSE n) = Prefix(s, n) \ {s[k]}
<1> DEFINE d == delete(s, k)
           back(j) == IF j < k THEN j ELSE j + 1
           m == IF k <= n THEN n - 1 ELSE n
<1>1. Len(s) \in Nat
  BY LenNat
<1>2. Len(d) = Len(s) - 1 /\ \A j \in 1..Len(d) : d[j] = s[back(j)]
  BY DeleteAt
<1> HIDE DEF d
<1>3. \A j \in 1..Len(d) : back(j) \in 1..Len(s) /\ back(j) # k
  BY <1>1, <1>2
<1>4. \A j1, j2 \in 1..Len(d) : back(j1) = back(j2) => j1 = j2
  BY <1>1, <1>2
<1>5. \A j \in 1..Len(s) : j # k => \E l \in 1..Len(d) : back(l) = j
  <2> SUFFICES ASSUME NEW j \in 1..Len(s), j # k PROVE \E l \in 1..Len(d) : back(l) = j
    OBVIOUS
  <2>1. CASE j < k
    <3>1. j \in 1..Len(d) /\ back(j) = j
      BY <1>1, <1>2, <2>1
    <3> QED
      BY <3>1
  <2>2. CASE j > k
    <3>1. j - 1 \in 1..Len(d) /\ back(j - 1) = j
      BY <1>1, <1>2, <2>2
    <3> QED
      BY <3>1
  <2> QED
    BY <1>1, <2>1, <2>2
<1>6. m \in 0..Len(d) /\ (\A j \in 1..m : j \in 1..Len(d) /\ back(j) \in 1..n)
      /\ \A j \in 1..Len(d) : back(j) \in 1..n => j \in 1..m
  <2>1. CASE k <= n
    <3>1. m = n - 1
      BY <2>1
    <3> HIDE DEF m
    <3> QED
      BY <1>1, <1>2, <2>1, <3>1
  <2>2. CASE ~(k <= n)
    <3>1. m = n
      BY <2>2
    <3> HIDE DEF m
    <3> QED
      BY <1>1, <1>2, <2>2, <3>1
  <2> QED
    BY <2>1, <2>2
<1> HIDE DEF back, m
<1>7. \A j \in 1..Len(s) : s[j] = s[k] => j = k
  BY DEF Distinct
<1>8. Distinct(d)
  BY <1>2, <1>3, <1>4 DEF Distinct
<1>9. Elems(d) = Elems(s) \ {s[k]}
  <2>1. Elems(d) \subseteq Elems(s) \ {s[k]}
    BY <1>2, <1>3, <1>7 DEF Elems
  <2>2. ASSUME NEW j \in 1..Len(s), s[j] # s[k] PROVE s[j] \in Elems(d)
    <3>1. PICK l \in 1..Len(d) : back(l) = j
      BY <1>5, <2>2
    <3>2. d[l] = s[j]
      BY <1>2, <3>1
    <3> QED
      BY <3>2 DEF Elems
  <2>3. Elems(s) \ {s[k]} \subseteq Elems(d)
    BY <2>2 DEF Elems
  <2> QED
    BY <2>1, <2>3
<1>10. Prefix(d, m) = Prefix(s, n) \ {s[k]}
  <2>0. \A j \in 1..n : j \in 1..Len(s)
    BY <1>1
  <2>1. Prefix(d, m) \subseteq Prefix(s, n) \ {s[k]}
    BY <1>2, <1>3, <1>6, <1>7 DEF Prefix
  <2>2. Prefix(s, n) \ {s[k]} \subseteq Prefix(d, m)
    <3> SUFFICES ASSUME NEW j \in 1..n, s[j] # s[k] PROVE s[j] \in Prefix(d, m)
      BY DEF Prefix
    <3>1. PICK l \in 1..Len(d) : back(l) = j
      BY <1>5, <2>0
    <3> QED
      BY <1>2, <1>6, <3>1 DEF Prefix
  <2> QED
    BY <2>1, <2>2
<1> QED
  BY <1>8, <1>9, <1>10 DEF d, m

(* deactivate only reorders the array; the channel leaves the prefix. *)
LEMMA DeactivateElems ==
    ASSUME NEW s \in Seq(Sub), Distinct(s), NEW n \in 1..Len(s), NEW k \in 1..n
    PROVE  /\ deactivate(s, k, n) \in Seq(Sub) /\ Len(deactivate(s, k, n)) = Len(s)
           /\ Distinct(deactivate(s, k, n))
           /\ Elems(deactivate(s, k, n)) = Elems(s)
           /\ Prefix(deactivate(s, k, n), n - 1) = Prefix(s, n) \ {s[k]}
<1> DEFINE d == deactivate(s, k, n)
           at(j) == IF j = n THEN k ELSE IF j = k THEN n ELSE j
<1>1. Len(s) \in Nat /\ k \in 1..Len(s) /\ \A j \in 1..n : j \in 1..Len(s)
  BY LenNat
<1>2. d \in Seq(Sub) /\ Len(d) = Len(s) /\ \A j \in 1..Len(s) : d[j] = s[at(j)]
  BY <1>1 DEF deactivate
<1> HIDE DEF d
<1>3. \A j \in 1..Len(s) : at(j) \in 1..Len(s) /\ at(at(j)) = j
  BY <1>1
<1>4. \A j1, j2 \in 1..Len(s) : at(j1) = at(j2) => j1 = j2
  BY <1>1
<1>5. \A j \in 1..(n - 1) : j \in 1..Len(s) /\ at(j) \in 1..n /\ at(j) # k
  BY <1>1
<1>6. \A j \in 1..n : j # k => at(j) \in 1..(n - 1)
  BY <1>1
<1> HIDE DEF at
<1>7. Distinct(d)
  BY <1>2, <1>3, <1>4 DEF Distinct
<1>8. Elems(d) = Elems(s)
  <2>1. Elems(d) \subseteq Elems(s)
    BY <1>2, <1>3 DEF Elems
  <2>2. \A j \in 1..Len(s) : s[j] = d[at(j)]
    BY <1>2, <1>3
  <2>3. Elems(s) \subseteq Elems(d)
    BY <1>2, <1>3, <2>2 DEF Elems
  <2> QED
    BY <2>1, <2>3
<1>9. Prefix(d, n - 1) = Prefix(s, n) \ {s[k]}
  <2>1. Prefix(d, n - 1) \subseteq Prefix(s, n) \ {s[k]}
    BY <1>1, <1>2, <1>5 DEF Prefix, Distinct
  <2>2. \A j \in 1..n : s[j] = d[at(j)]
    BY <1>1, <1>2, <1>3
  <2>3. Prefix(s, n) \ {s[k]} \subseteq Prefix(d, n - 1)
    BY <1>6, <2>2 DEF Prefix
  <2> QED
    BY <2>1, <2>3
<1> QED
  BY <1>2, <1>7, <1>8, <1>9 DEF d

(* find returns the place of a channel that is there. *)
LEMMA FindPlace ==
    ASSUME NEW s \in Seq(Sub), NEW c \in Elems(s)
    PROVE  find(s, c) \in 1..Len(s) /\ s[find(s, c)] = c
BY DEF find, Elems

(* Appending adds an element. *)
LEMMA AppendElems ==
    ASSUME NEW s \in Seq(Sub), NEW c \in Sub
    PROVE  /\ Append(s, c) \in Seq(Sub) /\ Elems(Append(s, c)) = Elems(s) \cup {c}
           /\ (Distinct(s) /\ c \notin Elems(s) => Distinct(Append(s, c)))
<1>1. /\ Append(s, c) \in Seq(Sub) /\ Len(Append(s, c)) = Len(s) + 1 /\ Append(s, c)[Len(s) + 1] = c
      /\ \A k \in 1..Len(s) : Append(s, c)[k] = s[k]
  OBVIOUS
<1>2. Len(s) \in Nat
  BY LenNat
<1>3. \A k \in 1..(Len(s) + 1) : k \in 1..Len(s) \/ k = Len(s) + 1
  BY <1>2
<1>4. Len(s) + 1 \in 1..(Len(s) + 1) /\ \A k \in 1..Len(s) : k \in 1..(Len(s) + 1)
  BY <1>2
<1>5. Elems(Append(s, c)) = Elems(s) \cup {c}
  BY <1>1, <1>3, <1>4 DEF Elems
<1>6. ASSUME Distinct(s), c \notin Elems(s) PROVE Distinct(Append(s, c))
  BY <1>1, <1>3, <1>6 DEF Elems, Distinct
<1> QED
  BY <1>1, <1>5, <1>6

-----------------------------------------------------------------------------
(* The state of FeedSpec, read off the arrays.                               *)

Subscribed == Elems(inbox) \cup Elems(sendCases)
To == Prefix(sendCases, active)

(* What the refinement mapping says of the variables of FeedSpec. *)
LEMMA Mapped ==
    ASSUME ArrayInv
    PROVE  /\ Range(inbox \o sendCases) = Subscribed
           /\ {sendCases[k] : k \in 1..active} = To
BY ElemsIsRange, ConcatElems DEF ArrayInv, Subscribed, To, Prefix

(* The same after a step. *)
LEMMA MappedNext ==
    ASSUME ArrayInv'
    PROVE  /\ Range(inbox' \o sendCases') = Subscribed'
           /\ {sendCases'[k] : k \in 1..active'} = To'
BY ElemsIsRange, ConcatElems DEF ArrayInv, Subscribed, To, Prefix

(* What a step of FeedSpec is, in the state of Feed. *)
AbstractNext ==
    \/ /\ lock = Nobody /\ lock' # Nobody /\ sends' = sends + 1 /\ To' = Subscribed
       /\ nsent' = 0 /\ Subscribed' = Subscribed /\ UNCHANGED <<chan, total>>
    \/ /\ lock # Nobody /\ To = {} /\ lock' = Nobody /\ nsent' = 0 /\ total' = total + nsent
       /\ Subscribed' = Subscribed /\ To' = To /\ UNCHANGED <<sends, chan>>
    \/ \E c \in Sub :
         /\ c \notin Subscribed /\ Subscribed' = Subscribed \cup {c}
         /\ To' = To /\ UNCHANGED <<lock, nsent, sends, chan, total>>
    \/ \E c \in Sub :
         /\ c \in Subscribed /\ Subscribed' = Subscribed \ {c}
         /\ To' = To \ {c} /\ UNCHANGED <<lock, nsent, sends, chan, total>>
    \/ \E c \in Sub :
         /\ lock # Nobody /\ c \in To /\ Len(chan[c]) < ChanCap
         /\ chan' = [chan EXCEPT ![c] = Append(@, sends)]
         /\ To' = To \ {c} /\ nsent' = nsent + 1
         /\ Subscribed' = Subscribed /\ UNCHANGED <<lock, sends, total>>
    \/ \E c \in Sub :
         /\ chan[c] # <<>> /\ chan' = [chan EXCEPT ![c] = Tail(@)]
         /\ Subscribed' = Subscribed /\ To' = To /\ UNCHANGED <<lock, nsent, sends, total>>
    \/ Subscribed' = Subscribed /\ To' = To /\ UNCHANGED <<lock, nsent, sends, chan, total>>

(* The steps of FeedSpec under the mapping. *)
LEMMA AbstractIsPromise ==
    ASSUME ArrayInv, ArrayInv', AbstractNext
    PROVE  [Promise!Next]_(Promise!vars)
<1> DEFINE a == Range(inbox \o sendCases)
           b == {sendCases[k] : k \in 1..active}
<1>1. a = Subscribed /\ b = To
  BY Mapped
<1>2. a' = Subscribed' /\ b' = To'
  BY MappedNext
<1> HIDE DEF a, b
<1> USE DEF Promise!Next, Promise!vars, Promise!BeginSend, Promise!EndSend, Promise!Subscribe,
            Promise!Unsubscribe, Promise!Serve, Promise!Read
<1> QED
  BY <1>1, <1>2 DEF AbstractNext, a, b

-----------------------------------------------------------------------------
(* The steps.                                                                *)

(* The invariant holds at first, and the first state maps to a first state of FeedSpec. *)
LEMMA InitFeed == Init => FeedInv
BY FeedAssumption DEF Init, FeedInv, ArrayInv, SubsInv, SendInv, ChanInv, Elems, Distinct

(* Subscribe keeps the invariant and is a step of FeedSpec. *)
LEMMA SubscribeStep ==
    ASSUME FeedInv, NEW c \in Sub, Subscribe(c)
    PROVE  FeedInv' /\ AbstractNext
<1>1. ArrayInv /\ SubsInv /\ SendInv /\ ChanInv
  BY DEF FeedInv
<1>2. /\ sub[c] = "new" /\ inbox' = Append(inbox, c) /\ sub' = [sub EXCEPT ![c] = "in"]
      /\ UNCHANGED <<sendCases, active, lock, pc, i, nsent, sends, total, chan>>
  BY DEF Subscribe, sendVars
<1>3. c \notin Elems(inbox) /\ c \notin Elems(sendCases)
  BY <1>1, <1>2 DEF SubsInv
<1>4. inbox' \in Seq(Sub) /\ Elems(inbox') = Elems(inbox) \cup {c} /\ Distinct(inbox')
  BY <1>1, <1>2, <1>3, AppendElems DEF ArrayInv
<1>5. ArrayInv'
  BY <1>1, <1>2, <1>3, <1>4 DEF ArrayInv
<1>6. SubsInv'
  BY <1>1, <1>2, <1>3, <1>4 DEF SubsInv
<1>7. SendInv' /\ ChanInv'
  BY <1>1, <1>2 DEF SendInv, ChanInv
<1>8. c \notin Subscribed /\ Subscribed' = Subscribed \cup {c} /\ To' = To
  BY <1>2, <1>3, <1>4 DEF Subscribed, To
<1> QED
  BY <1>2, <1>5, <1>6, <1>7, <1>8 DEF FeedInv, AbstractNext

(* A removal from the inbox keeps the invariant and is a step of FeedSpec. *)
LEMMA RemoveFromInboxStep ==
    ASSUME FeedInv, NEW c \in Sub, RemoveFromInbox(c)
    PROVE  FeedInv' /\ AbstractNext
<1>1. ArrayInv /\ SubsInv /\ SendInv /\ ChanInv
  BY DEF FeedInv
<1>2. /\ sub[c] = "in"
      /\ UNCHANGED <<sendCases, active, lock, pc, i, nsent, sends, total, chan>>
  BY DEF RemoveFromInbox, sendVars
<1>3. SendInv' /\ ChanInv'
  BY <1>1, <1>2 DEF SendInv, ChanInv
<1>4. CASE c \in Range(inbox) /\ inbox' = delete(inbox, find(inbox, c)) /\ sub' = [sub EXCEPT ![c] = "gone"]
  <2>1. c \in Elems(inbox) /\ c \notin Elems(sendCases)
    BY <1>1, <1>4, ElemsIsRange DEF ArrayInv
  <2>2. find(inbox, c) \in 1..Len(inbox) /\ inbox[find(inbox, c)] = c /\ 0 \in 0..Len(inbox)
    BY <1>1, <2>1, FindPlace, LenNat DEF ArrayInv
  <2>3. inbox' \in Seq(Sub) /\ Distinct(inbox') /\ Elems(inbox') = Elems(inbox) \ {c}
    BY <1>1, <1>4, <2>2, DeleteAt, DeleteElems DEF ArrayInv
  <2>4. ArrayInv'
    BY <1>1, <1>2, <2>1, <2>3 DEF ArrayInv
  <2>5. SubsInv'
    BY <1>1, <1>2, <1>4, <2>1, <2>3 DEF SubsInv
  <2>6. To \subseteq Elems(sendCases)
    BY <1>1 DEF To, Prefix, Elems, SendInv, ArrayInv
  <2>7. c \in Subscribed /\ Subscribed' = Subscribed \ {c} /\ To' = To \ {c}
    <3>1. To' = To
      BY <1>2 DEF To
    <3> QED
      BY <1>2, <2>1, <2>3, <2>6, <3>1 DEF Subscribed
  <2> QED
    BY <1>2, <1>3, <2>4, <2>5, <2>7 DEF FeedInv, AbstractNext
<1>5. CASE c \notin Range(inbox) /\ sub' = [sub EXCEPT ![c] = "removing"] /\ UNCHANGED inbox
  <2>1. c \notin Elems(inbox) /\ c \in Elems(sendCases)
    BY <1>1, <1>2, <1>5, ElemsIsRange DEF SubsInv, ArrayInv
  <2>2. ArrayInv'
    BY <1>1, <1>2, <1>5 DEF ArrayInv
  <2>3. SubsInv'
    BY <1>1, <1>2, <1>5, <2>1 DEF SubsInv
  <2>4. Subscribed' = Subscribed /\ To' = To
    BY <1>2, <1>5 DEF Subscribed, To
  <2> QED
    BY <1>2, <1>3, <2>2, <2>3, <2>4 DEF FeedInv, AbstractNext
<1> QED
  BY <1>4, <1>5 DEF RemoveFromInbox

(* A channel that is being removed is deleted from sendCases. *)
LEMMA DeleteCase ==
    ASSUME FeedInv, NEW c \in Sub, sub[c] = "removing",
           sendCases' = delete(sendCases, find(sendCases, c)), sub' = [sub EXCEPT ![c] = "gone"],
           active' = IF find(sendCases, c) <= active THEN active - 1 ELSE active,
           UNCHANGED <<inbox, lock, nsent, sends, chan, total>>
    PROVE  /\ ArrayInv' /\ SubsInv' /\ ChanInv' /\ active' \in 0..Len(sendCases')
           /\ AbstractNext
<1>1. ArrayInv /\ SubsInv /\ SendInv /\ ChanInv
  BY DEF FeedInv
<1> DEFINE index == find(sendCases, c)
<1>2. c \in Elems(sendCases) /\ c \notin Elems(inbox)
  BY <1>1 DEF SubsInv, ArrayInv
<1>3. index \in 1..Len(sendCases) /\ sendCases[index] = c
  BY <1>1, <1>2, FindPlace DEF ArrayInv
<1>4. Len(sendCases) \in Nat /\ active \in 0..Len(sendCases)
  BY <1>1, LenNat DEF ArrayInv, SendInv
<1> HIDE DEF index
<1>5. sendCases' = delete(sendCases, index) /\ active' = IF index <= active THEN active - 1 ELSE active
  BY DEF index
<1>6. /\ sendCases' \in Seq(Sub) /\ Len(sendCases') = Len(sendCases) - 1
      /\ Distinct(sendCases') /\ Elems(sendCases') = Elems(sendCases) \ {c}
  <2>1. sendCases \in Seq(Sub) /\ Distinct(sendCases)
    BY <1>1 DEF ArrayInv
  <2>2. Distinct(delete(sendCases, index)) /\ Elems(delete(sendCases, index)) = Elems(sendCases) \ {c}
    BY <1>3, <1>4, <2>1, DeleteElems
  <2> QED
    BY <1>3, <1>5, <2>1, <2>2, DeleteAt
<1>7. Prefix(sendCases', active') = Prefix(sendCases, active) \ {c}
  BY <1>1, <1>3, <1>4, <1>5, DeleteElems DEF ArrayInv
<1>8. ArrayInv'
  BY <1>1, <1>6 DEF ArrayInv
<1>9. SubsInv'
  BY <1>1, <1>2, <1>6 DEF SubsInv
<1>10. ChanInv'
  BY <1>1 DEF ChanInv
<1>11. active' \in 0..Len(sendCases')
  BY <1>3, <1>4, <1>5, <1>6
<1>12. c \in Subscribed /\ Subscribed' = Subscribed \ {c} /\ To' = To \ {c}
  BY <1>2, <1>6, <1>7 DEF Subscribed, To
<1> QED
  BY <1>8, <1>9, <1>10, <1>11, <1>12 DEF AbstractNext

(* A removal under the send lock keeps the invariant and is a step of FeedSpec. *)
LEMMA RemoveUnderLockStep ==
    ASSUME FeedInv, NEW c \in Sub, RemoveUnderLock(c)
    PROVE  FeedInv' /\ AbstractNext
<1>1. active = 0 /\ find(sendCases, c) \in 1..Len(sendCases)
  BY FindPlace DEF FeedInv, SendInv, SubsInv, ArrayInv, RemoveUnderLock
<1>2. /\ sub[c] = "removing" /\ lock = Nobody
      /\ sendCases' = delete(sendCases, find(sendCases, c)) /\ sub' = [sub EXCEPT ![c] = "gone"]
      /\ UNCHANGED <<inbox, active, lock, pc, i, nsent, sends, total, chan>>
  BY DEF RemoveUnderLock, sendVars
<1>3. active' = IF find(sendCases, c) <= active THEN active - 1 ELSE active
  BY <1>1, <1>2
<1>4. ArrayInv' /\ SubsInv' /\ ChanInv' /\ active' \in 0..Len(sendCases') /\ AbstractNext
  BY <1>2, <1>3, DeleteCase
<1>5. SendInv'
  BY <1>2, <1>4 DEF FeedInv, SendInv
<1> QED
  BY <1>4, <1>5 DEF FeedInv

(* A removal in the middle of a Send keeps the invariant and is a step of FeedSpec. *)
LEMMA SelectRemoveStep ==
    ASSUME FeedInv, NEW s \in Sender, NEW c \in Sub, SelectRemove(s, c)
    PROVE  FeedInv' /\ AbstractNext
<1>1. /\ sub[c] = "removing" /\ lock = s
      /\ sendCases' = delete(sendCases, find(sendCases, c)) /\ sub' = [sub EXCEPT ![c] = "gone"]
      /\ active' = IF find(sendCases, c) <= active THEN active - 1 ELSE active
      /\ pc' = "fast" /\ i' = 1
      /\ UNCHANGED <<inbox, lock, nsent, sends, chan, total>>
  BY DEF SelectRemove, ActiveAfterDelete
<1>2. ArrayInv' /\ SubsInv' /\ ChanInv' /\ active' \in 0..Len(sendCases') /\ AbstractNext
  BY <1>1, DeleteCase
<1>3. Len(sendCases') \in Nat
  BY <1>2, LenNat DEF ArrayInv
<1>4. SendInv'
  BY <1>1, <1>2, <1>3, FeedAssumption DEF FeedInv, SendInv
<1> QED
  BY <1>2, <1>4 DEF FeedInv

(* The start of a Send keeps the invariant and is a step of FeedSpec. *)
LEMMA BeginSendStep ==
    ASSUME FeedInv, NEW s \in Sender, BeginSend(s)
    PROVE  FeedInv' /\ AbstractNext
<1>1. ArrayInv /\ SubsInv /\ SendInv /\ ChanInv
  BY DEF FeedInv
<1>2. /\ lock = Nobody /\ sends < MaxSends /\ lock' = s /\ sendCases' = sendCases \o inbox
      /\ inbox' = <<>> /\ active' = Len(sendCases') /\ sends' = sends + 1 /\ nsent' = 0
      /\ pc' = "fast" /\ i' = 1 /\ UNCHANGED <<sub, chan, total>>
  BY DEF BeginSend
<1>3. sendCases' \in Seq(Sub) /\ Elems(sendCases') = Elems(sendCases) \cup Elems(inbox)
  BY <1>1, <1>2, ConcatElems DEF ArrayInv
<1>4. Distinct(sendCases')
  BY <1>1, <1>2, ConcatDistinct DEF ArrayInv
<1>5. inbox' \in Seq(Sub) /\ Elems(inbox') = {} /\ Distinct(inbox')
  BY <1>2 DEF Elems, Distinct
<1>6. ArrayInv'
  BY <1>3, <1>4, <1>5 DEF ArrayInv
<1>7. SubsInv'
  BY <1>1, <1>2, <1>3, <1>5 DEF SubsInv
<1>8. Len(sendCases') \in Nat
  BY <1>3, LenNat
<1>9. SendInv'
  BY <1>1, <1>2, <1>8, FeedAssumption DEF SendInv
<1>10. ChanInv'
  BY <1>1, <1>2 DEF ChanInv
<1>11. To' = Subscribed /\ Subscribed' = Subscribed
  <2>1. Prefix(sendCases', active') = Elems(sendCases')
    BY <1>2 DEF Prefix, Elems
  <2> QED
    BY <1>3, <1>5, <2>1 DEF To, Subscribed
<1>12. lock' # Nobody
  BY <1>2, FeedAssumption
<1> QED
  BY <1>2, <1>6, <1>7, <1>9, <1>10, <1>11, <1>12 DEF FeedInv, AbstractNext

(* A channel of the prefix takes the value. *)
LEMMA DeliverStep ==
    ASSUME FeedInv, NEW k \in 1..active, lock # Nobody, Room(k), Deliver(k),
           UNCHANGED <<inbox, lock, sends, sub, total>>
    PROVE  /\ ArrayInv' /\ SubsInv' /\ ChanInv' /\ active' = active - 1
           /\ active' \in 0..Len(sendCases') /\ AbstractNext
<1>1. ArrayInv /\ SubsInv /\ SendInv /\ ChanInv
  BY DEF FeedInv
<1> DEFINE c == sendCases[k]
<1>2. /\ Len(sendCases) \in Nat /\ active \in 1..Len(sendCases) /\ k \in 1..Len(sendCases) /\ c \in Sub
  BY <1>1, LenNat DEF ArrayInv, SendInv
<1>3. /\ chan' = [chan EXCEPT ![c] = Append(@, sends)] /\ Len(chan[c]) < ChanCap
      /\ sendCases' = deactivate(sendCases, k, active) /\ active' = active - 1 /\ nsent' = nsent + 1
  BY DEF Deliver, Room
<1> HIDE DEF c
<1>4. /\ sendCases' \in Seq(Sub) /\ Len(sendCases') = Len(sendCases) /\ Distinct(sendCases')
      /\ Elems(sendCases') = Elems(sendCases) /\ Prefix(sendCases', active - 1) = Prefix(sendCases, active) \ {c}
  BY <1>1, <1>2, <1>3, DeactivateElems DEF ArrayInv, c
<1>5. ArrayInv' /\ SubsInv'
  BY <1>1, <1>4 DEF ArrayInv, SubsInv
<1>6. ChanInv'
  <2>1. sends \in Nat /\ ChanCap \in Nat
    BY <1>1, FeedAssumption DEF SendInv
  <2>2. Append(chan[c], sends) \in Seq(Nat) /\ Len(Append(chan[c], sends)) <= ChanCap
    BY <1>1, <1>2, <1>3, <2>1 DEF ChanInv
  <2> QED
    BY <1>1, <1>2, <1>3, <2>2 DEF ChanInv
<1>7. active' \in 0..Len(sendCases')
  BY <1>2, <1>3, <1>4
<1>8. c \in To /\ To' = To \ {c} /\ Subscribed' = Subscribed
  BY <1>3, <1>4 DEF To, Subscribed, Prefix, c
<1> QED
  BY <1>2, <1>3, <1>5, <1>6, <1>7, <1>8 DEF AbstractNext

(* A channel served on the fast path keeps the invariant and is a step of FeedSpec. *)
LEMMA TrySendStep ==
    ASSUME FeedInv, NEW s \in Sender, TrySend(s)
    PROVE  FeedInv' /\ AbstractNext
<1>1. ArrayInv /\ SubsInv /\ SendInv /\ ChanInv
  BY DEF FeedInv
<1>2. lock = s /\ lock # Nobody /\ i <= active /\ UNCHANGED <<inbox, lock, pc, sends, sub, total>>
  BY FeedAssumption DEF TrySend
<1>3. active \in Nat /\ i \in 1..active
  BY <1>1, <1>2, LenNat DEF ArrayInv, SendInv
<1>4. CASE Room(i) /\ Deliver(i) /\ UNCHANGED i
  <2>1. /\ ArrayInv' /\ SubsInv' /\ ChanInv' /\ active' = active - 1
        /\ active' \in 0..Len(sendCases') /\ AbstractNext
    BY <1>2, <1>3, <1>4, DeliverStep
  <2>2. SendInv'
    BY <1>1, <1>2, <1>3, <1>4, <2>1 DEF SendInv
  <2> QED
    BY <2>1, <2>2 DEF FeedInv
<1>5. CASE i' = i + 1 /\ UNCHANGED <<chan, sendCases, active, nsent>>
  <2>1. ArrayInv' /\ SubsInv' /\ ChanInv'
    BY <1>1, <1>2, <1>5 DEF ArrayInv, SubsInv, ChanInv
  <2>2. SendInv'
    BY <1>1, <1>2, <1>3, <1>5 DEF SendInv
  <2>3. Subscribed' = Subscribed /\ To' = To
    BY <1>2, <1>5 DEF Subscribed, To
  <2> QED
    BY <1>2, <1>5, <2>1, <2>2, <2>3 DEF FeedInv, AbstractNext
<1> QED
  BY <1>4, <1>5 DEF TrySend

(* A channel served by the select keeps the invariant and is a step of FeedSpec. *)
LEMMA SelectSendStep ==
    ASSUME FeedInv, NEW s \in Sender, SelectSend(s)
    PROVE  FeedInv' /\ AbstractNext
<1>1. SendInv /\ ArrayInv
  BY DEF FeedInv
<1>2. /\ lock = s /\ lock # Nobody /\ pc' = "fast" /\ i' = 1
      /\ UNCHANGED <<inbox, lock, sends, sub, total>>
  BY FeedAssumption DEF SelectSend
<1>3. PICK k \in 1..active : Room(k) /\ Deliver(k)
  BY DEF SelectSend
<1>4. /\ ArrayInv' /\ SubsInv' /\ ChanInv'
      /\ active' \in 0..Len(sendCases') /\ AbstractNext
  BY <1>2, <1>3, DeliverStep
<1>5. Len(sendCases') \in Nat
  BY <1>4, LenNat DEF ArrayInv
<1>6. SendInv'
  <2>0. active' \in 0..Len(sendCases') /\ Len(sendCases') \in Nat
    BY <1>4, <1>5
  <2>1. active' \in Nat
    BY ONLY <2>0
  <2>2. i' = 1
    BY <1>2
  <2>3. i' \in 1..(active' + 1)
    BY <2>1, <2>2, FirstPlace
  <2> QED
    BY <1>1, <1>2, <1>4, <2>3 DEF SendInv
<1> QED
  BY <1>4, <1>6 DEF FeedInv

(* The end of the fast path keeps the invariant and leaves FeedSpec alone, or ends the
   Send. *)
LEMMA FastPathDoneStep ==
    ASSUME FeedInv, NEW s \in Sender, FastPathDone(s)
    PROVE  FeedInv' /\ AbstractNext
<1>1. ArrayInv /\ SubsInv /\ SendInv /\ ChanInv
  BY DEF FeedInv
<1>2. lock = s /\ lock # Nobody /\ i' = 1 /\ UNCHANGED <<inbox, sendCases, active, sends, sub, chan>>
  BY FeedAssumption DEF FastPathDone
<1>3. active \in Nat
  BY <1>1, LenNat DEF ArrayInv, SendInv
<1>4. ArrayInv' /\ SubsInv' /\ ChanInv'
  BY <1>1, <1>2 DEF ArrayInv, SubsInv, ChanInv
<1>5. Subscribed' = Subscribed /\ To' = To
  BY <1>2 DEF Subscribed, To
<1>6. CASE active = 0 /\ lock' = Nobody /\ nsent' = 0 /\ total' = total + nsent /\ UNCHANGED pc
  <2>1. SendInv'
    BY <1>1, <1>2, <1>3, <1>6 DEF SendInv
  <2>2. To = {}
    BY <1>6 DEF To, Prefix
  <2> QED
    BY <1>2, <1>4, <1>5, <1>6, <2>1, <2>2 DEF FeedInv, AbstractNext
<1>7. CASE active # 0 /\ pc' = "select" /\ UNCHANGED <<lock, nsent, total>>
  <2>1. SendInv'
    BY <1>1, <1>2, <1>3, <1>7 DEF SendInv
  <2> QED
    BY <1>2, <1>4, <1>5, <1>7, <2>1 DEF FeedInv, AbstractNext
<1> QED
  BY <1>6, <1>7 DEF FastPathDone

(* A receiver that reads keeps the invariant and leaves FeedSpec alone. *)
LEMMA ReadStep ==
    ASSUME FeedInv, NEW c \in Sub, Read(c)
    PROVE  FeedInv' /\ AbstractNext
<1>1. ArrayInv /\ SubsInv /\ SendInv /\ ChanInv
  BY DEF FeedInv
<1>2. /\ chan[c] # <<>> /\ chan' = [chan EXCEPT ![c] = Tail(@)]
      /\ UNCHANGED <<inbox, sendCases, active, lock, pc, i, nsent, sends, total, sub>>
  BY DEF Read, sendVars
<1>3. ArrayInv' /\ SubsInv' /\ SendInv'
  BY <1>1, <1>2 DEF ArrayInv, SubsInv, SendInv
<1>4. Tail(chan[c]) \in Seq(Nat) /\ Len(Tail(chan[c])) <= ChanCap
  BY <1>1, <1>2, FeedAssumption DEF ChanInv
<1>5. ChanInv'
  BY <1>1, <1>2, <1>4 DEF ChanInv
<1>6. Subscribed' = Subscribed /\ To' = To
  BY <1>2 DEF Subscribed, To
<1> QED
  BY <1>2, <1>3, <1>5, <1>6 DEF FeedInv, AbstractNext

(* Every step keeps the invariant and maps to a step of FeedSpec or to none. *)
LEMMA FeedStep ==
    ASSUME FeedInv, [Next]_vars
    PROVE  FeedInv' /\ AbstractNext
<1>1. CASE Next
  BY <1>1, SubscribeStep, RemoveFromInboxStep, RemoveUnderLockStep, ReadStep, BeginSendStep, TrySendStep,
     FastPathDoneStep, SelectSendStep, SelectRemoveStep DEF Next, SendStep
<1>2. CASE UNCHANGED vars
  <2>1. FeedInv'
    BY <1>2 DEF vars, FeedInv, ArrayInv, SubsInv, SendInv, ChanInv
  <2>2. AbstractNext
    BY <1>2 DEF vars, AbstractNext, Subscribed, To
  <2> QED
    BY <2>1, <2>2
<1> QED
  BY <1>1, <1>2

-----------------------------------------------------------------------------
(* The results.                                                              *)

(* FeedInv is an invariant of Feed. *)
THEOREM FeedInvariant == Spec => []FeedInv
BY InitFeed, FeedStep, PTL DEF Spec

(* The array of Feed stays in order: no channel is in it twice or in both    *)
(* lists, it holds exactly the subscriptions that have not been removed, the *)
(* prefix and the loop index stay within it (Send, deactivate, delete).      *)
THEOREM FeedTypeCorrect == Spec => []TypeOK
<1>1. FeedInv => TypeOK
  <2> SUFFICES ASSUME FeedInv PROVE TypeOK
    OBVIOUS
  <2>1. ArrayInv /\ SubsInv /\ SendInv /\ ChanInv
    BY DEF FeedInv
  <2>2. inbox \o sendCases \in Seq(Sub) /\ Distinct(inbox \o sendCases)
    BY <2>1, ConcatElems, ConcatDistinct DEF ArrayInv
  <2>3. IsInjective(inbox \o sendCases)
    BY <2>2, DistinctIsInjective
  <2>4. Range(inbox \o sendCases) = Elems(inbox) \cup Elems(sendCases)
    BY <2>1, Mapped DEF Subscribed
  <2> QED
    BY <2>1, <2>3, <2>4 DEF TypeOK, ArrayInv, SubsInv, SendInv, ChanInv
<1> QED
  BY <1>1, FeedInvariant, PTL

(* Feed implements FeedSpec: a send serves each of its receivers once, skips *)
(* none, serves nobody that has unsubscribed, and returns how many it served.*)
THEOREM FeedKeepsPromise == Spec => FeedImplementsSpec
<1>1. Init => Promise!Init
  BY DEF Init, Promise!Init, Range
<1>2. FeedInv /\ [Next]_vars => [Promise!Next]_(Promise!vars)
  BY FeedStep, AbstractIsPromise DEF FeedInv
<1> QED
  BY <1>1, <1>2, FeedInvariant, PTL DEF Spec, FeedImplementsSpec, Promise!Spec

-------------------------------------------------------------------------------
(* A worker stops only for a configuration the node has adopted, for every    *)
(* number of configurations, directions and every channel capacity.           *)

(* The elements of a sequence after Tail and Append, as in receiving from    *)
(* and sending to a channel.                                                 *)
LEMMA TailBounded ==
    ASSUME NEW q \in Seq(Known), q # <<>>, NEW m \in Nat, \A n \in 1..Len(q) : q[n] <= m
    PROVE  /\ Tail(q) \in Seq(Known) /\ \A n \in 1..Len(Tail(q)) : Tail(q)[n] <= m
           /\ Head(q) \in Known /\ Head(q) <= m
<1>1. Len(q) \in Nat /\ Len(q) > 0 /\ Tail(q) \in Seq(Known) /\ Len(Tail(q)) = Len(q) - 1
  BY SMT
<1>2. \A n \in 1..Len(Tail(q)) : Tail(q)[n] = q[n + 1] /\ n + 1 \in 1..Len(q)
  BY <1>1, SMT
<1>3. Head(q) = q[1] /\ 1 \in 1..Len(q) /\ q[1] \in Known
  BY <1>1, SMT
<1> QED
  BY <1>1, <1>2, <1>3

(* A version appended to a channel is bounded as those before it. *)
LEMMA AppendBounded ==
    ASSUME NEW q \in Seq(Known), NEW v \in Known, NEW m \in Nat, v <= m,
           \A n \in 1..Len(q) : q[n] <= m
    PROVE  Append(q, v) \in Seq(Known) /\ \A n \in 1..Len(Append(q, v)) : Append(q, v)[n] <= m
<1>1. Len(q) \in Nat /\ Append(q, v) \in Seq(Known) /\ Len(Append(q, v)) = Len(q) + 1
  BY SMT
<1>2. \A n \in 1..(Len(q) + 1) : Append(q, v)[n] = IF n = Len(q) + 1 THEN v ELSE q[n]
  BY <1>1, SMT
<1>3. \A n \in 1..(Len(q) + 1) : n = Len(q) + 1 \/ n \in 1..Len(q)
  BY <1>1
<1> QED
  BY <1>1, <1>2, <1>3

(* ReloadConfigLoop.                                                         *)
LEMMA ReloadSteps ==
    ASSUME VersionsInv, Publish \/ ReloadRead \/ ReloadAdopt \/ ReloadVersion \/ SendDone
    PROVE  VersionsInv'
<1> USE ConfigAssumption DEF VersionsInv, ReloadTypeOK, Known, Version, Reload
<1>1. CASE Publish
  BY <1>1 DEF Publish, reloadVars, starterVars
<1>2. CASE ReloadRead
  BY <1>2 DEF ReloadRead, starterVars
<1>3. CASE ReloadAdopt
  BY <1>3 DEF ReloadAdopt, SendAgain, BeginConfigSend, starterVars
<1>4. CASE ReloadVersion
  <2>1. \A c \in Channel : \A n \in 1..Len(newConfigChan[c]) : newConfigChan[c][n] \in Nat
    OBVIOUS
  <2>2. configVersion < reload.v /\ configVersion' = reload.v /\ newConfigChan' = newConfigChan /\ worker' = worker
    BY <1>4 DEF ReloadVersion
  <2>3. /\ \A c \in Channel : \A n \in 1..Len(newConfigChan'[c]) : newConfigChan'[c][n] <= configVersion'
        /\ \A w \in Worker : worker'[w].held <= configVersion'
    BY <2>1, <2>2 DEF WorkerRec
  <2> QED
    BY <1>4, <2>2, <2>3 DEF ReloadVersion, BeginConfigSend, starterVars
<1>5. CASE SendDone
  BY <1>5 DEF SendDone, starterVars
<1> QED
  BY <1>1, <1>2, <1>3, <1>4, <1>5

(* Delivering a version keeps the invariant. *)
LEMMA DeliverConfigStep ==
    ASSUME VersionsInv, NEW c \in Channel, DeliverConfig(c)
    PROVE  VersionsInv'
<1> USE ConfigAssumption
<1>1. CASE Closed(c)
  BY <1>1 DEF VersionsInv, ReloadTypeOK, DeliverConfig, reloadVars, starterVars
<1>2. CASE ~Closed(c)
  <2>1. newConfigChan[c] \in Seq(Known) /\ reload.v \in Known /\ configVersion \in Nat
        /\ reload.v <= configVersion /\ \A n \in 1..Len(newConfigChan[c]) : newConfigChan[c][n] <= configVersion
    BY DEF VersionsInv, ReloadTypeOK, DeliverConfig, Reload, Known
  <2>2. /\ Append(newConfigChan[c], reload.v) \in Seq(Known)
        /\ \A n \in 1..Len(Append(newConfigChan[c], reload.v)) : Append(newConfigChan[c], reload.v)[n] <= configVersion
    BY <2>1, AppendBounded
  <2> DEFINE q == Append(newConfigChan[c], reload.v)
  <2> HIDE DEF q
  <2>3. newConfigChan' = [newConfigChan EXCEPT ![c] = q] /\ q \in Seq(Known)
        /\ \A n \in 1..Len(q) : q[n] <= configVersion
    BY <1>2, <2>2 DEF DeliverConfig, q
  <2> QED
    BY <1>2, <2>3 DEF VersionsInv, ReloadTypeOK, DeliverConfig, reloadVars, starterVars
<1> QED
  BY <1>1, <1>2

(* startWatchersAndForwarders.                                               *)
LEMMA StarterSteps ==
    ASSUME VersionsInv,
           StarterCheck \/ StarterAssign \/ StarterCompare \/ StarterRange \/ StarterStart
    PROVE  VersionsInv'
<1> USE ConfigAssumption
<1>1. CASE StarterCheck
  BY <1>1 DEF VersionsInv, ReloadTypeOK, StarterCheck, StarterAt, StarterRec, reloadVars
<1>2. CASE StarterAssign
  BY <1>2 DEF VersionsInv, ReloadTypeOK, StarterAssign, StarterAt, StarterRec, reloadVars
<1>3. CASE StarterCompare
  BY <1>3 DEF VersionsInv, ReloadTypeOK, StarterCompare, StarterAt, StarterRec, reloadVars
<1>4. CASE StarterRange
  BY <1>4, Zenon DEF VersionsInv, ReloadTypeOK, StarterRange, StarterRec, reloadVars
<1>5. CASE StarterStart
  <2>1. CASE starter.left = {} /\ StarterAt("select") /\ UNCHANGED <<worker, crashed>>
    BY <1>5, <2>1, Zenon DEF VersionsInv, ReloadTypeOK, StarterStart, StarterAt, StarterRec, reloadVars
  <2>2. CASE UNCHANGED <<starter, worker>> /\ crashed' = TRUE
    BY <1>5, <2>2 DEF VersionsInv, ReloadTypeOK, StarterStart, reloadVars
  <2>3. ASSUME NEW x \in starter.left, UNCHANGED crashed,
               starter' = [starter EXCEPT !.left = @ \ {x}],
               worker' = [worker EXCEPT ![<<currentConfigVersion, x>>] =
                    [pc |-> "spawned", ver |-> configVersion, data |-> starter.data, held |-> 0]]
        PROVE  VersionsInv'
    <3> DEFINE r == [pc |-> "spawned", ver |-> configVersion, data |-> starter.data, held |-> 0]
    <3>1. r \in WorkerRec /\ r.held <= configVersion
      BY DEF VersionsInv, ReloadTypeOK, WorkerRec, StarterRec, Known
    <3> HIDE DEF r
    <3>2. worker' \in [Worker -> WorkerRec] /\ \A w \in Worker : worker'[w].held <= configVersion
      BY <3>1, <2>3, Zenon DEF VersionsInv, ReloadTypeOK, r
    <3>3. starter' \in StarterRec
      BY <2>3 DEF VersionsInv, ReloadTypeOK, StarterRec
    <3> QED
      BY <1>5, <2>3, <3>2, <3>3 DEF VersionsInv, ReloadTypeOK, StarterStart, reloadVars
  <2> QED
    BY <1>5, <2>1, <2>2, <2>3, Zenon DEF StarterStart
<1> QED
  BY <1>1, <1>2, <1>3, <1>4, <1>5

(* The starter that receives keeps the invariant. *)
LEMMA StarterReceiveStep ==
    ASSUME VersionsInv, StarterReceive
    PROVE  VersionsInv'
<1> USE ConfigAssumption
<1>1. Starter \in Channel
  BY DEF Channel
<1>2. ASSUME NEW n \in Nat, newConfigChan[Starter] # <<>>, TakeStarter(n)
      PROVE  VersionsInv'
  <2>1. newConfigChan[Starter] \in Seq(Known) /\ configVersion \in Nat
        /\ \A k \in 1..Len(newConfigChan[Starter]) : newConfigChan[Starter][k] <= configVersion
    BY <1>1 DEF VersionsInv, ReloadTypeOK, Known
  <2> DEFINE q == Tail(newConfigChan[Starter])  h == Head(newConfigChan[Starter])
  <2>2. q \in Seq(Known) /\ h \in Known /\ \A k \in 1..Len(q) : q[k] <= configVersion
    BY <1>2, <2>1, TailBounded
  <2>3. newConfigChan' = [newConfigChan EXCEPT ![Starter] = q]
        /\ starter' = [starter EXCEPT !.pc = "drain", !.got = h, !.i = n]
    BY <1>2 DEF TakeStarter
  <2> HIDE DEF q, h
  <2>4. starter' \in StarterRec
    BY <1>2, <2>2, <2>3, Zenon DEF VersionsInv, ReloadTypeOK, StarterRec
  <2> QED
    BY <1>1, <2>2, <2>3, <2>4 DEF VersionsInv, ReloadTypeOK, StarterReceive, reloadVars
<1>3. CASE StarterAt("check") /\ UNCHANGED newConfigChan
  BY <1>3, Zenon DEF VersionsInv, ReloadTypeOK, StarterReceive, StarterAt, StarterRec, reloadVars
<1>4. starter.i \in Nat /\ starter.i + 1 \in Nat /\ Len(newConfigChan[Starter]) \in Nat
      /\ (Len(newConfigChan[Starter]) > 0 => newConfigChan[Starter] # <<>>)
  BY <1>1 DEF VersionsInv, ReloadTypeOK, StarterRec
<1> QED
  BY <1>2, <1>3, <1>4 DEF StarterReceive

(* The workers.                                                              *)
LEMMA WorkerSteps ==
    ASSUME VersionsInv, NEW w \in Worker, SubscribeWorker(w) \/ Unsubscribe(w) \/ BeginWork(w) \/ EndWork(w)
    PROVE  VersionsInv'
<1> USE ConfigAssumption
<1>1. ASSUME NEW p \in {"select", "work", "gone"}, WorkerAt(w, p)
      PROVE  worker' \in [Worker -> WorkerRec] /\ \A v \in Worker : worker'[v].held <= configVersion
  BY <1>1 DEF VersionsInv, ReloadTypeOK, WorkerAt, WorkerRec
<1>2. w \in Channel
  BY DEF Channel
<1>3. CASE SubscribeWorker(w)
  BY <1>1, <1>2, <1>3 DEF VersionsInv, ReloadTypeOK, SubscribeWorker, reloadVars, starterVars
<1>4. CASE Unsubscribe(w)
  BY <1>1, <1>2, <1>4 DEF VersionsInv, ReloadTypeOK, Unsubscribe, reloadVars, starterVars
<1>5. CASE BeginWork(w)
  BY <1>1, <1>5 DEF VersionsInv, ReloadTypeOK, BeginWork, reloadVars, starterVars
<1>6. CASE EndWork(w)
  BY <1>1, <1>6 DEF VersionsInv, ReloadTypeOK, EndWork, reloadVars, starterVars
<1> QED
  BY <1>3, <1>4, <1>5, <1>6

(* Receive, Peek and PutBack change one channel and one worker record.       *)
LEMMA ChannelAndWorker ==
    ASSUME VersionsInv, NEW w \in Worker, NEW q \in Seq(Known), NEW r \in WorkerRec,
           \A n \in 1..Len(q) : q[n] <= configVersion, r.held <= configVersion,
           newConfigChan' = [newConfigChan EXCEPT ![w] = q], worker' = [worker EXCEPT ![w] = r],
           UNCHANGED <<published, reloadVars, to, subscribed, starterVars, crashed>>
    PROVE  VersionsInv'
<1>1. w \in Channel
  BY DEF Channel
<1> QED
  BY <1>1 DEF VersionsInv, ReloadTypeOK, reloadVars, starterVars

(* A worker that receives or looks keeps the invariant. *)
LEMMA ReceivingSteps ==
    ASSUME VersionsInv, NEW w \in Worker, Receive(w) \/ Peek(w)
    PROVE  VersionsInv'
<1> USE ConfigAssumption
<1>1. newConfigChan[w] \in Seq(Known) /\ newConfigChan[w] # <<>> /\ configVersion \in Nat /\ worker[w] \in WorkerRec
      /\ worker[w].held <= configVersion /\ \A n \in 1..Len(newConfigChan[w]) : newConfigChan[w][n] <= configVersion
  BY DEF VersionsInv, ReloadTypeOK, Channel, Receive, Peek, Known
<1> DEFINE q == Tail(newConfigChan[w])  h == Head(newConfigChan[w])
<1>2. q \in Seq(Known) /\ h \in Known /\ h <= configVersion /\ \A n \in 1..Len(q) : q[n] <= configVersion
  BY <1>1, TailBounded
<1>3. <<>> \in Seq(Known) /\ \A n \in 1..Len(<<>>) : <<>>[n] <= configVersion
  OBVIOUS
<1> DEFINE closed == [worker[w] EXCEPT !.pc = "closed"]
           putback == [worker[w] EXCEPT !.pc = "putback", !.held = h]
<1> HIDE DEF q, h
<1>4. /\ closed \in WorkerRec /\ closed.held <= configVersion
      /\ putback \in WorkerRec /\ putback.held <= configVersion
  BY <1>1, <1>2, Zenon DEF WorkerRec
<1>5. worker = [worker EXCEPT ![w] = worker[w]]
  BY DEF VersionsInv, ReloadTypeOK
<1>6. CASE Receive(w)
  <2>1. CASE newConfigChan' = [newConfigChan EXCEPT ![w] = <<>>] /\ WorkerAt(w, "closed")
    <3>1. worker' = [worker EXCEPT ![w] = closed]
      BY <2>1 DEF WorkerAt, VersionsInv, ReloadTypeOK
    <3> HIDE DEF closed, putback
    <3>2. UNCHANGED <<published, reloadVars, to, subscribed, starterVars, crashed>>
      BY <1>6 DEF Receive
    <3> QED
      BY <1>3, <1>4, <2>1, <3>1, <3>2, ChannelAndWorker, Zenon
  <2>2. CASE newConfigChan' = [newConfigChan EXCEPT ![w] = q] /\ UNCHANGED worker
    <3>1. worker' = [worker EXCEPT ![w] = worker[w]]
          /\ UNCHANGED <<published, reloadVars, to, subscribed, starterVars, crashed>>
      BY <1>5, <1>6, <2>2 DEF Receive
    <3> QED
      BY <1>1, <1>2, <2>2, <3>1, ChannelAndWorker, Zenon
  <2> QED
    BY <1>6, <2>1, <2>2 DEF Receive, q
<1>7. CASE Peek(w)
  <2>1. newConfigChan' = [newConfigChan EXCEPT ![w] = q]
        /\ UNCHANGED <<published, reloadVars, to, subscribed, starterVars, crashed>>
    BY <1>7 DEF Peek, q
  <2>2. CASE worker' = [worker EXCEPT ![w].pc = "putback", ![w].held = h]
    <3>1. worker' = [worker EXCEPT ![w] = putback]
      BY <2>2, Zenon DEF VersionsInv, ReloadTypeOK
    <3> HIDE DEF closed, putback
    <3> QED
      BY <1>2, <1>4, <2>1, <3>1, ChannelAndWorker, Zenon
  <2>3. CASE UNCHANGED worker
    <3>1. worker' = [worker EXCEPT ![w] = worker[w]]
      BY <1>5, <2>3
    <3> QED
      BY <1>1, <1>2, <2>1, <3>1, ChannelAndWorker, Zenon
  <2> QED
    BY <1>7, <2>2, <2>3 DEF Peek, h
<1> QED
  BY <1>6, <1>7

(* A worker that puts a number back keeps the invariant. *)
LEMMA PutBackStep ==
    ASSUME VersionsInv, NEW w \in Worker, PutBack(w)
    PROVE  VersionsInv'
<1> USE ConfigAssumption
<1>1. newConfigChan[w] \in Seq(Known) /\ configVersion \in Nat /\ worker[w] \in WorkerRec
      /\ worker[w].held \in Known /\ worker[w].held <= configVersion
      /\ \A n \in 1..Len(newConfigChan[w]) : newConfigChan[w][n] <= configVersion
  BY DEF VersionsInv, ReloadTypeOK, Channel, Known, WorkerRec
<1> DEFINE q == Append(newConfigChan[w], worker[w].held)
           r == [worker[w] EXCEPT !.pc = "select", !.held = 0]
<1>2. q \in Seq(Known) /\ \A n \in 1..Len(q) : q[n] <= configVersion
  BY <1>1, AppendBounded
<1>3. r \in WorkerRec /\ r.held <= configVersion
  <2>1. 0 \in Known
    BY DEF Known
  <2>2. r \in WorkerRec
    BY <1>1, <2>1, Zenon DEF WorkerRec
  <2>3. r.held = 0 /\ 0 <= configVersion
    BY <1>1 DEF WorkerRec
  <2> QED
    BY <2>2, <2>3
<1>4. newConfigChan' = [newConfigChan EXCEPT ![w] = q]
      /\ UNCHANGED <<published, reloadVars, to, subscribed, starterVars, crashed>>
  BY DEF PutBack
<1>5. worker' = [worker EXCEPT ![w] = r]
  BY Zenon DEF PutBack, VersionsInv, ReloadTypeOK
<1> HIDE DEF q, r
<1> QED
  BY <1>2, <1>3, <1>4, <1>5, ChannelAndWorker, Zenon

(* Every step keeps the invariant. *)
LEMMA VersionsInvStep == VersionsInv /\ [ReloadNext]_configVars => VersionsInv'
<1> SUFFICES ASSUME VersionsInv, [ReloadNext]_configVars PROVE VersionsInv'
  OBVIOUS
<1>1. CASE UNCHANGED configVars
  BY <1>1 DEF VersionsInv, ReloadTypeOK, configVars, reloadVars, starterVars
<1>2. CASE ReloadNext
  BY <1>2, ReloadSteps, DeliverConfigStep, StarterSteps, StarterReceiveStep, WorkerSteps,
     ReceivingSteps, PutBackStep DEF ReloadNext
<1> QED
  BY <1>1, <1>2

(* The invariant holds at first. *)
LEMMA VersionsInvInit == ReloadInit => VersionsInv
<1> SUFFICES ASSUME ReloadInit PROVE VersionsInv
  OBVIOUS
<1>1. 0 \in Known /\ 1 \in Version /\ configVersion \in Nat
  BY ConfigAssumption DEF ReloadInit, Known, Version
<1>2. <<>> \in Seq(Known) /\ Len(<<>>) = 0
  OBVIOUS
<1>3. \A c \in Channel : newConfigChan[c] = <<>>
  BY DEF ReloadInit
<1>4. \A w \in Worker : worker[w].held = 0 /\ 0 <= configVersion
  BY DEF ReloadInit
<1>5. ReloadTypeOK
  BY <1>1, <1>2, Zenon DEF ReloadInit, ReloadTypeOK, Reload, StarterRec, WorkerRec, Channel
<1>6. reload.pc = "idle"
  BY DEF ReloadInit
<1> QED
  BY <1>2, <1>3, <1>4, <1>5, <1>6 DEF VersionsInv

(* Types hold, and no version a subscriber can receive is newer than the     *)
(* configuration ReloadConfigLoop has stored.                                *)
THEOREM VersionsAdopted == ReloadSpec => []VersionsInv
<1> QED
  BY VersionsInvInit, VersionsInvStep, PTL DEF ReloadSpec

(* A worker stops only when the node has adopted a configuration newer than  *)
(* its own.                                                                  *)
THEOREM StopsForNewer == ReloadSpec => StopsOnlyForNewer
<1>1. VersionsInv /\ [ReloadNext]_configVars =>
        [\A w \in Worker : worker[w].pc # "closed" /\ worker'[w].pc = "closed"
                              => worker[w].ver < configVersion]_configVars
  <2> SUFFICES ASSUME VersionsInv, ReloadNext, NEW w \in Worker,
                      worker[w].pc # "closed", worker'[w].pc = "closed"
               PROVE  worker[w].ver < configVersion
    BY DEF configVars
  <2>1. Receive(w)
    <3>1. worker \in [Worker -> WorkerRec]
      BY DEF VersionsInv, ReloadTypeOK
    <3>2. \A u \in Worker : Receive(u) => worker' = worker \/ WorkerAt(u, "closed")
      BY DEF Receive
    <3>3. CASE \E u \in Worker : Receive(u)
      <4>1. PICK u \in Worker : Receive(u)
        BY <3>3
      <4>2. u = w
        BY <3>1, <3>2, <4>1 DEF WorkerAt
      <4> QED
        BY <4>1, <4>2
    <3>4. CASE \E u \in Worker : SubscribeWorker(u) \/ Unsubscribe(u) \/ BeginWork(u) \/ Peek(u) \/ PutBack(u) \/ EndWork(u)
      BY <3>1, <3>4 DEF SubscribeWorker, Unsubscribe, BeginWork, Peek, PutBack, EndWork, WorkerAt, WorkerRec
    <3>5. CASE StarterStart
      <4>1. CASE worker' = worker
        BY <4>1
      <4>2. ASSUME NEW k, NEW r, worker' = [worker EXCEPT ![k] = r], r.pc = "spawned"
            PROVE  FALSE
        BY <3>1, <4>2
      <4>3. worker' = worker \/ \E x \in starter.left :
               worker' = [worker EXCEPT ![<<currentConfigVersion, x>>] =
                  [pc |-> "spawned", ver |-> configVersion, data |-> starter.data, held |-> 0]]
        BY <3>5, Zenon DEF StarterStart
      <4>4. [pc |-> "spawned", ver |-> configVersion, data |-> starter.data, held |-> 0].pc = "spawned"
        OBVIOUS
      <4> QED
        BY <4>1, <4>2, <4>3, <4>4, Zenon
    <3>6. CASE ~StarterStart /\ ~\E u \in Worker : \/ SubscribeWorker(u) \/ Receive(u) \/ Unsubscribe(u)
                                                  \/ BeginWork(u) \/ Peek(u) \/ PutBack(u) \/ EndWork(u)
      BY <3>6 DEF ReloadNext, Publish, ReloadRead, ReloadAdopt, ReloadVersion, SendDone, DeliverConfig,
         StarterReceive, StarterCheck, StarterAssign, StarterCompare, StarterRange
    <3> QED
      BY <3>3, <3>4, <3>5, <3>6
  <2>2. newConfigChan[w] \in Seq(Known) /\ newConfigChan[w] # <<>> /\ configVersion \in Nat /\ worker[w].ver \in Nat
        /\ \A n \in 1..Len(newConfigChan[w]) : newConfigChan[w][n] <= configVersion
    BY <2>1, ConfigAssumption DEF VersionsInv, ReloadTypeOK, Channel, Receive, Known, WorkerRec
  <2>3. Head(newConfigChan[w]) \in Known /\ Head(newConfigChan[w]) <= configVersion
    BY <2>2, TailBounded
  <2>4. Newer(Head(newConfigChan[w]), worker[w].ver)
    BY <2>1 DEF Receive
  <2> QED
    BY <2>2, <2>3, <2>4, ConfigAssumption DEF Newer, Known
<1> QED
  BY <1>1, VersionsAdopted, PTL DEF ReloadSpec, StopsOnlyForNewer

-------------------------------------------------------------------------------
(* Nothing is minted that XEvents does not hold, for any number of nodes and *)
(* workers, any batch size and any bounds.  MintsRecorded is inductive: what *)
(* is recorded stays recorded, a transaction is sent only for a recorded     *)
(* event, and the vault moves its watermark only past the nonce of a         *)
(* transaction.                                                              *)

Node == 0..(NodeCount - 1)

(* Nonces are numbers up to MaxEvents; so is the count of recorded events. *)
LEMMA NonceNat == Nonce \subseteq Nat /\ (MintTypeOK => recorded \in Nat /\ recorded <= MaxEvents)
BY ForwardAssumption DEF Nonce, MintTypeOK

(* The arithmetic of a count that grows (Record). *)
LEMMA Later == \A a, b \in Nat : a < b => a < b + 1
OBVIOUS

(* The arithmetic of a loop that goes on (Send). *)
LEMMA NextIndex ==
  \A l, c, b \in Nat : c <= l /\ l < b => l + 1 \in 0..b /\ c + 1 \in 0..b /\ c + 1 <= l + 1
OBVIOUS

(* The nonce of the event that is sent is a number (Send). *)
LEMMA SumNat == \A a, b \in Nat : a + b \in Nat
OBVIOUS

(* The nonce of a recorded event is within the bound (Send). *)
LEMMA SmallNonce == \A n, a, b \in Nat : n < a /\ a <= b => n \in 0..b
OBVIOUS

(* An element of a list of nonces is a number. *)
LEMMA ListNat == ASSUME NEW t \in Seq(Nonce), NEW k \in 1..Len(t) PROVE t[k] \in Nat
<1>1. t[k] \in Nonce
  OBVIOUS
<1> QED
  BY <1>1, NonceNat

(* A recorded nonce joins a list of recorded nonces that has room. *)
LEMMA AppendRecorded ==
  ASSUME NEW q \in Seq(Nonce), NEW n \in Nonce, NEW a, n < a,
         Len(q) < PoolCap, \A k \in 1..Len(q) : q[k] < a
  PROVE  /\ Append(q, n) \in Seq(Nonce) /\ Len(Append(q, n)) <= PoolCap
         /\ \A k \in 1..Len(Append(q, n)) : Append(q, n)[k] < a
<1>1. PoolCap \in Nat
  BY ForwardAssumption
<1>2. Append(q, n) \in Seq(Nonce) /\ Len(Append(q, n)) = Len(q) + 1
      /\ Append(q, n)[Len(q) + 1] = n /\ \A k \in 1..Len(q) : Append(q, n)[k] = q[k]
  OBVIOUS
<1>3. Len(q) \in Nat
  OBVIOUS
<1>4. \A k \in 1..(Len(q) + 1) : k = Len(q) + 1 \/ k \in 1..Len(q)
  BY <1>3
<1> QED
  BY <1>1, <1>2, <1>3, <1>4

(* The initial state holds no event, no transaction and only idle workers.   *)
LEMMA InitRecorded == MintInit => MintsRecorded
<1> SUFFICES ASSUME MintInit PROVE MintsRecorded
  OBVIOUS
<1> USE ForwardAssumption DEF MintInit
<1>1. amounts \in Seq(Amount) /\ recorded = 0 /\ mark = 0
  BY DEF recorded
<1>2. pool \in [Node -> Seq(Nonce)] /\ \A x \in Node : Len(pool[x]) = 0
  BY DEF Node
<1>3. forwarder \in [Forwarder -> ForwarderRec] /\ \A w \in Forwarder : forwarder[w].committed <= forwarder[w].i
  BY DEF Idle, ForwarderRec, Nonce
<1>4. MintTypeOK
  BY <1>1, <1>2, <1>3 DEF MintTypeOK, Nonce, Node
<1> QED
  BY <1>1, <1>2, <1>4 DEF MintsRecorded, Node

(* Events are only added to XEvents, so what is under way stays recorded.    *)
LEMMA RecordRecorded == MintsRecorded /\ Record => MintsRecorded'
<1> SUFFICES ASSUME MintsRecorded, Record PROVE MintsRecorded'
  OBVIOUS
<1> USE ForwardAssumption DEF MintsRecorded, MintTypeOK
<1>1. PICK a \in Amount : amounts' = Append(amounts, a)
  BY DEF Record
<1>2. amounts' \in Seq(Amount) /\ Len(amounts') = Len(amounts) + 1
  BY <1>1
<1>3. recorded' = recorded + 1 /\ recorded' \in Nonce
  BY <1>2 DEF recorded, Record, Nonce
<1>4. UNCHANGED <<mark, pool, forwarder, errors, stopped>>
  BY DEF Record
<1>5. MintTypeOK'
  BY <1>2, <1>3, <1>4
<1>6. \A x \in Node : \A k \in 1..Len(pool[x]) : pool[x][k] < recorded + 1
  <2> SUFFICES ASSUME NEW x \in Node, NEW k \in 1..Len(pool[x])
               PROVE  pool[x][k] < recorded + 1
    OBVIOUS
  <2>1. pool[x] \in Seq(Nonce) /\ pool[x][k] < recorded
    BY DEF Node
  <2>2. pool[x][k] \in Nat /\ recorded \in Nat
    BY <2>1, ListNat, NonceNat
  <2> QED
    BY <2>1, <2>2, Later, Zenon
<1>7. mark \in Nat /\ recorded \in Nat /\ mark <= recorded
  BY NonceNat
<1>8. mark' <= recorded'
  BY <1>3, <1>4, <1>7
<1>9. \A x \in Node : \A k \in 1..Len(pool'[x]) : pool'[x][k] < recorded'
  BY <1>3, <1>4, <1>6
<1> QED
  BY <1>5, <1>8, <1>9, Zenon DEF Node

(* The vault passes only the nonce of a transaction, which is recorded.      *)
LEMMA ExecuteRecorded ==
  ASSUME MintsRecorded, NEW x \in Node, Execute(x) PROVE MintsRecorded'
<1> USE ForwardAssumption DEF MintsRecorded, MintTypeOK
<1> DEFINE t == pool[x]
<1>1. t \in Seq(Nonce) /\ t # <<>> /\ Len(t) <= PoolCap /\ \A k \in 1..Len(t) : t[k] < recorded
  BY DEF Execute, Node
<1>2. recorded \in Nat /\ mark \in Nat /\ recorded <= MaxEvents
  BY DEF Nonce
<1>3. Head(t) = t[1] /\ Tail(t) \in Seq(Nonce) /\ Len(Tail(t)) = Len(t) - 1
      /\ Len(t) \in Nat \ {0} /\ \A k \in 1..Len(Tail(t)) : Tail(t)[k] = t[k + 1]
  BY <1>1
<1>4. mark' \in Nonce /\ mark' <= recorded
  <2>1. t[1] \in Nat /\ t[1] < recorded
    <3>1. 1 \in 1..Len(t)
      BY <1>3
    <3> QED
      BY <1>1, <3>1, ListNat
  <2>2. mark' = IF t[1] = mark THEN mark + 1 ELSE mark
    BY <1>3 DEF Execute
  <2> QED
    BY <1>2, <2>1, <2>2 DEF Nonce
<1>5. Len(Tail(t)) <= PoolCap /\ \A k \in 1..Len(Tail(t)) : Tail(t)[k] < recorded
  <2>1. \A k \in 1..Len(Tail(t)) : k + 1 \in 1..Len(t)
    BY <1>3
  <2>2. Len(t) - 1 <= PoolCap
    BY <1>1, <1>3
  <2> QED
    BY <1>1, <1>3, <2>1, <2>2
<1>6. pool' = [pool EXCEPT ![x] = Tail(t)] /\ UNCHANGED <<amounts, forwarder, errors, stopped>>
  BY DEF Execute
<1>7. recorded' = recorded
  BY <1>6 DEF recorded
<1>8. pool' \in [Node -> Seq(Nonce)]
  BY <1>3, <1>6 DEF Node
<1>9. \A y \in Node : Len(pool'[y]) <= PoolCap /\ \A k \in 1..Len(pool'[y]) : pool'[y][k] < recorded
  <2> SUFFICES ASSUME NEW y \in Node
               PROVE  Len(pool'[y]) <= PoolCap /\ \A k \in 1..Len(pool'[y]) : pool'[y][k] < recorded
    OBVIOUS
  <2>1. CASE y = x
    BY <2>1, <1>5, <1>6 DEF Node
  <2>2. CASE y # x
    BY <2>2, <1>6 DEF Node
  <2> QED
    BY <2>1, <2>2
<1>10. MintTypeOK'
  BY <1>4, <1>6, <1>7, <1>8, <1>9 DEF Node
<1> QED
  BY <1>4, <1>7, <1>9, <1>10 DEF Node

(* A worker changes only its own record and sends only what is recorded: the *)
(* facts below are all that an action of a worker must establish.            *)
LEMMA WorkerRecorded ==
  ASSUME MintsRecorded, UNCHANGED <<amounts, mark>>,
         pool' \in [Node -> Seq(Nonce)], forwarder' \in [Forwarder -> ForwarderRec],
         \A w \in Forwarder : forwarder'[w].committed <= forwarder'[w].i,
         \A x \in Node : Len(pool'[x]) <= PoolCap
                         /\ \A k \in 1..Len(pool'[x]) : pool'[x][k] < recorded,
         errors' \in 0..MaxErrors, stopped' \subseteq MayStop
  PROVE  MintsRecorded'
<1>1. recorded' = recorded /\ mark' = mark /\ amounts' = amounts
  BY DEF recorded
<1>2. MintTypeOK'
  BY <1>1 DEF MintsRecorded, MintTypeOK, Node
<1> QED
  BY <1>1, <1>2 DEF MintsRecorded, Node

(* Replacing the record of one worker by a good one keeps the workers typed. *)
LEMMA SetTyped ==
  ASSUME MintTypeOK, NEW w \in Forwarder, NEW r \in ForwarderRec, r.committed <= r.i, Set(w, r)
  PROVE  forwarder' \in [Forwarder -> ForwarderRec] /\ \A v \in Forwarder : forwarder'[v].committed <= forwarder'[v].i
BY DEF MintTypeOK, Set

(* A record of an idle worker is a record of a worker. *)
LEMMA IdleTyped == Idle \in ForwarderRec /\ Idle.committed <= Idle.i
BY ForwardAssumption DEF Idle, ForwarderRec, Nonce

(* The counters of a worker are numbers. *)
LEMMA RecordNat ==
  \A v \in ForwarderRec : v.before \in Nat /\ v.i \in Nat /\ v.committed \in Nat
BY ForwardAssumption DEF ForwarderRec, Nonce

(* Sending: the loop has checked that the event is in XEvents. *)
LEMMA SendRecorded ==
  ASSUME MintsRecorded, NEW w \in Forwarder, Send(w) PROVE MintsRecorded'
<1> USE ForwardAssumption DEF MintsRecorded, MintTypeOK
<1> DEFINE x == NodeOf[w]
           v == forwarder[w]
           n == v.before + v.i
           s == [v EXCEPT !.i = v.i + 1]
           r == [s EXCEPT !.committed = v.committed + 1]
<1>1. x \in Node /\ forwarder[w] \in ForwarderRec
  BY DEF Node
<1>2. v.i < BatchSize /\ n < recorded /\ Len(pool[x]) < PoolCap
      /\ pool' = [pool EXCEPT ![x] = Append(@, n)]
      /\ UNCHANGED <<amounts, mark, errors, stopped>>
  BY DEF Send, MoreToSend
<1>3. v.before \in Nat /\ v.i \in Nat /\ v.committed \in Nat /\ v.committed <= v.i /\ n \in Nat
  <2>1. v.before \in Nat /\ v.i \in Nat /\ v.committed \in Nat
    BY <1>1, RecordNat
  <2>2. v.committed <= v.i
    OBVIOUS
  <2>3. n \in Nat
    BY ONLY <2>1, SumNat, Zenon
  <2> QED
    BY <2>1, <2>2, <2>3
<1>4. r \in ForwarderRec /\ r.committed <= r.i
  <2>1. v.i + 1 \in 0..BatchSize /\ v.committed + 1 \in 0..BatchSize
        /\ v.committed + 1 <= v.i + 1
    BY <1>2, <1>3, NextIndex
  <2>2. s \in ForwarderRec /\ s.i = v.i + 1
    BY <1>1, <2>1 DEF ForwarderRec
  <2> HIDE DEF s
  <2>3. r \in ForwarderRec /\ r.i = s.i /\ r.committed = v.committed + 1
    BY <2>1, <2>2 DEF ForwarderRec
  <2> QED
    BY <2>1, <2>2, <2>3
<1>5. n \in Nonce
  <2>1. recorded \in Nat /\ recorded <= MaxEvents /\ MaxEvents \in Nat
    BY NonceNat
  <2> QED
    BY <1>2, <1>3, <2>1, SmallNonce DEF Nonce
<1>6. forwarder' \in [Forwarder -> ForwarderRec] /\ \A u \in Forwarder : forwarder'[u].committed <= forwarder'[u].i
  <2>1. Set(w, r)
    BY Zenon DEF Send
  <2> QED
    BY <1>4, <2>1, SetTyped
<1>7. pool[x] \in Seq(Nonce) /\ \A k \in 1..Len(pool[x]) : pool[x][k] < recorded
  BY <1>1 DEF Node
<1> DEFINE t == Append(pool[x], n)
<1>8. t \in Seq(Nonce) /\ Len(t) <= PoolCap /\ \A k \in 1..Len(t) : t[k] < recorded
  BY ONLY <1>2, <1>5, <1>7, AppendRecorded, Zenon
<1> HIDE DEF t
<1>9. pool' = [pool EXCEPT ![x] = t]
  BY <1>2 DEF t
<1>10. pool' \in [Node -> Seq(Nonce)]
  BY <1>8, <1>9 DEF Node
<1>11. \A y \in Node : Len(pool'[y]) <= PoolCap /\ \A k \in 1..Len(pool'[y]) : pool'[y][k] < recorded
  BY <1>1, <1>8, <1>9 DEF Node
<1> QED
  BY <1>2, <1>6, <1>10, <1>11, WorkerRecorded

(* The other steps of a worker, and a node that stops, send nothing. *)
LEMMA QuietRecorded ==
  ASSUME MintsRecorded, UNCHANGED <<amounts, mark, pool>>,
         forwarder' \in [Forwarder -> ForwarderRec],
         \A w \in Forwarder : forwarder'[w].committed <= forwarder'[w].i,
         errors' \in 0..MaxErrors, stopped' \subseteq MayStop
  PROVE  MintsRecorded'
<1>1. pool' \in [Node -> Seq(Nonce)]
      /\ \A x \in Node : Len(pool'[x]) <= PoolCap
                         /\ \A k \in 1..Len(pool'[x]) : pool'[x][k] < recorded
  BY DEF MintsRecorded, MintTypeOK, Node
<1> QED
  BY <1>1, WorkerRecorded

(* Every step of the workers, the vault, XEvents and the world keeps the     *)
(* invariant.                                                                *)
LEMMA NextRecorded == MintsRecorded /\ [MintNext]_mintVars => MintsRecorded'
<1> SUFFICES ASSUME MintsRecorded, [MintNext]_mintVars PROVE MintsRecorded'
  OBVIOUS
<1> USE ForwardAssumption
<1>0. MintTypeOK
  BY DEF MintsRecorded
<1>e. errors \in 0..MaxErrors /\ stopped \subseteq MayStop /\ (Fails => errors' \in 0..MaxErrors)
  BY <1>0 DEF MintTypeOK, Fails
<1>1. CASE Record
  BY <1>1, RecordRecorded
<1>2. ASSUME NEW x \in Node, Execute(x) PROVE MintsRecorded'
  BY <1>2, ExecuteRecorded
<1>3. ASSUME NEW x \in Node, Stop(x) PROVE MintsRecorded'
  <2>1. forwarder' \in [Forwarder -> ForwarderRec] /\ \A w \in Forwarder : forwarder'[w].committed <= forwarder'[w].i
    BY <1>0, <1>3, IdleTyped DEF MintTypeOK, Stop
  <2>2. UNCHANGED <<amounts, mark, pool, errors>> /\ stopped' \subseteq MayStop
    BY <1>3, <1>e DEF Stop
  <2> QED
    BY <1>e, <2>1, <2>2, QuietRecorded
<1>4. ASSUME NEW w \in Forwarder, Send(w) PROVE MintsRecorded'
  BY <1>4, SendRecorded
<1>5. ASSUME NEW w \in Forwarder,
             BeginRound(w) \/ SendFails(w) \/ LoopEnds(w)
               \/ WaitConfirmed(w) \/ WaitRound(w) \/ WaitNewConfig(w)
      PROVE  MintsRecorded'
  <2>0. forwarder[w] \in ForwarderRec /\ forwarder[w].committed <= forwarder[w].i
    BY <1>0 DEF MintTypeOK
  <2>1. \E r \in ForwarderRec : r.committed <= r.i /\ Set(w, r)
    <3>1. CASE BeginRound(w)
      <4> DEFINE s == [Idle EXCEPT !.pc = "send"]
                 r == [s EXCEPT !.before = mark]
      <4>1. mark \in Nonce
        BY <1>0 DEF MintTypeOK
      <4>2. s \in ForwarderRec /\ s.committed <= s.i
        BY IdleTyped DEF ForwarderRec
      <4> HIDE DEF s
      <4>3. r \in ForwarderRec /\ r.committed <= r.i
        BY <4>1, <4>2 DEF ForwarderRec
      <4>4. Set(w, r)
        BY <3>1, Zenon DEF BeginRound, s
      <4> QED
        BY <4>3, <4>4
    <3>2. CASE SendFails(w)
      <4> DEFINE r == [forwarder[w] EXCEPT !.i = @ + 1]
      <4>1. r \in ForwarderRec /\ r.committed <= r.i
        BY <3>2, <2>0 DEF SendFails, MoreToSend, ForwarderRec
      <4> QED
        BY <3>2, <4>1 DEF SendFails
    <3>3. CASE LoopEnds(w)
      <4> DEFINE r == [forwarder[w] EXCEPT !.pc = "wait"]
      <4>1. r \in ForwarderRec /\ r.committed <= r.i
        BY <2>0 DEF ForwarderRec
      <4> QED
        BY <3>3, <4>1, IdleTyped DEF LoopEnds
    <3>4. CASE WaitRound(w)
      <4> DEFINE r == [forwarder[w] EXCEPT !.wait = @ + 1]
      <4>1. forwarder[w].wait # MaxWait => r \in ForwarderRec /\ r.committed <= r.i
        BY <2>0 DEF ForwarderRec
      <4> QED
        BY <3>4, <4>1, IdleTyped DEF WaitRound
    <3>5. CASE WaitConfirmed(w) \/ WaitNewConfig(w)
      BY <3>5, IdleTyped DEF WaitConfirmed, WaitNewConfig
    <3> QED
      BY <1>5, <3>1, <3>2, <3>3, <3>4, <3>5
  <2>2. forwarder' \in [Forwarder -> ForwarderRec] /\ \A v \in Forwarder : forwarder'[v].committed <= forwarder'[v].i
    BY <1>0, <2>1, SetTyped
  <2>3. UNCHANGED <<amounts, mark, pool, stopped>> /\ (UNCHANGED errors \/ Fails)
    BY <1>5 DEF BeginRound, SendFails, LoopEnds, WaitConfirmed, WaitRound, WaitNewConfig
  <2> QED
    BY <1>e, <2>2, <2>3, QuietRecorded
<1>6. CASE UNCHANGED mintVars
  BY <1>6 DEF mintVars, MintsRecorded, MintTypeOK, recorded
<1> QED
  BY <1>1, <1>2, <1>3, <1>4, <1>5, <1>6 DEF MintNext, Round, Node

(* Nothing is minted that was not recorded in XEvents (commitTokenMints,     *)
(* CommitTokenMints), whatever fails, however rounds and workers overlap.    *)
THEOREM NothingMintedUnrecorded == MintSpec => []MintsRecorded
BY InitRecorded, NextRecorded, PTL DEF MintSpec
===============================================================================
