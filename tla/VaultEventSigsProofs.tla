------------------------- MODULE VaultEventSigsProofs -------------------------
(* What a node believes of its peers, and how far the count of signatures    *)
(* may be off, for any network, any queue sizes and any failures.            *)
EXTENDS VaultEventSigs, FiniteSetTheorems, TLAPS

(* s is an element of the sequence q. *)
InSeq(s, q) == \E i \in 1..Len(q) : q[i] = s

-------------------------------------------------------------------------------
(* Membership in a queue that grows or is read. *)

(* A queue with a signature appended holds it and what it held. *)
LEMMA InAppend ==
  ASSUME NEW S, NEW q \in Seq(S), NEW y \in S
  PROVE  \A x : InSeq(x, Append(q, y)) <=> InSeq(x, q) \/ x = y
<1> DEFINE a == Append(q, y)
<1>1. Len(a) = Len(q) + 1 /\ Len(q) \in Nat
      /\ a[Len(q) + 1] = y /\ \A i \in 1..Len(q) : a[i] = q[i]
  OBVIOUS
<1> HIDE DEF a
<1>2. \A i \in 1..Len(a) : i \in 1..Len(q) \/ i = Len(q) + 1
  BY <1>1
<1>3. Len(q) + 1 \in 1..Len(a) /\ \A i \in 1..Len(q) : i \in 1..Len(a)
  BY <1>1
<1>4. \A x : InSeq(x, a) <=> InSeq(x, q) \/ x = y
  BY <1>1, <1>2, <1>3, Zenon DEF InSeq
<1> QED
  BY <1>4 DEF a

(* A queue without its first signature holds nothing new. *)
LEMMA InTail ==
  ASSUME NEW S, NEW q \in Seq(S), q # <<>>
  PROVE  /\ Head(q) \in S /\ InSeq(Head(q), q)
         /\ \A x : InSeq(x, q) => x = Head(q) \/ InSeq(x, Tail(q))
         /\ \A x : InSeq(x, Tail(q)) => InSeq(x, q)
<1> DEFINE t == Tail(q)
<1>1. Len(q) \in Nat \ {0} /\ Head(q) = q[1] /\ Head(q) \in S
      /\ Len(t) = Len(q) - 1 /\ \A i \in 1..Len(t) : t[i] = q[i + 1]
  OBVIOUS
<1> HIDE DEF t
<1>2. 1 \in 1..Len(q) /\ \A i \in 1..Len(t) : i + 1 \in 1..Len(q)
  BY <1>1
<1>3. \A i \in 1..Len(q) : i = 1 \/ (i - 1 \in 1..Len(t) /\ t[i - 1] = q[i])
  BY <1>1
<1>4. InSeq(Head(q), q) /\ (\A x : InSeq(x, t) => InSeq(x, q))
  BY <1>1, <1>2 DEF InSeq
<1>5. \A x : InSeq(x, q) => x = Head(q) \/ InSeq(x, t)
  BY <1>1, <1>3, Zenon DEF InSeq
<1> QED
  BY <1>1, <1>4, <1>5 DEF t

(* The empty queue holds nothing. *)
LEMMA InEmpty == \A x : ~InSeq(x, <<>>)
BY DEF InSeq

-------------------------------------------------------------------------------
(* The invariant.  A node relays and queues only what it holds itself, which *)
(* it loses in a restart, together with its connections; so whoever sent a   *)
(* signature has it, and can be marked as knowing it.  Nothing is queued or  *)
(* believed where there is no connection.                                    *)

Pair == Node \X Node

Typed ==
  /\ sigs \in [Node -> SUBSET Entry] /\ relay \in [Node -> Seq(Signer)]
  /\ conn \subseteq Links
  /\ known \in [Pair -> SUBSET Signer] /\ queued \in [Pair -> Seq(Signer)]

NoLinkNothing ==
  \A n, p \in Node : {n, p} \notin conn => known[<<n, p>>] = {} /\ queued[<<n, p>>] = <<>>

RelayedIsHeld == \A n \in Node : \A s : InSeq(s, relay[n]) => s \in Signers(n)

QueuedIsHeld == \A n, p \in Node : \A s : InSeq(s, queued[<<n, p>>]) => s \in Signers(n)

Believed ==
  \A n, p \in Node : \A s \in known[<<n, p>>] : s \in Signers(p) \/ InSeq(s, queued[<<n, p>>])

SigsInv == Typed /\ NoLinkNothing /\ RelayedIsHeld /\ QueuedIsHeld /\ Believed

(* The invariant holds when nothing is signed and nobody is connected. *)
LEMMA InitSigs == Init => SigsInv
<1> SUFFICES ASSUME Init PROVE SigsInv
  OBVIOUS
<1>1. Typed
  BY DEF Init, Typed, Pair
<1>2. \A n, p \in Node : known[<<n, p>>] = {} /\ queued[<<n, p>>] = <<>> /\ relay[n] = <<>>
  BY DEF Init
<1> QED
  BY <1>1, <1>2, InEmpty, Zenon
     DEF SigsInv, NoLinkNothing, RelayedIsHeld, QueuedIsHeld, Believed

(* Storing a signature adds its signer and nothing else. *)
LEMMA ProcessAdds ==
  ASSUME Typed, NEW n \in Node, NEW s \in Signer, ProcessVaultEventWithSig(n, s)
  PROVE  /\ sigs' \in [Node -> SUBSET Entry]
         /\ \A m \in Node : \A x : x \in Signers(m) => x \in Signers(m)'
         /\ s \in Signers(n)'
<1> DEFINE new == IF sigs[n] = {} THEN {<<"hex", s>>} ELSE sigs[n] \cup {<<"raw", s>>}
<1>1. sigs' = [sigs EXCEPT ![n] = new]
  BY DEF ProcessVaultEventWithSig
<1>2. <<"hex", s>> \in Entry /\ <<"raw", s>> \in Entry
  BY DEF Entry
<1>3. sigs[n] \in SUBSET Entry
  BY DEF Typed
<1>4. new \in SUBSET Entry /\ sigs[n] \subseteq new /\ (<<"hex", s>> \in new \/ <<"raw", s>> \in new)
  BY <1>2, <1>3
<1> HIDE DEF new
<1>5. sigs' \in [Node -> SUBSET Entry]
  BY <1>1, <1>4 DEF Typed
<1>6. sigs'[n] = new /\ \A m \in Node : sigs[m] \subseteq sigs'[m]
  BY <1>1, <1>4 DEF Typed
<1>7. \A m \in Node : \A x : x \in Signers(m) => x \in Signers(m)'
  BY <1>6, Zenon DEF Signers
<1>8. <<"hex", s>>[2] = s /\ <<"raw", s>>[2] = s
  OBVIOUS
<1>9. s \in Signers(n)'
  BY <1>4, <1>6, <1>8, Zenon DEF Signers
<1> QED
  BY <1>5, <1>7, <1>9

(* Scanning the event: the signature is stored before it is relayed. *)
LEMMA ScanSigs == ASSUME SigsInv, NEW n \in Signer, ScanEvent(n) PROVE SigsInv'
<1>0. n \in Node /\ Typed /\ n \in Signer
  BY SigsAssumption DEF SigsInv
<1>1. sigs' \in [Node -> SUBSET Entry] /\ n \in Signers(n)'
      /\ \A m \in Node : \A x : x \in Signers(m) => x \in Signers(m)'
  BY <1>0, ProcessAdds DEF ScanEvent
<1>2. relay' = [relay EXCEPT ![n] = Append(relay[n], n)] /\ UNCHANGED <<conn, known, queued>>
  BY DEF ScanEvent, ToRelay
<1>3. relay[n] \in Seq(Signer)
  BY <1>0 DEF Typed
<1>4. Append(relay[n], n) \in Seq(Signer) /\ \A x : InSeq(x, Append(relay[n], n)) <=> InSeq(x, relay[n]) \/ x = n
  BY <1>0, <1>3, InAppend
<1> DEFINE a == Append(relay[n], n)
<1> HIDE DEF a
<1>5. relay' \in [Node -> Seq(Signer)] /\ relay'[n] = a /\ \A m \in Node : m # n => relay'[m] = relay[m]
  BY <1>0, <1>2, <1>4 DEF Typed, a
<1>6. Typed'
  BY <1>0, <1>1, <1>2, <1>5 DEF Typed
<1>7. RelayedIsHeld'
  BY <1>1, <1>4, <1>5, Zenon DEF RelayedIsHeld, SigsInv, a
<1>8. NoLinkNothing'
  BY <1>2 DEF NoLinkNothing, SigsInv
<1>9. QueuedIsHeld' /\ Believed'
  BY <1>1, <1>2, Zenon DEF QueuedIsHeld, Believed, SigsInv
<1> QED
  BY <1>6, <1>7, <1>8, <1>9 DEF SigsInv

(* Broadcasting: a peer is marked exactly when its queue took the signature. *)
LEMMA BroadcastSigs ==
  ASSUME SigsInv, NEW n \in Node, BroadcastVaultEventWithSig(n) PROVE SigsInv'
<1> DEFINE s == Head(relay[n])
           t == Tail(relay[n])
           to == PeersWithoutVaultEventWithSig(n, s)
           open == {<<n, p>> : p \in {q \in to : Len(queued[<<n, q>>]) < QueueCap}}
<1>0. Typed
  BY DEF SigsInv
<1>1. relay[n] \in Seq(Signer) /\ relay[n] # <<>>
  BY <1>0 DEF Typed, BroadcastVaultEventWithSig
<1>2. s \in Signer /\ InSeq(s, relay[n]) /\ \A x : InSeq(x, t) => InSeq(x, relay[n])
  BY <1>1, InTail
<1>3. t \in Seq(Signer)
  BY <1>1
<1>4. relay' = [relay EXCEPT ![n] = t] /\ UNCHANGED <<sigs, conn>>
      /\ queued' = [l \in Node \X Node |-> IF l \in open THEN Append(queued[l], s) ELSE queued[l]]
      /\ known' = [l \in Node \X Node |-> IF l \in open THEN known[l] \cup {s} ELSE known[l]]
  BY DEF BroadcastVaultEventWithSig, AsyncSendVaultEventWithSigs
<1>5. \A m, p \in Node : <<m, p>> \in open => m = n /\ {m, p} \in conn
  BY DEF PeersWithoutVaultEventWithSig, Peers
<1> HIDE DEF s, t, open, to
<1>6. s \in Signers(n)
  BY <1>2 DEF SigsInv, RelayedIsHeld
<1>7. \A m \in Node : Signers(m)' = Signers(m)
  BY <1>4 DEF Signers
<1>8. \A m, p \in Node : /\ queued[<<m, p>>] \in Seq(Signer)
                         /\ Append(queued[<<m, p>>], s) \in Seq(Signer)
                         /\ \A x : InSeq(x, Append(queued[<<m, p>>], s)) <=> InSeq(x, queued[<<m, p>>]) \/ x = s
  BY <1>0, <1>2, InAppend DEF Typed, Pair
<1>9. \A m, p \in Node :
        /\ queued'[<<m, p>>] = IF <<m, p>> \in open THEN Append(queued[<<m, p>>], s) ELSE queued[<<m, p>>]
        /\ known'[<<m, p>>] = IF <<m, p>> \in open THEN known[<<m, p>>] \cup {s} ELSE known[<<m, p>>]
  BY <1>4
<1>10. Typed'
  <2>1. queued' \in [Pair -> Seq(Signer)]
    <3>1. \A l \in Pair : queued[l] \in Seq(Signer) /\ Append(queued[l], s) \in Seq(Signer)
      BY <1>0, <1>2 DEF Typed
    <3> QED
      BY <1>4, <3>1 DEF Pair
  <2>2. known' \in [Pair -> SUBSET Signer]
    BY <1>0, <1>2, <1>4 DEF Typed, Pair
  <2>3. relay' \in [Node -> Seq(Signer)]
    BY <1>0, <1>3, <1>4 DEF Typed
  <2> QED
    BY <1>0, <1>4, <2>1, <2>2, <2>3 DEF Typed
<1>11. NoLinkNothing'
  BY <1>4, <1>5, <1>9 DEF SigsInv, NoLinkNothing
<1>12. RelayedIsHeld'
  <2>1. relay'[n] = t /\ \A m \in Node : m # n => relay'[m] = relay[m]
    BY <1>0, <1>4 DEF Typed
  <2> QED
    BY <1>2, <1>7, <2>1, Zenon DEF SigsInv, RelayedIsHeld
<1>13. QueuedIsHeld'
  <2> SUFFICES ASSUME NEW m \in Node, NEW p \in Node, NEW x, InSeq(x, queued'[<<m, p>>])
               PROVE  x \in Signers(m)
    BY <1>7, Zenon DEF QueuedIsHeld
  <2>1. CASE <<m, p>> \in open
    BY <2>1, <1>5, <1>6, <1>8, <1>9, Zenon DEF SigsInv, QueuedIsHeld
  <2>2. CASE <<m, p>> \notin open
    BY <2>2, <1>9, Zenon DEF SigsInv, QueuedIsHeld
  <2> QED
    BY <2>1, <2>2
<1>14. Believed'
  <2> SUFFICES ASSUME NEW m \in Node, NEW p \in Node, NEW x \in known'[<<m, p>>]
               PROVE  x \in Signers(p) \/ InSeq(x, queued'[<<m, p>>])
    BY <1>7, Zenon DEF Believed
  <2>1. CASE <<m, p>> \in open
    <3>1. x \in known[<<m, p>>] \/ x = s
      BY <2>1, <1>9
    <3>2. queued'[<<m, p>>] = Append(queued[<<m, p>>], s)
      BY <2>1, <1>9
    <3>3. x \in known[<<m, p>>] => x \in Signers(p) \/ InSeq(x, queued[<<m, p>>])
      BY DEF SigsInv, Believed
    <3> QED
      BY <1>8, <3>1, <3>2, <3>3, Zenon
  <2>2. CASE <<m, p>> \notin open
    BY <2>2, <1>9, Zenon DEF SigsInv, Believed
  <2> QED
    BY <2>1, <2>2
<1> QED
  BY <1>10, <1>11, <1>12, <1>13, <1>14 DEF SigsInv

(* Receiving: the signature leaves the queue and is held by the receiver,    *)
(* which marks the sender; the sender held what it had queued.               *)
LEMMA MessageSigs ==
  ASSUME SigsInv, NEW n \in Node, NEW p \in Node, VaultEventMsg(n, p) PROVE SigsInv'
<1> DEFINE q == queued[<<n, p>>]
           s == Head(q)
           t == Tail(q)
           a == Append(relay[p], s)
<1>0. Typed /\ <<n, p>> \in Pair /\ <<p, n>> \in Pair
  BY DEF SigsInv, Pair
<1>1. q \in Seq(Signer) /\ q # <<>>
  BY <1>0 DEF Typed, VaultEventMsg
<1>2. s \in Signer /\ InSeq(s, q) /\ (\A x : InSeq(x, q) => x = s \/ InSeq(x, t))
      /\ \A x : InSeq(x, t) => InSeq(x, q)
  BY <1>1, InTail
<1>3. t \in Seq(Signer)
  BY <1>1
<1>4. relay[p] \in Seq(Signer)
  BY <1>0 DEF Typed
<1>5. a \in Seq(Signer) /\ \A x : InSeq(x, a) <=> InSeq(x, relay[p]) \/ x = s
  BY <1>2, <1>4, InAppend
<1>6. /\ {n, p} \in conn /\ UNCHANGED conn
      /\ queued' = [queued EXCEPT ![<<n, p>>] = t]
      /\ known' = [known EXCEPT ![<<p, n>>] = known[<<p, n>>] \cup {s}]
      /\ ProcessVaultEventWithSig(p, s)
      /\ relay' = [relay EXCEPT ![p] = a]
  BY DEF VaultEventMsg, ToRelay
<1> HIDE DEF q, s, t, a
<1>7. sigs' \in [Node -> SUBSET Entry] /\ s \in Signers(p)'
      /\ \A m \in Node : \A x : x \in Signers(m) => x \in Signers(m)'
  BY <1>0, <1>2, <1>6, ProcessAdds
<1>8. relay' \in [Node -> Seq(Signer)] /\ relay'[p] = a /\ \A m \in Node : m # p => relay'[m] = relay[m]
  BY <1>0, <1>5, <1>6 DEF Typed
<1>9. queued' \in [Pair -> Seq(Signer)] /\ queued'[<<n, p>>] = t
      /\ \A e \in Pair : e # <<n, p>> => queued'[e] = queued[e]
  BY <1>0, <1>3, <1>6 DEF Typed
<1>10. known' \in [Pair -> SUBSET Signer] /\ known'[<<p, n>>] = known[<<p, n>>] \cup {s}
       /\ \A e \in Pair : e # <<p, n>> => known'[e] = known[e]
  BY <1>0, <1>2, <1>6 DEF Typed
<1>11. Typed'
  BY <1>0, <1>6, <1>7, <1>8, <1>9, <1>10 DEF Typed
<1>12. NoLinkNothing'
  <2> SUFFICES ASSUME NEW m \in Node, NEW r \in Node, {m, r} \notin conn
               PROVE  known'[<<m, r>>] = {} /\ queued'[<<m, r>>] = <<>>
    BY <1>6 DEF NoLinkNothing
  <2>1. <<m, r>> \in Pair /\ {n, p} = {p, n}
    BY DEF Pair
  <2>2. <<m, r>> # <<n, p>> /\ <<m, r>> # <<p, n>>
    BY <1>6, <2>1
  <2> QED
    BY <1>9, <1>10, <2>1, <2>2 DEF SigsInv, NoLinkNothing
<1>13. RelayedIsHeld'
  BY <1>5, <1>7, <1>8, Zenon DEF SigsInv, RelayedIsHeld
<1>14. \A m, r \in Node : \A x : InSeq(x, queued'[<<m, r>>]) => InSeq(x, queued[<<m, r>>])
  <2> SUFFICES ASSUME NEW m \in Node, NEW r \in Node, NEW x, InSeq(x, queued'[<<m, r>>])
               PROVE  InSeq(x, queued[<<m, r>>])
    OBVIOUS
  <2>1. <<m, r>> \in Pair
    BY DEF Pair
  <2>2. CASE <<m, r>> = <<n, p>>
    BY <2>2, <1>2, <1>9 DEF q
  <2>3. CASE <<m, r>> # <<n, p>>
    BY <2>1, <2>3, <1>9
  <2> QED
    BY <2>2, <2>3
<1>15. QueuedIsHeld'
  BY <1>7, <1>14, Zenon DEF SigsInv, QueuedIsHeld
<1>16. Believed'
  <2> SUFFICES ASSUME NEW m \in Node, NEW r \in Node, NEW x \in known'[<<m, r>>]
               PROVE  x \in Signers(r)' \/ InSeq(x, queued'[<<m, r>>])
    BY DEF Believed
  <2>1. <<m, r>> \in Pair
    BY DEF Pair
  <2>2. CASE <<m, r>> = <<p, n>> /\ x = s
    <3>1. s \in Signers(n) /\ r = n
      BY <1>2, <2>2 DEF SigsInv, QueuedIsHeld, q
    <3> QED
      BY <1>7, <2>2, <3>1
  <2>3. CASE x \in known[<<m, r>>]
    <3>1. x \in Signers(r) \/ InSeq(x, queued[<<m, r>>])
      BY <2>3 DEF SigsInv, Believed
    <3>2. CASE x \in Signers(r)
      BY <1>7, <3>2
    <3>3. CASE InSeq(x, queued[<<m, r>>]) /\ <<m, r>> # <<n, p>>
      BY <1>9, <2>1, <3>3
    <3>4. CASE InSeq(x, queued[<<m, r>>]) /\ <<m, r>> = <<n, p>>
      <4>1. r = p /\ InSeq(x, q)
        BY <3>4 DEF q
      <4> QED
        BY <1>2, <1>7, <1>9, <3>4, <4>1
    <3> QED
      BY <3>1, <3>2, <3>3, <3>4
  <2> QED
    BY <1>10, <2>1, <2>2, <2>3
<1> QED
  BY <1>11, <1>12, <1>13, <1>15, <1>16 DEF SigsInv

(* A new connection starts with nothing known and nothing queued. *)
LEMMA RegisterSigs == ASSUME SigsInv, NEW l \in Links, Register(l) PROVE SigsInv'
<1>1. conn' = conn \cup {l} /\ UNCHANGED <<sigs, relay, known, queued>>
  BY DEF Register
<1>2. Typed' /\ NoLinkNothing'
  BY <1>1 DEF SigsInv, Typed, NoLinkNothing
<1>3. \A m \in Node : Signers(m)' = Signers(m)
  BY <1>1 DEF Signers
<1> QED
  BY <1>1, <1>2, <1>3, Zenon DEF SigsInv, RelayedIsHeld, QueuedIsHeld, Believed

(* What breaks off takes its queues and beliefs with it. *)
LEMMA ForgetTyped ==
  ASSUME SigsInv, NEW ls, Forget(ls)
  PROVE  /\ conn' \subseteq Links
         /\ known' \in [Pair -> SUBSET Signer] /\ queued' \in [Pair -> Seq(Signer)]
         /\ NoLinkNothing'
         /\ \A n, p \in Node : {n, p} \in ls => known'[<<n, p>>] = {} /\ queued'[<<n, p>>] = <<>>
         /\ \A n, p \in Node : {n, p} \notin ls =>
               known'[<<n, p>>] = known[<<n, p>>] /\ queued'[<<n, p>>] = queued[<<n, p>>]
<1>0. Typed
  BY DEF SigsInv
<1>1. \A n, p \in Node :
        /\ known'[<<n, p>>] = IF {n, p} \in ls THEN {} ELSE known[<<n, p>>]
        /\ queued'[<<n, p>>] = IF {n, p} \in ls THEN <<>> ELSE queued[<<n, p>>]
  BY DEF Forget
<1>2. conn' = conn \ ls
  BY DEF Forget
<1>3. known' \in [Pair -> SUBSET Signer]
  BY <1>0 DEF Forget, Typed, Pair
<1>4. queued' \in [Pair -> Seq(Signer)]
  BY <1>0 DEF Forget, Typed, Pair
<1>5. NoLinkNothing'
  BY <1>1, <1>2, ZenonT(40) DEF SigsInv, NoLinkNothing
<1> QED
  BY <1>0, <1>1, <1>2, <1>3, <1>4, <1>5 DEF Typed

(* A connection that ends keeps the invariant. *)
LEMMA UnregisterSigs == ASSUME SigsInv, NEW l \in Links, Unregister(l) PROVE SigsInv'
<1>1. Forget({l}) /\ UNCHANGED <<sigs, relay>>
  BY DEF Unregister
<1>2. \A m \in Node : Signers(m)' = Signers(m)
  BY <1>1 DEF Signers
<1>3. Typed' /\ NoLinkNothing'
  BY <1>1, ForgetTyped DEF SigsInv, Typed
<1>4. \A n, p \in Node : \/ known'[<<n, p>>] = {} /\ queued'[<<n, p>>] = <<>>
                         \/ known'[<<n, p>>] = known[<<n, p>>] /\ queued'[<<n, p>>] = queued[<<n, p>>]
  BY <1>1, ForgetTyped
<1>5. RelayedIsHeld'
  BY <1>1, <1>2, Zenon DEF SigsInv, RelayedIsHeld
<1>6. QueuedIsHeld' /\ Believed'
  BY <1>2, <1>4, InEmpty DEF SigsInv, QueuedIsHeld, Believed
<1> QED
  BY <1>3, <1>5, <1>6 DEF SigsInv

(* A restart: nobody is left that believes anything of the node, and nothing *)
(* it no longer holds is on its way.                                         *)
LEMMA RestartSigs == ASSUME SigsInv, NEW n \in Node, Restart(n) PROVE SigsInv'
<1> DEFINE ls == {l \in Links : n \in l}
<1>0. Typed /\ conn \subseteq Links
  BY DEF SigsInv, Typed
<1>1. Forget(ls) /\ sigs' = [sigs EXCEPT ![n] = {}] /\ relay' = [relay EXCEPT ![n] = <<>>]
  BY DEF Restart
<1>2. \A m, p \in Node : m = n \/ p = n => known'[<<m, p>>] = {} /\ queued'[<<m, p>>] = <<>>
  <2> SUFFICES ASSUME NEW m \in Node, NEW p \in Node, m = n \/ p = n
               PROVE  known'[<<m, p>>] = {} /\ queued'[<<m, p>>] = <<>>
    OBVIOUS
  <2>1. CASE {m, p} \in ls
    <3> HIDE DEF ls
    <3> QED
      BY <1>1, <2>1, ForgetTyped
  <2>2. CASE {m, p} \notin ls
    <3>1. {m, p} \notin conn
      BY <1>0, <2>2
    <3>2. known[<<m, p>>] = {} /\ queued[<<m, p>>] = <<>>
      BY <3>1 DEF SigsInv, NoLinkNothing
    <3> HIDE DEF ls
    <3> QED
      BY <1>1, <2>2, <3>2, ForgetTyped, ZenonT(40)
  <2> QED
    BY <2>1, <2>2
<1> HIDE DEF ls
<1>3. \A m, p \in Node : \/ known'[<<m, p>>] = {} /\ queued'[<<m, p>>] = <<>>
                         \/ known'[<<m, p>>] = known[<<m, p>>] /\ queued'[<<m, p>>] = queued[<<m, p>>]
  BY <1>1, ForgetTyped
<1>4. sigs' \in [Node -> SUBSET Entry] /\ relay' \in [Node -> Seq(Signer)] /\ relay'[n] = <<>>
      /\ \A m \in Node : m # n => sigs'[m] = sigs[m] /\ relay'[m] = relay[m]
  BY <1>0, <1>1 DEF Typed
<1>5. \A m \in Node : m # n => Signers(m)' = Signers(m)
  BY <1>4 DEF Signers
<1>6. Typed' /\ NoLinkNothing'
  BY <1>1, <1>4, ForgetTyped DEF Typed
<1>7. RelayedIsHeld'
  BY <1>4, <1>5, InEmpty DEF SigsInv, RelayedIsHeld
<1>8. QueuedIsHeld'
  BY <1>2, <1>3, <1>5, InEmpty DEF SigsInv, QueuedIsHeld
<1>9. Believed'
  BY <1>2, <1>3, <1>5 DEF SigsInv, Believed
<1> QED
  BY <1>6, <1>7, <1>8, <1>9 DEF SigsInv

(* Every step keeps the invariant. *)
LEMMA NextSigs == SigsInv /\ [Next]_vars => SigsInv'
<1> SUFFICES ASSUME SigsInv, [Next]_vars PROVE SigsInv'
  OBVIOUS
<1>1. ASSUME NEW n \in Signer, ScanEvent(n) PROVE SigsInv'
  BY <1>1, ScanSigs
<1>2. ASSUME NEW n \in Node, BroadcastVaultEventWithSig(n) PROVE SigsInv'
  BY <1>2, BroadcastSigs
<1>3. ASSUME NEW n \in Node, Restart(n) PROVE SigsInv'
  BY <1>3, RestartSigs
<1>4. ASSUME NEW n \in Node, NEW p \in Node, VaultEventMsg(n, p) PROVE SigsInv'
  BY <1>4, MessageSigs
<1>5. ASSUME NEW l \in Links, Register(l) \/ Unregister(l) PROVE SigsInv'
  BY <1>5, RegisterSigs, UnregisterSigs
<1>6. CASE UNCHANGED vars
  BY <1>6 DEF vars, SigsInv, Typed, NoLinkNothing, RelayedIsHeld, QueuedIsHeld, Believed, Signers
<1> QED
  BY <1>1, <1>2, <1>3, <1>4, <1>5, <1>6 DEF Next

(* Suppressing duplicates loses nothing (AsyncSendVaultEventWithSigs,        *)
(* PeersWithoutVaultEventWithSig): a peer that is believed to have a         *)
(* signature has it or has it in the queue towards it, in any network.       *)
THEOREM BeliefsTrue == Spec => []KnownIsDelivered
<1>1. SigsInv => KnownIsDelivered
  BY DEF SigsInv, Believed, KnownIsDelivered, InSeq
<1> QED
  BY <1>1, InitSigs, NextSigs, PTL DEF Spec

-------------------------------------------------------------------------------
(* Only the signature that created the entry is stored as text. *)

OneText ==
  \A n \in Node : /\ IsFiniteSet(sigs[n])
                  /\ \E h : \A e \in sigs[n] : e[1] = "hex" => e = h

(* Storing keeps it: text goes into an empty entry only. *)
LEMMA ProcessOneText ==
  ASSUME Typed, OneText, NEW n \in Node, NEW s \in Signer, ProcessVaultEventWithSig(n, s)
  PROVE  OneText'
<1> DEFINE new == IF sigs[n] = {} THEN {<<"hex", s>>} ELSE sigs[n] \cup {<<"raw", s>>}
<1>1. sigs' = [sigs EXCEPT ![n] = new]
  BY DEF ProcessVaultEventWithSig
<1>2. IsFiniteSet(sigs[n])
  BY DEF OneText
<1>3. IsFiniteSet({} \cup {<<"hex", s>>}) /\ IsFiniteSet(sigs[n] \cup {<<"raw", s>>})
  BY <1>2, FS_EmptySet, FS_AddElement
<1>4. IsFiniteSet(new)
  <2>1. {} \cup {<<"hex", s>>} = {<<"hex", s>>}
    OBVIOUS
  <2> QED
    BY <1>3, <2>1
<1>5. \E h : \A e \in new : e[1] = "hex" => e = h
  <2>1. PICK h : \A e \in sigs[n] : e[1] = "hex" => e = h
    BY DEF OneText
  <2>2. CASE sigs[n] = {}
    BY <2>2
  <2>3. CASE sigs[n] # {}
    <3>1. <<"raw", s>>[1] # "hex"
      OBVIOUS
    <3>2. \A e \in new : e \in sigs[n] \/ e = <<"raw", s>>
      BY <2>3
    <3> QED
      BY <2>1, <3>1, <3>2
  <2> QED
    BY <2>2, <2>3
<1> HIDE DEF new
<1>6. \A m \in Node : sigs'[m] = IF m = n THEN new ELSE sigs[m]
  BY <1>1 DEF Typed
<1> QED
  BY <1>4, <1>5, <1>6 DEF OneText

(* Every step keeps it. *)
LEMMA NextOneText == SigsInv /\ OneText /\ [Next]_vars => OneText'
<1> SUFFICES ASSUME SigsInv, OneText, [Next]_vars PROVE OneText'
  OBVIOUS
<1>0. Typed
  BY DEF SigsInv
<1>1. ASSUME NEW n \in Signer, ScanEvent(n) PROVE OneText'
  <2>1. n \in Node /\ ProcessVaultEventWithSig(n, n)
    BY <1>1, SigsAssumption DEF ScanEvent
  <2> QED
    BY <1>0, <2>1, ProcessOneText
<1>2. ASSUME NEW n \in Node, NEW p \in Node, VaultEventMsg(n, p) PROVE OneText'
  <2>1. queued[<<n, p>>] \in Seq(Signer) /\ queued[<<n, p>>] # <<>>
    BY <1>0, <1>2 DEF Typed, Pair, VaultEventMsg
  <2>2. Head(queued[<<n, p>>]) \in Signer
    BY <2>1, InTail
  <2>3. ProcessVaultEventWithSig(p, Head(queued[<<n, p>>]))
    BY <1>2 DEF VaultEventMsg
  <2> QED
    BY <1>0, <2>2, <2>3, ProcessOneText
<1>3. ASSUME NEW n \in Node, Restart(n) PROVE OneText'
  <2>1. \A m \in Node : sigs'[m] = IF m = n THEN {} ELSE sigs[m]
    BY <1>0, <1>3 DEF Restart, Typed
  <2> QED
    BY <2>1, FS_EmptySet DEF OneText
<1>4. CASE UNCHANGED sigs
  BY <1>4 DEF OneText
<1>5. ASSUME NEW n \in Node, BroadcastVaultEventWithSig(n) PROVE UNCHANGED sigs
  BY <1>5 DEF BroadcastVaultEventWithSig
<1>6. ASSUME NEW l \in Links, Register(l) \/ Unregister(l) PROVE UNCHANGED sigs
  BY <1>6 DEF Register, Unregister
<1>7. CASE UNCHANGED vars
  BY <1>4, <1>7 DEF vars
<1> QED
  BY <1>1, <1>2, <1>3, <1>4, <1>5, <1>6, <1>7 DEF Next

(* Without the one stored as text, entries and signers correspond. *)
LEMMA CountFromOneText ==
  ASSUME Typed, OneText, NEW n \in Node
  PROVE  Cardinality(sigs[n]) <= Cardinality(Signers(n)) + 1
<1> DEFINE E == sigs[n]
           T == Signers(n)
<1>1. IsFiniteSet(E) /\ E \subseteq Entry
  BY DEF OneText, Typed
<1>2. PICK h : \A e \in E : e[1] = "hex" => e = h
  BY DEF OneText
<1>3. T = {e[2] : e \in E}
  BY DEF Signers
<1> HIDE DEF E, T
<1> DEFINE R == E \ {h}
           all == [e \in E |-> e[2]]
           raws == [e \in R |-> e[2]]
<1>4. all \in Surjection(E, T)
  BY <1>3 DEF Surjection
<1>5. IsFiniteSet(T)
  <2> HIDE DEF all
  <2> QED
    BY <1>1, <1>4, FS_Surjection
<1>6. \A e \in R : e = <<"raw", e[2]>> /\ e[2] \in T
  BY <1>1, <1>2, <1>3 DEF Entry
<1>7. raws \in [R -> T] /\ \A a, b \in R : raws[a] = raws[b] => a = b
  <2>1. \A e \in R : raws[e] = e[2]
    OBVIOUS
  <2> HIDE DEF R
  <2>2. raws \in [R -> T]
    BY <1>6
  <2> HIDE DEF raws
  <2> QED
    BY <1>6, <2>1, <2>2
<1>8. raws \in Injection(R, T)
  <2> HIDE DEF raws, R
  <2> QED
    BY <1>7 DEF Injection, IsInjective
<1>9. Cardinality(R) <= Cardinality(T)
  <2> HIDE DEF raws, R
  <2> QED
    BY <1>5, <1>8, FS_Injection
<1>10. Cardinality(R) = IF h \in E THEN Cardinality(E) - 1 ELSE Cardinality(E)
  BY <1>1, FS_RemoveElement
<1>11. Cardinality(E) \in Nat /\ Cardinality(T) \in Nat
  BY <1>1, <1>5, FS_CardinalityType
<1>12. Cardinality(E) <= Cardinality(T) + 1
  <2> HIDE DEF R
  <2> QED
    BY <1>9, <1>10, <1>11
<1> QED
  BY <1>12 DEF E, T

(* ReceivedAllSigs compares the number of stored strings with the threshold; *)
(* in any network and after any failures that number exceeds the number of   *)
(* signers by at most one.                                                   *)
THEOREM CountOffByOneAtMost == Spec => []CountWithinOne
<1>1. Init => OneText
  BY FS_EmptySet DEF Init, OneText
<1>2. SigsInv /\ OneText => CountWithinOne
  BY CountFromOneText DEF SigsInv, CountWithinOne
<1> QED
  BY <1>1, <1>2, InitSigs, NextSigs, NextOneText, PTL DEF Spec

-------------------------------------------------------------------------------
(* The channel and the queues stay within their sizes. *)

Room ==
  /\ \A n \in Node : Len(relay[n]) <= RelayCap
  /\ \A l \in Pair : Len(queued[l]) <= QueueCap
  /\ breaks \in 0..MaxBreaks

(* A send to the channel waits for room. *)
LEMMA ToRelayRoom ==
  ASSUME Typed, Room, NEW n \in Node, NEW s \in Signer, ToRelay(n, s)
  PROVE  \A m \in Node : Len(relay'[m]) <= RelayCap
<1>1. Len(relay[n]) < RelayCap /\ relay[n] \in Seq(Signer)
  BY DEF ToRelay, Typed
<1>2. Len(Append(relay[n], s)) <= RelayCap
  BY <1>1, SigsAssumption
<1>3. \A m \in Node : relay'[m] = IF m = n THEN Append(relay[n], s) ELSE relay[m]
  BY DEF ToRelay, Typed
<1> QED
  BY <1>2, <1>3 DEF Room

(* Reading a channel or a queue makes it shorter. *)
LEMMA TailShorter ==
  ASSUME NEW S, NEW r \in Seq(S), r # <<>>, NEW max \in Nat, Len(r) <= max
  PROVE  Len(Tail(r)) <= max
OBVIOUS

(* Forgetting connections empties queues. *)
LEMMA ForgetRoom ==
  ASSUME Room, NEW ls, Forget(ls), Break
  PROVE  (\A l \in Pair : Len(queued'[l]) <= QueueCap) /\ breaks' \in 0..MaxBreaks
<1>1. \A l \in Pair : queued'[l] = <<>> \/ queued'[l] = queued[l]
  BY DEF Forget, Pair
<1>2. \A l \in Pair : Len(queued'[l]) <= QueueCap
  BY <1>1, SigsAssumption DEF Room
<1>3. breaks' \in 0..MaxBreaks
  BY SigsAssumption DEF Room, Break
<1> QED
  BY <1>2, <1>3

(* Every step keeps the sizes. *)
LEMMA NextRoom == SigsInv /\ Room /\ [Next]_vars => Room'
<1> SUFFICES ASSUME SigsInv, Room, [Next]_vars PROVE Room'
  OBVIOUS
<1>0. Typed
  BY DEF SigsInv
<1>1. ASSUME NEW n \in Signer, ScanEvent(n) PROVE Room'
  <2>1. n \in Node /\ ToRelay(n, n) /\ UNCHANGED <<queued, breaks>>
    BY <1>1, SigsAssumption DEF ScanEvent
  <2>2. \A m \in Node : Len(relay'[m]) <= RelayCap
    BY <1>0, <2>1, ToRelayRoom
  <2> QED
    BY <2>1, <2>2 DEF Room
<1>2. ASSUME NEW n \in Node, BroadcastVaultEventWithSig(n) PROVE Room'
  <2> DEFINE s == Head(relay[n])
             open == {<<n, p>> : p \in {c \in PeersWithoutVaultEventWithSig(n, s) : Len(queued[<<n, c>>]) < QueueCap}}
  <2>1. relay[n] \in Seq(Signer) /\ relay[n] # <<>> /\ Len(relay[n]) <= RelayCap
    BY <1>0, <1>2 DEF Typed, Room, BroadcastVaultEventWithSig
  <2>2. Len(Tail(relay[n])) <= RelayCap /\ s \in Signer
    BY <2>1, TailShorter, InTail, SigsAssumption
  <2>3. \A m \in Node : relay'[m] = IF m = n THEN Tail(relay[n]) ELSE relay[m]
    BY <1>0, <1>2 DEF Typed, BroadcastVaultEventWithSig
  <2>4. \A l \in Pair : queued'[l] = IF l \in open THEN Append(queued[l], s) ELSE queued[l]
    BY <1>2 DEF BroadcastVaultEventWithSig, AsyncSendVaultEventWithSigs, Pair
  <2>5. \A l \in open : Len(queued[l]) < QueueCap
    OBVIOUS
  <2> HIDE DEF s, open
  <2>6. ASSUME NEW l \in Pair PROVE Len(queued'[l]) <= QueueCap
    <3>1. queued[l] \in Seq(Signer) /\ Len(queued[l]) <= QueueCap
      BY <1>0 DEF Typed, Room
    <3>2. Len(Append(queued[l], s)) = Len(queued[l]) + 1 /\ Len(queued[l]) \in Nat
      BY <2>2, <3>1
    <3>3. CASE l \in open
      <4>1. queued'[l] = Append(queued[l], s) /\ Len(queued[l]) < QueueCap
        BY <2>4, <2>5, <3>3
      <4> QED
        BY <3>2, <4>1, SigsAssumption
    <3>4. CASE l \notin open
      BY <2>4, <3>1, <3>4
    <3> QED
      BY <3>3, <3>4
  <2>7. \A m \in Node : Len(relay'[m]) <= RelayCap
    BY <2>2, <2>3 DEF Room
  <2>8. UNCHANGED breaks
    BY <1>2 DEF BroadcastVaultEventWithSig
  <2> QED
    BY <2>6, <2>7, <2>8 DEF Room
<1>3. ASSUME NEW n \in Node, NEW p \in Node, VaultEventMsg(n, p) PROVE Room'
  <2> DEFINE l == <<n, p>>
  <2>1. l \in Pair /\ queued[l] \in Seq(Signer) /\ queued[l] # <<>> /\ Len(queued[l]) <= QueueCap
    BY <1>0, <1>3 DEF Typed, Room, VaultEventMsg, Pair
  <2>2. Len(Tail(queued[l])) <= QueueCap /\ Head(queued[l]) \in Signer
    BY <2>1, TailShorter, InTail, SigsAssumption
  <2>3. \A m \in Pair : queued'[m] = IF m = l THEN Tail(queued[l]) ELSE queued[m]
    BY <1>0, <1>3 DEF Typed, VaultEventMsg
  <2>4. ToRelay(p, Head(queued[l])) /\ UNCHANGED breaks
    BY <1>3 DEF VaultEventMsg
  <2> HIDE DEF l
  <2>5. \A m \in Node : Len(relay'[m]) <= RelayCap
    BY <1>0, <2>2, <2>4, ToRelayRoom
  <2>6. \A m \in Pair : Len(queued'[m]) <= QueueCap
    BY <2>2, <2>3 DEF Room
  <2> QED
    BY <2>4, <2>5, <2>6 DEF Room
<1>4. ASSUME NEW l \in Links, Register(l) PROVE Room'
  BY <1>4 DEF Register, Room
<1>5. ASSUME NEW l \in Links, Unregister(l) PROVE Room'
  <2>1. Forget({l}) /\ Break /\ UNCHANGED relay
    BY <1>5 DEF Unregister
  <2>2. (\A e \in Pair : Len(queued'[e]) <= QueueCap) /\ breaks' \in 0..MaxBreaks
    BY <2>1, ForgetRoom
  <2> QED
    BY <2>1, <2>2 DEF Room
<1>6. ASSUME NEW n \in Node, Restart(n) PROVE Room'
  <2>1. Forget({l \in Links : n \in l}) /\ Break
    BY <1>6 DEF Restart
  <2>2. (\A e \in Pair : Len(queued'[e]) <= QueueCap) /\ breaks' \in 0..MaxBreaks
    BY <2>1, ForgetRoom
  <2>3. \A m \in Node : relay'[m] = IF m = n THEN <<>> ELSE relay[m]
    BY <1>0, <1>6 DEF Restart, Typed
  <2>4. \A m \in Node : Len(relay'[m]) <= RelayCap
    BY <2>3, SigsAssumption DEF Room
  <2> QED
    BY <2>2, <2>4 DEF Room
<1>7. CASE UNCHANGED vars
  BY <1>7 DEF vars, Room
<1> QED
  BY <1>1, <1>2, <1>3, <1>4, <1>5, <1>6, <1>7 DEF Next

(* The state keeps its types, and vaultEventWithSigCh and the queues towards *)
(* the peers never hold more than their capacity, however many nodes, peers  *)
(* and signatures there are (AsyncSendVaultEventWithSigs drops, the senders  *)
(* to the channel wait).                                                     *)
THEOREM SigsTypeCorrect == Spec => []TypeOK
<1>1. Init => Room
  BY SigsAssumption DEF Init, Room, Pair
<1>2. SigsInv /\ Room => TypeOK
  BY DEF SigsInv, Typed, Room, TypeOK, Pair
<1> QED
  BY <1>1, <1>2, InitSigs, NextSigs, NextRoom, PTL DEF Spec
===============================================================================
