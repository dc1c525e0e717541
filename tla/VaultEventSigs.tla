--------------------------- MODULE VaultEventSigs ---------------------------
(***************************************************************************)
(* How the nodes collect each other's signatures of one vault event          *)
(* (sentinel/sentinel.go, mc/handler.go, mc/peer.go):                        *)
(*                                                                          *)
(*   - a node that scans the event signs it, keeps the signature and hands   *)
(*     it to its broadcast loop; it scans the event again, and signs it      *)
(*     again, until the vault watermark has passed it;                       *)
(*   - the broadcast loop queues a signature for every peer that is not      *)
(*     known to have it, and drops it for a peer whose queue is full;        *)
(*   - a node that receives a signature keeps it and relays it the same way. *)
(*                                                                          *)
(* A signature is named by its signer: BLS signing is deterministic.  What   *)
(* a queue holds when its connection breaks is lost.                         *)
(***************************************************************************)
EXTENDS Naturals, Sequences, FiniteSets

CONSTANTS
    Node,           \* the xchain nodes
    Signer,         \* the nodes that sign: those with a share of the group key
    Links,          \* the pairs of nodes that may be connected: sets of two nodes
    Threshold,      \* sentinel.Threshold(): signatures an event needs
    QueueCap,       \* maxQueuedVaultEvents: queue towards a peer
    RelayCap,       \* capacity of vaultEventWithSigCh
    MaxBreaks       \* bound: connections that break and nodes that restart

ASSUME SigsAssumption ==
    /\ Signer \subseteq Node
    /\ \A l \in Links : l \subseteq Node
    /\ Threshold \in Nat /\ MaxBreaks \in Nat
    /\ QueueCap \in Nat \ {0} /\ RelayCap \in Nat \ {0}

(* The string under which VaultEventsSigs holds a signature: printed in      *)
(* hexadecimal or as its raw bytes.                                          *)
Entry == {"hex", "raw"} \X Signer

VARIABLES
    sigs,       \* VaultEventsSigs of each node; {}: the event is not in the map
    relay,      \* vaultEventWithSigCh of each node
    conn,       \* the pairs that are connected
    known,      \* knownVaultEventWithSigs: what node n knows its peer p to have
    queued,     \* queuedVaultEventWithSigs of node n for its peer p
    breaks      \* connections broken and nodes restarted so far

vars == <<sigs, relay, conn, known, queued, breaks>>

TypeOK ==
    /\ sigs \in [Node -> SUBSET Entry]
    /\ relay \in [Node -> Seq(Signer)] /\ \A n \in Node : Len(relay[n]) <= RelayCap
    /\ conn \subseteq Links
    /\ known \in [Node \X Node -> SUBSET Signer]
    /\ queued \in [Node \X Node -> Seq(Signer)] /\ \A l \in Node \X Node : Len(queued[l]) <= QueueCap
    /\ breaks \in 0..MaxBreaks

Init ==
    /\ sigs = [n \in Node |-> {}]
    /\ relay = [n \in Node |-> <<>>]
    /\ conn = {}
    /\ known = [l \in Node \X Node |-> {}]
    /\ queued = [l \in Node \X Node |-> <<>>]
    /\ breaks = 0

-----------------------------------------------------------------------------
(* Faulty variant of ProcessVaultEventWithSig: every signature is stored     *)
(* under both names.                                                         *)
ProcessPrintedTwice(n, s) == sigs' = [sigs EXCEPT ![n] = @ \cup {<<"hex", s>>, <<"raw", s>>}]

(* The first signature of an event is stored printed, later ones raw. *)
ProcessVaultEventWithSig(n, s) ==
    sigs' = [sigs EXCEPT ![n] = IF @ = {} THEN {<<"hex", s>>} ELSE @ \cup {<<"raw", s>>}]

(* Faulty variant of ToRelay: the channel has no limit. *)
ToRelayUnbounded(n, s) == relay' = [relay EXCEPT ![n] = Append(@, s)]

(* A send to the channel of the broadcast loop, which blocks while it is     *)
(* full.                                                                     *)
ToRelay(n, s) ==
    /\ Len(relay[n]) < RelayCap
    /\ relay' = [relay EXCEPT ![n] = Append(@, s)]

(* scanVaultEvents finds the event, signs it and sends it to the feed the    *)
(* broadcast loop reads.                                                     *)
ScanEvent(n) ==
    /\ ProcessVaultEventWithSig(n, n)
    /\ ToRelay(n, n)
    /\ UNCHANGED <<conn, known, queued, breaks>>

Peers(n) == {p \in Node : {n, p} \in conn /\ p # n}

PeersWithoutVaultEventWithSig(n, s) == {p \in Peers(n) : s \notin known[<<n, p>>]}

(* Faulty variant of AsyncSendVaultEventWithSigs: a peer is marked although  *)
(* its queue was full.                                                       *)
AsyncSendMarksDropped(n, to, s) ==
    /\ queued' = [l \in Node \X Node |->
          IF l \in {<<n, p>> : p \in to} /\ Len(queued[l]) < QueueCap THEN Append(queued[l], s) ELSE queued[l]]
    /\ known' = [l \in Node \X Node |->
          IF l \in {<<n, p>> : p \in to} THEN known[l] \cup {s} ELSE known[l]]

(* A signature is queued for the peers whose queue has room, which are then  *)
(* known to have it, and dropped for the others.                             *)
AsyncSendVaultEventWithSigs(n, to, s) ==
    LET open == {<<n, p>> : p \in {q \in to : Len(queued[<<n, q>>]) < QueueCap}}
    IN  /\ queued' = [l \in Node \X Node |-> IF l \in open THEN Append(queued[l], s) ELSE queued[l]]
        /\ known' = [l \in Node \X Node |-> IF l \in open THEN known[l] \cup {s} ELSE known[l]]

(* vaultEventBroadcastLoop. *)
BroadcastVaultEventWithSig(n) ==
    /\ relay[n] # <<>>
    /\ relay' = [relay EXCEPT ![n] = Tail(@)]
    /\ LET s == Head(relay[n])
       IN  AsyncSendVaultEventWithSigs(n, PeersWithoutVaultEventWithSig(n, s), s)
    /\ UNCHANGED <<sigs, conn, breaks>>

(* The broadcast loop of a peer sends the first signature of its queue, and  *)
(* the VaultEventMsg handler of the receiver takes it.                       *)
VaultEventMsg(n, p) ==
    /\ {n, p} \in conn /\ queued[<<n, p>>] # <<>>
    /\ LET s == Head(queued[<<n, p>>]) IN
       /\ queued' = [queued EXCEPT ![<<n, p>>] = Tail(@)]
       /\ known' = [known EXCEPT ![<<p, n>>] = @ \cup {s}]
       /\ ProcessVaultEventWithSig(p, s)
       /\ ToRelay(p, s)
    /\ UNCHANGED <<conn, breaks>>

-----------------------------------------------------------------------------
(* Peers come with empty sets of known signatures and empty queues.          *)
Register(l) ==
    /\ l \in Links \ conn
    /\ conn' = conn \cup {l}
    /\ UNCHANGED <<sigs, relay, known, queued, breaks>>

(* Faulty variant of Forget: what a peer was known to have is kept. *)
ForgetKeepsKnown(ls) ==
    /\ conn' = conn \ ls
    /\ queued' = [e \in Node \X Node |-> IF {e[1], e[2]} \in ls THEN <<>> ELSE queued[e]]
    /\ UNCHANGED known

(* The peers at both ends of the connections are gone, with their queues.    *)
Forget(ls) ==
    /\ conn' = conn \ ls
    /\ known' = [e \in Node \X Node |-> IF {e[1], e[2]} \in ls THEN {} ELSE known[e]]
    /\ queued' = [e \in Node \X Node |-> IF {e[1], e[2]} \in ls THEN <<>> ELSE queued[e]]

(* The bound on broken connections and restarts. *)
Break ==
    /\ breaks < MaxBreaks
    /\ breaks' = breaks + 1

Unregister(l) ==
    /\ l \in conn
    /\ Break
    /\ Forget({l})
    /\ UNCHANGED <<sigs, relay>>

(* A node stops and starts again without its signatures and connections.     *)
Restart(n) ==
    /\ Break
    /\ Forget({l \in Links : n \in l})
    /\ sigs' = [sigs EXCEPT ![n] = {}]
    /\ relay' = [relay EXCEPT ![n] = <<>>]

Next ==
    \/ \E n \in Signer : ScanEvent(n)
    \/ \E n \in Node : BroadcastVaultEventWithSig(n) \/ Restart(n)
    \/ \E n, p \in Node : VaultEventMsg(n, p)
    \/ \E l \in Links : Register(l) \/ Unregister(l)

(* The directions signatures travel in: both ways over every link. *)
Direction == {d \in Node \X Node : {d[1], d[2]} \in Links /\ d[1] # d[2]}

(* Nodes scan the event again and again, loops that can run do run, and      *)
(* peers connect.  The channel of the broadcast loop has several senders, so *)
(* a sender may find it full now and then.                                   *)
Fairness ==
    /\ \A n \in Signer : SF_vars(ScanEvent(n))
    /\ \A n \in Node : WF_vars(BroadcastVaultEventWithSig(n))
    /\ \A d \in Direction : SF_vars(VaultEventMsg(d[1], d[2]))
    /\ \A l \in Links : WF_vars(Register(l))

Spec == Init /\ [][Next]_vars /\ Fairness

-----------------------------------------------------------------------------
(* Properties.                                                               *)

Signers(n) == {e[2] : e \in sigs[n]}

(* ReceivedAllSigs of QueueVaultEventsBatch, for a batch of this event. *)
ReceivedAllSigs(n) == sigs[n] # {} /\ Cardinality(sigs[n]) >= Threshold

(* Suppressing duplicates loses nothing: a peer a node believes to have a    *)
(* signature has it, or the signature waits in the queue towards it, through *)
(* full queues, broken connections and restarts.                             *)
KnownIsDelivered ==
    \A n, p \in Node : \A s \in known[<<n, p>>] :
        s \in Signers(p) \/ \E i \in 1..Len(queued[<<n, p>>]) : queued[<<n, p>>][i] = s

(* The count of ReceivedAllSigs exceeds the number of signers by at most     *)
(* one: only the signature that created the entry can be there twice, as     *)
(* text and as bytes.                                                        *)
CountWithinOne ==
    \A n \in Node : Cardinality(sigs[n]) <= Cardinality(Signers(n)) + 1

(* "queue: wait for enough sigs" (sentinel.go): a batch goes on to the       *)
(* commit stage only with the signatures of Threshold nodes.                 *)
EnoughSigners ==
    \A n \in Node : ReceivedAllSigs(n) => Cardinality(Signers(n)) >= Threshold

(* A signer's signature reaches the nodes it can connect to for good,         *)
(* however often queues were full, connections broke or nodes restarted      *)
(* before: what was dropped or forgotten is sent again.                      *)
PeersGetSigs == \A d \in Direction : d[1] \in Signer => <>[](d[1] \in Signers(d[2]))

(* A signature received from a peer is "sent to peers who don't have the     *)
(* event" (handler.go): in the end it is known to every node.                *)
AllSigsArrive == \A n \in Node, s \in Signer : <>[](s \in Signers(n))
=============================================================================
