-------------------------------- MODULE Feed --------------------------------
(***************************************************************************)
(* event.Feed (event/feed.go), the one-to-many channel the node's parts use  *)
(* to tell each other of blocks, transactions, vault events and              *)
(* configurations.                                                           *)
(*                                                                          *)
(* sendCases and cases are slices of one array: cases is its prefix of       *)
(* length "active", the channels the send in progress still has to serve,    *)
(* and swapping a served channel behind the prefix reorders sendCases too.   *)
(* Index 0 of the array, the removeSub channel, is left out: positions here  *)
(* are the code's positions from firstSubSendCase on, counted from 1.        *)
(***************************************************************************)
EXTENDS Naturals, Sequences, Functions

CONSTANTS
    Sub,        \* subscriptions, each with a channel of its own
    Sender,     \* goroutines that call Send
    ChanCap,    \* buffer of a channel
    MaxSends    \* bound: values sent; the k-th send sends k

Nobody == "nobody"

ASSUME FeedAssumption == ChanCap \in Nat \ {0} /\ MaxSends \in Nat /\ Nobody \notin Sender

VARIABLES
    inbox,      \* subscribed channels not yet in sendCases
    sendCases,  \* the channels sends serve
    active,     \* length of the prefix "cases"
    lock,       \* who holds sendLock: a sender or Nobody
    pc,         \* where the sender that holds the lock is: "fast" or "select"
    i,          \* loop index of the fast path
    nsent,      \* channels the send in progress has served
    sends,      \* sends begun
    sub,        \* state of each subscription
    chan,       \* values in the channel of each subscription
    total       \* sum of the results of the sends that have returned

vars == <<inbox, sendCases, active, lock, pc, i, nsent, sends, sub, chan, total>>
sendVars == <<active, lock, pc, i, nsent, sends, total>>

TypeOK ==
    /\ inbox \in Seq(Sub) /\ sendCases \in Seq(Sub)
    /\ IsInjective(inbox \o sendCases)
    /\ active \in 0..Len(sendCases)
    /\ lock \in Sender \cup {Nobody}
    /\ pc \in {"fast", "select"}
    /\ i \in 1..(active + 1)
    /\ sends \in 0..MaxSends
    /\ sub \in [Sub -> {"new", "in", "removing", "gone"}]
    /\ \A c \in Sub : sub[c] \in {"in", "removing"} <=> c \in Range(inbox \o sendCases)
    /\ \A c \in Sub : Len(chan[c]) <= ChanCap

Init ==
    /\ inbox = <<>> /\ sendCases = <<>>
    /\ active = 0
    /\ lock = Nobody
    /\ pc = "fast"
    /\ i = 1
    /\ nsent = 0
    /\ sends = 0
    /\ sub = [c \in Sub |-> "new"]
    /\ chan = [c \in Sub |-> <<>>]
    /\ total = 0

-----------------------------------------------------------------------------
(* Slices of cases.                                                          *)

find(cs, c) == CHOOSE k \in 1..Len(cs) : cs[k] = c

delete(cs, k) == SubSeq(cs, 1, k - 1) \o SubSeq(cs, k + 1, Len(cs))

(* Faulty variant of deactivate: the prefix is cut without the swap. *)
deactivateLast(cs, k, last) == cs

(* The case at position k of a prefix of length last goes to its end. *)
deactivate(cs, k, last) == [cs EXCEPT ![k] = cs[last], ![last] = cs[k]]

-----------------------------------------------------------------------------
(* Subscriptions.                                                            *)

Subscribe(c) ==
    /\ sub[c] = "new"
    /\ inbox' = Append(inbox, c)
    /\ sub' = [sub EXCEPT ![c] = "in"]
    /\ UNCHANGED <<sendCases, sendVars, chan>>

(* remove: the channel is deleted from the inbox, or is left to the select   *)
(* statement that follows.                                                   *)
RemoveFromInbox(c) ==
    /\ sub[c] = "in"
    /\ \/ /\ c \in Range(inbox)
          /\ inbox' = delete(inbox, find(inbox, c))
          /\ sub' = [sub EXCEPT ![c] = "gone"]
       \/ /\ c \notin Range(inbox)
          /\ sub' = [sub EXCEPT ![c] = "removing"]
          /\ UNCHANGED inbox
    /\ UNCHANGED <<sendCases, sendVars, chan>>

(* No Send is in progress: the channel is deleted under the send lock.       *)
RemoveUnderLock(c) ==
    /\ sub[c] = "removing" /\ lock = Nobody
    /\ sendCases' = delete(sendCases, find(sendCases, c))
    /\ sub' = [sub EXCEPT ![c] = "gone"]
    /\ UNCHANGED <<inbox, sendVars, chan>>

-----------------------------------------------------------------------------
(* Send.                                                                     *)

BeginSend(s) ==
    /\ lock = Nobody /\ sends < MaxSends
    /\ lock' = s
    /\ sendCases' = sendCases \o inbox
    /\ inbox' = <<>>
    /\ active' = Len(sendCases')
    /\ sends' = sends + 1
    /\ nsent' = 0
    /\ pc' = "fast" /\ i' = 1
    /\ UNCHANGED <<sub, chan, total>>

(* Channel k of the prefix takes the value and leaves the prefix. *)
Deliver(k) ==
    /\ chan' = [chan EXCEPT ![sendCases[k]] = Append(@, sends)]
    /\ sendCases' = deactivate(sendCases, k, active)
    /\ active' = active - 1
    /\ nsent' = nsent + 1

Room(k) == Len(chan[sendCases[k]]) < ChanCap

(* One iteration of the fast path. *)
TrySend(s) ==
    /\ lock = s /\ pc = "fast" /\ i <= active
    /\ IF Room(i)
       THEN Deliver(i) /\ UNCHANGED i
       ELSE i' = i + 1 /\ UNCHANGED <<chan, sendCases, active, nsent>>
    /\ UNCHANGED <<inbox, lock, pc, sends, sub, total>>

(* Faulty variant of FastPathDone: nobody left is not noticed. *)
FastPathNoBreak(s) ==
    /\ lock = s /\ pc = "fast" /\ i > active
    /\ i' = 1 /\ pc' = "select"
    /\ UNCHANGED <<inbox, sendCases, active, lock, nsent, sends, sub, chan, total>>

(* The fast path is over: Send returns when nobody is left. *)
FastPathDone(s) ==
    /\ lock = s /\ pc = "fast" /\ i > active
    /\ i' = 1
    /\ IF active = 0
       THEN /\ lock' = Nobody /\ nsent' = 0
            /\ total' = total + nsent
            /\ UNCHANGED pc
       ELSE pc' = "select" /\ UNCHANGED <<lock, nsent, total>>
    /\ UNCHANGED <<inbox, sendCases, active, sends, sub, chan>>

SelectSend(s) ==
    /\ lock = s /\ pc = "select"
    /\ \E k \in 1..active : Room(k) /\ Deliver(k)
    /\ pc' = "fast" /\ i' = 1
    /\ UNCHANGED <<inbox, lock, sends, sub, total>>

(* Faulty variant of ActiveAfterDelete: off by one at the end of the prefix. *)
ActiveAfterDeleteShort(index) == IF index < active THEN active - 1 ELSE active

(* The prefix shrinks only if the deleted channel was in it. *)
ActiveAfterDelete(index) == IF index <= active THEN active - 1 ELSE active

(* Faulty variant of SelectRemove: the select statement leaves removeSub out.*)
SelectRemoveNever(s, c) ==
    /\ lock = s /\ pc = "select" /\ active = 0
    /\ sub[c] = "removing"
    /\ UNCHANGED vars

(* The select statement takes a channel from removeSub. *)
SelectRemove(s, c) ==
    /\ lock = s /\ pc = "select"
    /\ sub[c] = "removing"
    /\ LET index == find(sendCases, c)
       IN  /\ sendCases' = delete(sendCases, index)
           /\ active' = ActiveAfterDelete(index)
    /\ sub' = [sub EXCEPT ![c] = "gone"]
    /\ pc' = "fast" /\ i' = 1
    /\ UNCHANGED <<inbox, lock, nsent, sends, chan, total>>

(* A subscriber reads its channel. *)
Read(c) ==
    /\ chan[c] # <<>>
    /\ chan' = [chan EXCEPT ![c] = Tail(@)]
    /\ UNCHANGED <<inbox, sendCases, sendVars, sub>>

SendStep(s) == TrySend(s) \/ FastPathDone(s) \/ SelectSend(s)

Next ==
    \/ \E c \in Sub : Subscribe(c) \/ RemoveFromInbox(c) \/ RemoveUnderLock(c) \/ Read(c)
    \/ \E s \in Sender : BeginSend(s) \/ SendStep(s)
    \/ \E s \in Sender, c \in Sub : SelectRemove(s, c)

(* A Send in progress and an Unsubscribe that has begun go on when they can. *)
(* Nothing makes a subscriber read its channel or unsubscribe.               *)
Fairness ==
    /\ \A s \in Sender : WF_vars(SendStep(s))
    /\ \A c \in Sub : WF_vars(RemoveUnderLock(c) \/ \E s \in Sender : SelectRemove(s, c))

Spec == Init /\ [][Next]_vars /\ Fairness

-----------------------------------------------------------------------------
(* Properties.                                                               *)

Promise == INSTANCE FeedSpec WITH
    subscribed <- Range(inbox \o sendCases),
    to <- {sendCases[k] : k \in 1..active},
    sending <- lock # Nobody

(* Feed does what it promises: the swaps and deletions in the shared array   *)
(* never serve a subscriber twice, skip one, or serve one that is gone.      *)
FeedImplementsSpec == Promise!Spec

(* Unsubscribe returns even while a Send is blocked on the very channel that *)
(* unsubscribes, whoever reads or does not read.                             *)
UnsubscribeReturns == \A c \in Sub : sub[c] = "removing" ~> sub[c] = "gone"

(* Send returns when every subscriber reads its channel or unsubscribes.     *)
SendReturns ==
    (\A c \in Sub : []<>(chan[c] = <<>> \/ sub[c] = "gone")) => []<>(lock = Nobody)
=============================================================================
