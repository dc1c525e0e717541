------------------------------ MODULE FeedSpec ------------------------------
(***************************************************************************)
(* What event.Feed promises (event/feed.go): "Send delivers to all          *)
(* subscribed channels simultaneously.  It returns the number of subscribers *)
(* that the value was sent to."                                              *)
(*                                                                          *)
(* One send at a time fixes the set of its receivers, serves each of them    *)
(* once, leaves out those that unsubscribe before they are served, and       *)
(* returns when nobody is left.  A subscription made during a send belongs   *)
(* to the next one.                                                          *)
(***************************************************************************)
EXTENDS Naturals, Sequences, FiniteSets

CONSTANTS
    Sub,        \* subscriptions, each with a channel of its own
    ChanCap,    \* buffer of a channel
    MaxSends    \* bound: values sent; the k-th send sends k

VARIABLES
    subscribed, \* the subscriptions
    to,         \* receivers of the send in progress that are still to be served
    sending,    \* whether a send is in progress
    nsent,      \* receivers it has served
    sends,      \* sends begun
    chan,       \* values in the channel of each subscription
    total       \* sum of the results of the sends that have returned

vars == <<subscribed, to, sending, nsent, sends, chan, total>>

Init ==
    /\ subscribed = {}
    /\ to = {}
    /\ sending = FALSE
    /\ nsent = 0
    /\ sends = 0
    /\ chan = [c \in Sub |-> <<>>]
    /\ total = 0

Subscribe(c) ==
    /\ c \notin subscribed
    /\ subscribed' = subscribed \cup {c}
    /\ UNCHANGED <<to, sending, nsent, sends, chan, total>>

Unsubscribe(c) ==
    /\ c \in subscribed
    /\ subscribed' = subscribed \ {c}
    /\ to' = to \ {c}
    /\ UNCHANGED <<sending, nsent, sends, chan, total>>

BeginSend ==
    /\ ~sending
    /\ sending' = TRUE
    /\ sends' = sends + 1
    /\ to' = subscribed
    /\ nsent' = 0
    /\ UNCHANGED <<subscribed, chan, total>>

Serve(c) ==
    /\ sending /\ c \in to
    /\ Len(chan[c]) < ChanCap
    /\ chan' = [chan EXCEPT ![c] = Append(@, sends)]
    /\ to' = to \ {c}
    /\ nsent' = nsent + 1
    /\ UNCHANGED <<subscribed, sending, sends, total>>

EndSend ==
    /\ sending /\ to = {}
    /\ sending' = FALSE
    /\ nsent' = 0
    /\ total' = total + nsent
    /\ UNCHANGED <<subscribed, to, sends, chan>>

Read(c) ==
    /\ chan[c] # <<>>
    /\ chan' = [chan EXCEPT ![c] = Tail(@)]
    /\ UNCHANGED <<subscribed, to, sending, nsent, sends, total>>

Next ==
    \/ BeginSend \/ EndSend
    \/ \E c \in Sub : Subscribe(c) \/ Unsubscribe(c) \/ Serve(c) \/ Read(c)

Spec == Init /\ [][Next]_vars
=============================================================================
