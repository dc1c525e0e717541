----------------------------- MODULE MintForward -----------------------------
(***************************************************************************)
(* Forwarding recorded events to the target vault (commitTokenMints and      *)
(* CommitTokenMints in sentinel/xdefi.go), for one token mapping.            *)
(*                                                                          *)
(* A worker whose node has the turn reads the watermark of the target vault, *)
(* sends one transaction for each of the next recorded events, and waits for *)
(* the watermark to pass them, for at most MaxWait rounds.  A node may have  *)
(* two workers for a while: one of the previous configuration that has not   *)
(* yet left its wait, and the one that replaces it.                          *)
(*                                                                          *)
(* The target vault is not part of this repository.  The workers rely on it  *)
(* to carry out exactly the transaction whose nonce is its watermark, and to *)
(* move the watermark past it; transactions of one account are carried out   *)
(* in the order they were sent.                                              *)
(***************************************************************************)
EXTENDS Naturals, Sequences

CONSTANTS
    NodeCount,      \* nodes in the node list of the DKG; their indices are 0..NodeCount-1
    Forwarder,         \* the forwarding workers
    NodeOf,         \* NodeOf[w]: index of the node that runs worker w
    Seed,           \* MyTurnSeed
    BatchSize,      \* MintBatchSize
    MaxWait,        \* rounds of waiting for the watermark (20 in the code)
    MaxEvents,      \* bound: events recorded in XEvents
    Amount,         \* the amounts of the events; the contract allows 1..2^256-1
    Word,           \* 2^64: an amount is tested by its low word
    PoolCap,        \* bound: pending transactions of an account; a worker does not
                    \* send while there are so many
    MaxErrors,      \* bound: failed calls and failed sends
    MayStop         \* nodes that may stop for good

ASSUME ForwardAssumption ==
    /\ NodeCount \in Nat \ {0} /\ NodeOf \in [Forwarder -> 0..(NodeCount - 1)]
    /\ {Seed, BatchSize, MaxWait, MaxEvents, PoolCap, MaxErrors} \subseteq Nat
    /\ MayStop \subseteq 0..(NodeCount - 1)
    /\ Amount \subseteq Nat \ {0} /\ Word \in Nat \ {0}

VARIABLES
    amounts,    \* XEvents: the amounts of the events with nonces 0, 1, ...
    mark,       \* watermark of the target vault
    pool,       \* pool[x]: nonces of the pending transactions of node x
    forwarder,     \* the workers
    errors,     \* calls and sends that failed so far
    stopped     \* nodes that have stopped

mintVars == <<amounts, mark, pool, forwarder, errors, stopped>>

Nonce == 0..MaxEvents
recorded == Len(amounts)
ForwarderRec ==
    [pc : {"idle", "send", "wait"}, before : Nonce, i : 0..BatchSize,
     committed : 0..BatchSize, wait : 0..MaxWait]

Idle == [pc |-> "idle", before |-> 0, i |-> 0, committed |-> 0, wait |-> 0]

MintTypeOK ==
    /\ amounts \in Seq(Amount) /\ recorded \in Nonce /\ mark \in Nonce
    /\ pool \in [0..(NodeCount - 1) -> Seq(Nonce)]
    /\ \A x \in 0..(NodeCount - 1) : Len(pool[x]) <= PoolCap
    /\ forwarder \in [Forwarder -> ForwarderRec]
    /\ \A w \in Forwarder : forwarder[w].committed <= forwarder[w].i
    /\ errors \in 0..MaxErrors
    /\ stopped \subseteq MayStop

MintInit ==
    /\ amounts = <<>>
    /\ mark = 0
    /\ pool = [x \in 0..(NodeCount - 1) |-> <<>>]
    /\ forwarder = [w \in Forwarder |-> Idle]
    /\ errors = 0
    /\ stopped = {}

-----------------------------------------------------------------------------
(* The rest of the system and of the world.                                  *)

(* The commit stage of the pipeline stores one more event in XEvents.        *)
Record ==
    /\ recorded < MaxEvents
    /\ \E a \in Amount : amounts' = Append(amounts, a)
    /\ UNCHANGED <<mark, pool, forwarder, errors, stopped>>

(* The target chain executes the oldest transaction of an account, which     *)
(* reverts unless its nonce is the watermark.                                *)
Execute(x) ==
    /\ pool[x] # <<>>
    /\ mark' = IF Head(pool[x]) = mark THEN mark + 1 ELSE mark
    /\ pool' = [pool EXCEPT ![x] = Tail(@)]
    /\ UNCHANGED <<amounts, forwarder, errors, stopped>>

(* A node stops for good. *)
Stop(x) ==
    /\ x \in MayStop \ stopped
    /\ stopped' = stopped \cup {x}
    /\ forwarder' = [w \in Forwarder |-> IF NodeOf[w] = x THEN Idle ELSE forwarder[w]]
    /\ UNCHANGED <<amounts, mark, pool, errors>>

-----------------------------------------------------------------------------
(* commitTokenMints.                                                         *)

myTurn(w) == Seed % NodeCount = NodeOf[w]

At(w, pc) == forwarder[w].pc = pc /\ NodeOf[w] \notin stopped

Set(w, r) == forwarder' = [forwarder EXCEPT ![w] = r]

Fails ==
    /\ errors < MaxErrors
    /\ errors' = errors + 1

(* The watermark is read and it is this node's turn.  A failed call, no      *)
(* transactor, no balance or the turn of another node ends the round, which  *)
(* leaves the state as it is.                                                *)
BeginRound(w) ==
    /\ At(w, "idle") /\ myTurn(w)
    /\ Set(w, [Idle EXCEPT !.pc = "send", !.before = mark])
    /\ UNCHANGED <<amounts, mark, pool, errors, stopped>>

(* Faulty variant of MoreToSend: an event XEvents does not have is sent. *)
MoreToSendUnchecked(w) ==
    /\ forwarder[w].i < BatchSize
    /\ forwarder[w].before + forwarder[w].i < MaxEvents

(* The loop has an event to send.  An event that is not in XEvents decodes   *)
(* to no amount; Amount.Int64() is the low word of the amount of one that is.*)
MoreToSend(w) ==
    /\ forwarder[w].i < BatchSize
    /\ forwarder[w].before + forwarder[w].i < recorded
    /\ amounts[forwarder[w].before + forwarder[w].i + 1] % Word # 0

(* PrepareMints or Withdraw is sent; the loop goes on. *)
Send(w) ==
    LET x == NodeOf[w]
    IN  /\ At(w, "send") /\ MoreToSend(w) /\ Len(pool[x]) < PoolCap
        /\ pool' = [pool EXCEPT ![x] = Append(@, forwarder[w].before + forwarder[w].i)]
        /\ Set(w, [forwarder[w] EXCEPT !.i = @ + 1, !.committed = @ + 1])
        /\ UNCHANGED <<amounts, mark, errors, stopped>>

(* The send fails; the loop goes on with the next event. *)
SendFails(w) ==
    /\ At(w, "send") /\ MoreToSend(w)
    /\ Fails
    /\ Set(w, [forwarder[w] EXCEPT !.i = @ + 1])
    /\ UNCHANGED <<amounts, mark, pool, stopped>>

(* XEvents cannot be read, which ends the loop like an event that is not     *)
(* there.  A round that sent nothing does not wait.                          *)
LoopEnds(w) ==
    /\ At(w, "send")
    /\ IF MoreToSend(w) THEN Fails ELSE UNCHANGED errors
    /\ Set(w, IF forwarder[w].committed = 0 THEN Idle ELSE [forwarder[w] EXCEPT !.pc = "wait"])
    /\ UNCHANGED <<amounts, mark, pool, stopped>>

(* The first break condition: the watermark has passed what was sent. *)
Confirmed(w) == mark = forwarder[w].before + forwarder[w].committed

WaitConfirmed(w) ==
    /\ At(w, "wait") /\ Confirmed(w)
    /\ Set(w, Idle)
    /\ UNCHANGED <<amounts, mark, pool, errors, stopped>>

(* Faulty variant of WaitRound: the wait has no limit. *)
WaitRoundForever(w) ==
    /\ At(w, "wait") /\ ~Confirmed(w)
    /\ Set(w, [forwarder[w] EXCEPT !.wait = IF @ < MaxWait THEN @ + 1 ELSE @])
    /\ UNCHANGED <<amounts, mark, pool, errors, stopped>>

(* One more round of waiting; the round after the last one gives up. *)
WaitRound(w) ==
    /\ At(w, "wait") /\ ~Confirmed(w)
    /\ Set(w, IF forwarder[w].wait = MaxWait THEN Idle ELSE [forwarder[w] EXCEPT !.wait = @ + 1])
    /\ UNCHANGED <<amounts, mark, pool, errors, stopped>>

(* The third break condition: a new configuration arrives during the wait,   *)
(* and the worker ends.  The worker that replaces it starts as this one did. *)
WaitNewConfig(w) ==
    /\ At(w, "wait") /\ ~Confirmed(w)
    /\ Fails
    /\ Set(w, Idle)
    /\ UNCHANGED <<amounts, mark, pool, stopped>>

Round(w) ==
    \/ BeginRound(w) \/ Send(w) \/ SendFails(w) \/ LoopEnds(w)
    \/ WaitConfirmed(w) \/ WaitRound(w)

MintNext ==
    \/ Record
    \/ \E x \in 0..(NodeCount - 1) : Execute(x) \/ Stop(x)
    \/ \E w \in Forwarder : Round(w) \/ WaitNewConfig(w)

(* Workers go on with their rounds and pending transactions are executed.    *)
(* Workers share the account of their node, whose bound on pending           *)
(* transactions may hold a send back now and then.                           *)
MintFairness ==
    /\ \A x \in 0..(NodeCount - 1) : WF_mintVars(Execute(x))
    /\ \A w \in Forwarder : WF_mintVars(Round(w)) /\ SF_mintVars(Send(w))

MintSpec == MintInit /\ [][MintNext]_mintVars /\ MintFairness

-----------------------------------------------------------------------------
(* Properties.                                                               *)

(* Nothing is minted that was not recorded: every transaction under way is   *)
(* for an event of XEvents, and the watermark stays within XEvents.          *)
MintsRecorded ==
    /\ MintTypeOK
    /\ mark <= recorded
    /\ \A x \in 0..(NodeCount - 1) : \A k \in 1..Len(pool[x]) : pool[x][k] < recorded

(* Every recorded event is forwarded in the end, although sends fail in the  *)
(* middle of a batch, batches overlap with transactions of earlier rounds,   *)
(* and the watermark may skip the value a worker waits for.                  *)
AllForwarded == \A e \in 1..MaxEvents : recorded >= e ~> mark >= e

(* The loop ends early "if no more vault event" (xdefi.go): when no call     *)
(* failed and the batch is not full, XEvents has no event with that nonce.   *)
EndsAfterLast ==
    [][\A w \in Forwarder : LoopEnds(w) /\ errors' = errors =>
          forwarder[w].i = BatchSize \/ forwarder[w].before + forwarder[w].i >= recorded]_mintVars

(* "each node will mint for n blocks, then hand it over to next node"        *)
(* (xdefi.go): events are still forwarded when one of several nodes stops.   *)
HandedOver == AllForwarded
=============================================================================
