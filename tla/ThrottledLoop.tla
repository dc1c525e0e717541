---------------------------- MODULE ThrottledLoop ----------------------------
(***************************************************************************)
(* The throttle that VaultScanStatus, ScanVaultEvents, CommitTokenMints and  *)
(* RejectTokenMints share (sentinel/xdefi.go): a ticker fires every Interval *)
(* seconds, and its tick is skipped when time.Now() is after lastCall plus   *)
(* Interval seconds.  lastCall starts an hour in the past and is set when    *)
(* the work of a tick is done.                                               *)
(***************************************************************************)
EXTENDS Naturals

CONSTANTS
    Interval,   \* VaultCheckInterval or VaultScanStatusInterval, in seconds; positive
    Hour        \* age of lastCall at the start; more than Interval, larger ages are not told apart

VARIABLES
    age,        \* seconds since lastCall, at most Hour
    phase,      \* seconds since the ticker last fired
    tick,       \* whether a tick waits in ticker.C, which holds one
    worked      \* whether the work has been done at least once

vars == <<age, phase, tick, worked>>

TypeOK ==
    /\ age \in 0..Hour
    /\ phase \in 0..(Interval - 1)
    /\ tick \in BOOLEAN
    /\ worked \in BOOLEAN

Init ==
    /\ age = Hour
    /\ phase = 0
    /\ tick = FALSE
    /\ worked = FALSE

(* A second passes. *)
Second ==
    /\ age' = IF age < Hour THEN age + 1 ELSE Hour
    /\ phase' = (phase + 1) % Interval
    /\ tick' = (tick \/ phase' = 0)
    /\ UNCHANGED worked

Throttled == age > Interval

(* The tick is skipped with continue. *)
Skip ==
    /\ tick /\ Throttled
    /\ tick' = FALSE
    /\ UNCHANGED <<age, phase, worked>>

(* The tick does the work, and lastCall is set. *)
Work ==
    /\ tick /\ ~Throttled
    /\ tick' = FALSE
    /\ worked' = TRUE
    /\ age' = 0
    /\ UNCHANGED phase

Next == Second \/ Skip \/ Work

(* Time passes, and the loop takes its ticks. *)
Spec == Init /\ [][Next]_vars /\ WF_vars(Second) /\ WF_vars(Skip \/ Work)

(* "xchain会定时监听X链上的vault合约的deposit事件" (README.md: xchain watches  *)
(* the deposit events of the vault periodically): the work of the loop is    *)
(* eventually done.                                                          *)
WorkIsDone == <>worked
=============================================================================
