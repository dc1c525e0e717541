---------------------------- MODULE ConfigReload ----------------------------
(***************************************************************************)
(* How a node takes over a new vault configuration (sentinel/sentinel.go,    *)
(* sentinel/xdefi.go):                                                       *)
(*                                                                          *)
(*   - ReloadConfigLoop polls XConfig, stores a newer configuration and      *)
(*     sends its version to every subscriber of configVersionFeed;           *)
(*   - startWatchersAndForwarders starts the workers of a new version;       *)
(*   - every worker stops when it receives a version newer than its own.     *)
(*                                                                          *)
(* The three share configVersion and vaultsConfig without a lock, so each    *)
(* read and write of them is a step of its own.  Feed.Send delivers to the   *)
(* subscribers in any order and waits for a full channel.  A worker stands   *)
(* for a goroutine of a direction of a vault pair; "work" is what it does    *)
(* between two visits to its select statement, looking at its channel        *)
(* meanwhile (scanVaultEvents, confirmVaultEvents, commitTokenMints).        *)
(***************************************************************************)
EXTENDS Naturals, Sequences

CONSTANTS
    MaxVersion,     \* bound: configurations published in XConfig
    Context,        \* the directions started for a configuration, in any order
    ConfigChanCap,  \* capacity of a newConfigChan
    DialFails       \* whether prepareCommonContext may find a context not ready

ASSUME ConfigAssumption ==
    /\ MaxVersion \in Nat \ {0}
    /\ ConfigChanCap \in Nat \ {0}
    /\ DialFails \in BOOLEAN

Version == 1..MaxVersion
Worker  == Version \X Context         \* the pass of the starter that made it, its direction
Starter == <<0, "starter">>
Channel == Worker \cup {Starter}

Known      == 0..MaxVersion           \* 0: none yet
Reload     == [pc : {"idle", "adopt", "version", "send"}, v : Known]
StarterRec == [pc : {"select", "drain", "check", "assign", "compare", "range", "start"},
               got : Known, i : Nat, data : Known, left : SUBSET Context]
WorkerRec  == [pc : {"none", "spawned", "select", "work", "putback", "closed", "gone"},
               ver : Known, data : Known, held : Known]

VARIABLES
    published,              \* XConfig: VaultConfigVersion
    vaultsConfig,           \* sentinel.vaultsConfig: the version it was read from
    configVersion,          \* sentinel.configVersion
    reload,                 \* ReloadConfigLoop
    to,                     \* Feed.Send: subscribers still to be served
    subscribed,             \* Feed: subscribed channels
    newConfigChan,          \* the newConfigChan of each subscriber
    starter,                \* startWatchersAndForwarders
    currentConfigVersion,   \* its local variable
    worker,                 \* the workers
    crashed                 \* the process has panicked

reloadVars == <<vaultsConfig, configVersion, reload>>
starterVars == <<starter, currentConfigVersion>>
configVars == <<published, reloadVars, to, subscribed, newConfigChan, starterVars, worker, crashed>>

ReloadTypeOK ==
    /\ published \in Version
    /\ vaultsConfig \in Known /\ configVersion \in Known
    /\ reload \in Reload
    /\ to \subseteq Channel /\ subscribed \subseteq Channel
    /\ newConfigChan \in [Channel -> Seq(Known)]
    /\ starter \in StarterRec
    /\ currentConfigVersion \in Known
    /\ worker \in [Worker -> WorkerRec]
    /\ crashed \in BOOLEAN

ReloadInit ==
    /\ published = 1
    /\ vaultsConfig = 0 /\ configVersion = 0
    /\ reload = [pc |-> "idle", v |-> 0]
    /\ to = {} /\ subscribed = {Starter}
    /\ newConfigChan = [c \in Channel |-> <<>>]
    /\ starter = [pc |-> "select", got |-> 0, i |-> 0, data |-> 0, left |-> {}]
    /\ currentConfigVersion = 0
    /\ worker = [w \in Worker |-> [pc |-> "none", ver |-> 0, data |-> 0, held |-> 0]]
    /\ crashed = FALSE

(* Somebody publishes a new configuration in the XConfig contract. *)
Publish ==
    /\ ~crashed
    /\ published < MaxVersion
    /\ published' = published + 1
    /\ UNCHANGED <<reloadVars, to, subscribed, newConfigChan, starterVars, worker, crashed>>

-----------------------------------------------------------------------------
(* ReloadConfigLoop.  A tick whose calls fail or whose data does not parse   *)
(* changes nothing.                                                          *)

ReloadRead ==
    /\ ~crashed
    /\ reload.pc = "idle"
    /\ reload' = [pc |-> "adopt", v |-> published]
    /\ UNCHANGED <<published, vaultsConfig, configVersion, to, subscribed, newConfigChan,
                   starterVars, worker, crashed>>

BeginConfigSend ==
    /\ reload' = [reload EXCEPT !.pc = "send"]
    /\ to' = subscribed

(* Faulty variant of SendAgain: a version is sent only once. *)
SendOnce ==
    /\ reload' = [reload EXCEPT !.pc = "idle"]
    /\ UNCHANGED to

(* The version is sent although it is not new. *)
SendAgain == BeginConfigSend

ReloadAdopt ==
    /\ ~crashed
    /\ reload.pc = "adopt"
    /\ \/ /\ reload.v > configVersion
          /\ vaultsConfig' = reload.v
          /\ reload' = [reload EXCEPT !.pc = "version"]
          /\ UNCHANGED to
       \/ /\ reload.v <= configVersion
          /\ SendAgain
          /\ UNCHANGED vaultsConfig
    /\ UNCHANGED <<published, configVersion, subscribed, newConfigChan, starterVars,
                   worker, crashed>>

(* Faulty variant of ReloadVersion: the version is sent but not stored. *)
ReloadVersionDropped ==
    /\ ~crashed
    /\ reload.pc = "version"
    /\ BeginConfigSend
    /\ UNCHANGED <<published, vaultsConfig, configVersion, subscribed, newConfigChan,
                   starterVars, worker, crashed>>

ReloadVersion ==
    /\ ~crashed
    /\ reload.pc = "version"
    /\ configVersion' = reload.v
    /\ BeginConfigSend
    /\ UNCHANGED <<published, vaultsConfig, subscribed, newConfigChan, starterVars,
                   worker, crashed>>

Closed(c) == c \in Worker /\ worker[c].pc = "closed"

(* Feed.Send serves one subscriber; a closed channel panics. *)
DeliverConfig(c) ==
    /\ ~crashed
    /\ reload.pc = "send" /\ c \in to
    /\ \/ /\ Closed(c)
          /\ crashed' = TRUE
          /\ UNCHANGED <<newConfigChan, to>>
       \/ /\ ~Closed(c)
          /\ Len(newConfigChan[c]) < ConfigChanCap
          /\ newConfigChan' = [newConfigChan EXCEPT ![c] = Append(@, reload.v)]
          /\ to' = to \ {c}
          /\ UNCHANGED crashed
    /\ UNCHANGED <<published, reloadVars, subscribed, starterVars, worker>>

SendDone ==
    /\ ~crashed
    /\ reload.pc = "send" /\ to = {}
    /\ reload' = [reload EXCEPT !.pc = "idle"]
    /\ UNCHANGED <<published, vaultsConfig, configVersion, to, subscribed, newConfigChan,
                   starterVars, worker, crashed>>

-----------------------------------------------------------------------------
(* startWatchersAndForwarders.                                               *)

StarterAt(pc) == starter' = [starter EXCEPT !.pc = pc]
TakeStarter(i) ==
    /\ starter' = [starter EXCEPT !.pc = "drain", !.got = Head(newConfigChan[Starter]), !.i = i]
    /\ newConfigChan' = [newConfigChan EXCEPT ![Starter] = Tail(@)]

(* The channel is emptied while i < len(newConfigChan), which shrinks. *)
StarterReceive ==
    /\ ~crashed
    /\ \/ /\ starter.pc = "select" /\ newConfigChan[Starter] # <<>>
          /\ TakeStarter(0)
       \/ /\ starter.pc = "drain" /\ starter.i < Len(newConfigChan[Starter])
          /\ TakeStarter(starter.i + 1)
       \/ /\ starter.pc = "drain" /\ starter.i >= Len(newConfigChan[Starter])
          /\ StarterAt("check")
          /\ UNCHANGED newConfigChan
    /\ UNCHANGED <<published, reloadVars, to, subscribed, currentConfigVersion, worker, crashed>>

StarterCheck ==
    /\ ~crashed
    /\ starter.pc = "check"
    /\ StarterAt(IF configVersion <= currentConfigVersion THEN "select" ELSE "assign")
    /\ UNCHANGED <<published, reloadVars, to, subscribed, newConfigChan,
                   currentConfigVersion, worker, crashed>>

StarterAssign ==
    /\ ~crashed
    /\ starter.pc = "assign"
    /\ currentConfigVersion' = configVersion
    /\ StarterAt("compare")
    /\ UNCHANGED <<published, reloadVars, to, subscribed, newConfigChan, worker, crashed>>

StarterCompare ==
    /\ ~crashed
    /\ starter.pc = "compare"
    /\ StarterAt(IF starter.got # configVersion THEN "select" ELSE "range")
    /\ UNCHANGED <<published, reloadVars, to, subscribed, newConfigChan,
                   currentConfigVersion, worker, crashed>>

StarterRange ==
    /\ ~crashed
    /\ starter.pc = "range"
    /\ starter' = [starter EXCEPT !.pc = "start", !.data = vaultsConfig, !.left = Context]
    /\ UNCHANGED <<published, reloadVars, to, subscribed, newConfigChan,
                   currentConfigVersion, worker, crashed>>

(* prepareCommonContext dials the chains; a context that is not ready is nil *)
(* and using it panics.                                                      *)
StarterStart ==
    /\ ~crashed
    /\ starter.pc = "start"
    /\ \/ /\ starter.left = {}
          /\ StarterAt("select")
          /\ UNCHANGED <<worker, crashed>>
       \/ \E x \in starter.left :
          /\ starter' = [starter EXCEPT !.left = @ \ {x}]
          /\ worker' = [worker EXCEPT ![<<currentConfigVersion, x>>] =
                           [pc |-> "spawned", ver |-> configVersion, data |-> starter.data, held |-> 0]]
          /\ UNCHANGED crashed
       \/ /\ DialFails /\ starter.left # {}
          /\ crashed' = TRUE
          /\ UNCHANGED <<starter, worker>>
    /\ UNCHANGED <<published, reloadVars, to, subscribed, newConfigChan, currentConfigVersion>>

-----------------------------------------------------------------------------
(* A worker.                                                                 *)

WorkerAt(w, pc) == worker' = [worker EXCEPT ![w].pc = pc]

SubscribeWorker(w) ==
    /\ ~crashed
    /\ worker[w].pc = "spawned"
    /\ WorkerAt(w, "select")
    /\ subscribed' = subscribed \cup {w}
    /\ UNCHANGED <<published, reloadVars, to, newConfigChan, starterVars, crashed>>

(* Faulty variant of Newer: a worker also stops for its own version. *)
NewerOrSame(v, ver) == v >= ver

Newer(v, ver) == v > ver

(* A worker that stops closes its channel before it unsubscribes. *)
Receive(w) ==
    /\ ~crashed
    /\ worker[w].pc = "select" /\ newConfigChan[w] # <<>>
    /\ IF Newer(Head(newConfigChan[w]), worker[w].ver)
       THEN newConfigChan' = [newConfigChan EXCEPT ![w] = <<>>] /\ WorkerAt(w, "closed")
       ELSE newConfigChan' = [newConfigChan EXCEPT ![w] = Tail(@)] /\ UNCHANGED worker
    /\ UNCHANGED <<published, reloadVars, to, subscribed, starterVars, crashed>>

Unsubscribe(w) ==
    /\ ~crashed
    /\ worker[w].pc = "closed"
    /\ WorkerAt(w, "gone")
    /\ subscribed' = subscribed \ {w}
    /\ to' = to \ {w}
    /\ UNCHANGED <<published, reloadVars, newConfigChan, starterVars, crashed>>

BeginWork(w) ==
    /\ ~crashed
    /\ worker[w].pc = "select"
    /\ WorkerAt(w, "work")
    /\ UNCHANGED <<published, reloadVars, to, subscribed, newConfigChan, starterVars, crashed>>

Peek(w) ==
    /\ ~crashed
    /\ worker[w].pc = "work" /\ newConfigChan[w] # <<>>
    /\ newConfigChan' = [newConfigChan EXCEPT ![w] = Tail(@)]
    /\ IF Newer(Head(newConfigChan[w]), worker[w].ver)
       THEN worker' = [worker EXCEPT ![w].pc = "putback", ![w].held = Head(newConfigChan[w])]
       ELSE UNCHANGED worker
    /\ UNCHANGED <<published, reloadVars, to, subscribed, starterVars, crashed>>

PutBack(w) ==
    /\ ~crashed
    /\ worker[w].pc = "putback"
    /\ Len(newConfigChan[w]) < ConfigChanCap
    /\ newConfigChan' = [newConfigChan EXCEPT ![w] = Append(@, worker[w].held)]
    /\ worker' = [worker EXCEPT ![w].pc = "select", ![w].held = 0]
    /\ UNCHANGED <<published, reloadVars, to, subscribed, starterVars, crashed>>

EndWork(w) ==
    /\ ~crashed
    /\ worker[w].pc = "work"
    /\ WorkerAt(w, "select")
    /\ UNCHANGED <<published, reloadVars, to, subscribed, newConfigChan, starterVars, crashed>>

-----------------------------------------------------------------------------
ReloadStep == ReloadRead \/ ReloadAdopt \/ ReloadVersion \/ SendDone
StarterStep == \/ StarterReceive \/ StarterCheck \/ StarterAssign \/ StarterCompare
               \/ StarterRange \/ StarterStart
WorkerStep(w) == SubscribeWorker(w) \/ Unsubscribe(w) \/ PutBack(w) \/ EndWork(w)

ReloadNext ==
    \/ Publish
    \/ ReloadRead \/ ReloadAdopt \/ ReloadVersion \/ SendDone
    \/ \E c \in Channel : DeliverConfig(c)
    \/ StarterReceive \/ StarterCheck \/ StarterAssign \/ StarterCompare
    \/ StarterRange \/ StarterStart
    \/ \E w \in Worker : \/ SubscribeWorker(w) \/ Receive(w) \/ Unsubscribe(w)
                         \/ BeginWork(w) \/ Peek(w) \/ PutBack(w) \/ EndWork(w)

(* Goroutines that can run do run, calls to the chains return and succeed    *)
(* from time to time, and a select statement with several ready cases does   *)
(* not pass over one of them for ever.                                       *)
ReloadFairness ==
    /\ WF_configVars(ReloadStep)
    /\ WF_configVars(StarterStep)
    /\ \A c \in Channel : SF_configVars(DeliverConfig(c))
    /\ \A w \in Worker : WF_configVars(WorkerStep(w)) /\ SF_configVars(Receive(w))

ReloadSpec == ReloadInit /\ [][ReloadNext]_configVars /\ ReloadFairness

-----------------------------------------------------------------------------
(* Properties.                                                               *)

Live(w) == worker[w].pc \in {"spawned", "select", "work", "putback"}

(* A worker putting a version back into its own full channel waits for ever: *)
(* nobody else reads that channel.                                           *)
Wedged(w) == worker[w].pc = "putback" /\ Len(newConfigChan[w]) = ConfigChanCap

(* "The if statement prevents accidentally kill new watchers" (xdefi.go): a  *)
(* worker stops only when the node has adopted a configuration newer than    *)
(* the one it is labelled with, whatever stale versions are still queued.    *)
StopsOnlyForNewer ==
    [][\A w \in Worker : worker[w].pc # "closed" /\ worker'[w].pc = "closed"
                            => worker[w].ver < configVersion]_configVars

(* What makes StopsOnlyForNewer inductive: ReloadConfigLoop stores a version *)
(* before it sends it, so no queued, held or travelling version is newer     *)
(* than the node's.                                                          *)
VersionsInv ==
    /\ ReloadTypeOK
    /\ reload.pc = "version" => configVersion < reload.v
    /\ reload.pc = "send" => reload.v <= configVersion
    /\ \A c \in Channel : \A i \in 1..Len(newConfigChan[c]) : newConfigChan[c][i] <= configVersion
    /\ \A w \in Worker : worker[w].held <= configVersion

(* A worker labelled with an older version than the node's stops, even when  *)
(* it subscribed after that version had been sent, because ReloadConfigLoop  *)
(* sends the version on every tick.  The only things that keep it running    *)
(* are a panic and a worker wedged on its own channel, which blocks the feed.*)
OldWorkersStop ==
    \A w \in Worker : Live(w) /\ worker[w].ver < configVersion
                         ~> worker[w].pc = "gone" \/ crashed \/ \E u \in Worker : Wedged(u)

(* "put it back to chan so parent func will check and exit" (xdefi.go): a    *)
(* worker that finds a newer version while it works stops.                   *)
PutBackExits ==
    \A w \in Worker : worker[w].pc = "putback" ~> worker[w].pc = "gone" \/ crashed

(* "new ones will be created with updated config" (xdefi.go): once the node  *)
(* has adopted a configuration, workers of it or of a newer one come to be.  *)
NewWorkersCreated ==
    \A v \in Version : configVersion = v
        ~> crashed \/ (\E u \in Worker : Wedged(u)) \/ \E w \in Worker : Live(w) /\ worker[w].data >= v

(* "if there is a new config, stop all current watchers" (xdefi.go): workers *)
(* that watch the vaults of an older configuration stop.                     *)
OldConfigStops ==
    \A w \in Worker : Live(w) /\ worker[w].data < configVersion
                         ~> worker[w].pc = "gone" \/ crashed \/ \E u \in Worker : Wedged(u)
=============================================================================
