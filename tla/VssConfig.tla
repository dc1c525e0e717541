------------------------------ MODULE VssConfig ------------------------------
(***************************************************************************)
(* How the nodes agree on the BLS group key (dkg/dkg.go): every node uploads *)
(* key shares to the VssBase contract, reads the shares of all active nodes, *)
(* builds the group key of the contract's configuration version from them,   *)
(* votes for the version, and switches to it when the contract says that     *)
(* enough nodes voted.                                                       *)
(*                                                                          *)
(* VssBase is not part of this repository.  The code relies on it to raise   *)
(* the version with every upload and every change of the active nodes, and   *)
(* to keep the version of each as lastConfigUpload and                       *)
(* lastNodeChangeConfigVersion.                                              *)
(*                                                                          *)
(* Shares are named by the version of their upload, and a group key by what  *)
(* it is built from: the upload of each active node, 0 for the others.       *)
(***************************************************************************)
EXTENDS Naturals, FiniteSets

CONSTANTS
    Node,           \* the nodes
    Threshold,      \* vssThreshold, also the votes a version needs
    MaxVersion,     \* bound: versions of the contract
    MaxPending,     \* bound: uploads of a node that are not yet mined
    MaxRestarts,    \* bound: restarts
    MaxVoteErrors   \* bound: vote transactions that fail

ASSUME VssAssumption ==
    /\ Threshold \in Nat /\ MaxRestarts \in Nat /\ MaxVoteErrors \in Nat
    /\ MaxPending \in Nat /\ MaxVersion \in Nat \ {0}

Version == 0..MaxVersion
Key == [Node -> Version]
NoKey == [a \in Node |-> 0]

VARIABLES
    version,        \* VssBase: vssConfigVersion
    nodeChange,     \* VssBase: lastNodeChangeConfigVersion
    members,        \* VssBase: the active nodes
    upload,         \* VssBase: lastConfigUpload of each node
    votes,          \* VssBase: who voted for each version
    keyAt,          \* history: the group key of each version
    uploading,      \* uploads of each node that are sent and not yet mined
    recent,         \* nodes that uploaded within MaxConfigUploadTimeoutInSeconds
    pc,             \* where RunVssStateMachine of each node is
    outer,          \* version RunVssStateMachine read
    inner,          \* version UpdateVSSConfig read
    list,           \* activeNodeList UpdateVSSConfig read
    before,         \* lastConfigUploadBefore
    pub, pri,       \* public and private shares read so far; 0: not yet
    seen,           \* vssSeenConfigs
    settings,       \* vssSettings; NoKey: not there
    current,        \* currentConfigVersion
    bls,            \* the group key in use, dkg.Bls
    revealed,       \* nodes accused with vssReveal
    restarts,       \* restarts so far
    voteErrors      \* vote transactions that failed so far

contract == <<version, nodeChange, members, upload, votes, keyAt>>
uploader == <<uploading, recent>>
update == <<outer, inner, list, before, pub, pri>>
state == <<seen, settings, current, bls>>
bounds == <<restarts, voteErrors>>
vars == <<contract, uploader, pc, update, state, revealed, bounds>>

TypeOK ==
    /\ version \in Version /\ nodeChange \in Version
    /\ members \subseteq Node
    /\ upload \in Key
    /\ votes \in [Version -> SUBSET Node]
    /\ keyAt \in [Version -> Key]
    /\ uploading \in [Node -> 0..MaxPending] /\ recent \subseteq Node
    /\ pc \in [Node -> {"idle", "ready", "version", "list", "wait", "before", "pub", "pri", "after", "verify"}]
    /\ outer \in [Node -> Version] /\ inner \in [Node -> Version]
    /\ list \in [Node -> SUBSET Node]
    /\ before \in [Node -> Key] /\ pub \in [Node -> Key] /\ pri \in [Node -> Key]
    /\ seen \in [Node -> SUBSET Version]
    /\ settings \in [Node -> [Version -> Key]]
    /\ current \in [Node -> Version]
    /\ bls \in [Node -> Key]
    /\ revealed \subseteq Node
    /\ restarts \in 0..MaxRestarts /\ voteErrors \in 0..MaxVoteErrors

KeyOf(nodes, up) == [a \in Node |-> IF a \in nodes THEN up[a] ELSE 0]

Init ==
    /\ version = 1 /\ nodeChange = 1
    /\ members \in SUBSET Node
    /\ upload = NoKey
    /\ votes = [v \in Version |-> {}]
    /\ keyAt = [v \in Version |-> NoKey]
    /\ uploading = [n \in Node |-> 0] /\ recent = {}
    /\ pc = [n \in Node |-> "idle"]
    /\ outer = [n \in Node |-> 0] /\ inner = [n \in Node |-> 0]
    /\ list = [n \in Node |-> {}]
    /\ before = [n \in Node |-> NoKey] /\ pub = [n \in Node |-> NoKey] /\ pri = [n \in Node |-> NoKey]
    /\ seen = [n \in Node |-> {}]
    /\ settings = [n \in Node |-> [v \in Version |-> NoKey]]
    /\ current = [n \in Node |-> 0]
    /\ bls = [n \in Node |-> NoKey]
    /\ revealed = {}
    /\ restarts = 0 /\ voteErrors = 0

-----------------------------------------------------------------------------
(* The contract.                                                             *)

(* Nodes become active or inactive. *)
NodeChange(nodes) ==
    /\ version < MaxVersion
    /\ nodes # members
    /\ members' = nodes
    /\ version' = version + 1
    /\ nodeChange' = version + 1
    /\ keyAt' = [keyAt EXCEPT ![version + 1] = KeyOf(nodes, upload)]
    /\ UNCHANGED <<upload, votes, uploader, pc, update, state, revealed, bounds>>

(* An upload is mined. *)
Uploaded(a) ==
    /\ version < MaxVersion
    /\ uploading[a] > 0
    /\ uploading' = [uploading EXCEPT ![a] = @ - 1]
    /\ version' = version + 1
    /\ upload' = [upload EXCEPT ![a] = version + 1]
    /\ keyAt' = [keyAt EXCEPT ![version + 1] = KeyOf(members, [upload EXCEPT ![a] = version + 1])]
    /\ UNCHANGED <<nodeChange, members, votes, recent, pc, update, state, revealed, bounds>>

IsConfigReady(v) == Cardinality(votes[v]) >= Threshold

-----------------------------------------------------------------------------
(* UploadVSSConfig, on every new block.                                      *)

(* A node that never uploaded or is behind a node change should upload. *)
ShouldUploadVSSConfig(n) ==
    /\ n \in members
    /\ n \notin recent
    /\ upload[n] = 0 \/ upload[n] <= nodeChange

UploadVSSConfig(n) ==
    /\ ShouldUploadVSSConfig(n)
    /\ uploading[n] < MaxPending
    /\ uploading' = [uploading EXCEPT ![n] = @ + 1]
    /\ recent' = recent \cup {n}
    /\ UNCHANGED <<contract, pc, update, state, revealed, bounds>>

(* MaxConfigUploadTimeoutInSeconds have passed since the upload was sent. *)
UploadTimeout(n) ==
    /\ n \in recent
    /\ recent' = recent \ {n}
    /\ UNCHANGED <<contract, uploading, pc, update, state, revealed, bounds>>

-----------------------------------------------------------------------------
(* RunVssStateMachine and UpdateVSSConfig.                                   *)

Go(n, to) == pc' = [pc EXCEPT ![n] = to]

(* Faulty variant of RunVssStateMachine: a version seen before is left alone.*)
RunOnlyUnseen(n) ==
    /\ pc[n] = "idle"
    /\ IF version \in seen[n]
       THEN UNCHANGED <<outer, pc>>
       ELSE outer' = [outer EXCEPT ![n] = version] /\ Go(n, "version")
    /\ UNCHANGED <<contract, uploader, inner, list, before, pub, pri, state, revealed, bounds>>

RunVssStateMachine(n) ==
    /\ pc[n] = "idle"
    /\ outer' = [outer EXCEPT ![n] = version]
    /\ Go(n, IF version \in seen[n] THEN "ready" ELSE "version")
    /\ UNCHANGED <<contract, uploader, inner, list, before, pub, pri, state, revealed, bounds>>

(* The step is over and its local variables are gone. *)
Return(n) ==
    /\ Go(n, "idle")
    /\ outer' = [outer EXCEPT ![n] = 0] /\ inner' = [inner EXCEPT ![n] = 0]
    /\ list' = [list EXCEPT ![n] = {}]
    /\ before' = [before EXCEPT ![n] = NoKey]
    /\ pub' = [pub EXCEPT ![n] = NoKey] /\ pri' = [pri EXCEPT ![n] = NoKey]

(* UpdateVSSConfig returns and the version is not marked as seen. *)
Recheck(n) ==
    /\ Return(n)
    /\ UNCHANGED <<contract, uploader, state, revealed, bounds>>

(* UpdateVSSConfig returns and the version is marked as seen. *)
Omit(n) ==
    /\ Return(n)
    /\ seen' = [seen EXCEPT ![n] = @ \cup {outer[n]}]
    /\ UNCHANGED <<contract, uploader, settings, current, bls, revealed, bounds>>

ReadVersion(n) ==
    /\ pc[n] = "version"
    /\ inner' = [inner EXCEPT ![n] = version]
    /\ Go(n, "list")
    /\ UNCHANGED <<contract, uploader, outer, list, before, pub, pri, state, revealed, bounds>>

ReadList(n) ==
    /\ pc[n] = "list"
    /\ list' = [list EXCEPT ![n] = members]
    /\ Go(n, "wait")
    /\ UNCHANGED <<contract, uploader, outer, inner, before, pub, pri, state, revealed, bounds>>

UpToDate(n) == {a \in list[n] : upload[a] >= nodeChange}

(* The configuration is to be updated: all nodes are up to date, or enough   *)
(* of them when the wait is over.                                            *)
Enough(n) == UpToDate(n) = list[n] \/ Cardinality(UpToDate(n)) >= Threshold

shouldUpdateVSSConfig(n) ==
    /\ pc[n] = "wait"
    /\ current[n] < inner[n] /\ Enough(n)
    /\ IF n \in list[n] /\ Cardinality(list[n]) >= Threshold
       THEN /\ Go(n, "before")
            /\ UNCHANGED <<contract, uploader, update, state, revealed, bounds>>
       ELSE Recheck(n)

shouldNotUpdateVSSConfig(n) ==
    /\ pc[n] = "wait"
    /\ current[n] >= inner[n] \/ (Cardinality(UpToDate(n)) < Threshold /\ UpToDate(n) # list[n])
    /\ Omit(n)

ReadBefore(n) ==
    /\ pc[n] = "before"
    /\ before' = [before EXCEPT ![n] = KeyOf(list[n], upload)]
    /\ Go(n, "pub")
    /\ UNCHANGED <<contract, uploader, outer, inner, list, pub, pri, state, revealed, bounds>>

(* GetVSSShares: one share after the other, as soon as it is there. *)
GetPublicShares(n, a) ==
    /\ pc[n] = "pub"
    /\ a \in list[n] /\ pub[n][a] = 0 /\ upload[a] # 0
    /\ pub' = [pub EXCEPT ![n][a] = upload[a]]
    /\ UNCHANGED <<contract, uploader, pc, outer, inner, list, before, pri, state, revealed, bounds>>

GetPrivateShares(n, a) ==
    /\ pc[n] = "pri"
    /\ a \in list[n] /\ pri[n][a] = 0 /\ upload[a] # 0
    /\ pri' = [pri EXCEPT ![n][a] = upload[a]]
    /\ UNCHANGED <<contract, uploader, pc, outer, inner, list, before, pub, state, revealed, bounds>>

Complete(n, shares) == \A a \in list[n] : shares[n][a] # 0

(* Faulty variant of SharesReceived: missing shares are not waited for. *)
SharesReceivedPartly(n) ==
    /\ \/ pc[n] = "pub" /\ Go(n, "pri")
       \/ pc[n] = "pri" /\ Go(n, "after")
    /\ UNCHANGED <<contract, uploader, update, state, revealed, bounds>>

SharesReceived(n) ==
    /\ \/ pc[n] = "pub" /\ Complete(n, pub) /\ Go(n, "pri")
       \/ pc[n] = "pri" /\ Complete(n, pri) /\ Go(n, "after")
    /\ UNCHANGED <<contract, uploader, update, state, revealed, bounds>>

(* GetVSSSharesTimeout has passed and the contract still misses a share.     *)
(* Private shares are uploaded with the public ones.                         *)
SharesTimeout(n) ==
    /\ pc[n] = "pub" /\ \E a \in list[n] : upload[a] = 0
    /\ Recheck(n)

(* Faulty variant of Changed: the uploads are not compared again. *)
ChangedUnchecked(n) == FALSE

(* An upload arrived while the shares were read.  Every lastConfigUpload is  *)
(* compared with itself alone, so that reading all of them at once before    *)
(* and after tells nothing apart that reading them one by one does not.      *)
Changed(n) == before[n] # KeyOf(list[n], upload)

ChangedMeanwhile(n) ==
    /\ pc[n] = "after" /\ Changed(n)
    /\ Recheck(n)

NotChanged(n) ==
    /\ pc[n] = "after" /\ ~Changed(n)
    /\ Go(n, "verify")
    /\ UNCHANGED <<contract, uploader, update, state, revealed, bounds>>

(* The group key is built, voted for, and kept.  A failed vote is only       *)
(* logged.                                                                   *)
Vote(n) ==
    /\ \/ votes' = [votes EXCEPT ![inner[n]] = @ \cup {n}] /\ UNCHANGED voteErrors
       \/ voteErrors < MaxVoteErrors /\ voteErrors' = voteErrors + 1 /\ UNCHANGED votes
    /\ settings' = [settings EXCEPT ![n][inner[n]] = pub[n]]
    /\ UNCHANGED revealed

(* The nodes whose shares do not verify are accused. *)
Reveal(n) ==
    /\ revealed' = revealed \cup {a \in Node : pub[n][a] # pri[n][a]}
    /\ UNCHANGED <<votes, voteErrors, settings>>

(* Public and private shares of one upload verify, those of two do not. *)
VerifyShares(n) ==
    /\ pc[n] = "verify"
    /\ IF pub[n] = pri[n] THEN Vote(n) ELSE Reveal(n)
    /\ seen' = [seen EXCEPT ![n] = @ \cup {outer[n]}]
    /\ Return(n)
    /\ UNCHANGED <<version, nodeChange, members, upload, keyAt, uploader, current, bls, restarts>>

(* Faulty variant of setVssConfig: the node goes through the versions it has *)
(* keys of one by one.                                                       *)
setNextVssConfig(n) ==
    LET built == {v \in Version : v > current[n] /\ settings[n][v] # NoKey}
        next == CHOOSE v \in built : \A u \in built : v <= u
    IN  IF built # {}
        THEN bls' = [bls EXCEPT ![n] = settings[n][next]] /\ current' = [current EXCEPT ![n] = next]
        ELSE UNCHANGED <<bls, current>>

(* The node switches to a version it has built the key of. *)
setVssConfig(n) ==
    IF settings[n][outer[n]] # NoKey /\ current[n] < outer[n]
    THEN bls' = [bls EXCEPT ![n] = settings[n][outer[n]]] /\ current' = [current EXCEPT ![n] = outer[n]]
    ELSE UNCHANGED <<bls, current>>

SwitchIfReady(n) ==
    /\ pc[n] = "ready"
    /\ IF IsConfigReady(outer[n]) THEN setVssConfig(n) ELSE UNCHANGED <<bls, current>>
    /\ Return(n)
    /\ UNCHANGED <<contract, uploader, seen, settings, revealed, bounds>>

(* A node stops and starts again without its memory. *)
Restart(n) ==
    /\ restarts < MaxRestarts
    /\ restarts' = restarts + 1
    /\ Return(n)
    /\ recent' = recent \ {n}
    /\ seen' = [seen EXCEPT ![n] = {}]
    /\ settings' = [settings EXCEPT ![n] = [v \in Version |-> NoKey]]
    /\ current' = [current EXCEPT ![n] = 0]
    /\ bls' = [bls EXCEPT ![n] = NoKey]
    /\ UNCHANGED <<contract, uploading, revealed, voteErrors>>

Step(n) ==
    \/ RunVssStateMachine(n) \/ ReadVersion(n) \/ ReadList(n)
    \/ shouldUpdateVSSConfig(n) \/ shouldNotUpdateVSSConfig(n)
    \/ ReadBefore(n) \/ (\E a \in Node : GetPublicShares(n, a) \/ GetPrivateShares(n, a))
    \/ SharesReceived(n) \/ SharesTimeout(n) \/ ChangedMeanwhile(n)
    \/ NotChanged(n) \/ VerifyShares(n) \/ SwitchIfReady(n)

Next ==
    \/ \E nodes \in SUBSET Node : NodeChange(nodes)
    \/ \E n \in Node : Uploaded(n) \/ UploadVSSConfig(n) \/ UploadTimeout(n) \/ Restart(n)
    \/ \E n \in Node : Step(n)

(* New blocks of the vnode chain make both loops of a node run, and          *)
(* transactions are mined.                                                   *)
Fairness ==
    \A n \in Node : /\ WF_vars(Step(n)) /\ WF_vars(UploadVSSConfig(n))
                    /\ WF_vars(UploadTimeout(n)) /\ WF_vars(Uploaded(n))

Spec == Init /\ [][Next]_vars /\ Fairness

-----------------------------------------------------------------------------
(* Properties.                                                               *)

(* The key a node uses is the key of the version it says it uses, whatever   *)
(* was uploaded while it read the shares of that version.                    *)
KeyOfVersion == \A n \in Node : current[n] # 0 => bls[n] = keyAt[current[n]]

(* Two nodes on the same version use the same group key, so that their       *)
(* signature shares combine.                                                 *)
SameKey == \A n, m \in Node : current[n] = current[m] => bls[n] = bls[m]

(* No node that follows the protocol is accused with vssReveal: shares of    *)
(* two uploads are never compared with each other.                           *)
NobodyAccused == revealed = {}

Reading(n) == pc[n] \in {"pub", "pri", "after", "verify"}

(* A share is 0 or of an upload between the first look at lastConfigUpload   *)
(* and now.                                                                  *)
SharesBetween(n, shares) ==
    \A a \in Node : shares[n][a] # 0 => /\ a \in list[n]
                                        /\ before[n][a] <= shares[n][a] /\ shares[n][a] <= upload[a]

ContractInv ==
    /\ keyAt[version] = KeyOf(members, upload)
    /\ \A a \in Node : upload[a] <= version

VersionsInv(n) == current[n] <= version /\ inner[n] <= version /\ outer[n] <= version

KeyInv(n) ==
    /\ current[n] = 0 => bls[n] = NoKey
    /\ current[n] # 0 => bls[n] = keyAt[current[n]]

SettingsInv(n) ==
    /\ \A v \in Version : v > version => settings[n][v] = NoKey
    /\ settings[n][version] = NoKey \/ settings[n][version] = keyAt[version]
    /\ pc[n] = "ready" => settings[n][outer[n]] = NoKey \/ settings[n][outer[n]] = keyAt[outer[n]]

ListInv(n) ==
    (pc[n] = "wait" \/ pc[n] = "before" \/ Reading(n)) /\ inner[n] = version => list[n] = members

ReadInv(n) ==
    /\ ~Reading(n) => pub[n] = NoKey /\ pri[n] = NoKey
    /\ Reading(n) =>
       /\ \A a \in Node : before[n][a] <= upload[a]
       /\ SharesBetween(n, pub) /\ SharesBetween(n, pri)
       /\ inner[n] = version => \A a \in Node : pub[n][a] = 0 \/ pub[n][a] = upload[a]
    /\ pc[n] \in {"pri", "after", "verify"} => Complete(n, pub)
    /\ pc[n] \in {"after", "verify"} => Complete(n, pri)
    /\ pc[n] = "verify" => pub[n] = pri[n]

(* What UpdateVSSConfig has read is what the contract holds, as long as the  *)
(* version it read is still the contract's (ListInv, ReadInv).  A key built  *)
(* from something newer is kept under a version the contract has left for    *)
(* good, and the state machine switches only to the version it has just read *)
(* (SettingsInv).  SharesBetween bounds the uploads read by the uploads      *)
(* there are, so that an unchanged lastConfigUpload means unchanged shares.  *)
VssInv ==
    /\ TypeOK
    /\ ContractInv
    /\ \A n \in Node : VersionsInv(n) /\ KeyInv(n) /\ SettingsInv(n) /\ ListInv(n) /\ ReadInv(n)
    /\ revealed = {}

(* Nothing is left to change: all active nodes have uploaded their shares    *)
(* since the last node change, and there are enough of them.                 *)
Settled ==
    /\ \A n \in members : upload[n] > nodeChange
    /\ \A n \in Node : uploading[n] = 0
    /\ Cardinality(members) >= Threshold

(* "eventually everyone will converge to the same state" (dkg.go): when the  *)
(* contract has settled, all active nodes switch to its version.             *)
Converges == <>[]Settled => <>[](\A n \in members : current[n] = version)
=============================================================================
