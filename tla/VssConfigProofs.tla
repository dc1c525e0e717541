--------------------------- MODULE VssConfigProofs ---------------------------
(***************************************************************************)
(* Proofs about VssConfig.                                                   *)
(***************************************************************************)
EXTENDS VssConfig, TLAPS

USE VssAssumption

Local(n) == <<pc[n], outer[n], inner[n], list[n], before[n], pub[n], pri[n]>>
Memory(n) == <<seen[n], settings[n], current[n], bls[n]>>
NodeInv(n) == VersionsInv(n) /\ KeyInv(n) /\ SettingsInv(n) /\ ListInv(n) /\ ReadInv(n)

(* A key is a function from nodes to versions. *)
LEMMA KeyOfType ==
    ASSUME NEW nodes \in SUBSET Node, NEW up \in Key
    PROVE  KeyOf(nodes, up) \in Key
BY DEF KeyOf, Key, Version

(* No key is a key of the type. *)
LEMMA NoKeyType == NoKey \in Key
BY DEF NoKey, Key, Version

(* Types are kept when locals are cleared. *)
LEMMA ReturnType ==
    ASSUME TypeOK, NEW n \in Node, Return(n)
    PROVE  /\ pc' \in [Node -> {"idle", "ready", "version", "list", "wait", "before", "pub", "pri", "after", "verify"}]
           /\ outer' \in [Node -> Version] /\ inner' \in [Node -> Version]
           /\ list' \in [Node -> SUBSET Node]
           /\ before' \in [Node -> Key] /\ pub' \in [Node -> Key] /\ pri' \in [Node -> Key]
<1>1. 0 \in Version BY DEF Version
<1> QED BY <1>1, NoKeyType DEF Return, Go, TypeOK

(* Steps of the contract keep the types. *)
LEMMA TypeContract ==
    ASSUME TypeOK,
           \/ \E nodes \in SUBSET Node : NodeChange(nodes)
           \/ \E a \in Node : Uploaded(a)
    PROVE  TypeOK'
<1>0. version < MaxVersion => version + 1 \in Version BY DEF TypeOK, Version
<1>1. ASSUME NEW nodes \in SUBSET Node, NodeChange(nodes) PROVE TypeOK'
  <2>1. KeyOf(nodes, upload) \in Key BY KeyOfType DEF TypeOK
  <2> QED BY <1>0, <1>1, <2>1 DEF NodeChange, TypeOK, uploader, update, state, bounds
<1>2. ASSUME NEW a \in Node, Uploaded(a) PROVE TypeOK'
  <2>0. version + 1 \in Version BY <1>0, <1>2 DEF Uploaded
  <2>1. upload' \in Key BY <2>0, <1>2 DEF Uploaded, TypeOK, Key
  <2>2. KeyOf(members, upload') \in Key BY <2>1, KeyOfType DEF TypeOK
  <2>3. keyAt' \in [Version -> Key] BY <2>2, <1>2, Zenon DEF Uploaded, TypeOK
  <2>4. uploading[a] - 1 \in 0..MaxPending BY <1>2 DEF Uploaded, TypeOK
  <2>5. uploading' \in [Node -> 0..MaxPending] BY <2>4, <1>2 DEF Uploaded, TypeOK
  <2> QED BY <1>2, <2>0, <2>1, <2>3, <2>5 DEF Uploaded, TypeOK, update, state, bounds
<1> QED BY <1>1, <1>2

(* Steps of a node keep the types. *)
LEMMA TypeStep ==
    ASSUME TypeOK, NEW n \in Node, Step(n)
    PROVE  TypeOK'
<1> USE DEF contract, uploader, update, state, bounds
<1>1. ASSUME RunVssStateMachine(n) PROVE TypeOK'
  BY <1>1 DEF RunVssStateMachine, Go, TypeOK
<1>2. ASSUME ReadVersion(n) PROVE TypeOK'
  BY <1>2 DEF ReadVersion, Go, TypeOK
<1>3. ASSUME ReadList(n) PROVE TypeOK'
  BY <1>3 DEF ReadList, Go, TypeOK
<1>4. ASSUME Recheck(n) PROVE TypeOK'
  BY <1>4, ReturnType DEF Recheck, TypeOK
<1>5. ASSUME Omit(n) PROVE TypeOK'
  <2>1. seen' \in [Node -> SUBSET Version] BY <1>5 DEF Omit, TypeOK
  <2> QED BY <1>5, <2>1, ReturnType DEF Omit, TypeOK
<1>6. ASSUME pc[n] = "wait", Go(n, "before"), UNCHANGED <<contract, uploader, update, state, revealed, bounds>>
      PROVE TypeOK'
  BY <1>6 DEF Go, TypeOK
<1>7. ASSUME ReadBefore(n) PROVE TypeOK'
  <2>1. KeyOf(list[n], upload) \in Key BY KeyOfType DEF TypeOK
  <2> QED BY <1>7, <2>1 DEF ReadBefore, Go, TypeOK
<1>8. ASSUME NEW a \in Node, GetPublicShares(n, a) PROVE TypeOK'
  <2>1. pub' \in [Node -> Key] BY <1>8, Zenon DEF GetPublicShares, TypeOK, Key
  <2> QED BY <1>8, <2>1 DEF GetPublicShares, TypeOK
<1>9. ASSUME NEW a \in Node, GetPrivateShares(n, a) PROVE TypeOK'
  <2>1. pri' \in [Node -> Key] BY <1>9, Zenon DEF GetPrivateShares, TypeOK, Key
  <2> QED BY <1>9, <2>1 DEF GetPrivateShares, TypeOK
<1>10. ASSUME SharesReceived(n) PROVE TypeOK'
  BY <1>10, Zenon DEF SharesReceived, Go, TypeOK
<1>11. ASSUME VerifyShares(n) PROVE TypeOK'
  <2>1. seen' \in [Node -> SUBSET Version] BY <1>11 DEF VerifyShares, TypeOK
  <2>2. CASE Vote(n)
    <3>1. votes' \in [Version -> SUBSET Node]
      <4>1. votes[inner[n]] \cup {n} \in SUBSET Node BY DEF TypeOK
      <4>2. votes \in [Version -> SUBSET Node] BY DEF TypeOK
      <4> QED BY <2>2, <4>1, <4>2 DEF Vote
    <3>2. voteErrors' \in 0..MaxVoteErrors BY <2>2 DEF Vote, TypeOK
    <3>3. settings' \in [Node -> [Version -> Key]]
      <4>1. [settings[n] EXCEPT ![inner[n]] = pub[n]] \in [Version -> Key] BY DEF TypeOK
      <4>2. settings' = [settings EXCEPT ![n] = [settings[n] EXCEPT ![inner[n]] = pub[n]]]
        BY <2>2 DEF Vote, TypeOK
      <4> QED BY <4>1, <4>2 DEF TypeOK
    <3> QED BY <1>11, <2>1, <2>2, <3>1, <3>2, <3>3, ReturnType DEF VerifyShares, Vote, TypeOK
  <2>3. CASE Reveal(n)
    BY <1>11, <2>1, <2>3, ReturnType DEF VerifyShares, Reveal, TypeOK
  <2> QED BY <1>11, <2>2, <2>3 DEF VerifyShares
<1>12. ASSUME SwitchIfReady(n) PROVE TypeOK'
  <2>1. bls' \in [Node -> Key]
    <3>1. settings[n][outer[n]] \in Key BY DEF TypeOK
    <3>2. bls \in [Node -> Key] BY DEF TypeOK
    <3> QED BY <1>12, <3>1, <3>2 DEF SwitchIfReady, setVssConfig
  <2>2. current' \in [Node -> Version]
    <3>1. outer[n] \in Version /\ current \in [Node -> Version] BY DEF TypeOK
    <3> QED BY <1>12, <3>1 DEF SwitchIfReady, setVssConfig
  <2> QED BY <1>12, <2>1, <2>2, ReturnType DEF SwitchIfReady, TypeOK
<1>13. ASSUME NotChanged(n) PROVE TypeOK'
  BY <1>13, Zenon DEF NotChanged, Go, TypeOK
<1> QED
  BY <1>1, <1>2, <1>3, <1>4, <1>5, <1>6, <1>7, <1>8, <1>9, <1>10, <1>11, <1>12, <1>13
  DEF Step, shouldUpdateVSSConfig, shouldNotUpdateVSSConfig, SharesTimeout, ChangedMeanwhile

(* Uploads sent, timeouts and restarts keep the types. *)
LEMMA TypeOther ==
    ASSUME TypeOK, NEW n \in Node, UploadVSSConfig(n) \/ UploadTimeout(n) \/ Restart(n)
    PROVE  TypeOK'
<1> USE DEF contract, uploader, update, state, bounds
<1>1. ASSUME UploadVSSConfig(n) PROVE TypeOK'
  <2>1. uploading[n] + 1 \in 0..MaxPending BY <1>1 DEF UploadVSSConfig, TypeOK
  <2>2. uploading' \in [Node -> 0..MaxPending] BY <1>1, <2>1 DEF UploadVSSConfig, TypeOK
  <2> QED BY <1>1, <2>2 DEF UploadVSSConfig, TypeOK
<1>2. ASSUME UploadTimeout(n) PROVE TypeOK'
  BY <1>2 DEF UploadTimeout, TypeOK
<1>3. ASSUME Restart(n) PROVE TypeOK'
  <2>1. /\ 0 \in Version
        /\ [v \in Version |-> NoKey] \in [Version -> Key]
    BY NoKeyType DEF Version
  <2>2. /\ seen' \in [Node -> SUBSET Version] /\ settings' \in [Node -> [Version -> Key]]
        /\ current' \in [Node -> Version] /\ bls' \in [Node -> Key]
    BY <1>3, <2>1, NoKeyType DEF Restart, TypeOK
  <2>3. restarts' \in 0..MaxRestarts BY <1>3 DEF Restart, TypeOK
  <2> QED BY <1>3, <2>2, <2>3, ReturnType DEF Restart, TypeOK
<1> QED BY <1>1, <1>2, <1>3

(* A node whose variables do not change keeps its invariant while the        *)
(* contract does not change.                                                 *)
LEMMA Frame ==
    ASSUME NEW m \in Node, NodeInv(m),
           UNCHANGED <<version, members, upload, keyAt>>, UNCHANGED Local(m), UNCHANGED Memory(m)
    PROVE  NodeInv(m)'
<1>1. /\ pc'[m] = pc[m] /\ outer'[m] = outer[m] /\ inner'[m] = inner[m] /\ list'[m] = list[m]
      /\ before'[m] = before[m] /\ pub'[m] = pub[m] /\ pri'[m] = pri[m]
      /\ settings'[m] = settings[m] /\ current'[m] = current[m] /\ bls'[m] = bls[m]
  BY Zenon DEF Local, Memory
<1>2. VersionsInv(m)' /\ KeyInv(m)' BY <1>1, Zenon DEF NodeInv, VersionsInv, KeyInv
<1>3. SettingsInv(m)' BY <1>1, Zenon DEF NodeInv, SettingsInv
<1>4. ListInv(m)' BY <1>1, Zenon DEF NodeInv, ListInv, Reading
<1>5. ReadInv(m)' BY <1>1, Zenon DEF NodeInv, ReadInv, Reading, SharesBetween, Complete
<1> QED BY <1>2, <1>3, <1>4, <1>5 DEF NodeInv

(* A step of the contract raises the version: what was read before is of an  *)
(* older version, and the key of the new version is recorded.                *)
LEMMA NextVersion ==
    ASSUME TypeOK, NEW m \in Node, NodeInv(m), ContractInv,
           version' = version + 1, version + 1 \in Version,
           \A a \in Node : upload[a] <= upload'[a],
           \A v \in Version : v <= version => keyAt'[v] = keyAt[v],
           UNCHANGED <<pc, update, state>>, upload' \in Key
    PROVE  NodeInv(m)'
<1> USE DEF update, state
<1>1. /\ current[m] \in Version /\ inner[m] \in Version /\ outer[m] \in Version /\ version \in Nat
      /\ \A v \in Version : v \in Nat
  BY DEF TypeOK, Version
<1>2. VersionsInv(m)' BY <1>1 DEF NodeInv, VersionsInv
<1>3. KeyInv(m)' BY <1>1 DEF NodeInv, VersionsInv, KeyInv
<1>4. SettingsInv(m)'
  <2>1. ~(version + 1 <= version) /\ version + 1 > version BY <1>1
  <2>2. settings[m][version + 1] = NoKey BY <2>1 DEF NodeInv, SettingsInv
  <2>3. \A v \in Version : v > version + 1 => v > version BY <1>1
  <2>4. keyAt'[outer[m]] = keyAt[outer[m]] BY <1>1, Zenon DEF NodeInv, VersionsInv
  <2> QED BY <2>2, <2>3, <2>4 DEF NodeInv, SettingsInv
<1>5. inner'[m] # version' BY <1>1 DEF NodeInv, VersionsInv
<1>6. ListInv(m)' BY <1>5 DEF ListInv
<1>7. ReadInv(m)'
  <2>1. SUFFICES ASSUME Reading(m)
                 PROVE  /\ \A a \in Node : before[m][a] <= upload'[a]
                        /\ SharesBetween(m, pub)' /\ SharesBetween(m, pri)'
    BY <1>5 DEF NodeInv, ReadInv, Reading, Complete
  <2>2. \A a \in Node : /\ before[m][a] \in Nat /\ upload[a] \in Nat
                        /\ pub[m][a] \in Nat /\ pri[m][a] \in Nat
    BY DEF TypeOK, Key, Version
  <2>3. /\ \A a \in Node : before[m][a] <= upload[a]
        /\ SharesBetween(m, pub) /\ SharesBetween(m, pri)
    BY <2>1, Zenon DEF NodeInv, ReadInv
  <2>4. \A a \in Node : upload'[a] \in Nat /\ before[m][a] <= upload'[a] BY <2>2, <2>3 DEF Key, Version
  <2> QED BY <2>2, <2>3, <2>4 DEF SharesBetween
<1> QED BY <1>2, <1>3, <1>4, <1>6, <1>7, Zenon DEF NodeInv

(* Uploads and changes of the nodes keep the invariant. *)
LEMMA ContractSteps ==
    ASSUME VssInv,
           \/ \E nodes \in SUBSET Node : NodeChange(nodes)
           \/ \E a \in Node : Uploaded(a)
    PROVE  VssInv'
<1>0. TypeOK' BY TypeContract DEF VssInv
<1>1. TypeOK /\ ContractInv /\ revealed = {} /\ \A m \in Node : NodeInv(m) BY DEF VssInv, NodeInv
<1>2. \A a \in Node : upload[a] \in Nat BY <1>1 DEF TypeOK, Key, Version
<1>3. version \in Nat /\ \A v \in Version : v \in Nat BY <1>1 DEF TypeOK, Version
<1>4. ASSUME NEW nodes \in SUBSET Node, NodeChange(nodes) PROVE VssInv'
  <2>1. version' = version + 1 /\ version + 1 \in Version /\ upload' = upload /\ members' = nodes
    BY <1>0, <1>4 DEF NodeChange, TypeOK
  <2>2. keyAt' = [keyAt EXCEPT ![version + 1] = KeyOf(nodes, upload)] BY <1>4 DEF NodeChange
  <2>3. \A v \in Version : v <= version => keyAt'[v] = keyAt[v] BY <1>1, <1>3, <2>2 DEF TypeOK
  <2>4. \A m \in Node : NodeInv(m)'
    <3>1. \A a \in Node : upload[a] <= upload'[a] BY <1>2, <2>1
    <3>2. UNCHANGED <<pc, update, state>> /\ upload' \in Key BY <1>0, <1>4 DEF NodeChange, TypeOK
    <3> QED BY <1>1, <2>1, <2>3, <3>1, <3>2, NextVersion, Zenon
  <2>5. ContractInv'
    <3>1. keyAt'[version'] = KeyOf(members', upload') BY <1>1, <2>1, <2>2 DEF TypeOK
    <3>2. \A a \in Node : upload'[a] <= version' BY <1>1, <1>2, <1>3, <2>1 DEF ContractInv
    <3> QED BY <3>1, <3>2 DEF ContractInv, KeyOf
  <2> QED BY <1>0, <1>1, <1>4, <2>4, <2>5 DEF VssInv, NodeInv, NodeChange
<1>5. ASSUME NEW a \in Node, Uploaded(a) PROVE VssInv'
  <2>1. /\ version' = version + 1 /\ version + 1 \in Version /\ members' = members
        /\ upload' = [upload EXCEPT ![a] = version + 1]
    BY <1>0, <1>5 DEF Uploaded, TypeOK
  <2>2. keyAt' = [keyAt EXCEPT ![version + 1] = KeyOf(members, upload')] BY <1>5 DEF Uploaded
  <2>3. \A v \in Version : v <= version => keyAt'[v] = keyAt[v] BY <1>1, <1>3, <2>2 DEF TypeOK
  <2>4. \A b \in Node : upload'[b] = IF b = a THEN version + 1 ELSE upload[b]
    BY <1>1, <2>1 DEF TypeOK, Key
  <2>5. \A m \in Node : NodeInv(m)'
    <3>1. \A b \in Node : upload[b] <= upload'[b] BY <1>1, <1>2, <1>3, <2>4 DEF ContractInv
    <3>2. UNCHANGED <<pc, update, state>> /\ upload' \in Key BY <1>0, <1>5 DEF Uploaded, TypeOK
    <3> QED BY <1>1, <2>1, <2>3, <3>1, <3>2, NextVersion, Zenon
  <2>6. ContractInv'
    <3>1. keyAt'[version'] = KeyOf(members', upload') BY <1>1, <2>1, <2>2 DEF TypeOK
    <3>2. \A b \in Node : upload'[b] <= version' BY <1>1, <1>2, <1>3, <2>1, <2>4 DEF ContractInv
    <3> QED BY <3>1, <3>2 DEF ContractInv, KeyOf
  <2> QED BY <1>0, <1>1, <1>5, <2>5, <2>6 DEF VssInv, NodeInv, Uploaded
<1> QED BY <1>4, <1>5

(* After Return no local variable is left, and only the memory matters.      *)
LEMMA ReturnInv ==
    ASSUME TypeOK, NEW n \in Node, Return(n), version' = version,
           current'[n] <= version, KeyInv(n)',
           \A v \in Version : v > version => settings'[n][v] = NoKey,
           settings'[n][version] = NoKey \/ settings'[n][version] = keyAt'[version]
    PROVE  NodeInv(n)'
<1>1. /\ pc'[n] = "idle" /\ outer'[n] = 0 /\ inner'[n] = 0
      /\ pub'[n] = NoKey /\ pri'[n] = NoKey
  BY DEF Return, Go, TypeOK
<1>2. version \in Nat BY DEF TypeOK, Version
<1>3. VersionsInv(n)' BY <1>1, <1>2 DEF VersionsInv
<1>4. SettingsInv(n)' BY <1>1 DEF SettingsInv
<1>5. ListInv(n)' BY <1>1 DEF ListInv, Reading
<1>6. ReadInv(n)' BY <1>1, Zenon DEF ReadInv, Reading
<1> QED BY <1>3, <1>4, <1>5, <1>6 DEF NodeInv

(* A step that only returns from the update keeps the invariant. *)
LEMMA ReturnOnly ==
    ASSUME TypeOK, NEW n \in Node, NodeInv(n), Return(n),
           UNCHANGED <<version, keyAt, settings, current, bls>>
    PROVE  NodeInv(n)'
<1>1. KeyInv(n)' BY Zenon DEF NodeInv, KeyInv
<1>2. current'[n] <= version BY Zenon DEF NodeInv, VersionsInv
<1> QED BY <1>1, <1>2, ReturnInv, Zenon DEF NodeInv, SettingsInv

(* The steps of UpdateVSSConfig up to the last comparison. *)
LEMMA ReadSteps ==
    ASSUME TypeOK, ContractInv, NEW n \in Node, NodeInv(n),
           \/ RunVssStateMachine(n) \/ ReadVersion(n) \/ ReadList(n)
           \/ ReadBefore(n) \/ SharesReceived(n)
           \/ shouldUpdateVSSConfig(n)
    PROVE  NodeInv(n)'
<1> USE DEF contract, state
<1>i. VersionsInv(n) /\ KeyInv(n) /\ SettingsInv(n) /\ ListInv(n) /\ ReadInv(n) BY DEF NodeInv
<1>0. /\ version \in Version /\ version \in Nat /\ outer[n] \in Nat /\ inner[n] \in Nat
      /\ version <= version
      /\ \A a \in Node : 0 <= upload[a] /\ upload[a] <= upload[a] /\ NoKey[a] = 0
  BY DEF TypeOK, Version, Key, NoKey
<1>1. CASE RunVssStateMachine(n)
  <2>1. /\ outer'[n] = version /\ pc'[n] \in {"ready", "version"} /\ ~Reading(n)
        /\ inner'[n] = inner[n] /\ version' = version /\ keyAt' = keyAt
        /\ pub' = pub /\ pri' = pri /\ settings' = settings /\ current' = current /\ bls' = bls
    BY <1>1 DEF RunVssStateMachine, Go, TypeOK, Reading
  <2>2. VersionsInv(n)' BY <1>i, <1>0, <2>1, Zenon DEF VersionsInv
  <2>3. KeyInv(n)' BY <1>i, <2>1, Zenon DEF KeyInv
  <2>4. SettingsInv(n)' BY <1>i, <2>1, Zenon DEF SettingsInv
  <2>5. ListInv(n)' BY <1>i, <2>1, Zenon DEF ListInv, Reading
  <2>6. ReadInv(n)' BY <1>i, <2>1, Zenon DEF ReadInv, Reading
  <2> QED BY <2>2, <2>3, <2>4, <2>5, <2>6 DEF NodeInv
<1>2. CASE ReadVersion(n)
  <2>1. /\ inner'[n] = version /\ pc'[n] = "list" /\ ~Reading(n)
        /\ outer' = outer /\ version' = version /\ keyAt' = keyAt
        /\ pub' = pub /\ pri' = pri /\ settings' = settings /\ current' = current /\ bls' = bls
    BY <1>2 DEF ReadVersion, Go, TypeOK, Reading
  <2>2. VersionsInv(n)' BY <1>i, <1>0, <2>1, Zenon DEF VersionsInv
  <2>3. KeyInv(n)' BY <1>i, <2>1, Zenon DEF KeyInv
  <2>4. SettingsInv(n)' BY <1>i, <2>1, Zenon DEF SettingsInv
  <2>5. ListInv(n)' BY <1>i, <2>1, Zenon DEF ListInv, Reading
  <2>6. ReadInv(n)' BY <1>i, <2>1, Zenon DEF ReadInv, Reading
  <2> QED BY <2>2, <2>3, <2>4, <2>5, <2>6 DEF NodeInv
<1>3. CASE ReadList(n)
  <2>1. /\ list'[n] = members /\ pc'[n] = "wait" /\ ~Reading(n)
        /\ outer' = outer /\ inner' = inner /\ version' = version /\ keyAt' = keyAt /\ members' = members
        /\ pub' = pub /\ pri' = pri /\ settings' = settings /\ current' = current /\ bls' = bls
    BY <1>3 DEF ReadList, Go, TypeOK, Reading
  <2>2. VersionsInv(n)' BY <1>i, <2>1, Zenon DEF VersionsInv
  <2>3. KeyInv(n)' BY <1>i, <2>1, Zenon DEF KeyInv
  <2>4. SettingsInv(n)' BY <1>i, <2>1, Zenon DEF SettingsInv
  <2>5. ListInv(n)' BY <1>i, <2>1, Zenon DEF ListInv, Reading
  <2>6. ReadInv(n)' BY <1>i, <2>1, Zenon DEF ReadInv, Reading
  <2> QED BY <2>2, <2>3, <2>4, <2>5, <2>6 DEF NodeInv
<1>4. CASE ReadBefore(n)
  <2>1. /\ before'[n] = KeyOf(list[n], upload) /\ pc[n] = "before" /\ pc'[n] = "pub" /\ ~Reading(n)
        /\ outer' = outer /\ inner' = inner /\ list' = list /\ version' = version /\ keyAt' = keyAt
        /\ members' = members /\ upload' = upload
        /\ pub' = pub /\ pri' = pri /\ settings' = settings /\ current' = current /\ bls' = bls
    BY <1>4 DEF ReadBefore, Go, TypeOK, Reading
  <2>2. VersionsInv(n)' BY <1>i, <2>1, Zenon DEF VersionsInv
  <2>3. KeyInv(n)' BY <1>i, <2>1, Zenon DEF KeyInv
  <2>4. SettingsInv(n)' BY <1>i, <2>1, Zenon DEF SettingsInv
  <2>5. ListInv(n)' BY <1>i, <2>1, Zenon DEF ListInv, Reading
  <2>6. \A a \in Node : before'[n][a] <= upload[a]
    <3>1. \A a \in Node : KeyOf(list[n], upload)[a] = IF a \in list[n] THEN upload[a] ELSE 0 BY Zenon DEF KeyOf
    <3> QED BY <1>0, <2>1, <3>1, Zenon
  <2>7. pub'[n] = NoKey /\ pri'[n] = NoKey BY <1>i, <2>1, Zenon DEF ReadInv
  <2>8. SharesBetween(n, pub)' /\ SharesBetween(n, pri)' BY <1>0, <2>7, Zenon DEF SharesBetween
  <2>9. ReadInv(n)' BY <1>i, <1>0, <2>1, <2>6, <2>7, <2>8, Zenon DEF ReadInv, Reading
  <2> QED BY <2>2, <2>3, <2>4, <2>5, <2>9 DEF NodeInv
<1>5. CASE SharesReceived(n)
  <2>1. /\ \/ pc[n] = "pub" /\ Complete(n, pub) /\ pc'[n] = "pri"
           \/ pc[n] = "pri" /\ Complete(n, pri) /\ pc'[n] = "after"
        /\ UNCHANGED <<version, members, upload, keyAt, outer, inner, list, before, pub, pri,
                       settings, current, bls>>
    BY <1>5 DEF SharesReceived, Go, TypeOK, update
  <2>2. VersionsInv(n)' BY <1>i, <2>1, Zenon DEF VersionsInv
  <2>3. KeyInv(n)' BY <1>i, <2>1, Zenon DEF KeyInv
  <2>4. SettingsInv(n)' BY <1>i, <2>1, Zenon DEF SettingsInv
  <2>5. ListInv(n)' BY <1>i, <2>1, Zenon DEF ListInv, Reading
  <2>6. Reading(n) /\ Reading(n)' BY <2>1, Zenon DEF Reading
  <2>7. ReadInv(n)' BY <1>i, <2>1, <2>6, Zenon DEF ReadInv, SharesBetween, Complete
  <2> QED BY <2>2, <2>3, <2>4, <2>5, <2>7 DEF NodeInv
<1>6. CASE shouldUpdateVSSConfig(n)
  <2>1. CASE Recheck(n) BY <2>1, ReturnOnly DEF Recheck
  <2>2. CASE ~Recheck(n)
    <3>1. /\ pc[n] = "wait" /\ pc'[n] = "before"
          /\ UNCHANGED <<version, members, upload, keyAt, outer, inner, list, before, pub, pri,
                         settings, current, bls>>
      BY <1>6, <2>2 DEF shouldUpdateVSSConfig, Go, TypeOK, update
    <3>2. VersionsInv(n)' BY <1>i, <3>1, Zenon DEF VersionsInv
    <3>3. KeyInv(n)' BY <1>i, <3>1, Zenon DEF KeyInv
    <3>4. SettingsInv(n)' BY <1>i, <3>1, Zenon DEF SettingsInv
    <3>5. ListInv(n)' BY <1>i, <3>1, Zenon DEF ListInv, Reading
    <3>6. ReadInv(n)' BY <1>i, <3>1, Zenon DEF ReadInv, Reading
    <3> QED BY <3>2, <3>3, <3>4, <3>5, <3>6 DEF NodeInv
  <2> QED BY <2>1, <2>2 DEF NodeInv
<1> QED BY <1>1, <1>2, <1>3, <1>4, <1>5, <1>6

(* A share is read: the upload it is of is the newest one. *)
LEMMA ShareSteps ==
    ASSUME TypeOK, ContractInv, NEW n \in Node, NodeInv(n), NEW a \in Node,
           GetPublicShares(n, a) \/ GetPrivateShares(n, a)
    PROVE  NodeInv(n)'
<1>0. \A b \in Node : /\ upload[b] \in Nat /\ before[n][b] \in Nat
                      /\ pub[n][b] \in Nat /\ pri[n][b] \in Nat /\ upload[b] <= upload[b]
  BY DEF TypeOK, Version, Key
<1>1. /\ pc' = pc /\ Reading(n) /\ a \in list[n] /\ upload[a] # 0
      /\ UNCHANGED <<version, members, upload, keyAt, outer, inner, list, before, settings, current, bls>>
  BY DEF GetPublicShares, GetPrivateShares, contract, state, Reading
<1>2. VersionsInv(n)' /\ KeyInv(n)' BY <1>1, Zenon DEF NodeInv, VersionsInv, KeyInv
<1>3. SettingsInv(n)' BY <1>1, Zenon DEF NodeInv, SettingsInv
<1>4. ListInv(n)' BY <1>1, Zenon DEF NodeInv, ListInv, Reading
<1>5. /\ \A b \in Node : before[n][b] <= upload[b]
      /\ SharesBetween(n, pub) /\ SharesBetween(n, pri)
      /\ inner[n] = version => \A b \in Node : pub[n][b] = 0 \/ pub[n][b] = upload[b]
      /\ pc[n] \in {"pri", "after", "verify"} => Complete(n, pub)
  BY <1>1, Zenon DEF NodeInv, ReadInv
<1>6. CASE GetPublicShares(n, a)
  <2>1. /\ pc[n] = "pub" /\ pri' = pri
        /\ \A b \in Node : pub'[n][b] = IF b = a THEN upload[a] ELSE pub[n][b]
    BY <1>6, Zenon DEF GetPublicShares, TypeOK, Key
  <2>2. SharesBetween(n, pri)' BY <1>1, <1>5, <2>1, Zenon DEF SharesBetween
  <2>3. SharesBetween(n, pub)'
    <3> SUFFICES ASSUME NEW b \in Node, pub'[n][b] # 0
                 PROVE  b \in list[n] /\ before[n][b] <= pub'[n][b] /\ pub'[n][b] <= upload[b]
      BY <1>1, Zenon DEF SharesBetween
    <3>1. CASE b = a BY <1>0, <1>1, <1>5, <2>1, <3>1, Zenon
    <3>2. CASE b # a BY <1>5, <2>1, <3>2, Zenon DEF SharesBetween
    <3> QED BY <3>1, <3>2, Zenon
  <2>4. inner[n] = version => \A b \in Node : pub'[n][b] = 0 \/ pub'[n][b] = upload[b]
    BY <1>5, <2>1, Zenon
  <2>5. ReadInv(n)' BY <1>1, <1>5, <2>1, <2>2, <2>3, <2>4, Zenon DEF ReadInv, Reading
  <2> QED BY <1>2, <1>3, <1>4, <2>5, Zenon DEF NodeInv
<1>7. CASE GetPrivateShares(n, a)
  <2>1. /\ pc[n] = "pri" /\ pub' = pub
        /\ \A b \in Node : pri'[n][b] = IF b = a THEN upload[a] ELSE pri[n][b]
    BY <1>7, Zenon DEF GetPrivateShares, TypeOK, Key
  <2>2. SharesBetween(n, pub)' BY <1>1, <1>5, <2>1, Zenon DEF SharesBetween
  <2>3. SharesBetween(n, pri)'
    <3> SUFFICES ASSUME NEW b \in Node, pri'[n][b] # 0
                 PROVE  b \in list[n] /\ before[n][b] <= pri'[n][b] /\ pri'[n][b] <= upload[b]
      BY <1>1, Zenon DEF SharesBetween
    <3>1. CASE b = a BY <1>0, <1>1, <1>5, <2>1, <3>1, Zenon
    <3>2. CASE b # a BY <1>5, <2>1, <3>2, Zenon DEF SharesBetween
    <3> QED BY <3>1, <3>2, Zenon
  <2>4. Complete(n, pub)' BY <1>1, <1>5, <2>1, Zenon DEF Complete
  <2>5. ReadInv(n)' BY <1>1, <1>5, <2>1, <2>2, <2>3, <2>4, Zenon DEF ReadInv, Reading
  <2> QED BY <1>2, <1>3, <1>4, <2>5 DEF NodeInv
<1> QED BY <1>6, <1>7

(* An unchanged lastConfigUpload means that all shares are of the uploads    *)
(* there are: public and private ones agree.                                 *)
LEMMA SharesAgree ==
    ASSUME TypeOK, NEW n \in Node, NodeInv(n), NotChanged(n)
    PROVE  pub[n] = pri[n]
<1>0. \A b \in Node : /\ upload[b] \in Nat /\ before[n][b] \in Nat
                      /\ pub[n][b] \in Nat /\ pri[n][b] \in Nat
  BY DEF TypeOK, Version, Key
<1>1. before[n] = KeyOf(list[n], upload) BY Zenon DEF NotChanged, Changed
<1>2. \A b \in Node : KeyOf(list[n], upload)[b] = IF b \in list[n] THEN upload[b] ELSE 0 BY Zenon DEF KeyOf
<1>3. /\ SharesBetween(n, pub) /\ SharesBetween(n, pri) /\ Complete(n, pub) /\ Complete(n, pri)
  BY Zenon DEF NodeInv, ReadInv, Reading, NotChanged
<1>4. list[n] \subseteq Node BY DEF TypeOK
<1>5. \A b \in Node : pub[n][b] = KeyOf(list[n], upload)[b]
  BY <1>0, <1>1, <1>2, <1>3, <1>4 DEF SharesBetween, Complete
<1>6. \A b \in Node : pri[n][b] = KeyOf(list[n], upload)[b]
  BY <1>0, <1>1, <1>2, <1>3, <1>4 DEF SharesBetween, Complete
<1>7. pub[n] \in [Node -> Version] /\ pri[n] \in [Node -> Version] BY Zenon DEF TypeOK, Key
<1>8. \A b \in Node : pub[n][b] = pri[n][b] BY <1>5, <1>6, Zenon
<1> QED BY <1>7, <1>8

(* The comparison of the shares accuses nobody. *)
LEMMA CompareStep ==
    ASSUME TypeOK, NEW n \in Node, NodeInv(n), NotChanged(n)
    PROVE  NodeInv(n)'
<1>i. VersionsInv(n) /\ KeyInv(n) /\ SettingsInv(n) /\ ListInv(n) /\ ReadInv(n) BY DEF NodeInv
<1>1. /\ pc[n] = "after" /\ pc'[n] = "verify"
      /\ UNCHANGED <<version, members, upload, keyAt, outer, inner, list, before, pub, pri,
                     settings, current, bls>>
  BY DEF NotChanged, Go, TypeOK, contract, update, state
<1>2. pub[n] = pri[n] BY SharesAgree, Zenon
<1>3. VersionsInv(n)' BY <1>i, <1>1, Zenon DEF VersionsInv
<1>4. KeyInv(n)' BY <1>i, <1>1, Zenon DEF KeyInv
<1>5. SettingsInv(n)' BY <1>i, <1>1, Zenon DEF SettingsInv
<1>6. ListInv(n)' BY <1>i, <1>1, Zenon DEF ListInv, Reading
<1>7. Reading(n) /\ Reading(n)' BY <1>1, Zenon DEF Reading
<1>8. ReadInv(n)' BY <1>i, <1>1, <1>2, <1>7, Zenon DEF ReadInv, SharesBetween, Complete
<1> QED BY <1>3, <1>4, <1>5, <1>6, <1>8 DEF NodeInv

(* The shares read make the key of the version as long as the version is the *)
(* contract's.                                                               *)
LEMMA SharesMakeKey ==
    ASSUME TypeOK, ContractInv, NEW n \in Node, NodeInv(n), pc[n] = "verify", inner[n] = version
    PROVE  pub[n] = keyAt[version]
<1>1. list[n] = members BY DEF NodeInv, ListInv, Reading
<1>2. /\ SharesBetween(n, pub) /\ Complete(n, pub)
      /\ \A b \in Node : pub[n][b] = 0 \/ pub[n][b] = upload[b]
  BY DEF NodeInv, ReadInv, Reading
<1>3. \A b \in Node : KeyOf(members, upload)[b] = IF b \in members THEN upload[b] ELSE 0 BY Zenon DEF KeyOf
<1>4. \A b \in Node : pub[n][b] = KeyOf(members, upload)[b]
  BY <1>1, <1>2, <1>3, Zenon DEF SharesBetween, Complete
<1>5. pub[n] \in [Node -> Version] BY Zenon DEF TypeOK, Key
<1>6. KeyOf(members, upload) \in [Node -> Version] BY KeyOfType, Zenon DEF TypeOK, Key
<1>7. pub[n] = KeyOf(members, upload) BY <1>4, <1>5, <1>6
<1> QED BY <1>7 DEF ContractInv

(* The verification of the shares votes and accuses nobody. *)
LEMMA LastSteps ==
    ASSUME TypeOK, ContractInv, NEW n \in Node, NodeInv(n), VerifyShares(n)
    PROVE  NodeInv(n)' /\ UNCHANGED revealed
<1>1. pc[n] = "verify" /\ pub[n] = pri[n] BY Zenon DEF VerifyShares, NodeInv, ReadInv
<1>2. pub[n] = pri[n] /\ (inner[n] = version => pub[n] = keyAt[version]) BY <1>1, SharesMakeKey
<1>3. Vote(n) BY <1>2, Zenon DEF VerifyShares
<1>4. inner[n] \in Version /\ version \in Nat /\ version \in Version /\ inner[n] <= version
      /\ \A v \in Version : v \in Nat
  BY DEF TypeOK, Version, NodeInv, VersionsInv
<1>5. \A v \in Version : settings'[n][v] = IF v = inner[n] THEN pub[n] ELSE settings[n][v]
  BY <1>3 DEF Vote, TypeOK
<1>6. Return(n) /\ version' = version /\ keyAt' = keyAt /\ current' = current /\ bls' = bls
  BY Zenon DEF VerifyShares
<1>7. \A v \in Version : v > version => settings'[n][v] = NoKey
  <2>1. \A v \in Version : v > version => settings[n][v] = NoKey BY Zenon DEF NodeInv, SettingsInv
  <2>2. \A v \in Version : v > version => v # inner[n] BY <1>4
  <2> QED BY <1>5, <2>1, <2>2, Zenon
<1>8. settings'[n][version] = NoKey \/ settings'[n][version] = keyAt'[version]
  BY <1>2, <1>4, <1>5, <1>6, Zenon DEF NodeInv, SettingsInv
<1>9. current'[n] <= version BY <1>6, Zenon DEF NodeInv, VersionsInv
<1>10. KeyInv(n)' BY <1>6, Zenon DEF NodeInv, KeyInv
<1>11. NodeInv(n)' BY <1>6, <1>7, <1>8, <1>9, <1>10, ReturnInv, Zenon
<1> QED BY <1>3, <1>11 DEF Vote

(* The switch to a new version keeps the invariant. *)
LEMMA SwitchStep ==
    ASSUME TypeOK, NEW n \in Node, NodeInv(n), SwitchIfReady(n)
    PROVE  NodeInv(n)'
<1>1. Return(n) /\ version' = version /\ keyAt' = keyAt /\ settings' = settings
  BY Zenon DEF SwitchIfReady, contract
<1>2. /\ outer[n] \in Nat /\ current[n] \in Nat /\ outer[n] <= version
      /\ settings[n][outer[n]] = NoKey \/ settings[n][outer[n]] = keyAt[outer[n]]
  BY DEF TypeOK, Version, NodeInv, VersionsInv, SettingsInv, SwitchIfReady
<1>3. \/ current'[n] = current[n] /\ bls'[n] = bls[n]
      \/ /\ settings[n][outer[n]] # NoKey /\ current[n] < outer[n]
         /\ bls'[n] = settings[n][outer[n]] /\ current'[n] = outer[n]
  BY DEF SwitchIfReady, setVssConfig, TypeOK
<1>4. current'[n] <= version BY <1>2, <1>3, Zenon DEF NodeInv, VersionsInv
<1>5. KeyInv(n)'
  <2>1. current[n] < outer[n] => outer[n] # 0 BY <1>2
  <2> QED BY <1>1, <1>2, <1>3, <2>1, Zenon DEF NodeInv, KeyInv
<1> QED BY <1>1, <1>4, <1>5, ReturnInv, Zenon DEF NodeInv, SettingsInv

(* A restart keeps the invariant. *)
LEMMA RestartStep ==
    ASSUME TypeOK, NEW n \in Node, NodeInv(n), Restart(n)
    PROVE  NodeInv(n)'
<1>1. Return(n) /\ version' = version /\ current'[n] = 0 /\ bls'[n] = NoKey
      /\ \A v \in Version : settings'[n][v] = NoKey
  BY DEF Restart, TypeOK, contract
<1>2. version \in Version /\ 0 <= version BY DEF TypeOK, Version
<1>3. KeyInv(n)' BY <1>1, Zenon DEF KeyInv
<1>4. current'[n] <= version BY <1>1, <1>2, Zenon
<1>5. settings'[n][version] = NoKey BY <1>1, <1>2, Zenon
<1> QED BY <1>1, <1>3, <1>4, <1>5, ReturnInv, Zenon

(* A step of one node leaves the others, and the keys of the contract, alone.*)
LEMMA OtherNodes ==
    ASSUME TypeOK, NEW n \in Node, NEW m \in Node, m # n,
           Step(n) \/ UploadVSSConfig(n) \/ UploadTimeout(n) \/ Restart(n)
    PROVE  UNCHANGED <<version, members, upload, keyAt>> /\ UNCHANGED Local(m) /\ UNCHANGED Memory(m)
<1> USE DEF contract, update, state, Local, Memory, Go
<1> DEFINE Fixed == UNCHANGED <<version, members, upload, keyAt>> /\ UNCHANGED Local(m) /\ UNCHANGED Memory(m)
<1>1. CASE \/ RunVssStateMachine(n) \/ ReadVersion(n) \/ ReadList(n) \/ ReadBefore(n)
          \/ SharesReceived(n) \/ NotChanged(n)
  BY <1>1, Zenon DEF RunVssStateMachine, ReadVersion, ReadList, ReadBefore, SharesReceived, NotChanged, TypeOK
<1>2. ASSUME Recheck(n) \/ Omit(n) PROVE Fixed BY <1>2, Zenon DEF Recheck, Omit, Return, TypeOK
<1>3. CASE shouldUpdateVSSConfig(n) \/ shouldNotUpdateVSSConfig(n) \/ SharesTimeout(n) \/ ChangedMeanwhile(n)
  BY <1>2, <1>3, Zenon DEF shouldUpdateVSSConfig, shouldNotUpdateVSSConfig, SharesTimeout, ChangedMeanwhile, TypeOK
<1>4. ASSUME NEW a \in Node, GetPublicShares(n, a) \/ GetPrivateShares(n, a) PROVE Fixed
  BY <1>4, Zenon DEF GetPublicShares, GetPrivateShares, TypeOK
<1>5. CASE VerifyShares(n)
  <2>1. settings'[m] = settings[m] BY <1>5 DEF VerifyShares, Vote, Reveal, TypeOK
  <2> QED BY <1>5, <2>1, Zenon DEF VerifyShares, Return, TypeOK
<1>6. CASE SwitchIfReady(n)
  <2>1. current'[m] = current[m] /\ bls'[m] = bls[m] BY <1>6 DEF SwitchIfReady, setVssConfig, TypeOK
  <2> QED BY <1>6, <2>1, Zenon DEF SwitchIfReady, Return, TypeOK
<1>7. CASE UploadVSSConfig(n) \/ UploadTimeout(n) BY <1>7, Zenon DEF UploadVSSConfig, UploadTimeout
<1>8. CASE Restart(n) BY <1>8, Zenon DEF Restart, Return, TypeOK
<1> QED BY <1>1, <1>3, <1>4, <1>5, <1>6, <1>7, <1>8, Zenon DEF Step

(* A step of a node keeps its own invariant. *)
LEMMA OwnStep ==
    ASSUME TypeOK, ContractInv, NEW n \in Node, NodeInv(n),
           Step(n) \/ UploadVSSConfig(n) \/ UploadTimeout(n) \/ Restart(n)
    PROVE  NodeInv(n)' /\ UNCHANGED <<revealed, version, members, upload, keyAt>>
<1> USE DEF contract
<1>1. CASE \/ RunVssStateMachine(n) \/ ReadVersion(n) \/ ReadList(n) \/ ReadBefore(n)
          \/ SharesReceived(n) \/ NotChanged(n)
  <2>1. NodeInv(n)' BY <1>1, ReadSteps, CompareStep
  <2> QED BY <1>1, <2>1, Zenon DEF RunVssStateMachine, ReadVersion, ReadList, ReadBefore, SharesReceived, NotChanged
<1>2. CASE shouldUpdateVSSConfig(n)
  <2>1. NodeInv(n)' BY <1>2, ReadSteps
  <2> QED BY <1>2, <2>1, Zenon DEF shouldUpdateVSSConfig, Recheck
<1>3. CASE shouldNotUpdateVSSConfig(n) \/ SharesTimeout(n) \/ ChangedMeanwhile(n)
  <2>1. /\ Return(n)
        /\ UNCHANGED <<revealed, version, members, upload, keyAt, settings, current, bls>>
    BY <1>3, Zenon DEF shouldNotUpdateVSSConfig, SharesTimeout, ChangedMeanwhile, Recheck, Omit, state
  <2> QED BY <2>1, ReturnOnly
<1>4. ASSUME NEW a \in Node, GetPublicShares(n, a) \/ GetPrivateShares(n, a)
      PROVE  NodeInv(n)' /\ UNCHANGED <<revealed, version, members, upload, keyAt>>
  <2>1. NodeInv(n)' BY <1>4, ShareSteps
  <2> QED BY <1>4, <2>1 DEF GetPublicShares, GetPrivateShares
<1>5. CASE VerifyShares(n)
  <2>1. NodeInv(n)' /\ UNCHANGED revealed BY <1>5, LastSteps
  <2> QED BY <1>5, <2>1, Zenon DEF VerifyShares
<1>6. CASE SwitchIfReady(n)
  <2>1. NodeInv(n)' BY <1>6, SwitchStep
  <2> QED BY <1>6, <2>1 DEF SwitchIfReady
<1>7. CASE UploadVSSConfig(n) \/ UploadTimeout(n)
  <2>1. UNCHANGED <<revealed, version, members, upload, keyAt>> /\ UNCHANGED Local(n) /\ UNCHANGED Memory(n)
    BY <1>7, Zenon DEF UploadVSSConfig, UploadTimeout, update, state, Local, Memory
  <2> QED BY <2>1, Frame
<1>8. CASE Restart(n)
  <2>1. NodeInv(n)' BY <1>8, RestartStep
  <2> QED BY <1>8, <2>1 DEF Restart
<1> QED BY <1>1, <1>2, <1>3, <1>4, <1>5, <1>6, <1>7, <1>8 DEF Step

(* Every step of a node keeps the invariant. *)
LEMMA NodeSteps ==
    ASSUME VssInv, NEW n \in Node,
           Step(n) \/ UploadVSSConfig(n) \/ UploadTimeout(n) \/ Restart(n)
    PROVE  VssInv'
<1>1. TypeOK /\ ContractInv /\ revealed = {} /\ \A m \in Node : NodeInv(m) BY DEF VssInv, NodeInv
<1>2. TypeOK' BY <1>1, TypeStep, TypeOther
<1>3. NodeInv(n)' /\ UNCHANGED <<revealed, version, members, upload, keyAt>> BY <1>1, OwnStep
<1>4. ASSUME NEW m \in Node, m # n PROVE NodeInv(m)'
  <2>1. UNCHANGED <<version, members, upload, keyAt>> /\ UNCHANGED Local(m) /\ UNCHANGED Memory(m)
    BY <1>1, <1>4, OtherNodes
  <2> QED BY <1>1, <2>1, Frame
<1>5. \A m \in Node : NodeInv(m)' BY <1>3, <1>4
<1>6. ContractInv' BY <1>1, <1>3, Zenon DEF ContractInv, KeyOf
<1> QED BY <1>1, <1>2, <1>3, <1>5, <1>6 DEF VssInv, NodeInv

(* A step that changes nothing keeps the invariant. *)
LEMMA Stutter == VssInv /\ UNCHANGED vars => VssInv'
<1> SUFFICES ASSUME VssInv, UNCHANGED vars PROVE VssInv' OBVIOUS
<1> USE DEF vars, contract, uploader, update, state, bounds
<1>1. TypeOK' BY Zenon DEF VssInv, TypeOK
<1>2. ContractInv' /\ revealed' = {} BY Zenon DEF VssInv, ContractInv, KeyOf
<1>3. ASSUME NEW m \in Node PROVE NodeInv(m)'
  <2>1. UNCHANGED <<version, members, upload, keyAt>> /\ UNCHANGED Local(m) /\ UNCHANGED Memory(m)
    BY Zenon DEF Local, Memory
  <2> QED BY <2>1, Frame DEF VssInv, NodeInv
<1> QED BY <1>1, <1>2, <1>3 DEF VssInv, NodeInv

(* The invariant holds at first. *)
LEMMA InitInv == Init => VssInv
<1> SUFFICES ASSUME Init PROVE VssInv OBVIOUS
<1>0. /\ NoKey \in Key /\ 0 \in Version /\ 1 \in Version /\ \A a \in Node : NoKey[a] = 0
  BY NoKeyType DEF Version, NoKey
<1>1. TypeOK BY <1>0 DEF Init, TypeOK
<1>2. ContractInv
  <2>1. KeyOf(members, NoKey) = NoKey BY DEF KeyOf, NoKey
  <2> QED BY <1>0, <2>1 DEF Init, ContractInv
<1>3. ASSUME NEW n \in Node PROVE VersionsInv(n) /\ KeyInv(n) /\ SettingsInv(n) /\ ListInv(n) /\ ReadInv(n)
  <2>1. VersionsInv(n) /\ KeyInv(n) BY DEF Init, VersionsInv, KeyInv
  <2>2. SettingsInv(n) BY <1>0 DEF Init, SettingsInv
  <2>3. ListInv(n) /\ ReadInv(n) BY DEF Init, ListInv, ReadInv, Reading
  <2> QED BY <2>1, <2>2, <2>3
<1> QED BY <1>1, <1>2, <1>3 DEF Init, VssInv

(* The invariant of RunVssStateMachine and UpdateVSSConfig holds for every   *)
(* set of nodes, every threshold and every number of uploads, node changes,  *)
(* restarts and failed votes.                                                *)
THEOREM AgreementInvariant == Spec => []VssInv
<1>1. VssInv /\ [Next]_vars => VssInv'
  <2> SUFFICES ASSUME VssInv, [Next]_vars PROVE VssInv' OBVIOUS
  <2>1. CASE \E nodes \in SUBSET Node : NodeChange(nodes) BY <2>1, ContractSteps
  <2>2. CASE \E n \in Node : Uploaded(n) BY <2>2, ContractSteps
  <2>3. ASSUME NEW n \in Node, Step(n) \/ UploadVSSConfig(n) \/ UploadTimeout(n) \/ Restart(n)
        PROVE  VssInv'
    BY <2>3, NodeSteps
  <2>4. CASE UNCHANGED vars BY <2>4, Stutter
  <2> QED BY <2>1, <2>2, <2>3, <2>4 DEF Next
<1> QED BY <1>1, InitInv, PTL DEF Spec

(* A node on version v uses the group key of version v: setVssConfig never   *)
(* installs a key built from uploads of another version.                     *)
THEOREM KeyIsOfVersion == Spec => []KeyOfVersion
<1>1. VssInv => KeyOfVersion BY DEF VssInv, KeyInv, KeyOfVersion
<1> QED BY <1>1, AgreementInvariant, PTL

(* Nodes on the same version use the same group key. *)
THEOREM GroupKeyAgreement == Spec => []SameKey
<1>1. VssInv => SameKey BY DEF VssInv, KeyInv, SameKey
<1> QED BY <1>1, AgreementInvariant, PTL

(* UpdateVSSConfig never compares shares of two uploads, so vssReveal        *)
(* accuses nobody who follows the protocol.                                  *)
THEOREM NoFalseAccusation == Spec => []NobodyAccused
<1>1. VssInv => NobodyAccused BY DEF VssInv, NobodyAccused
<1> QED BY <1>1, AgreementInvariant, PTL
=============================================================================
