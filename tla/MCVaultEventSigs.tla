-------------------------- MODULE MCVaultEventSigs --------------------------
(* Instances of VaultEventSigs for TLC. *)
EXTENDS VaultEventSigs, TLC

CONSTANTS n1, n2, n3

Mesh == {l \in SUBSET Node : Cardinality(l) = 2}
Line == {{n1, n2}, {n2, n3}}
Symmetry == Permutations(Node)
=============================================================================
