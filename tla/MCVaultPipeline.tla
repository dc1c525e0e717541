-------------------------- MODULE MCVaultPipeline --------------------------
EXTENDS VaultPipeline, TLC

CONSTANTS n1, n2

OneNode == {<<n1>>}
TwoNodes == {<<n1, n2>>, <<n2, n1>>}

\* TwoNodes holds both orders, so exchanging the nodes maps behaviours to behaviours.
NodeSymmetry == Permutations(Node)
=============================================================================
