---------------------------- MODULE MCMintForward ----------------------------
(* Instances of MintForward for TLC: two workers of the node that has the    *)
(* turn, one of them of the previous configuration, and one of another node. *)
EXTENDS MintForward

CONSTANTS old, new, other

MCNodeOf == [w \in Forwarder |-> IF w = other THEN 1 ELSE 0]
=============================================================================
