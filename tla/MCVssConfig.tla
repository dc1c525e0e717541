---------------------------- MODULE MCVssConfig ----------------------------
(* Instances of VssConfig for TLC. *)
EXTENDS VssConfig

CONSTANT Reader     \* bound: the nodes whose state machine runs

(* The nodes that are no readers upload their shares and do nothing else: a  *)
(* subset of the steps of Next with room for more versions.                  *)
ReaderNext ==
    \/ \E nodes \in SUBSET Node : NodeChange(nodes)
    \/ \E n \in Node : Uploaded(n) \/ UploadVSSConfig(n) \/ UploadTimeout(n)
    \/ \E n \in Reader : Step(n) \/ Restart(n)
=============================================================================
