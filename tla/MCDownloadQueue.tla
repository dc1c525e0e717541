------------------------ MODULE MCDownloadQueue ------------------------
EXTENDS DownloadQueue, TLC
MCNoData == [k \in Kind |-> IF k = "body" THEN {2} ELSE {1}]
SymmQ == Permutations(Source)
=======================================================================
