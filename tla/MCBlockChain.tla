--------------------------- MODULE MCBlockChain ---------------------------
(* Two branches: a1-a2-a3 of equal difficulties and the shorter but heavier
   b1-b2; x2 on a1 is not valid. *)
EXTENDS BlockChain, TLC
CONSTANTS g, a1, a2, a3, b1, b2, x2, t1, t2, none

MCParent == g :> none @@ a1 :> g @@ a2 :> a1 @@ a3 :> a2 @@ b1 :> g @@ b2 :> b1 @@ x2 :> a1
MCDifficulty == [b \in {g, a1, a2, a3, b1, b2, x2} |-> IF b = b2 THEN 3 ELSE 1]
MCTxOf == [b \in {g, a1, a2, a3, b1, b2, x2} |->
  IF b = a1 THEN {t1} ELSE IF b = b2 THEN {t1} ELSE IF b = a2 THEN {t2} ELSE {}]
=======================================================================
