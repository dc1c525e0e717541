---------------------------- MODULE MCTxPool ----------------------------
(* Instances of the transaction pool for TLC. *)
EXTENDS TxPool
CONSTANTS a1, a2

(* Three nonces of a1, two of them at two prices, and two transactions of a2 to
   compete with them for the slots. *)
MCTx ==
  [from : {a1}, nonce : 0..1, price : {1, 2}] \cup
  {[from |-> a1, nonce |-> 2, price |-> 1],
   [from |-> a2, nonce |-> 0, price |-> 1], [from |-> a2, nonce |-> 1, price |-> 2]}
=======================================================================
