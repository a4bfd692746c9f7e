------------------------------ MODULE MCTxRing ------------------------------
(* LwipLink with its ring for TLC: a ring of 4 whose indices wrap after 8.   *)
EXTENDS LwipLink
=============================================================================
