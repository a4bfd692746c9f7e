---------------------------- MODULE MCEc20Class ----------------------------
(* Ec20Class for TLC: packets of 2 bytes, buffers of one to two packets with  *)
(* and without an empty packet at the end.                                   *)
EXTENDS Ec20Class
MCLengths == {1, 2, 3, 4}
=============================================================================
