----------------------------- MODULE MCEc20App -----------------------------
(* Ec20App for TLC.                                                          *)
EXTENDS Ec20App
=============================================================================
