------------------------------ MODULE MCXv6Log ------------------------------
(* Xv6Log for TLC. *)
EXTENDS Xv6Log, TLC

CONSTANTS b1, b2, b3, t1, t2
=============================================================================
