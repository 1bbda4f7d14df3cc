------------------------------ MODULE MCCs1550 ------------------------------
(***************************************************************************)
(* Instances of Cs1550 for TLC.                                            *)
(***************************************************************************)
EXTENDS Cs1550

Symmetry == Permutations(Dirs) \cup Permutations(Files)

\* At most MAX_DATA_IN_BLOCK bytes at a time, so that no write takes a second new
\* block and MoreBlocks has no step.
ShortBufs == {<<1>>, <<2, 3>>}
ShortSpec == Init /\ [][ShortNext]_vars

\* A write over three blocks.
LongBufs == {<<1, 2, 3, 4, 5>>}
=============================================================================
