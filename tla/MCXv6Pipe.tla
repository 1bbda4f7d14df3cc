----------------------------- MODULE MCXv6Pipe ------------------------------
(***************************************************************************)
(* Two processes share one pipe of two bytes whose counters wrap at four;  *)
(* a write is longer than the pipe.                                        *)
(***************************************************************************)
EXTENDS Xv6Pipe

\* What the processes write.
MCWrites == {<<0, 1, 1>>}
=============================================================================
