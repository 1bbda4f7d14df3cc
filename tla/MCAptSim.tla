------------------------------ MODULE MCAptSim ------------------------------
(***************************************************************************)
(* AptSim for TLC.  Tenants are interchangeable, and so are the agents     *)
(* other than the first; the safety runs use that.                         *)
(***************************************************************************)
EXTENDS AptSim, TLC

Symmetry == Permutations(Tenants) \cup Permutations(Agents \ {Agent0})
=============================================================================
