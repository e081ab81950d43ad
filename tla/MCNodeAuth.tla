----------------------------- MODULE MCNodeAuth -----------------------------
(* Instances of NodeAuth. *)
EXTENDS NodeAuth, TLC

Symmetry == Permutations(Calls)
=============================================================================
