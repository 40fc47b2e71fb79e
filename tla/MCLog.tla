------------------------------- MODULE MCLog -------------------------------
(* Instances of Log for TLC.                                               *)
EXTENDS LogProof, TLC

Symmetry == Permutations(Procs) \union Permutations(Blocks) \union Permutations(Vals)
=============================================================================
