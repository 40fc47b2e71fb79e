------------------------------ MODULE MCBufSync ------------------------------
(* Instances of BufSync for TLC.                                           *)
EXTENDS BufSyncProof, TLC

Symmetry == Permutations(Procs) \union Permutations(Blocks)
=============================================================================
