----------------------------- MODULE MCBigFile -----------------------------
(***************************************************************************)
(* An instance of BigFile for TLC: one file that reaches the end of the    *)
(* triple tree, and a small one that takes blocks in between.              *)
(***************************************************************************)
EXTENDS BigFile, TLC

Symmetry == Permutations(Procs)

Sizes == [i \in Inodes |-> IF i = 1 THEN MAXFILE * BSIZE + 1 ELSE 1]
=============================================================================
