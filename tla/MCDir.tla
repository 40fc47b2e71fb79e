------------------------------- MODULE MCDir -------------------------------
(***************************************************************************)
(* Instances of Dir for TLC: two names in the root, one of them also below *)
(* the other.                                                              *)
(***************************************************************************)
EXTENDS Dir, TLC

Symmetry == Permutations(Procs)

ThreePaths == {<<"a">>, <<"b">>, <<"a", "b">>}
=============================================================================
