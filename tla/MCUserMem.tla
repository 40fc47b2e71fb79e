----------------------------- MODULE MCUserMem -----------------------------
(***************************************************************************)
(* Instances of UserMem for TLC, with half pages as the unit.              *)
(***************************************************************************)
EXTENDS UserMem

Amounts == {-3, 1, 5}
=============================================================================
