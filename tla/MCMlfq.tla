------------------------------- MODULE MCMlfq -------------------------------
(***************************************************************************)
(* Instances of Mlfq: time quanta short enough for a process to pass all   *)
(* the queues in a few ticks.                                              *)
(***************************************************************************)
EXTENDS Mlfq

\* In the place of 4, 6 and 8 ticks.
ShortQuanta == [l \in 0 .. 2 |-> IF l = 1 THEN 2 ELSE 1]

UnitQuanta == [l \in 0 .. 2 |-> 1]
=============================================================================
