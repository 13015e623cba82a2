--------------------------- MODULE MCRoutinePool ---------------------------
(***************************************************************************)
(* Instances of RoutinePool for TLC.                                       *)
(***************************************************************************)
EXTENDS RoutinePool

CONSTANTS r1, r2, x, y, z

TwoRoutines == {r1, r2}
ThreeCalls == {x, y, z}
=============================================================================
