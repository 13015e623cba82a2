--------------------------- MODULE MCServerConns ---------------------------
(***************************************************************************)
(* Instances of ServerConns for TLC.                                       *)
(***************************************************************************)
EXTENDS ServerConns

CONSTANTS x, y, z, i, j

\* A service that reconnects, and another one.
ThreeConns == {x, y, z}
TwoIds == {i, j}
IdOfThree == [c \in ThreeConns |-> IF c = z THEN j ELSE i]
=============================================================================
