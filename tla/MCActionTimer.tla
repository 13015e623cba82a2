--------------------------- MODULE MCActionTimer ---------------------------
(***************************************************************************)
(* Instances of ActionTimer for TLC.                                       *)
(***************************************************************************)
EXTENDS ActionTimer

\* A one-shot call, and a repeating one whose id is given to a one-shot as well.
ThreeCalls == {"c1", "c2", "c3"}
TwoIds == {"i1", "i2"}
IdOfThree == [c \in ThreeCalls |-> IF c = "c1" THEN "i1" ELSE "i2"]
TheThird == {"c3"}
IdOfThird == [c \in TheThird |-> "i2"]
=============================================================================
