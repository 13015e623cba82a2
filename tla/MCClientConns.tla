---------------------------- MODULE MCClientConns ----------------------------
(***************************************************************************)
(* Instances of ClientConns for TLC.                                       *)
(***************************************************************************)
EXTENDS ClientConns

CONSTANTS a1, a2, b1, s1, s2

\* The first server has two addresses, as in the sample configuration.
ThreeAddrs == {a1, a2, b1}
TwoAddrs == {a1, b1}
TwoServers == {s1, s2}
IdOfThree == [a \in ThreeAddrs |-> IF a = b1 THEN s2 ELSE s1]
IdOfTwo == [a \in TwoAddrs |-> IF a = b1 THEN s2 ELSE s1]

TwoConfigs == {"small", "large"}
ListOf == [v \in TwoConfigs |-> IF v = "small" THEN <<s1>> ELSE <<s1, s2>>]
=============================================================================
