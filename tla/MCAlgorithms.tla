---------------------------- MODULE MCAlgorithms ---------------------------
(***************************************************************************)
(* A small deck: a suit of four values, so that runs overlap, two suits of *)
(* one value and two honors.  Words of four bits, and every argument that  *)
(* fits one, the one below and the one above.                              *)
(***************************************************************************)
EXTENDS Algorithms, Bitwise
CONSTANTS b1, b2, c1, c2
SmallDeck == <<4, 1, 1, 2>>
WildCard == <<1, 2>>
BitwiseOr(a, b) == a | b
OneWord == (-1)..Word
=============================================================================
