--------------------------- MODULE MCDataSession ---------------------------
(***************************************************************************)
(* Instances of DataSession for TLC.                                       *)
(***************************************************************************)
EXTENDS DataSession, FiniteSets

CONSTANTS a1, a2, s1, w1, w2

TwoAsync == {a1, a2}
OneSync == {s1}
TwoWorkers == {w1, w2}

\* Bound: any two of the three calls are made.  Only Register and Reject make
\* a call, and neither is assumed fair, so no fair step is cut off.
TwoCalls == Cardinality({s \in Ops : pc[s] # "idle"}) <= 2
=============================================================================
