----------------------------- MODULE MCNetConn -----------------------------
(***************************************************************************)
(* Instances of NetConn for TLC.                                           *)
(***************************************************************************)
EXTENDS NetConn

CONSTANTS u1, u2, m1, m2

OneCloser == {u1}
TwoClosers == {u1, u2}
OneMsg == {m1}
TwoMsgs == {m1, m2}
=============================================================================
