--------------------------- MODULE MCWebService ----------------------------
(***************************************************************************)
(* One node at a time: nothing is shared between nodes but listenDelNode.  *)
(***************************************************************************)
EXTENDS WebService
CONSTANTS n1, c1, c2, loop, r2
=============================================================================
