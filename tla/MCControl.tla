----------------------------- MODULE MCControl ------------------------------
(***************************************************************************)
(* A synchronised configuration a, whose hook notifies the client, one     *)
(* that HTTP commands set, w, and that of the server, s, that reloads pass *)
(* over, and whose hook panics.                                            *)
(***************************************************************************)
EXTENDS Control
CONSTANTS a, w, s, h1, h2
\* A good text, one that the hook refuses, one that is none, and the commands that
\* change nothing.
SetCommands == {[name |-> w, text |-> t] : t \in {1, 2, Torn, Blank}}
               \union {[name |-> s, text |-> 2]}
=============================================================================
