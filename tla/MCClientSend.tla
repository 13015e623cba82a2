---------------------------- MODULE MCClientSend ----------------------------
(***************************************************************************)
(* Instances of ClientSend for TLC.                                        *)
(***************************************************************************)
EXTENDS ClientSend

CONSTANTS s1, s2, x, y

TwoServers == {s1, s2}
\* Two lists with route tables that lead to their last server, and one whose route
\* table leads beyond it.
ThreeConfigs == {"small", "large", "misfit"}
ListOf == [v \in ThreeConfigs |-> IF v = "small" THEN <<s1>> ELSE <<s1, s2>>]
OneHash == {1}
Index == [v \in ThreeConfigs |->
            [h \in OneHash |-> CASE v = "small" -> 0 [] v = "large" -> 1
                                  [] v = "misfit" -> 2]]
TwoSenders == {x, y}
=============================================================================
