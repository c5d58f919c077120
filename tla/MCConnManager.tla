--------------------------- MODULE MCConnManager ---------------------------
(* Instances of ConnManager for TLC: TCP 4-tuples that are used again and  *)
(* UDP 4-tuples from two sources to one server, which may be exchanged.    *)
EXTENDS ConnManager, TLC

CONSTANTS firstApp, secondApp, otherApp, server

OneTcp == {[src |-> otherApp, dst |-> server]}
TwoUdp == {[src |-> firstApp, dst |-> server],
           [src |-> secondApp, dst |-> server]}
NoFlow == {}
Swapped == Permutations({firstApp, secondApp})
=============================================================================
