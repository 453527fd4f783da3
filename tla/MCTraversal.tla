---------------------------- MODULE MCTraversal ----------------------------
(* Small collections and odd pages for TLC. *)
EXTENDS TraversalProps

MCItems == 1 .. 7
MCCollections == {[i \in 1 .. n |-> i] : n \in 0 .. 7}
MCOddPages == {[i \in 1 .. n |-> 1] : n \in 0 .. 3}
=============================================================================
