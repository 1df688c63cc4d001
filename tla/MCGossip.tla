------------------------------- MODULE MCGossip -------------------------------
(***************************************************************************)
(* A small mesh for Gossip: three nodes that all know each other.          *)
(***************************************************************************)
EXTENDS Gossip

MCNode == {"a", "b", "c"}
MCTriangle == [n \in MCNode |-> MCNode \ {n}]
=============================================================================
