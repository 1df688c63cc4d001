----------------------------- MODULE MCChainNode ------------------------------
(***************************************************************************)
(* Blocks for the runs of ChainNode: the leader's chain a1 .. a4, blocks   *)
(* of this node (m1, m2) that fork from it, a block d3 on a2 as old as     *)
(* a2, a block r3 with a wrong balances_root, a misnumbered h3, and blocks *)
(* x2, x3 whose transactions do not fit the accounts of their parent.      *)
(***************************************************************************)
EXTENDS ChainNode, TLC

MCBlock == {"a1", "a2", "a3", "a4", "m1", "m2", "d3", "r3", "h3", "x2", "x3"}
MCSmallBlock == {"a1", "a2", "a3", "m2", "x2", "x3"}

\* id :> <<height, prev, time, producer, verdict>>
Fields ==
     "a1" :> <<1, "gen", 1, "leader", "ok">>
  @@ "a2" :> <<2, "a1", 2, "leader", "ok">>
  @@ "a3" :> <<3, "a2", 3, "leader", "ok">>
  @@ "a4" :> <<4, "a3", 4, "leader", "ok">>
  @@ "m1" :> <<1, "gen", 1, "me", "ok">>
  @@ "m2" :> <<2, "a1", 2, "me", "ok">>
  @@ "d3" :> <<3, "a2", 2, "leader", "ok">>
  @@ "r3" :> <<3, "a2", 3, "leader", "badRoot">>
  @@ "h3" :> <<3, "a1", 3, "leader", "ok">>
  @@ "x2" :> <<2, "a1", 2, "leader", "badTx">>
  @@ "x3" :> <<3, "a2", 3, "leader", "badTx">>

MCHeight == [b \in Block |-> Fields[b][1]]
MCPrev == [b \in Block |-> Fields[b][2]]
MCTime == [b \in Block |-> Fields[b][3]]
MCProducer == [b \in Block |-> Fields[b][4]]
MCVerdict == [b \in Block |-> Fields[b][5]]
=============================================================================
