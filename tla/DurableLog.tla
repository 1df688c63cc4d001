------------------------------ MODULE DurableLog -------------------------------
(***************************************************************************)
(* What the block store of a node promises to those who read it: a log     *)
(* that only grows while the node is up, and that a restart gives back     *)
(* whole, with at most one block more, the one whose write was under way.  *)
(***************************************************************************)
EXTENDS Sequences

CONSTANT Block

VARIABLES log, up

logVars == <<log, up>>

Init == log = <<>> /\ up = FALSE

Grow == \E b \in Block : log' = Append(log, b)

Write == up /\ up' /\ Grow

Fail == up /\ ~up' /\ log' = log

Recover == ~up /\ up' /\ (log' = log \/ Grow)

Next == Write \/ Fail \/ Recover

Spec == Init /\ [][Next]_logVars
=============================================================================
