------------------------------ MODULE MCSyncLoop ------------------------------
(***************************************************************************)
(* The instance of SyncLoop that TLC checks.  Peers are model values and   *)
(* all the bounds are numbers, so the .cfg file says everything.  It keeps *)
(* to two heights, because a graph searched for liveness must stay small.  *)
(***************************************************************************)
EXTENDS SyncLoop
=============================================================================
