------------------------------ MODULE MCFinalizer ------------------------------
(***************************************************************************)
(* Validators, hashes and nodes for the run of Finalizer are model values  *)
(* without order, so that they may be permuted.                            *)
(***************************************************************************)
EXTENDS Finalizer, TLC

CONSTANTS v1, v2, outsider, n1, n2, x1, x2

Symmetry ==
  Permutations({v1, v2}) \cup Permutations({n1, n2}) \cup Permutations({x1, x2})
=============================================================================
