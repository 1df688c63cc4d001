------------------------------ MODULE MCKeyFiles ------------------------------
(***************************************************************************)
(* Nodes under one parent directory for KeyFiles.  Two nodes started at    *)
(* once reach the mismatch of certificate and key that a node without a    *)
(* certificate meets later.                                                *)
(***************************************************************************)
EXTENDS KeyFiles, TLC

Symmetry == Permutations(Node)
=============================================================================
