---- MODULE MCRateLimit ----
(***************************************************************************)
(* Two remote clients that call /chain/propose, and one on the node's own  *)
(* machine, whose writes are exempt.                                       *)
(***************************************************************************)
EXTENDS RateLimit, TLC

CONSTANTS r1, r2, local, h1, h2

MCIps == {r1, r2, local}
MCPaths == {"propose", "root"}
Alike == Permutations({r1, r2}) \cup Permutations({h1, h2})
====
