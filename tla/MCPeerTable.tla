----------------------------- MODULE MCPeerTable -----------------------------
(***************************************************************************)
(* Two startup peers, so that the eviction of the first shifts the second, *)
(* and one peer that only sends messages.                                  *)
(***************************************************************************)
EXTENDS PeerTable

MCStartup == <<"a", "b">>
==============================================================================
