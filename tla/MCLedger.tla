------------------------------- MODULE MCLedger -------------------------------
(***************************************************************************)
(* Transactions for the runs of Ledger.  "p" is the node's wallet, "a" and *)
(* "b" are users, "t" is the treasury.                                     *)
(***************************************************************************)
EXTENDS Ledger

Transfer(from, to, amount, nonce, fee) ==
  [from |-> from, to |-> to, amount |-> amount, nonce |-> nonce, fee |-> fee]

\* p pays a or b, a pays on with its whole balance, p may spend nonce 0 in two ways;
\* two transfers that only a block can carry: one moves nothing, one has a fee < 0.
MCTx == {
  Transfer("p", "a", 2, 0, 1), Transfer("p", "b", 1, 0, 2), Transfer("p", "a", 1, 1, 1),
  Transfer("a", "b", 1, 0, 1), Transfer("a", "a", 1, 0, 1), Transfer("a", "b", 1, 1, -1),
  Transfer("b", "p", 1, 0, 1)}

MCFeeTx == {Transfer("p", "a", 2, 0, 6), Transfer("a", "b", 1, 0, 1), Transfer("b", "a", 1, 0, 1)}
=============================================================================
