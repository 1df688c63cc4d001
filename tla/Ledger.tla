-------------------------------- MODULE Ledger --------------------------------
(***************************************************************************)
(* The accounts and the mempool of one node: the part of ProductionChain   *)
(* (src/internal/mesh/chain_core.go) that validates transactions, queues   *)
(* them, builds blocks from them and applies blocks to the accounts.       *)
(*                                                                         *)
(* Every call holds ProductionChain.mu.  The two transaction loops of      *)
(* applyBlockLocked are one action per turn, with the locals of the call   *)
(* (the block, the transactions to go, the shadow accounts s and the fee   *)
(* total) as variables; the other calls wait until "phase" is "idle".      *)
(*                                                                         *)
(* A transaction is a record of the constant Tx and stands for its id, its *)
(* signature being valid.  Only blocks that link to the tip are offered:   *)
(* what happens to the others is in ChainNode.                             *)
(***************************************************************************)
EXTENDS Integers, Sequences, FiniteSets, SequencesExt

CONSTANTS
  Addr, Tx,
  Wallet,         \* the payout address of this node
  TreasuryAddr,
  InitialReward, HalvingInterval, MinReward,   \* blockRewardForHeight
  FeeSplitForkHeight, ProducerFeeBPS,
  BaseFee, FeeCongestionStep, FeeStepIncrement,
  MaxMempoolTxs, MaxBlockTxs,
  NoBlock,        \* no call of applyBlockLocked under way
  MaxHeight       \* bound of the exploration

ASSUME TxAssumption ==
  Tx \subseteq [from : Addr, to : Addr, amount : Int, nonce : Int, fee : Int]

\* The supply is a sum over the addresses.
ASSUME AddrAssumption == IsFiniteSet(Addr)

ASSUME LedgerAssumption ==
  /\ Wallet \in Addr /\ TreasuryAddr \in Addr
  /\ InitialReward \in Nat /\ HalvingInterval \in Nat \ {0} /\ MinReward \in Nat
  /\ FeeSplitForkHeight \in Nat /\ ProducerFeeBPS \in 0 .. 10000
  /\ BaseFee \in Nat /\ FeeCongestionStep \in Nat \ {0} /\ FeeStepIncrement \in Nat
  /\ MaxMempoolTxs \in Nat /\ MaxBlockTxs \in Nat /\ MaxHeight \in Nat

VARIABLES
  height,
  accounts,   \* c.accounts, absent ones as zero
  mempool,    \* c.mempool
  index,      \* c.mempoolIDs and c.mempoolSenderNonce
  phase,      \* of applyBlockLocked: "idle", "check" or "settle"
  block,      \* the block it works on
  todo,       \* the transactions that the loop has not reached
  shadow,     \* the accounts as the second loop sees them
  totalFees,
  spent,      \* history: each sender's transactions on the chain, in order
  spending,   \* history: the same, with those the second loop has settled
  minted      \* history: the block rewards, without fees, paid so far

chain == <<height, spent, minted>>
pool == <<mempool, index>>
call == <<phase, block, todo, shadow, totalFees, spending>>
vars == <<accounts, chain, pool, call>>

Key(tx) == <<tx.from, tx.nonce>>
IndexOf(txs) == [ids |-> ToSet(txs), keys |-> {Key(tx) : tx \in ToSet(txs)}]

Init ==
  /\ height = 0 /\ minted = 0 /\ spent = [a \in Addr |-> <<>>]
  /\ accounts = [a \in Addr |-> [balance |-> 0, nonce |-> 0]]
  /\ mempool = <<>> /\ index = IndexOf(<<>>)
  /\ phase = "idle" /\ block = NoBlock /\ todo = <<>> /\ totalFees = 0
  /\ shadow = accounts /\ spending = spent

-----------------------------------------------------------------------------
(* Fees and rewards. *)

RequiredFee == BaseFee + (Len(mempool) \div FeeCongestionStep) * FeeStepIncrement

BlockReward(h) ==
  LET era == (h - 1) \div HalvingInterval
      halved == InitialReward \div (2 ^ era)
  IN IF era >= 62 \/ halved < MinReward THEN MinReward ELSE halved

ASSUME RewardAssumption == \A h \in 1 .. MaxHeight : BlockReward(h) \in Nat

FeeSplitActive(h) == h >= FeeSplitForkHeight
ProducerShare(total) == IF total <= 0 THEN 0 ELSE (total * ProducerFeeBPS) \div 10000
TreasuryShare(total) == IF total <= 0 THEN 0 ELSE total - ProducerShare(total)

ExpectedReward(h, fees) ==
  BlockReward(h) + IF FeeSplitActive(h) THEN ProducerShare(fees) ELSE fees

\* The effect of a transaction on the accounts accts.
Transferred(accts, tx) ==
  [accts EXCEPT ![tx.from].balance = @ - (tx.amount + tx.fee),
                ![tx.from].nonce = @ + 1,
                ![tx.to].balance = @ + tx.amount]

\* merkleBalancesRoot: a leaf for every account that is not empty.
MerkleRoot(accts) ==
  {<<a, accts[a]>> : a \in {b \in Addr : accts[b].balance # 0 \/ accts[b].nonce # 0}}

\* The loop of calcStateHashWithBlock over the transactions of a block: it skips
\* those that move nothing and checks neither nonces nor balances.
Moves(tx) == tx.from # tx.to /\ tx.amount > 0
Moved(acc, tx) ==
  IF Moves(tx)
  THEN [accts |-> Transferred(acc.accts, tx), fees |-> acc.fees + tx.fee]
  ELSE acc
Through(txs) == FoldLeft(Moved, [accts |-> accounts, fees |-> 0], txs)

\* Slip: the sender is not charged the fee in the committed state.
FeelessRoot(txs, recipient) ==
  LET MoveFree(accts, tx) ==
        IF Moves(tx) THEN Transferred(accts, [tx EXCEPT !.fee = 0]) ELSE accts
      settled == FoldLeft(MoveFree, accounts, txs)
      reward == ExpectedReward(height + 1, Through(txs).fees)
  IN MerkleRoot([settled EXCEPT ![recipient].balance = @ + reward])

\* What balances_root commits to.
BalancesRoot(txs, recipient) ==
  LET h == height + 1
      fees == Through(txs).fees
      reward == ExpectedReward(h, fees)
      treasury == IF FeeSplitActive(h) THEN TreasuryShare(fees) ELSE 0
      paid == [Through(txs).accts EXCEPT ![TreasuryAddr].balance = @ + treasury]
  IN MerkleRoot(IF reward > 0 THEN [paid EXCEPT ![recipient].balance = @ + reward] ELSE paid)

-----------------------------------------------------------------------------
(* The mempool. *)

WellFormed(tx) == tx.from # tx.to /\ tx.amount > 0 /\ tx.nonce >= 0 /\ tx.fee >= 0

Fits(tx, accts) ==
  /\ tx.nonce = accts[tx.from].nonce
  /\ accts[tx.from].balance >= tx.amount + tx.fee

\* validateTx
Valid(tx, accts) == WellFormed(tx) /\ tx.fee >= RequiredFee /\ Fits(tx, accts)

\* Slip: the pool has no limit.
Unlimited(tx) ==
  /\ Valid(tx, accounts)
  /\ tx \notin index.ids /\ Key(tx) \notin index.keys

\* addTxToMempoolLocked: "mempool full", "duplicate tx", "conflicting sender nonce".
Acceptable(tx) ==
  /\ Valid(tx, accounts)
  /\ Len(mempool) < MaxMempoolTxs
  /\ tx \notin index.ids /\ Key(tx) \notin index.keys

AddTx(tx) ==
  /\ phase = "idle"
  /\ Acceptable(tx)
  /\ mempool' = Append(mempool, tx)
  /\ index' = [ids |-> index.ids \cup {tx}, keys |-> index.keys \cup {Key(tx)}]
  /\ UNCHANGED <<accounts, chain, call>>

\* Slips: the pool is compacted against the accounts before the block; it is
\* not compacted.
CompactEarly(accts) == SelectSeq(mempool, LAMBDA tx : Valid(tx, accounts))
NoCompaction(accts) == mempool

\* compactMempoolLocked against the accounts accts: one transaction of the pool
\* after the other, on a copy of the accounts that the ones kept so far have changed.
Kept(accts, acc, tx) ==
  IF /\ Valid(tx, accts)
     /\ \A k \in ToSet(acc.kept) : k # tx /\ Key(k) # Key(tx)
     /\ Fits(tx, acc.accts)
  THEN [kept |-> Append(acc.kept, tx), accts |-> Transferred(acc.accts, tx)]
  ELSE acc

Compact(accts) ==
  FoldLeft(LAMBDA acc, tx : Kept(accts, acc, tx),
           [kept |-> <<>>, accts |-> accts], mempool).kept

SetPool(txs) == mempool' = txs /\ index' = IndexOf(txs)

-----------------------------------------------------------------------------
(* Blocks: applyBlockLocked. *)

\* The call begins.  The producer computed the reward and the root from the same
\* parent; a block with other ones is refused without a trace.
StartBlock(txs, recipient, own) ==
  /\ phase = "idle" /\ height < MaxHeight
  /\ Len(txs) <= MaxBlockTxs
  /\ phase' = "check" /\ todo' = txs /\ totalFees' = 0
  /\ block' = [txs |-> txs, recipient |-> recipient, own |-> own,
               reward |-> 0, root |-> {}]
  /\ UNCHANGED <<accounts, chain, shadow, spending>>

\* A block of another node, received or synced.
Receive(txs, recipient) == StartBlock(txs, recipient, FALSE) /\ UNCHANGED pool

\* proposeBlock: the first transactions of the compacted pool.
Propose(txs) ==
  LET ready == Compact(accounts)
      take == IF Len(ready) > MaxBlockTxs THEN MaxBlockTxs ELSE Len(ready)
  IN /\ StartBlock(txs, Wallet, TRUE)
     /\ txs = SubSeq(ready, 1, take)
     /\ SetPool(SubSeq(ready, take + 1, Len(ready)))

\* One turn of the first loop, which sums the fees and refuses a second
\* transaction with the same sender and nonce.
Checked == SubSeq(block.txs, 1, Len(block.txs) - Len(todo))
Unique(tx) == \A t \in ToSet(Checked) : Key(t) # Key(tx)

CheckTx ==
  /\ phase = "check" /\ todo # <<>>
  /\ Unique(Head(todo))
  /\ totalFees' = totalFees + Head(todo).fee
  /\ todo' = Tail(todo)
  /\ UNCHANGED <<phase, block, shadow, spending, accounts, chain, pool>>

\* Between the loops: reward, root and the write of the file.
Persist ==
  /\ phase = "check" /\ todo = <<>>
  /\ LET reward == ExpectedReward(height + 1, totalFees)
     IN /\ reward >= 0
        /\ block' = [block EXCEPT !.reward = reward,
                                  !.root = BalancesRoot(block.txs, block.recipient)]
  /\ phase' = "settle" /\ todo' = block.txs
  /\ UNCHANGED <<shadow, spending, totalFees, accounts, chain, pool>>

\* Slips: the balance need not cover the fee; the nonce is not looked at.
AffordsAmount(tx) ==
  tx.fee >= 0 /\ tx.nonce = shadow[tx.from].nonce /\ shadow[tx.from].balance >= tx.amount
AnyNonce(tx) == tx.fee >= 0 /\ shadow[tx.from].balance >= tx.amount + tx.fee

Settles(tx) == tx.fee >= 0 /\ Fits(tx, shadow)

\* One turn of the second loop.
SettleTx ==
  /\ phase = "settle" /\ todo # <<>>
  /\ LET tx == Head(todo)
     IN /\ tx.from # tx.to /\ tx.amount > 0
        /\ Settles(tx)
        /\ shadow' = Transferred(shadow, tx)
        /\ spending' = [spending EXCEPT ![tx.from] = Append(@, tx)]
        /\ totalFees' = totalFees + tx.fee
  /\ todo' = Tail(todo)
  /\ UNCHANGED <<phase, block, accounts, chain, pool>>

EndCall ==
  /\ phase' = "idle" /\ block' = NoBlock /\ todo' = <<>> /\ totalFees' = 0
  /\ shadow' = accounts' /\ spending' = spent'

\* Slip: the transactions of the failed block are forgotten.
DropTaken == UNCHANGED pool

\* The error path of proposeBlock puts the transactions it took back in front.
RestoreTaken == IF block.own THEN SetPool(block.txs \o mempool) ELSE UNCHANGED pool

\* The second loop refuses a transaction.
RefuseTx ==
  /\ phase = "settle" /\ todo # <<>>
  /\ LET tx == Head(todo)
     IN tx.from = tx.to \/ tx.amount <= 0 \/ ~Settles(tx)
  /\ UNCHANGED <<accounts, chain>>
  /\ RestoreTaken /\ EndCall

\* The first loop finds a duplicate, the reward is negative or the write fails.
RefuseBlock ==
  /\ phase = "check"
  /\ todo # <<>> => ~Unique(Head(todo))
  /\ UNCHANGED <<accounts, chain>>
  /\ RestoreTaken /\ EndCall

\* Slip: the reward, which holds the fees, and the fees are both paid.
PayTwice(b) == [shadow EXCEPT ![b.recipient].balance = @ + b.reward + totalFees]

\* The reward, and the treasury's share of totalFees, which by now counts every
\* fee twice: in the first loop and in the second.
Paid(b) ==
  LET treasury == IF FeeSplitActive(height + 1) THEN TreasuryShare(totalFees) ELSE 0
      rewarded == [shadow EXCEPT ![b.recipient].balance = @ + b.reward]
  IN [rewarded EXCEPT ![TreasuryAddr].balance = @ + treasury]

CommitBlock ==
  /\ phase = "settle" /\ todo = <<>>
  /\ accounts' = Paid(block) /\ spent' = spending
  /\ height' = height + 1
  /\ minted' = minted + BlockReward(height + 1)
  /\ SetPool(Compact(accounts'))
  /\ EndCall

Next ==
  \/ \E tx \in Tx : AddTx(tx)
  \/ \E txs \in BoundedSeq(Tx, MaxBlockTxs) :
       Propose(txs) \/ \E a \in Addr : Receive(txs, a)
  \/ CheckTx \/ Persist \/ SettleTx \/ RefuseTx \/ RefuseBlock \/ CommitBlock

Spec == Init /\ [][Next]_vars
-----------------------------------------------------------------------------
(* Properties. *)

\* The accounts and the pool have the types of the code, and the pool stays within
\* MaxMempoolTxs although a failed proposal puts transactions back.
TypeOK ==
  /\ height \in Nat /\ minted \in Nat /\ totalFees \in Int
  /\ accounts \in [Addr -> [balance : Int, nonce : Nat]]
  /\ shadow \in [Addr -> [balance : Int, nonce : Nat]]
  /\ mempool \in Seq(Tx) /\ Len(mempool) <= MaxMempoolTxs
  /\ todo \in Seq(Tx)
  /\ spent \in [Addr -> Seq(Tx)] /\ spending \in [Addr -> Seq(Tx)]

\* No balance is ever negative, not even in the middle of a block whose transactions
\* spend what earlier ones of it paid ("No negative balances",
\* ECONOMICS_STATE_TRANSITIONS.md:15).
NeverNegative ==
  \A a \in Addr : accounts[a].balance >= 0 /\ shadow[a].balance >= 0

\* Coins come from block rewards only: fees move them, and a block that is refused
\* half way creates or destroys none ("Total supply = previous supply + minted -
\* burned", ECONOMICS_STATE_TRANSITIONS.md:16).
SupplyIsMinted ==
  SumFunction([a \in Addr |-> accounts[a].balance]) = minted

\* The accounts after a block are those its balances_root commits to, although two
\* routines compute them: calcStateHashWithBlock, which checks nothing, before the
\* write and applyBlockLocked after it.
RootIsState == [][height' # height => MerkleRoot(accounts') = block.root]_vars

\* A sender's transactions are on the chain once each, in the order of their nonces,
\* and the account's nonce counts them: none is replayed from a pool, a restored
\* proposal or a second block.
EachTxOnce ==
  \A a \in Addr :
    /\ accounts[a].nonce = Len(spent[a])
    /\ \A i \in DOMAIN spent[a] : spent[a][i].from = a /\ spent[a][i].nonce = i - 1

\* Between two calls every queued transaction fits the accounts, no two have the same
\* sender, and the index is the pool's: addTxToMempoolLocked never refuses on account
\* of a transaction that has left.
PoolFits ==
  phase = "idle" =>
    /\ \A tx \in ToSet(mempool) : WellFormed(tx) /\ Fits(tx, accounts)
    /\ \A i, j \in DOMAIN mempool : i # j => mempool[i].from # mempool[j].from
    /\ index = IndexOf(mempool)

\* The loop never refuses a transaction of the node's own proposal, so a proposer
\* does not persist a block that it then rejects.
OwnBlockSettles ==
  (phase = "settle" /\ todo # <<>> /\ block.own) =>
    WellFormed(Head(todo)) /\ Settles(Head(todo))

\* A transaction that was accepted leaves the node only on the chain, or because its
\* sender spent the nonce or the coins elsewhere, or as too cheap for the length the
\* pool has reached: no error path loses it.
Held == ToSet(mempool) \cup IF phase # "idle" /\ block.own THEN ToSet(block.txs) ELSE {}
LeavesForAReason ==
  [][\A tx \in Held :
       \/ tx \in Held' \cup ToSet(spent'[tx.from])
       \/ ~Fits(tx, accounts')
       \/ tx.fee < RequiredFee]_vars
=============================================================================
