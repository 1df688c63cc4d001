----------------------------- MODULE LedgerProofs -----------------------------
(***************************************************************************)
(* Proofs about Ledger, one inductive invariant on top of the other.       *)
(*                                                                         *)
(* IInv      A block is checked against the shadow accounts and only then  *)
(*           becomes the state, so both count what they have settled and   *)
(*           hold no debt, and the reward about to be paid is not negative.*)
(*           Nothing is needed of the pool: the second loop trusts neither *)
(*           the producer nor the pool.                                    *)
(* PoolInv   What PoolFits says between calls holds at any time of the     *)
(*           queue: the pool behind the transactions taken for an own      *)
(*           block.  The accounts change only where the pool is compacted. *)
(* LoopInv   The two loops of applyBlockLocked stay in step with the one   *)
(*           of calcStateHashWithBlock: its accounts are the shadow, its   *)
(*           fees the reward.  Own transactions still to settle still fit. *)
(* SupplyInv Below the fee split the coins are those minted: what the loop *)
(*           takes from the accounts is the fees that the reward pays out. *)
(*                                                                         *)
(* The loops and the totals are folds of the community modules.  Each is   *)
(* unrolled once into a function on the turns of its loop, or on the       *)
(* subsets of its domain, which exists by SetRecursion; what holds of it   *)
(* follows by induction along an interval (UpTo), for a property given as  *)
(* a set, since an operator cannot be instantiated.                        *)
(***************************************************************************)
EXTENDS Ledger, TLAPS, FiniteSetTheorems, NaturalsInduction, WellFoundedInduction

AccountsType == [Addr -> [balance : Int, nonce : Nat]]

\* accts and the transactions done agree: the nonces count them, in their order.
Counts(accts, done) ==
  \A a \in Addr :
    /\ accts[a].balance >= 0
    /\ accts[a].nonce = Len(done[a])
    /\ \A i \in 1 .. Len(done[a]) : done[a][i].from = a /\ done[a][i].nonce = i - 1

Typed ==
  /\ height \in Nat /\ height <= MaxHeight
  /\ accounts \in AccountsType /\ shadow \in AccountsType
  /\ spent \in [Addr -> Seq(Tx)] /\ spending \in [Addr -> Seq(Tx)]
  /\ phase \in {"idle", "check", "settle"}
  /\ todo \in Seq(Tx) /\ totalFees \in Int

BlockTyped ==
  phase # "idle" =>
    /\ height < MaxHeight
    /\ block = [txs |-> block.txs, recipient |-> block.recipient, own |-> block.own,
                reward |-> block.reward, root |-> block.root]
    /\ block.txs \in Seq(Tx) /\ block.recipient \in Addr /\ block.reward \in Nat

IInv ==
  /\ Typed
  /\ BlockTyped
  /\ Counts(accounts, spent)
  /\ Counts(shadow, spending)

-----------------------------------------------------------------------------

\* What the proofs need to know of the numbers among the constants.
LEMMA Constants ==
  /\ Wallet \in Addr /\ TreasuryAddr \in Addr
  /\ ProducerFeeBPS \in Nat /\ ProducerFeeBPS <= 10000
  /\ MaxHeight \in Nat /\ MaxBlockTxs \in Nat
  /\ \A tx \in Tx : tx.from \in Addr /\ tx.to \in Addr
                  /\ tx.amount \in Int /\ tx.fee \in Int /\ tx.nonce \in Int
<1>1. Wallet \in Addr /\ TreasuryAddr \in Addr
  BY LedgerAssumption
<1>2. ProducerFeeBPS \in 0 .. 10000 /\ MaxHeight \in Nat /\ MaxBlockTxs \in Nat
  BY LedgerAssumption
<1>3. ASSUME NEW tx \in Tx
      PROVE  /\ tx.from \in Addr /\ tx.to \in Addr
             /\ tx.amount \in Int /\ tx.fee \in Int /\ tx.nonce \in Int
  <2>1. tx \in [from : Addr, to : Addr, amount : Int, nonce : Int, fee : Int]
    BY TxAssumption
  <2>2. QED
    BY <2>1
<1>4. QED
  BY <1>1, <1>2, <1>3

\* A bounded sequence of transactions is a sequence of transactions.
LEMMA BoundedIsSeq ==
  ASSUME NEW S, NEW n \in Nat
  PROVE  BoundedSeq(S, n) \subseteq Seq(S)
  BY DEF BoundedSeq, SeqOf

\* The treasury's share of any fee total is a natural number: a split never takes
\* more than there is.
LEMMA ShareIsNat ==
  ASSUME NEW n \in Int
  PROVE  TreasuryShare(n) \in Nat /\ ProducerShare(n) \in Int
<1>1. CASE n <= 0
  BY <1>1 DEF TreasuryShare, ProducerShare
<1>2. CASE n > 0
  <2>1. /\ n * ProducerFeeBPS \in Nat
        /\ n * ProducerFeeBPS <= n * 10000
    BY <1>2, Constants
  <2>2. \A m \in Nat : m <= n * 10000 => m \div 10000 \in Int /\ m \div 10000 <= n
    BY <1>2
  <2>3. QED
    BY <1>2, <2>1, <2>2 DEF TreasuryShare, ProducerShare
<1>3. QED
  BY <1>1, <1>2

-----------------------------------------------------------------------------
(* Induction, recursion over sets, folds and sums. *)

\* A set of natural numbers that is not empty has a least element.
LEMMA Least ==
  ASSUME NEW T \in SUBSET Nat, T # {}
  PROVE  \E m \in T : \A n \in T : m <= n
<1>1. PICK m \in T : \A n \in T : <<n, m>> \notin OpToRel(<, Nat)
  BY NatLessThanWellFounded, WFMin
<1>2. ASSUME NEW n \in T PROVE m <= n
  <2>1. <<n, m>> \notin OpToRel(<, Nat)
    BY <1>1
  <2>2. n \in Nat /\ m \in Nat
    OBVIOUS
  <2>3. ~(n < m)
    BY <2>1, <2>2 DEF OpToRel
  <2>4. QED
    BY <2>2, <2>3
<1>3. QED
  BY <1>2

\* Induction along an interval, for a property given as the set of its elements.
LEMMA UpTo ==
  ASSUME NEW n \in Nat, NEW P, 0 \in P, \A k \in 1 .. n : k - 1 \in P => k \in P
  PROVE  \A k \in 0 .. n : k \in P
<1> DEFINE Bad == {k \in 0 .. n : k \notin P}
<1>1. SUFFICES ASSUME Bad # {}
               PROVE  FALSE
  OBVIOUS
<1>2. Bad \in SUBSET Nat
  OBVIOUS
<1>3. PICK m \in Bad : \A k \in Bad : m <= k
  BY <1>1, <1>2, Least
<1>4. m \in 1 .. n
  OBVIOUS
<1>5. m - 1 \in 0 .. n /\ ~(m <= m - 1)
  BY <1>4
<1>6. m - 1 \in P
  BY <1>3, <1>5
<1>7. QED
  BY <1>4, <1>6

\* Recursion over the subsets of a finite set: one element is picked, the rest is
\* folded first.
Recurs(g, Sets, base, pick, step) ==
  \A s \in Sets : g[s] = IF s = {} THEN base ELSE step[<<pick[s], g[s \ {pick[s]}]>>]

\* Every such recursion has a solution.
LEMMA SetRecursion ==
  ASSUME NEW D, IsFiniteSet(D), NEW V, NEW base \in V,
         NEW pick, \A s \in SUBSET D : s # {} => pick[s] \in s,
         NEW step \in [D \X V -> V]
  PROVE  \E g \in [SUBSET D -> V] : Recurs(g, SUBSET D, base, pick, step)
<1> DEFINE Small(n) == {s \in SUBSET D : Cardinality(s) <= n}
           Works(n) == \E g \in [Small(n) -> V] : Recurs(g, Small(n), base, pick, step)
<1>1. ASSUME NEW s \in SUBSET D
      PROVE  /\ IsFiniteSet(s) /\ Cardinality(s) \in Nat
             /\ Cardinality(s) = 0 <=> s = {}
             /\ s # {} => /\ pick[s] \in D /\ s \ {pick[s]} \in SUBSET D
                          /\ Cardinality(s \ {pick[s]}) = Cardinality(s) - 1
  BY FS_Subset, FS_CardinalityType, FS_EmptySet, FS_RemoveElement
<1>2. Works(0)
  <2> DEFINE g == [s \in Small(0) |-> base]
  <2>1. g \in [Small(0) -> V]
    OBVIOUS
  <2>2. ASSUME NEW s \in Small(0)
        PROVE  s = {}
    <3>1. s \in SUBSET D /\ Cardinality(s) <= 0
      OBVIOUS
    <3> HIDE DEF g, Small
    <3>2. Cardinality(s) \in Nat
      BY <1>1, <3>1
    <3>3. Cardinality(s) = 0
      BY <3>1, <3>2
    <3>4. QED
      BY <1>1, <3>1, <3>3
  <2>3. Recurs(g, Small(0), base, pick, step)
    <3>1. \A s \in Small(0) : g[s] = base
      OBVIOUS
    <3> HIDE DEF g, Small
    <3>2. QED
      BY <2>2, <3>1 DEF Recurs
  <2>4. QED
    BY <2>1, <2>3
<1>3. ASSUME NEW n \in Nat, Works(n)
      PROVE  Works(n + 1)
  <2>1. PICK g \in [Small(n) -> V] : Recurs(g, Small(n), base, pick, step)
    BY <1>3
  <2> DEFINE h == [s \in Small(n + 1) |->
                     IF s = {} THEN base ELSE step[<<pick[s], g[s \ {pick[s]}]>>]]
  <2>2. ASSUME NEW s \in Small(n + 1), s # {}
        PROVE  /\ s \ {pick[s]} \in Small(n) /\ s \ {pick[s]} \in Small(n + 1)
               /\ pick[s] \in D
    <3>1. s \in SUBSET D /\ Cardinality(s) <= n + 1
      OBVIOUS
    <3>2. /\ Cardinality(s) \in Nat /\ pick[s] \in D /\ s \ {pick[s]} \in SUBSET D
          /\ Cardinality(s \ {pick[s]}) = Cardinality(s) - 1
      BY <1>1, <2>2, <3>1
    <3>3. Cardinality(s \ {pick[s]}) <= n /\ Cardinality(s \ {pick[s]}) <= n + 1
      BY <3>1, <3>2
    <3>4. QED
      BY <3>2, <3>3
  <2>3. ASSUME NEW s \in Small(n + 1)
        PROVE  h[s] \in V
    BY <2>2, <2>3
  <2>4. ASSUME NEW s \in Small(n)
        PROVE  s \in Small(n + 1) /\ h[s] = g[s]
    <3>1. Cardinality(s) \in Nat /\ Cardinality(s) <= n
      BY <1>1
    <3>2. s \in Small(n + 1)
      BY <3>1
    <3>3. g[s] = IF s = {} THEN base ELSE step[<<pick[s], g[s \ {pick[s]}]>>]
      BY <2>1 DEF Recurs
    <3>4. QED
      BY <3>2, <3>3
  <2>5. Recurs(h, Small(n + 1), base, pick, step)
    BY <2>2, <2>4 DEF Recurs
  <2>6. h \in [Small(n + 1) -> V]
    BY <2>3
  <2>7. QED
    BY <2>5, <2>6
<1>4. ASSUME NEW n \in Nat
      PROVE  Works(n)
  <2> DEFINE Bad == {k \in Nat : ~Works(k)}
  <2> HIDE DEF Works
  <2>1. SUFFICES ASSUME Bad # {}
                 PROVE  FALSE
    OBVIOUS
  <2>2. PICK m \in Bad : \A k \in Bad : m <= k
    BY <2>1, Least
  <2>3. m \in Nat /\ m # 0
    BY <1>2
  <2>4. m - 1 \in Nat /\ m - 1 \notin Bad
    BY <2>2, <2>3
  <2>5. Works(m - 1 + 1)
    BY <1>3, <2>4
  <2>6. QED
    BY <2>3, <2>5
<1>5. Small(Cardinality(D)) = SUBSET D
  <2>1. \A s \in SUBSET D : Cardinality(s) <= Cardinality(D)
    BY FS_Subset
  <2>2. QED
    BY <2>1
<1>6. QED
  <2>1. Works(Cardinality(D))
    <3> HIDE DEF Works
    <3>1. QED
      BY <1>4, FS_CardinalityType
  <2> DEFINE All == Small(Cardinality(D))
  <2>2. \E g \in [All -> V] : Recurs(g, All, base, pick, step)
    BY <2>1
  <2> HIDE DEF All
  <2>3. All = SUBSET D
    BY <1>5 DEF All
  <2>4. QED
    BY <2>2, <2>3

\* The greatest of some indices is one of them; that of a whole prefix is its last.
LEMMA GreatestIndex ==
  ASSUME NEW n \in Nat, NEW S \in SUBSET (1 .. n), S # {}
  PROVE  Max(S) \in S
<1> DEFINE T == {n - x : x \in S}
<1>1. T \in SUBSET Nat /\ T # {}
  <2>1. \A x \in S : n - x \in Nat
    OBVIOUS
  <2>2. QED
    BY <2>1
<1>2. PICK m \in T : \A k \in T : m <= k
  BY <1>1, Least
<1>3. PICK x \in S : m = n - x
  BY <1>2
<1>4. ASSUME NEW y \in S
      PROVE  x >= y
  <2>1. n - y \in T
    OBVIOUS
  <2>2. n - x <= n - y
    BY <1>2, <1>3, <2>1
  <2>3. QED
    BY <2>2
<1>5. QED
  BY <1>3, <1>4 DEF Max

\* The last index of a prefix, and the prefix without it.
LEMMA LastIndex ==
  ASSUME NEW k \in Nat, k # 0
  PROVE  Max(1 .. k) = k /\ (1 .. k) \ {k} = 1 .. k - 1
<1>1. k \in 1 .. k /\ \A y \in 1 .. k : k >= y
  OBVIOUS
<1>2. \A x \in 1 .. k : (\A y \in 1 .. k : x >= y) => x = k
  BY <1>1
<1>3. Max(1 .. k) = k
  BY <1>1, <1>2 DEF Max
<1>4. QED
  BY <1>3

\* The element a sum takes first.
Some(s) == CHOOSE x \in s : TRUE

SumsUp(g, f, S) ==
  /\ g[{}] = 0
  /\ \A s \in SUBSET S : s # {} => g[s] = f[Some(s)] + g[s \ {Some(s)}]

\* A sum, term by term: the terms come in an order that depends on the set only.
LEMMA SumTerms ==
  ASSUME NEW S, IsFiniteSet(S), NEW f \in [S -> Int]
  PROVE  \E g \in [SUBSET S -> Int] : SumFunction(f) = g[S] /\ SumsUp(g, f, S)
<1> DEFINE D == DOMAIN f
           g == CHOOSE r : r = [s \in SUBSET D |-> IF s = {} THEN 0
                  ELSE f[Some(s)] + r[s \ {Some(s)}]]
           pick == [s \in SUBSET S |-> Some(s)]
           step == [p \in S \X Int |-> f[p[1]] + p[2]]
<1>1. SumFunction(f) = g[D]
  BY DEF Some, SumFunction, SumFunctionOnSet, FoldFunctionOnSet, MapThenFoldSet
<1>2. D = S
  OBVIOUS
<1> HIDE DEF D
<1>3. ASSUME NEW s \in SUBSET S, s # {}
      PROVE  Some(s) \in s
  BY <1>3 DEF Some
<1>4. PICK r \in [SUBSET S -> Int] : Recurs(r, SUBSET S, 0, pick, step)
  <2>1. \A s \in SUBSET S : s # {} => pick[s] \in s
    BY <1>3
  <2>2. step \in [S \X Int -> Int] /\ 0 \in Int
    OBVIOUS
  <2> HIDE DEF pick, step
  <2>3. QED
    BY <2>1, <2>2, SetRecursion
<1>5. ASSUME NEW s \in SUBSET S
      PROVE  r[s] = IF s = {} THEN 0
                    ELSE f[Some(s)] + r[s \ {Some(s)}]
  <2>1. r[s] = IF s = {} THEN 0 ELSE step[<<pick[s], r[s \ {pick[s]}]>>]
    BY <1>4 DEF Recurs
  <2>2. pick[s] = Some(s)
    BY DEF pick
  <2>3. CASE s # {}
    <3>1. pick[s] \in S /\ s \ {pick[s]} \in SUBSET S
      BY <1>3, <2>2, <2>3
    <3>2. r[s \ {pick[s]}] \in Int
      BY <3>1
    <3> HIDE DEF pick
    <3>3. step[<<pick[s], r[s \ {pick[s]}]>>] = f[pick[s]] + r[s \ {pick[s]}]
      BY <3>1, <3>2
    <3>4. QED
      BY <2>1, <2>2, <2>3, <3>3
  <2>4. QED
    BY <2>1, <2>3
<1> DEFINE F(q) == [s \in SUBSET S |-> IF s = {} THEN 0
                      ELSE f[Some(s)] + q[s \ {Some(s)}]]
<1>6. r = F(r)
  BY <1>5
<1>7. g = F(g)
  <2>1. \E q : q = [s \in SUBSET D |-> IF s = {} THEN 0 ELSE f[Some(s)] + q[s \ {Some(s)}]]
    BY <1>2, <1>6
  <2>2. g = [s \in SUBSET D |-> IF s = {} THEN 0 ELSE f[Some(s)] + g[s \ {Some(s)}]]
    BY <2>1
  <2> HIDE DEF g
  <2>3. QED
    BY <1>2, <2>2
<1> HIDE DEF g
<1>8. ASSUME NEW s \in SUBSET S
      PROVE  g[s] = IF s = {} THEN 0
                    ELSE f[Some(s)] + g[s \ {Some(s)}]
  <2>1. F(g)[s] = IF s = {} THEN 0
                  ELSE f[Some(s)] + g[s \ {Some(s)}]
    OBVIOUS
  <2>2. QED
    BY <1>7, <2>1
<1>9. \A s \in SUBSET S : g[s] \in Int
  <2> DEFINE n == Cardinality(S)
             Good == {k \in 0 .. n : \A s \in SUBSET S : Cardinality(s) = k => g[s] \in Int}
  <2>1. n \in Nat /\ \A s \in SUBSET S : IsFiniteSet(s) /\ Cardinality(s) \in 0 .. n
    BY FS_CardinalityType, FS_Subset
  <2>2. 0 \in Good
    <3>1. \A s \in SUBSET S : Cardinality(s) = 0 => s = {}
      BY <2>1, FS_EmptySet
    <3>2. g[{}] \in Int /\ 0 \in 0 .. n
      <4>1. g[{}] = 0
        BY <1>8
      <4>2. QED
        BY <2>1, <4>1
    <3>3. QED
      BY <3>1, <3>2
  <2>3. ASSUME NEW k \in 1 .. n, k - 1 \in Good
        PROVE  k \in Good
    <3>1. ASSUME NEW s \in SUBSET S, Cardinality(s) = k
          PROVE  g[s] \in Int
      <4> DEFINE x == Some(s)
      <4>1. s # {}
        BY <2>1, <3>1, FS_EmptySet
      <4>2. x \in s /\ s \ {x} \in SUBSET S
        BY <1>3, <4>1
      <4>3. Cardinality(s \ {x}) = k - 1
        BY <2>1, <3>1, <4>2, FS_RemoveElement
      <4>4. g[s \ {x}] \in Int
        BY <2>3, <4>2, <4>3
      <4>5. g[s] = f[x] + g[s \ {x}]
        BY <1>8, <4>1
      <4>6. f[x] \in Int
        BY <4>2
      <4> HIDE DEF x
      <4>7. QED
        BY <4>4, <4>5, <4>6
    <3>2. QED
      BY <2>1, <3>1
  <2> HIDE DEF Good, n
  <2>4. \A k \in 0 .. n : k \in Good
    BY <2>1, <2>2, <2>3, UpTo
  <2>5. QED
    BY <2>1, <2>4 DEF Good
<1>10. g = [s \in SUBSET S |-> g[s]]
  BY <1>7
<1>11. g \in [SUBSET S -> Int]
  BY <1>9, <1>10
<1>12. g[{}] = 0
  BY <1>8
<1>13. QED
  BY <1>1, <1>2, <1>8, <1>11, <1>12 DEF SumsUp

\* A sum of zeros is zero.
LEMMA SumOfZeros ==
  ASSUME NEW S, IsFiniteSet(S), NEW f \in [S -> Int], \A x \in S : f[x] = 0
  PROVE  SumFunction(f) = 0
<1> DEFINE n == Cardinality(S)
<1>1. PICK g \in [SUBSET S -> Int] : SumFunction(f) = g[S] /\ SumsUp(g, f, S)
  BY SumTerms, Zenon
<1> DEFINE Good == {k \in 0 .. n : \A s \in SUBSET S : Cardinality(s) = k => g[s] = 0}
<1>2. n \in Nat /\ \A s \in SUBSET S : IsFiniteSet(s) /\ Cardinality(s) \in 0 .. n
  BY FS_CardinalityType, FS_Subset
<1>3. 0 \in Good
  <2>1. \A s \in SUBSET S : Cardinality(s) = 0 => s = {}
    BY <1>2, FS_EmptySet
  <2>2. 0 \in 0 .. n
    BY <1>2
  <2>3. QED
    BY <1>1, <2>1, <2>2 DEF SumsUp
<1>4. ASSUME NEW k \in 1 .. n, k - 1 \in Good
      PROVE  k \in Good
  <2>1. ASSUME NEW s \in SUBSET S, Cardinality(s) = k
        PROVE  g[s] = 0
    <3> DEFINE x == Some(s)
    <3>1. s # {}
      BY <1>2, <2>1, FS_EmptySet
    <3>2. x \in s /\ s \ {x} \in SUBSET S
      BY <3>1 DEF Some
    <3>3. Cardinality(s \ {x}) = k - 1
      BY <1>2, <2>1, <3>2, FS_RemoveElement
    <3>4. g[s \ {x}] = 0
      BY <1>4, <3>2, <3>3
    <3>5. g[s] = f[x] + g[s \ {x}]
      BY <1>1, <3>1 DEF SumsUp
    <3>6. f[x] = 0
      BY <3>2
    <3> HIDE DEF x
    <3>7. QED
      BY <3>4, <3>5, <3>6
  <2>2. QED
    BY <1>2, <2>1
<1> HIDE DEF Good, n
<1>5. \A k \in 0 .. n : k \in Good
  BY <1>2, <1>3, <1>4, UpTo
<1>6. g[S] = 0
  BY <1>2, <1>5 DEF Good, n
<1>7. QED
  BY <1>1, <1>6

\* One changed term changes a sum by as much.
LEMMA SumChanges ==
  ASSUME NEW S, IsFiniteSet(S), NEW f \in [S -> Int], NEW h \in [S -> Int],
         NEW a \in S, NEW v \in Int,
         h[a] = f[a] + v, \A x \in S : x # a => h[x] = f[x]
  PROVE  SumFunction(f) \in Int /\ SumFunction(h) = SumFunction(f) + v
<1> DEFINE n == Cardinality(S)
           Diff(s) == IF a \in s THEN v ELSE 0
<1>1. PICK g \in [SUBSET S -> Int] : SumFunction(f) = g[S] /\ SumsUp(g, f, S)
  BY SumTerms, Zenon
<1>2. PICK q \in [SUBSET S -> Int] : SumFunction(h) = q[S] /\ SumsUp(q, h, S)
  BY SumTerms, Zenon
<1> DEFINE Good == {k \in 0 .. n : \A s \in SUBSET S : Cardinality(s) = k => q[s] = g[s] + Diff(s)}
<1>3. n \in Nat /\ \A s \in SUBSET S : IsFiniteSet(s) /\ Cardinality(s) \in 0 .. n
  BY FS_CardinalityType, FS_Subset
<1>4. 0 \in Good
  <2>1. \A s \in SUBSET S : Cardinality(s) = 0 => s = {}
    BY <1>3, FS_EmptySet
  <2>2. 0 \in 0 .. n
    BY <1>3
  <2>3. q[{}] = g[{}] + Diff({})
    BY <1>1, <1>2 DEF SumsUp
  <2>4. QED
    BY <2>1, <2>2, <2>3
<1>5. ASSUME NEW k \in 1 .. n, k - 1 \in Good
      PROVE  k \in Good
  <2>1. ASSUME NEW s \in SUBSET S, Cardinality(s) = k
        PROVE  q[s] = g[s] + Diff(s)
    <3> DEFINE x == Some(s)
    <3>1. s # {}
      BY <1>3, <2>1, FS_EmptySet
    <3>2. x \in s /\ s \ {x} \in SUBSET S
      BY <3>1 DEF Some
    <3>3. Cardinality(s \ {x}) = k - 1
      BY <1>3, <2>1, <3>2, FS_RemoveElement
    <3>4. q[s \ {x}] = g[s \ {x}] + Diff(s \ {x})
      BY <1>5, <3>2, <3>3
    <3>5. g[s] = f[x] + g[s \ {x}] /\ q[s] = h[x] + q[s \ {x}]
      BY <1>1, <1>2, <3>1 DEF SumsUp
    <3>6. f[x] \in Int /\ g[s \ {x}] \in Int
      BY <3>2
    <3> HIDE DEF x
    <3>7. CASE x = a
      <4>1. Diff(s) = v /\ Diff(s \ {x}) = 0 /\ h[x] = f[x] + v
        BY <3>2, <3>7
      <4>2. QED
        BY <3>4, <3>5, <3>6, <4>1
    <3>8. CASE x # a
      <4>1. Diff(s) = Diff(s \ {x}) /\ h[x] = f[x] /\ Diff(s) \in Int
        BY <3>2, <3>8
      <4>2. QED
        BY <3>4, <3>5, <3>6, <4>1
    <3>9. QED
      BY <3>7, <3>8
  <2>2. QED
    BY <1>3, <2>1
<1>6. q[S] = g[S] + v
  <2> HIDE DEF Good, n
  <2>1. \A k \in 0 .. n : k \in Good
    BY <1>3, <1>4, <1>5, UpTo
  <2>2. Cardinality(S) \in Good
    BY <1>3, <2>1
  <2>3. q[S] = g[S] + Diff(S)
    BY <2>2 DEF Good
  <2>4. QED
    BY <2>3
<1>7. g[S] \in Int
  OBVIOUS
<1>8. QED
  BY <1>1, <1>2, <1>6, <1>7

-----------------------------------------------------------------------------
(* Accounts: transfers, payments, the loops over transactions. *)

\* What an account holds.
LEMMA AccountOf ==
  ASSUME NEW accts \in AccountsType, NEW a \in Addr
  PROVE  accts[a].balance \in Int /\ accts[a].nonce \in Nat
  BY DEF AccountsType

\* One more element of a sequence is one more of its set.
LEMMA AppendedSet ==
  ASSUME NEW S, NEW s \in Seq(S), NEW x \in S
  PROVE  ToSet(Append(s, x)) = ToSet(s) \cup {x}
<1>1. /\ Len(Append(s, x)) = Len(s) + 1 /\ Len(s) \in Nat
      /\ \A i \in 1 .. Len(s) : Append(s, x)[i] = s[i]
      /\ Append(s, x)[Len(s) + 1] = x
  OBVIOUS
<1>2. DOMAIN Append(s, x) = 1 .. Len(s) + 1 /\ DOMAIN s = 1 .. Len(s)
  BY <1>1
<1>3. ToSet(s) \subseteq ToSet(Append(s, x)) /\ x \in ToSet(Append(s, x))
  BY <1>1, <1>2 DEF ToSet
<1>4. ASSUME NEW i \in 1 .. Len(s) + 1
      PROVE  Append(s, x)[i] \in ToSet(s) \cup {x}
  <2>1. CASE i = Len(s) + 1
    BY <1>1, <2>1
  <2>2. CASE i # Len(s) + 1
    <3>1. i \in 1 .. Len(s)
      BY <1>1, <2>2
    <3>2. QED
      BY <1>1, <1>2, <3>1 DEF ToSet
  <2>3. QED
    BY <2>1, <2>2
<1>5. ToSet(Append(s, x)) \subseteq ToSet(s) \cup {x}
  BY <1>2, <1>4 DEF ToSet
<1>6. QED
  BY <1>3, <1>5

\* Settling a transaction that moves something changes two accounts.
LEMMA TransferredTyped ==
  ASSUME NEW accts \in AccountsType, NEW tx \in Tx, tx.from # tx.to
  PROVE  /\ Transferred(accts, tx) \in AccountsType
         /\ \A a \in Addr :
              /\ Transferred(accts, tx)[a].nonce =
                   IF a = tx.from THEN accts[a].nonce + 1 ELSE accts[a].nonce
              /\ Transferred(accts, tx)[a].balance =
                   IF a = tx.from THEN accts[a].balance - (tx.amount + tx.fee)
                   ELSE IF a = tx.to THEN accts[a].balance + tx.amount
                   ELSE accts[a].balance
<1> DEFINE after == Transferred(accts, tx)
<1>1. /\ tx.from \in Addr /\ tx.to \in Addr
      /\ tx.amount \in Int /\ tx.fee \in Int /\ tx.nonce \in Int
  BY Constants
<1>2. after \in AccountsType
  <2>1. [accts[tx.from] EXCEPT !.balance = @ - (tx.amount + tx.fee), !.nonce = @ + 1]
          \in [balance : Int, nonce : Nat]
    <3>1. accts[tx.from] \in [balance : Int, nonce : Nat]
      BY <1>1 DEF AccountsType
    <3>2. accts[tx.from].balance - (tx.amount + tx.fee) \in Int /\ accts[tx.from].nonce + 1 \in Nat
      <4>1. accts[tx.from].balance \in Int /\ accts[tx.from].nonce \in Nat
        BY <3>1
      <4>2. \A x, y, z \in Int : x - (y + z) \in Int
        OBVIOUS
      <4>3. \A n \in Nat : n + 1 \in Nat
        OBVIOUS
      <4>4. QED
        BY <4>1, <4>2, <4>3, <1>1, Zenon
    <3>3. \A r \in [balance : Int, nonce : Nat] : \A x \in Int : \A n \in Nat :
            [r EXCEPT !.balance = x, !.nonce = n] \in [balance : Int, nonce : Nat]
      OBVIOUS
    <3>4. QED
      BY <3>1, <3>2, <3>3
  <2>2. [accts[tx.to] EXCEPT !.balance = @ + tx.amount] \in [balance : Int, nonce : Nat]
    <3>1. accts[tx.to] \in [balance : Int, nonce : Nat]
      BY <1>1 DEF AccountsType
    <3>2. QED
      BY <3>1, <1>1, SMTT(60)
  <2>3. after = [a \in Addr |->
                   IF a = tx.to THEN [accts[a] EXCEPT !.balance = @ + tx.amount]
                   ELSE IF a = tx.from
                   THEN [accts[a] EXCEPT !.balance = @ - (tx.amount + tx.fee), !.nonce = @ + 1]
                   ELSE accts[a]]
    BY <1>1 DEF AccountsType, Transferred
  <2>4. ASSUME NEW a \in Addr
        PROVE  accts[a] \in [balance : Int, nonce : Nat]
    BY DEF AccountsType
  <2>5. QED
    BY <2>1, <2>2, <2>3, <2>4, Zenon DEF AccountsType
<1>3. ASSUME NEW a \in Addr
      PROVE  /\ after[a].nonce = IF a = tx.from THEN accts[a].nonce + 1 ELSE accts[a].nonce
             /\ after[a].balance =
                  IF a = tx.from THEN accts[a].balance - (tx.amount + tx.fee)
                  ELSE IF a = tx.to THEN accts[a].balance + tx.amount
                  ELSE accts[a].balance
  <2>1. CASE a = tx.from
    BY <1>1, <2>1 DEF AccountsType, Transferred
  <2>2. CASE a # tx.from
    BY <1>1, <2>2 DEF AccountsType, Transferred
  <2>3. QED
    BY <2>1, <2>2
<1>4. QED
  BY <1>2, <1>3

TotalsType == [accts : AccountsType, fees : Int]

\* A turn of the loop of calcStateHashWithBlock keeps the types.
LEMMA MovedTyped ==
  ASSUME NEW acc \in TotalsType, NEW tx \in Tx
  PROVE  Moved(acc, tx) \in TotalsType
<1>1. acc.accts \in AccountsType /\ acc.fees \in Int /\ tx.fee \in Int
  BY Constants DEF TotalsType
<1>2. CASE Moves(tx)
  <2>1. Transferred(acc.accts, tx) \in AccountsType
    BY <1>1, <1>2, TransferredTyped DEF Moves
  <2>2. QED
    BY <1>1, <1>2, <2>1 DEF Moved, TotalsType
<1>3. CASE ~Moves(tx)
  BY <1>3 DEF Moved
<1>4. QED
  BY <1>2, <1>3

\* The loop of calcStateHashWithBlock, turn by turn: a fold over a sequence is the
\* last value of the run that its function gives from the base.
LEMMA MovedRun ==
  ASSUME NEW base \in TotalsType, NEW txs \in Seq(Tx)
  PROVE  \E run \in [0 .. Len(txs) -> TotalsType] :
           /\ run[0] = base
           /\ \A k \in 1 .. Len(txs) : run[k] = Moved(run[k - 1], txs[k])
           /\ FoldLeft(Moved, base, txs) = run[Len(txs)]
<1> DEFINE D == DOMAIN txs
           g == CHOOSE f : f = [S \in SUBSET D |-> IF S = {} THEN base
                                  ELSE Moved(f[S \ {Max(S)}], txs[Max(S)])]
           run == [k \in 0 .. Len(txs) |-> g[1 .. k]]
<1>1. FoldLeft(Moved, base, txs) = g[D]
  BY DEF FoldLeft, MapThenFoldSet
<1>2. D = 1 .. Len(txs) /\ Len(txs) \in Nat /\ IsFiniteSet(D)
  BY FS_Interval
<1>3. \A S \in SUBSET D : S # {} => Max(S) \in S
  BY <1>2, GreatestIndex
<1> HIDE DEF D
<1>4. g = [S \in SUBSET D |-> IF S = {} THEN base
             ELSE Moved(g[S \ {Max(S)}], txs[Max(S)])]
  <2> DEFINE pick == [S \in SUBSET D |-> Max(S)]
             step == [p \in D \X TotalsType |-> Moved(p[2], txs[p[1]])]
  <2>1. step \in [D \X TotalsType -> TotalsType]
    BY <1>2, MovedTyped
  <2>2. \A S \in SUBSET D : S # {} => pick[S] \in S
    BY <1>3
  <2> HIDE DEF step, pick
  <2>3. PICK r \in [SUBSET D -> TotalsType] : Recurs(r, SUBSET D, base, pick, step)
    BY <1>2, <2>1, <2>2, SetRecursion
  <2>4. ASSUME NEW S \in SUBSET D
        PROVE  r[S] = IF S = {} THEN base ELSE Moved(r[S \ {Max(S)}], txs[Max(S)])
    <3>1. r[S] = IF S = {} THEN base ELSE step[<<pick[S], r[S \ {pick[S]}]>>]
      BY <2>3 DEF Recurs
    <3>2. pick[S] = Max(S)
      BY DEF pick
    <3>3. CASE S # {}
      <4>1. Max(S) \in D /\ S \ {Max(S)} \in SUBSET D
        BY <1>3, <3>3
      <4>2. r[S \ {Max(S)}] \in TotalsType
        BY <4>1
      <4>3. step[<<Max(S), r[S \ {Max(S)}]>>] = Moved(r[S \ {Max(S)}], txs[Max(S)])
        BY <4>1, <4>2 DEF step
      <4>4. QED
        BY <3>1, <3>2, <3>3, <4>3
    <3>4. QED
      BY <3>1, <3>3
  <2>5. r = [S \in SUBSET D |-> IF S = {} THEN base
               ELSE Moved(r[S \ {Max(S)}], txs[Max(S)])]
    BY <2>4
  <2>6. QED
    BY <2>5
<1> HIDE DEF g
<1>5. ASSUME NEW S \in SUBSET D
      PROVE  g[S] = IF S = {} THEN base ELSE Moved(g[S \ {Max(S)}], txs[Max(S)])
  <2> DEFINE F(r) == [S1 \in SUBSET D |-> IF S1 = {} THEN base
                        ELSE Moved(r[S1 \ {Max(S1)}], txs[Max(S1)])]
  <2>1. g = F(g)
    BY <1>4
  <2>2. F(g)[S] = IF S = {} THEN base ELSE Moved(g[S \ {Max(S)}], txs[Max(S)])
    OBVIOUS
  <2>3. QED
    BY <2>1, <2>2
<1>6. run[0] = base
  <2>1. g[{}] = base
    BY <1>5
  <2>2. QED
    BY <1>2, <2>1
<1>7. ASSUME NEW k \in 1 .. Len(txs)
      PROVE  run[k] = Moved(run[k - 1], txs[k])
  <2>1. Max(1 .. k) = k /\ (1 .. k) \ {k} = 1 .. k - 1
    BY <1>2, LastIndex
  <2>2. 1 .. k \in SUBSET D /\ 1 .. k # {}
    <3>1. k \in Nat /\ k \in 1 .. k /\ k <= Len(txs)
      BY <1>2
    <3>2. \A j \in 1 .. k : j \in 1 .. Len(txs)
      BY <1>2, <3>1
    <3>3. QED
      BY <1>2, <3>1, <3>2
  <2>3. g[1 .. k] = Moved(g[(1 .. k) \ {Max(1 .. k)}], txs[Max(1 .. k)])
    BY <1>5, <2>2
  <2>4. g[1 .. k] = Moved(g[1 .. k - 1], txs[k])
    BY <2>1, <2>3
  <2>5. QED
    BY <1>2, <2>4
<1>8. ASSUME NEW k \in 0 .. Len(txs)
      PROVE  run[k] \in TotalsType
  <2> DEFINE Good == {j \in 0 .. Len(txs) : run[j] \in TotalsType}
  <2> HIDE DEF run
  <2>1. 0 \in Good
    BY <1>2, <1>6
  <2>2. ASSUME NEW j \in 1 .. Len(txs), j - 1 \in Good
        PROVE  j \in Good
    <3>1. run[j - 1] \in TotalsType /\ txs[j] \in Tx /\ j \in 0 .. Len(txs)
      BY <1>2, <2>2
    <3>2. run[j] \in TotalsType
      BY <1>7, <3>1, MovedTyped
    <3>3. QED
      BY <3>1, <3>2
  <2> HIDE DEF Good
  <2>3. k \in Good
    BY <1>2, <2>1, <2>2, UpTo
  <2>4. QED
    BY <2>3 DEF Good
<1>9. run \in [0 .. Len(txs) -> TotalsType]
  BY <1>8
<1>10. FoldLeft(Moved, base, txs) = run[Len(txs)]
  BY <1>1, <1>2
<1>11. QED
  <2> HIDE DEF run
  <2>1. QED
    BY <1>6, <1>7, <1>9, <1>10

KeptType == [kept : Seq(Tx), accts : AccountsType]

\* A turn of the loop of compactMempoolLocked keeps the types.
LEMMA KeptTyped ==
  ASSUME NEW accts \in AccountsType, NEW acc \in KeptType, NEW tx \in Tx
  PROVE  Kept(accts, acc, tx) \in KeptType
<1>1. acc.kept \in Seq(Tx) /\ acc.accts \in AccountsType
  BY DEF KeptType
<1>2. CASE Kept(accts, acc, tx) = acc
  BY <1>2
<1>3. CASE Kept(accts, acc, tx) # acc
  <2>1. /\ Kept(accts, acc, tx) = [kept |-> Append(acc.kept, tx),
                                  accts |-> Transferred(acc.accts, tx)]
        /\ tx.from # tx.to
    BY <1>3 DEF Kept, Valid, WellFormed
  <2>2. Transferred(acc.accts, tx) \in AccountsType
    BY <1>1, <2>1, TransferredTyped
  <2>3. QED
    BY <1>1, <2>1, <2>2 DEF KeptType
<1>4. QED
  BY <1>2, <1>3

\* The loop of compactMempoolLocked, turn by turn.
LEMMA KeptRun ==
  ASSUME NEW accts \in AccountsType, mempool \in Seq(Tx)
  PROVE  \E run \in [0 .. Len(mempool) -> KeptType] :
           /\ run[0] = [kept |-> <<>>, accts |-> accts]
           /\ \A k \in 1 .. Len(mempool) : run[k] = Kept(accts, run[k - 1], mempool[k])
           /\ Compact(accts) = run[Len(mempool)].kept
<1> DEFINE D == DOMAIN mempool
           base == [kept |-> <<>>, accts |-> accts]
           g == CHOOSE f : f = [S \in SUBSET D |-> IF S = {} THEN base
                                  ELSE Kept(accts, f[S \ {Max(S)}], mempool[Max(S)])]
           run == [k \in 0 .. Len(mempool) |-> g[1 .. k]]
<1>1. Compact(accts) = g[D].kept
  BY DEF Compact, FoldLeft, MapThenFoldSet
<1>2. D = 1 .. Len(mempool) /\ Len(mempool) \in Nat /\ IsFiniteSet(D)
  BY FS_Interval
<1>3. \A S \in SUBSET D : S # {} => Max(S) \in S
  BY <1>2, GreatestIndex
<1> HIDE DEF D
<1>4. base \in KeptType
  BY DEF KeptType
<1> HIDE DEF base
<1>5. g = [S \in SUBSET D |-> IF S = {} THEN base
             ELSE Kept(accts, g[S \ {Max(S)}], mempool[Max(S)])]
  <2> DEFINE pick == [S \in SUBSET D |-> Max(S)]
             step == [p \in D \X KeptType |-> Kept(accts, p[2], mempool[p[1]])]
  <2>1. step \in [D \X KeptType -> KeptType]
    BY <1>2, KeptTyped
  <2>2. \A S \in SUBSET D : S # {} => pick[S] \in S
    BY <1>3
  <2> HIDE DEF step, pick
  <2>3. PICK r \in [SUBSET D -> KeptType] : Recurs(r, SUBSET D, base, pick, step)
    BY <1>2, <1>4, <2>1, <2>2, SetRecursion
  <2>4. ASSUME NEW S \in SUBSET D
        PROVE  r[S] = IF S = {} THEN base ELSE Kept(accts, r[S \ {Max(S)}], mempool[Max(S)])
    <3>1. r[S] = IF S = {} THEN base ELSE step[<<pick[S], r[S \ {pick[S]}]>>]
      BY <2>3 DEF Recurs
    <3>2. pick[S] = Max(S)
      BY DEF pick
    <3>3. CASE S # {}
      <4>1. Max(S) \in D /\ S \ {Max(S)} \in SUBSET D
        BY <1>3, <3>3
      <4>2. r[S \ {Max(S)}] \in KeptType
        BY <4>1
      <4>3. step[<<Max(S), r[S \ {Max(S)}]>>] = Kept(accts, r[S \ {Max(S)}], mempool[Max(S)])
        BY <4>1, <4>2 DEF step
      <4>4. QED
        BY <3>1, <3>2, <3>3, <4>3
    <3>4. QED
      BY <3>1, <3>3
  <2>5. r = [S \in SUBSET D |-> IF S = {} THEN base
               ELSE Kept(accts, r[S \ {Max(S)}], mempool[Max(S)])]
    BY <2>4
  <2>6. QED
    BY <2>5
<1> HIDE DEF g
<1>6. ASSUME NEW S \in SUBSET D
      PROVE  g[S] = IF S = {} THEN base ELSE Kept(accts, g[S \ {Max(S)}], mempool[Max(S)])
  <2> DEFINE F(r) == [S1 \in SUBSET D |-> IF S1 = {} THEN base
                        ELSE Kept(accts, r[S1 \ {Max(S1)}], mempool[Max(S1)])]
  <2>1. g = F(g)
    BY <1>5
  <2>2. F(g)[S] = IF S = {} THEN base ELSE Kept(accts, g[S \ {Max(S)}], mempool[Max(S)])
    OBVIOUS
  <2>3. QED
    BY <2>1, <2>2
<1>7. run[0] = base
  <2>1. g[{}] = base
    BY <1>6
  <2>2. QED
    BY <1>2, <2>1
<1>8. ASSUME NEW k \in 1 .. Len(mempool)
      PROVE  run[k] = Kept(accts, run[k - 1], mempool[k])
  <2>1. Max(1 .. k) = k /\ (1 .. k) \ {k} = 1 .. k - 1
    BY <1>2, LastIndex
  <2>2. 1 .. k \in SUBSET D /\ 1 .. k # {}
    <3>1. k \in Nat /\ k \in 1 .. k /\ k <= Len(mempool)
      BY <1>2
    <3>2. \A j \in 1 .. k : j \in 1 .. Len(mempool)
      BY <1>2, <3>1
    <3>3. QED
      BY <1>2, <3>1, <3>2
  <2>3. g[1 .. k] = Kept(accts, g[(1 .. k) \ {Max(1 .. k)}], mempool[Max(1 .. k)])
    BY <1>6, <2>2
  <2>4. g[1 .. k] = Kept(accts, g[1 .. k - 1], mempool[k])
    BY <2>1, <2>3
  <2>5. QED
    BY <1>2, <2>4
<1>9. ASSUME NEW k \in 0 .. Len(mempool)
      PROVE  run[k] \in KeptType
  <2> DEFINE Good == {j \in 0 .. Len(mempool) : run[j] \in KeptType}
  <2> HIDE DEF run
  <2>1. 0 \in Good
    BY <1>2, <1>4, <1>7
  <2>2. ASSUME NEW j \in 1 .. Len(mempool), j - 1 \in Good
        PROVE  j \in Good
    <3>1. run[j - 1] \in KeptType /\ mempool[j] \in Tx /\ j \in 0 .. Len(mempool)
      BY <1>2, <2>2
    <3>2. run[j] \in KeptType
      BY <1>8, <3>1, KeptTyped
    <3>3. QED
      BY <3>1, <3>2
  <2> HIDE DEF Good
  <2>3. k \in Good
    BY <1>2, <2>1, <2>2, UpTo
  <2>4. QED
    BY <2>3 DEF Good
<1>10. run \in [0 .. Len(mempool) -> KeptType]
  BY <1>9
<1>11. Compact(accts) = run[Len(mempool)].kept
  BY <1>1, <1>2
<1>12. QED
  <2> HIDE DEF run
  <2>1. QED
    BY <1>7, <1>8, <1>10, <1>11 DEF base

\* What the loop of calcStateHashWithBlock has at its start.
LEMMA ThroughNone ==
  ASSUME accounts \in AccountsType
  PROVE  Through(<<>>) = [accts |-> accounts, fees |-> 0]
<1> DEFINE base == [accts |-> accounts, fees |-> 0]
<1>1. base \in TotalsType
  BY DEF TotalsType
<1> HIDE DEF base
<1>2. FoldLeft(Moved, base, <<>>) = base
  <2> DEFINE none == <<>>
  <2>1. none \in Seq(Tx) /\ Len(none) = 0
    OBVIOUS
  <2> HIDE DEF none
  <2>2. PICK run \in [0 .. Len(none) -> TotalsType] :
          run[0] = base /\ FoldLeft(Moved, base, none) = run[Len(none)]
    BY <1>1, <2>1, MovedRun
  <2>3. QED
    BY <2>1, <2>2 DEF none
<1>3. QED
  BY <1>2 DEF Through, base

\* What it has after one more transaction.
LEMMA ThroughAppend ==
  ASSUME accounts \in AccountsType, NEW txs \in Seq(Tx), NEW tx \in Tx
  PROVE  /\ Through(txs) \in TotalsType
         /\ Through(Append(txs, tx)) = Moved(Through(txs), tx)
<1> DEFINE base == [accts |-> accounts, fees |-> 0]
           all == Append(txs, tx)
           n == Len(txs)
<1>1. base \in TotalsType
  BY DEF TotalsType
<1>2. /\ all \in Seq(Tx) /\ Len(all) = n + 1 /\ all[n + 1] = tx /\ n \in Nat
      /\ \A k \in 1 .. n : all[k] = txs[k]
  OBVIOUS
<1>3. Through(txs) = FoldLeft(Moved, base, txs) /\ Through(all) = FoldLeft(Moved, base, all)
  BY DEF Through
<1> HIDE DEF base, all
<1>4. PICK r \in [0 .. n -> TotalsType] :
        /\ r[0] = base
        /\ \A k \in 1 .. n : r[k] = Moved(r[k - 1], txs[k])
        /\ FoldLeft(Moved, base, txs) = r[n]
  BY <1>1, MovedRun
<1>5. \E q \in [0 .. n + 1 -> TotalsType] :
        /\ q[0] = base
        /\ \A k \in 1 .. n + 1 : q[k] = Moved(q[k - 1], all[k])
        /\ FoldLeft(Moved, base, all) = q[n + 1]
  <2>1. \E q \in [0 .. Len(all) -> TotalsType] :
          /\ q[0] = base
          /\ \A k \in 1 .. Len(all) : q[k] = Moved(q[k - 1], all[k])
          /\ FoldLeft(Moved, base, all) = q[Len(all)]
    BY ONLY <1>1, <1>2, MovedRun, Zenon
  <2>2. Len(all) = n + 1
    BY <1>2
  <2>3. QED
    BY ONLY <2>1, <2>2, Zenon
<1>6. PICK q \in [0 .. n + 1 -> TotalsType] :
        /\ q[0] = base
        /\ \A k \in 1 .. n + 1 : q[k] = Moved(q[k - 1], all[k])
        /\ FoldLeft(Moved, base, all) = q[n + 1]
  BY <1>5
<1> HIDE DEF n
<1>7. q[n] = r[n]
  <2> DEFINE Same == {k \in 0 .. n : q[k] = r[k]}
  <2>1. 0 \in Same
    BY <1>2, <1>4, <1>6
  <2>2. ASSUME NEW k \in 1 .. n, k - 1 \in Same
        PROVE  k \in Same
    <3>1. k \in 0 .. n /\ k \in 1 .. n + 1 /\ all[k] = txs[k] /\ q[k - 1] = r[k - 1]
      BY <1>2, <2>2
    <3>2. QED
      BY <1>4, <1>6, <3>1
  <2> HIDE DEF Same
  <2>3. n \in 0 .. n
    BY <1>2
  <2>4. n \in Same
    BY <1>2, <2>1, <2>2, <2>3, UpTo
  <2>5. QED
    BY <2>4 DEF Same
<1>8. q[n + 1] = Moved(q[n], tx)
  <2>1. n + 1 \in 1 .. n + 1 /\ n + 1 - 1 = n
    BY <1>2
  <2>2. QED
    BY <1>2, <1>6, <2>1
<1>9. r[n] \in TotalsType
  BY <1>2, <1>4
<1>10. QED
  BY <1>3, <1>4, <1>6, <1>7, <1>8, <1>9 DEF all

\* Transactions that all fit the accounts, of different senders.
Fitting(txs, accts) ==
  /\ \A i \in 1 .. Len(txs) : WellFormed(txs[i]) /\ Fits(txs[i], accts)
  /\ \A i, j \in 1 .. Len(txs) : i # j => txs[i].from # txs[j].from

\* One more transaction of another sender and nonce fits as well.
LEMMA FittingAppend ==
  ASSUME NEW accts, NEW txs \in Seq(Tx), Fitting(txs, accts),
         NEW tx \in Tx, WellFormed(tx), Fits(tx, accts),
         \A t \in ToSet(txs) : Key(t) # Key(tx)
  PROVE  Fitting(Append(txs, tx), accts)
<1> DEFINE m == Len(txs)
           next == Append(txs, tx)
<1>1. /\ m \in Nat /\ Len(next) = m + 1 /\ next[m + 1] = tx
      /\ \A i \in 1 .. m : next[i] = txs[i] /\ txs[i] \in ToSet(txs)
  BY DEF ToSet
<1>2. /\ \A i \in 1 .. m : WellFormed(txs[i]) /\ Fits(txs[i], accts)
      /\ \A i, j \in 1 .. m : i # j => txs[i].from # txs[j].from
  BY DEF Fitting
<1>3. ASSUME NEW i \in 1 .. m
      PROVE  txs[i].from # tx.from
  <2>1. Key(txs[i]) # Key(tx)
    BY <1>1
  <2>2. txs[i].nonce = accts[txs[i].from].nonce /\ tx.nonce = accts[tx.from].nonce
    BY <1>2 DEF Fits
  <2>3. QED
    BY <2>1, <2>2 DEF Key
<1> HIDE DEF next, m
<1>4. \A i \in 1 .. m + 1 : i = m + 1 \/ i \in 1 .. m
  BY <1>1
<1>5. Fitting(next, accts)
  BY <1>1, <1>2, <1>3, <1>4 DEF Fitting
<1>6. QED
  BY <1>5 DEF next

\* A compacted pool is no longer than the pool and fits the accounts it was
\* compacted against: a sender has one nonce, so no two of its transactions stay.
LEMMA CompactFits ==
  ASSUME NEW accts \in AccountsType, mempool \in Seq(Tx)
  PROVE  /\ Compact(accts) \in Seq(Tx) /\ Len(Compact(accts)) <= Len(mempool)
         /\ Fitting(Compact(accts), accts)
<1>1. PICK run \in [0 .. Len(mempool) -> KeptType] :
        /\ run[0] = [kept |-> <<>>, accts |-> accts]
        /\ \A k \in 1 .. Len(mempool) : run[k] = Kept(accts, run[k - 1], mempool[k])
        /\ Compact(accts) = run[Len(mempool)].kept
  BY KeptRun
<1> DEFINE n == Len(mempool)
           Good == {k \in 0 .. n : /\ Len(run[k].kept) <= k
                                   /\ Fitting(run[k].kept, accts)}
<1>2. n \in Nat
  OBVIOUS
<1>3. 0 \in Good
  <2>1. run[0].kept = <<>> /\ Len(<<>>) = 0 /\ 0 \in 0 .. n
    BY <1>1, <1>2
  <2>2. QED
    BY <2>1 DEF Fitting
<1>4. ASSUME NEW k \in 1 .. n, k - 1 \in Good
      PROVE  k \in Good
  <2> DEFINE acc == run[k - 1]
             tx == mempool[k]
  <2>1. k \in 0 .. n /\ k - 1 \in 0 .. n /\ tx \in Tx
    BY <1>2
  <2>2. acc.kept \in Seq(Tx) /\ Len(acc.kept) <= k - 1 /\ Fitting(acc.kept, accts)
    BY <1>1, <1>4, <2>1 DEF KeptType
  <2>3. run[k] = Kept(accts, acc, tx)
    BY <1>1
  <2>4. CASE run[k] = acc
    BY <2>1, <2>2, <2>4
  <2>5. CASE run[k] # acc
    <3> HIDE DEF acc, tx
    <3>1. /\ run[k].kept = Append(acc.kept, tx)
          /\ Valid(tx, accts) /\ \A t \in ToSet(acc.kept) : Key(t) # Key(tx)
      BY <2>3, <2>5 DEF Kept
    <3>2. WellFormed(tx) /\ Fits(tx, accts)
      BY <3>1 DEF Valid
    <3>3. Fitting(Append(acc.kept, tx), accts)
      BY <2>1, <2>2, <3>1, <3>2, FittingAppend
    <3>4. Len(Append(acc.kept, tx)) <= k
      <4>1. Len(Append(acc.kept, tx)) = Len(acc.kept) + 1 /\ Len(acc.kept) \in Nat
        BY <2>1, <2>2
      <4>2. QED
        BY <2>1, <2>2, <4>1
    <3>5. Len(run[k].kept) <= k /\ Fitting(run[k].kept, accts)
      BY <3>1, <3>3, <3>4
    <3>6. QED
      BY <2>1, <3>5
  <2>6. QED
    BY <2>4, <2>5
<1>5. n \in Good
  <2> HIDE DEF Good, n
  <2>1. \A k \in 1 .. n : k - 1 \in Good => k \in Good
    BY <1>4
  <2>2. n \in 0 .. n
    BY <1>2
  <2>3. QED
    BY <1>2, <1>3, <2>1, <2>2, UpTo
<1>6. run[n] \in KeptType
  BY <1>2
<1>7. QED
  BY <1>1, <1>5, <1>6 DEF Good, KeptType

\* The coins of all accounts together.
Total(accts) == SumFunction([a \in Addr |-> accts[a].balance])

\* A payment adds to the total what it pays.
LEMMA TotalPaid ==
  ASSUME NEW accts \in AccountsType, NEW who \in Addr, NEW n \in Int
  PROVE  /\ Total(accts) \in Int
         /\ [accts EXCEPT ![who].balance = @ + n] \in AccountsType
         /\ Total([accts EXCEPT ![who].balance = @ + n]) = Total(accts) + n
<1> DEFINE after == [accts EXCEPT ![who].balance = @ + n]
           f == [a \in Addr |-> accts[a].balance]
           g == [a \in Addr |-> after[a].balance]
<1>1. accts[who] \in [balance : Int, nonce : Nat]
  BY DEF AccountsType
<1>2. [accts[who] EXCEPT !.balance = @ + n] \in [balance : Int, nonce : Nat]
  BY <1>1
<1>3. after = [a \in Addr |-> IF a = who THEN [accts[a] EXCEPT !.balance = @ + n] ELSE accts[a]]
  BY DEF AccountsType
<1>4. after \in AccountsType
  BY <1>2, <1>3 DEF AccountsType
<1>5. ASSUME NEW a \in Addr
      PROVE  after[a].balance = IF a = who THEN accts[a].balance + n ELSE accts[a].balance
  BY <1>1, <1>3 DEF AccountsType
<1>6. /\ f \in [Addr -> Int] /\ g \in [Addr -> Int] /\ IsFiniteSet(Addr)
      /\ g[who] = f[who] + n /\ \A a \in Addr : a # who => g[a] = f[a]
  <2> HIDE DEF after
  <2>1. QED
    BY <1>4, <1>5, AccountOf, AddrAssumption
<1>7. Total(accts) = SumFunction(f) /\ Total(after) = SumFunction(g)
  BY DEF Total
<1> HIDE DEF f, g, after
<1>8. SumFunction(f) \in Int /\ SumFunction(g) = SumFunction(f) + n
  BY <1>6, SumChanges
<1>9. QED
  BY <1>4, <1>7, <1>8 DEF after

\* A transfer leaves the total as it is but for its fee.
LEMMA TotalTransferred ==
  ASSUME NEW accts \in AccountsType, NEW tx \in Tx, tx.from # tx.to
  PROVE  Total(Transferred(accts, tx)) = Total(accts) - tx.fee
<1> DEFINE after == Transferred(accts, tx)
           cost == -(tx.amount + tx.fee)
           f == [a \in Addr |-> accts[a].balance]
           h == [a \in Addr |-> IF a = tx.from THEN accts[a].balance + cost ELSE accts[a].balance]
           g == [a \in Addr |-> after[a].balance]
<1>1. /\ tx.from \in Addr /\ tx.to \in Addr /\ tx.amount \in Int /\ tx.fee \in Int
      /\ cost \in Int /\ IsFiniteSet(Addr)
  BY Constants, AddrAssumption
<1>2. after \in AccountsType
  BY TransferredTyped
<1>3. ASSUME NEW a \in Addr
      PROVE  /\ accts[a].balance \in Int /\ after[a].balance \in Int
             /\ a = tx.from => after[a].balance = accts[a].balance + cost
             /\ a = tx.to => after[a].balance = accts[a].balance + tx.amount
             /\ a # tx.from /\ a # tx.to => after[a].balance = accts[a].balance
  <2>1. accts[a].balance \in Int /\ after[a].balance \in Int
    BY <1>2, AccountOf
  <2>2. after[a].balance = IF a = tx.from THEN accts[a].balance - (tx.amount + tx.fee)
                           ELSE IF a = tx.to THEN accts[a].balance + tx.amount
                           ELSE accts[a].balance
    BY TransferredTyped
  <2> HIDE DEF after
  <2>3. QED
    BY <1>1, <2>1, <2>2
<1>4. Total(accts) = SumFunction(f) /\ Total(after) = SumFunction(g)
  BY DEF Total
<1> HIDE DEF after, cost
<1>5. /\ f \in [Addr -> Int] /\ h \in [Addr -> Int] /\ g \in [Addr -> Int]
      /\ h[tx.from] = f[tx.from] + cost /\ \A a \in Addr : a # tx.from => h[a] = f[a]
      /\ g[tx.to] = h[tx.to] + tx.amount /\ \A a \in Addr : a # tx.to => g[a] = h[a]
  BY <1>1, <1>3
<1> HIDE DEF f, h, g
<1>6. SumFunction(f) \in Int /\ SumFunction(h) = SumFunction(f) + cost
  BY <1>1, <1>5, SumChanges
<1>7. SumFunction(g) = SumFunction(h) + tx.amount
  BY <1>1, <1>5, SumChanges
<1>8. QED
  BY <1>1, <1>4, <1>6, <1>7 DEF cost, after

\* What the transfers of a block take from the total is their fees.
LEMMA ThroughTotal ==
  ASSUME accounts \in AccountsType, NEW txs \in Seq(Tx)
  PROVE  /\ Through(txs) \in TotalsType
         /\ Total(Through(txs).accts) = Total(accounts) - Through(txs).fees
<1> DEFINE base == [accts |-> accounts, fees |-> 0]
           n == Len(txs)
           sum == Total(accounts)
<1>1. base \in TotalsType /\ base.accts = accounts /\ base.fees = 0 /\ n \in Nat
  BY DEF TotalsType
<1>2. Through(txs) = FoldLeft(Moved, base, txs)
  BY DEF Through
<1> HIDE DEF base
<1>3. PICK run \in [0 .. n -> TotalsType] :
        /\ run[0] = base
        /\ \A k \in 1 .. n : run[k] = Moved(run[k - 1], txs[k])
        /\ FoldLeft(Moved, base, txs) = run[n]
  BY <1>1, MovedRun
<1>4. sum \in Int
  <2>1. Wallet \in Addr /\ 0 \in Int
    BY Constants
  <2>2. QED
    BY <2>1, TotalPaid
<1> HIDE DEF sum
<1> DEFINE Good == {k \in 0 .. n : Total(run[k].accts) = sum - run[k].fees}
<1>5. 0 \in Good
  BY <1>1, <1>3, <1>4 DEF sum
<1>6. ASSUME NEW k \in 1 .. n, k - 1 \in Good
      PROVE  k \in Good
  <2> DEFINE acc == run[k - 1]
             tx == txs[k]
  <2>1. k \in 0 .. n /\ k - 1 \in 0 .. n /\ tx \in Tx
    BY <1>1
  <2>2. acc \in TotalsType /\ Total(acc.accts) = sum - acc.fees
    BY <1>3, <1>6, <2>1
  <2>3. run[k] = Moved(acc, tx)
    BY <1>3
  <2> HIDE DEF acc, tx
  <2>4. acc.accts \in AccountsType /\ acc.fees \in Int /\ tx.fee \in Int
    BY <2>1, <2>2, Constants DEF TotalsType
  <2>5. CASE Moves(tx)
    <3>1. run[k].accts = Transferred(acc.accts, tx) /\ run[k].fees = acc.fees + tx.fee
      BY <2>3, <2>5 DEF Moved
    <3>2. Total(run[k].accts) = Total(acc.accts) - tx.fee
      BY <2>1, <2>4, <2>5, <3>1, TotalTransferred DEF Moves
    <3>3. QED
      BY <1>4, <2>1, <2>2, <2>4, <3>1, <3>2
  <2>6. CASE ~Moves(tx)
    BY <2>1, <2>2, <2>3, <2>6 DEF Moved
  <2>7. QED
    BY <2>5, <2>6
<1>7. n \in Good
  <2> HIDE DEF Good, n
  <2>1. n \in 0 .. n /\ \A k \in 1 .. n : k - 1 \in Good => k \in Good
    BY <1>1, <1>6
  <2>2. QED
    BY <1>1, <1>5, <2>1, UpTo
<1>8. run[n] \in TotalsType
  BY <1>1
<1>9. QED
  BY <1>2, <1>3, <1>7, <1>8 DEF sum

\* A compacted pool keeps every transaction that is valid, when no two transactions
\* of the pool have one sender: what the others do to its account is to pay it.
LEMMA CompactKeeps ==
  ASSUME NEW accts \in AccountsType, mempool \in Seq(Tx),
         \A i, j \in 1 .. Len(mempool) : i # j => mempool[i].from # mempool[j].from,
         NEW i \in 1 .. Len(mempool), Valid(mempool[i], accts)
  PROVE  mempool[i] \in ToSet(Compact(accts))
<1>1. PICK run \in [0 .. Len(mempool) -> KeptType] :
        /\ run[0] = [kept |-> <<>>, accts |-> accts]
        /\ \A k \in 1 .. Len(mempool) : run[k] = Kept(accts, run[k - 1], mempool[k])
        /\ Compact(accts) = run[Len(mempool)].kept
  BY KeptRun
<1> DEFINE n == Len(mempool)
           mine == mempool[i]
           Untouched(acc) ==
             /\ acc.accts[mine.from].nonce = accts[mine.from].nonce
             /\ acc.accts[mine.from].balance >= accts[mine.from].balance
             /\ \A t \in ToSet(acc.kept) : t.from # mine.from
           Good == {k \in 0 .. n : IF k < i THEN Untouched(run[k])
                                            ELSE mine \in ToSet(run[k].kept)}
<1>2. n \in Nat /\ i \in Nat /\ i >= 1 /\ mine \in Tx /\ mine.from \in Addr
  BY Constants
<1>3. 0 \in Good
  <2>1. run[0].accts = accts /\ run[0].kept = <<>> /\ ToSet(<<>>) = {}
    BY <1>1 DEF ToSet
  <2>2. accts[mine.from].balance \in Int
    BY <1>2 DEF AccountsType
  <2>3. Untouched(run[0])
    BY <2>1, <2>2
  <2> HIDE DEF Untouched
  <2>4. QED
    BY <1>2, <2>3
<1>4. ASSUME NEW k \in 1 .. n, k - 1 \in Good
      PROVE  k \in Good
  <2> DEFINE acc == run[k - 1]
             tx == mempool[k]
  <2>1. k \in 0 .. n /\ k - 1 \in 0 .. n /\ tx \in Tx /\ tx.from \in Addr
    BY <1>2, Constants
  <2>2. acc \in KeptType
    BY <1>1, <2>1
  <2>3. run[k] = Kept(accts, acc, tx)
    BY <1>1
  <2>4. IF k - 1 < i THEN Untouched(acc) ELSE mine \in ToSet(acc.kept)
    BY <1>4
  <2>5. i # k => tx.from # mine.from
    BY <1>2
  <2>6. i = k => tx = mine
    OBVIOUS
  <2> HIDE DEF acc, tx
  <2>7. /\ acc.kept \in Seq(Tx) /\ acc.accts \in AccountsType
        /\ ToSet(Append(acc.kept, tx)) = ToSet(acc.kept) \cup {tx}
    <3>1. acc.kept \in Seq(Tx) /\ acc.accts \in AccountsType
      BY <2>2 DEF KeptType
    <3>2. QED
      BY <2>1, <3>1, AppendedSet
  <2>8. \/ run[k] = acc
        \/ run[k] = [kept |-> Append(acc.kept, tx), accts |-> Transferred(acc.accts, tx)]
           /\ tx.from # tx.to /\ tx.amount > 0
    BY <2>3 DEF Kept, Valid, WellFormed
  <2>9. CASE k < i
    <3>1. Untouched(acc) /\ tx.from # mine.from
      BY <1>2, <2>1, <2>4, <2>5, <2>9
    <3>2. CASE run[k] = acc
      BY <2>1, <2>9, <3>1, <3>2
    <3>3. CASE run[k] # acc
      <4>1. /\ run[k].kept = Append(acc.kept, tx)
            /\ run[k].accts = Transferred(acc.accts, tx)
            /\ tx.from # tx.to /\ tx.amount > 0
        BY <2>8, <3>3
      <4>2. /\ run[k].accts[mine.from].nonce = acc.accts[mine.from].nonce
            /\ run[k].accts[mine.from].balance =
                 IF mine.from = tx.to THEN acc.accts[mine.from].balance + tx.amount
                 ELSE acc.accts[mine.from].balance
        BY <1>2, <2>1, <2>7, <3>1, <4>1, TransferredTyped
      <4>3. /\ acc.accts[mine.from].balance \in Int /\ accts[mine.from].balance \in Int
            /\ tx.amount \in Int
        BY <1>2, <2>1, <2>7, Constants, AccountOf
      <4>4. /\ run[k].accts[mine.from].nonce = accts[mine.from].nonce
            /\ run[k].accts[mine.from].balance >= accts[mine.from].balance
        BY <3>1, <4>1, <4>2, <4>3
      <4>5. \A t \in ToSet(run[k].kept) : t.from # mine.from
        BY <2>7, <3>1, <4>1
      <4>6. Untouched(run[k])
        BY <4>4, <4>5
      <4> HIDE DEF Untouched
      <4>7. QED
        BY <2>1, <2>9, <4>6
    <3>4. QED
      BY <3>2, <3>3
  <2>10. CASE k = i
    <3>1. Untouched(acc) /\ tx = mine
      BY <1>2, <2>1, <2>4, <2>6, <2>10
    <3>2. Fits(tx, acc.accts)
      <4>1. Fits(mine, accts)
        BY DEF Valid
      <4>2. /\ acc.accts[mine.from].balance \in Int /\ accts[mine.from].balance \in Int
            /\ mine.amount + mine.fee \in Int
        <5>1. mine.amount \in Int /\ mine.fee \in Int
          BY <1>2, Constants
        <5>2. acc.accts[mine.from].balance \in Int /\ accts[mine.from].balance \in Int
          BY <1>2, <2>7, AccountOf
        <5> HIDE DEF mine
        <5>3. QED
          BY <5>1, <5>2
      <4> HIDE DEF mine
      <4>3. QED
        BY <3>1, <4>1, <4>2 DEF Fits
    <3>3. \A t \in ToSet(acc.kept) : t # tx /\ Key(t) # Key(tx)
      BY <3>1 DEF Key
    <3>4. Valid(tx, accts)
      BY <3>1
    <3>5. run[k].kept = Append(acc.kept, tx)
      BY <2>3, <3>2, <3>3, <3>4 DEF Kept
    <3>6. mine \in ToSet(run[k].kept)
      BY <2>7, <3>1, <3>5
    <3>7. QED
      BY <2>1, <2>10, <3>6
  <2>11. CASE k > i
    <3>1. mine \in ToSet(acc.kept)
      BY <1>2, <2>1, <2>4, <2>11
    <3>2. \/ run[k].kept = acc.kept
          \/ run[k].kept = Append(acc.kept, tx)
      BY <2>8
    <3>3. mine \in ToSet(run[k].kept)
      BY <2>7, <3>1, <3>2
    <3>4. QED
      BY <1>2, <2>1, <2>11, <3>3
  <2>12. QED
    BY <1>2, <2>1, <2>9, <2>10, <2>11
<1>5. n \in Good
  <2> HIDE DEF Good, n
  <2>1. n \in 0 .. n /\ \A k \in 1 .. n : k - 1 \in Good => k \in Good
    BY <1>2, <1>4
  <2>2. QED
    BY <1>2, <1>3, <2>1, UpTo
<1>6. mine \in ToSet(run[n].kept)
  BY <1>2, <1>5
<1>7. QED
  BY <1>1, <1>6

-----------------------------------------------------------------------------
(* The accounts and what they count. *)

\* Settling a transaction that fits keeps the balances natural and the count right.
LEMMA TransferredCounts ==
  ASSUME NEW accts \in AccountsType, NEW done \in [Addr -> Seq(Tx)], Counts(accts, done),
         NEW tx \in Tx, tx.from # tx.to, tx.amount > 0, tx.fee >= 0, Fits(tx, accts)
  PROVE  /\ Transferred(accts, tx) \in AccountsType
         /\ [done EXCEPT ![tx.from] = Append(@, tx)] \in [Addr -> Seq(Tx)]
         /\ Counts(Transferred(accts, tx), [done EXCEPT ![tx.from] = Append(@, tx)])
<1> DEFINE after == Transferred(accts, tx)
           done2 == [done EXCEPT ![tx.from] = Append(@, tx)]
<1>1. /\ tx.from \in Addr /\ tx.to \in Addr
      /\ tx.amount \in Int /\ tx.fee \in Int /\ tx.nonce \in Int
  BY Constants
<1>2. after \in AccountsType
  BY TransferredTyped
<1>3. done2 \in [Addr -> Seq(Tx)]
  BY <1>1
<1>4. ASSUME NEW a \in Addr
      PROVE  /\ after[a].balance >= 0
             /\ after[a].nonce = Len(done2[a])
             /\ \A i \in 1 .. Len(done2[a]) : done2[a][i].from = a /\ done2[a][i].nonce = i - 1
  <2>1. CASE a = tx.from
    <3>1. /\ after[a].balance = accts[a].balance - (tx.amount + tx.fee)
          /\ after[a].nonce = accts[a].nonce + 1
      BY <1>1, <2>1 DEF AccountsType, Transferred
    <3>2. done2[a] = Append(done[a], tx) /\ done[a] \in Seq(Tx)
      BY <2>1
    <3>3. accts[a].balance \in Int /\ accts[a].nonce \in Nat
      BY DEF AccountsType
    <3>4. /\ tx.nonce = Len(done[a])
          /\ accts[a].balance >= tx.amount + tx.fee
      BY <2>1 DEF Fits, Counts
    <3>5. \A i \in 1 .. Len(done[a]) : done[a][i].from = a /\ done[a][i].nonce = i - 1
      BY DEF Counts
    <3>6. /\ Len(done2[a]) = Len(done[a]) + 1
          /\ done2[a][Len(done[a]) + 1] = tx
          /\ \A i \in 1 .. Len(done[a]) : done2[a][i] = done[a][i]
      BY <3>2
    <3>7. \A i \in 1 .. Len(done2[a]) : done2[a][i].from = a /\ done2[a][i].nonce = i - 1
      <4> TAKE i \in 1 .. Len(done2[a])
      <4>1. CASE i = Len(done[a]) + 1
        BY <4>1, <3>4, <3>6, <2>1, <3>2
      <4>2. CASE i # Len(done[a]) + 1
        <5>1. i \in 1 .. Len(done[a])
          BY <4>2, <3>6, <3>2
        <5>2. QED
          BY <5>1, <3>5, <3>6
      <4>3. QED
        BY <4>1, <4>2
    <3>8. accts[a].nonce = Len(done[a])
      BY DEF Counts
    <3>9. QED
      BY <1>1, <3>1, <3>2, <3>3, <3>4, <3>6, <3>7, <3>8
  <2>2. CASE a # tx.from
    <3>1. done2[a] = done[a]
      BY <2>2
    <3>2. after[a].nonce = accts[a].nonce
      BY <1>1, <2>2 DEF AccountsType, Transferred
    <3>3. after[a].balance = IF a = tx.to THEN accts[a].balance + tx.amount
                                          ELSE accts[a].balance
      BY <1>1, <2>2 DEF AccountsType, Transferred
    <3>4. accts[a].balance \in Int
      BY DEF AccountsType
    <3>5. QED
      BY <1>1, <3>1, <3>2, <3>3, <3>4 DEF Counts
  <2>3. QED
    BY <2>1, <2>2
<1>5. QED
  BY <1>2, <1>3, <1>4 DEF Counts

\* A payment that is not negative changes no nonce and lowers no balance.
LEMMA PayKeepsCounts ==
  ASSUME NEW accts \in AccountsType, NEW done \in [Addr -> Seq(Tx)], Counts(accts, done),
         NEW who \in Addr, NEW n \in Nat
  PROVE  /\ [accts EXCEPT ![who].balance = @ + n] \in AccountsType
         /\ Counts([accts EXCEPT ![who].balance = @ + n], done)
<1> DEFINE after == [accts EXCEPT ![who].balance = @ + n]
<1>1. accts[who] \in [balance : Int, nonce : Nat]
  BY DEF AccountsType
<1>2. [accts[who] EXCEPT !.balance = @ + n] \in [balance : Int, nonce : Nat]
  BY <1>1
<1>3. after = [a \in Addr |-> IF a = who THEN [accts[a] EXCEPT !.balance = @ + n] ELSE accts[a]]
  BY DEF AccountsType
<1>4. after \in AccountsType
  BY <1>2, <1>3 DEF AccountsType
<1>5. \A a \in Addr : /\ after[a].nonce = accts[a].nonce
                       /\ after[a].balance >= accts[a].balance
  BY <1>1, <1>3 DEF AccountsType
<1>6. \A a \in Addr : after[a].balance \in Int /\ accts[a].balance \in Int
  BY <1>4 DEF AccountsType
<1>7. Counts(after, done)
  <2> HIDE DEF after
  <2>1. QED
    BY <1>5, <1>6 DEF Counts
<1>8. QED
  BY <1>4, <1>7

\* Paying a reward and a treasury share that are not negative changes no nonce and
\* lowers no balance.
LEMMA PaidCounts ==
  ASSUME NEW b, b.recipient \in Addr, b.reward \in Nat, totalFees \in Int,
         shadow \in AccountsType, spending \in [Addr -> Seq(Tx)], Counts(shadow, spending)
  PROVE  Paid(b) \in AccountsType /\ Counts(Paid(b), spending)
<1> DEFINE treasury == IF FeeSplitActive(height + 1) THEN TreasuryShare(totalFees) ELSE 0
           rewarded == [shadow EXCEPT ![b.recipient].balance = @ + b.reward]
<1>1. treasury \in Nat
  BY ShareIsNat
<1>2. rewarded \in AccountsType /\ Counts(rewarded, spending)
  BY PayKeepsCounts
<1>3. Paid(b) = [rewarded EXCEPT ![TreasuryAddr].balance = @ + treasury]
  BY DEF Paid
<1>4. TreasuryAddr \in Addr
  BY Constants
<1> HIDE DEF treasury, rewarded
<1>5. /\ [rewarded EXCEPT ![TreasuryAddr].balance = @ + treasury] \in AccountsType
      /\ Counts([rewarded EXCEPT ![TreasuryAddr].balance = @ + treasury], spending)
  BY <1>1, <1>2, <1>4, PayKeepsCounts
<1>6. QED
  BY <1>3, <1>5

\* The initial state: no coins, no transactions.
LEMMA InitInv == Init => IInv
<1> SUFFICES ASSUME Init
             PROVE  IInv
  OBVIOUS
<1>1. accounts \in AccountsType
  BY DEF Init, AccountsType
<1>2. Typed
  BY <1>1, Constants DEF Init, Typed
<1>3. BlockTyped
  BY DEF Init, BlockTyped
<1>4. Counts(accounts, spent)
  BY DEF Init, Counts
<1>5. QED
  BY <1>2, <1>3, <1>4 DEF IInv, Init

\* A call begins: nothing but its locals changes.
LEMMA StartInv ==
  ASSUME IInv, NEW txs \in Seq(Tx), NEW recipient \in Addr, NEW own,
         StartBlock(txs, recipient, own)
  PROVE  IInv'
<1>1. Typed'
  BY DEF IInv, Typed, StartBlock, chain
<1>2. BlockTyped'
  <2>1. /\ height' = height /\ height < MaxHeight
        /\ block' = [txs |-> txs, recipient |-> recipient, own |-> own,
                     reward |-> 0, root |-> {}]
    BY DEF StartBlock, chain
  <2>2. QED
    BY <2>1 DEF BlockTyped
<1>3. Counts(accounts, spent)' /\ Counts(shadow, spending)'
  BY DEF IInv, Counts, StartBlock, chain
<1>4. QED
  BY <1>1, <1>2, <1>3 DEF IInv

\* The check loop adds up an integer.
LEMMA CheckTxInv == IInv /\ CheckTx => IInv'
<1> SUFFICES ASSUME IInv, CheckTx
             PROVE  IInv'
  OBVIOUS
<1>1. Head(todo) \in Tx /\ Tail(todo) \in Seq(Tx)
  BY DEF IInv, Typed, CheckTx
<1>2. Head(todo).fee \in Int
  BY <1>1, Constants
<1>3. Typed'
  BY <1>1, <1>2 DEF IInv, Typed, CheckTx, chain
<1>4. BlockTyped'
  BY DEF IInv, BlockTyped, CheckTx, chain
<1>5. Counts(accounts, spent)' /\ Counts(shadow, spending)'
  BY DEF IInv, Counts, CheckTx, chain
<1>6. QED
  BY <1>3, <1>4, <1>5 DEF IInv

\* Only a block whose reward is not negative is written.
LEMMA PersistInv == IInv /\ Persist => IInv'
<1> SUFFICES ASSUME IInv, Persist
             PROVE  IInv'
  OBVIOUS
<1> DEFINE reward == ExpectedReward(height + 1, totalFees)
<1>1. reward \in Nat
  <2>1. height + 1 \in 1 .. MaxHeight /\ totalFees \in Int
    <3>1. height \in Nat /\ height < MaxHeight /\ totalFees \in Int
      BY DEF IInv, Typed, BlockTyped, Persist
    <3>2. QED
      BY <3>1, Constants
  <2>2. BlockReward(height + 1) \in Nat
    BY <2>1, RewardAssumption
  <2>3. ProducerShare(totalFees) \in Int
    BY <2>1, ShareIsNat
  <2>4. reward \in Int
    BY <2>1, <2>2, <2>3 DEF ExpectedReward
  <2>5. QED
    BY <2>4 DEF Persist
<1>2. Typed'
  BY DEF IInv, Typed, BlockTyped, Persist, chain
<1>3. BlockTyped'
  <2>1. block' = [txs |-> block.txs, recipient |-> block.recipient, own |-> block.own,
                  reward |-> reward, root |-> BalancesRoot(block.txs, block.recipient)]
    BY DEF IInv, BlockTyped, Persist
  <2>2. block.txs \in Seq(Tx) /\ block.recipient \in Addr /\ height' < MaxHeight
    BY DEF IInv, BlockTyped, Persist, chain
  <2> HIDE DEF reward
  <2>3. QED
    BY <1>1, <2>1, <2>2 DEF BlockTyped
<1>4. Counts(accounts, spent)' /\ Counts(shadow, spending)'
  BY DEF IInv, Counts, Persist, chain
<1>5. QED
  BY <1>2, <1>3, <1>4 DEF IInv

\* A transaction settles in the shadow accounts only.
LEMMA SettleTxInv == IInv /\ SettleTx => IInv'
<1> SUFFICES ASSUME IInv, SettleTx
             PROVE  IInv'
  OBVIOUS
<1> DEFINE tx == Head(todo)
<1>1. tx \in Tx /\ Tail(todo) \in Seq(Tx)
  BY DEF IInv, Typed, SettleTx
<1>2. tx.fee \in Int
  BY <1>1, Constants
<1>3. /\ tx.from # tx.to /\ tx.amount > 0 /\ tx.fee >= 0 /\ Fits(tx, shadow)
      /\ shadow' = Transferred(shadow, tx)
      /\ spending' = [spending EXCEPT ![tx.from] = Append(@, tx)]
  BY DEF SettleTx, Settles
<1>4. /\ shadow \in AccountsType /\ spending \in [Addr -> Seq(Tx)]
      /\ Counts(shadow, spending)
  BY DEF IInv, Typed
<1>5. /\ shadow' \in AccountsType /\ spending' \in [Addr -> Seq(Tx)]
      /\ Counts(shadow', spending')
  <2> HIDE DEF tx
  <2>1. QED
    BY <1>1, <1>3, <1>4, TransferredCounts
<1>6. Typed'
  BY <1>1, <1>2, <1>5 DEF IInv, Typed, SettleTx, chain
<1>7. BlockTyped'
  BY DEF IInv, BlockTyped, SettleTx, chain
<1>8. Counts(accounts, spent)'
  BY DEF IInv, Counts, SettleTx, chain
<1>9. QED
  BY <1>5, <1>6, <1>7, <1>8 DEF IInv, Counts

\* A refusal, in either loop, puts the shadow back.
LEMMA RefuseInv ==
  ASSUME IInv, UNCHANGED <<accounts, chain>>, EndCall
  PROVE  IInv'
<1>1. Typed'
  BY DEF IInv, Typed, EndCall, chain
<1>2. BlockTyped'
  BY DEF BlockTyped, EndCall
<1>3. Counts(accounts, spent)' /\ Counts(shadow, spending)'
  BY DEF IInv, Counts, EndCall, chain
<1>4. QED
  BY <1>1, <1>2, <1>3 DEF IInv

\* The shadow, with the reward and the treasury's share, becomes the state.
LEMMA CommitInv == IInv /\ CommitBlock => IInv'
<1> SUFFICES ASSUME IInv, CommitBlock
             PROVE  IInv'
  OBVIOUS
<1>1. Paid(block) \in AccountsType /\ Counts(Paid(block), spending)
  <2>1. /\ block.recipient \in Addr /\ block.reward \in Nat /\ totalFees \in Int
        /\ shadow \in AccountsType /\ spending \in [Addr -> Seq(Tx)]
        /\ Counts(shadow, spending)
    BY DEF IInv, Typed, BlockTyped, CommitBlock
  <2>2. QED
    BY <2>1, PaidCounts
<1>2. /\ accounts' = Paid(block) /\ shadow' = Paid(block)
      /\ spent' = spending /\ spending' = spending
  BY DEF CommitBlock, EndCall
<1>3. height' \in Nat /\ height' <= MaxHeight
  <2>1. height \in Nat /\ height < MaxHeight /\ height' = height + 1
    BY DEF IInv, Typed, BlockTyped, CommitBlock
  <2>2. QED
    BY <2>1, Constants
<1>4. Typed'
  BY <1>1, <1>2, <1>3 DEF IInv, Typed, CommitBlock, EndCall
<1>5. BlockTyped'
  BY DEF BlockTyped, CommitBlock, EndCall
<1>6. Counts(accounts, spent)' /\ Counts(shadow, spending)'
  BY <1>1, <1>2 DEF Counts
<1>7. QED
  BY <1>4, <1>5, <1>6 DEF IInv

\* The invariant of every reachable state.
THEOREM Invariance == Spec => []IInv
<1>1. Init => IInv
  BY InitInv
<1>2. IInv /\ [Next]_vars => IInv'
  <2> SUFFICES ASSUME IInv, [Next]_vars
               PROVE  IInv'
    OBVIOUS
  <2>1. ASSUME NEW tx \in Tx, AddTx(tx)
        PROVE  IInv'
    BY <2>1 DEF IInv, Typed, BlockTyped, Counts, AddTx, chain, call
  <2>2. ASSUME NEW txs \in BoundedSeq(Tx, MaxBlockTxs), Propose(txs)
        PROVE  IInv'
    <3>1. txs \in Seq(Tx) /\ Wallet \in Addr
      BY <2>2, BoundedIsSeq, Constants
    <3>2. StartBlock(txs, Wallet, TRUE)
      BY <2>2 DEF Propose
    <3>3. QED
      BY <3>1, <3>2, StartInv
  <2>3. ASSUME NEW txs \in BoundedSeq(Tx, MaxBlockTxs), NEW a \in Addr, Receive(txs, a)
        PROVE  IInv'
    <3>1. txs \in Seq(Tx)
      BY BoundedIsSeq, Constants
    <3>2. StartBlock(txs, a, FALSE)
      BY <2>3 DEF Receive
    <3>3. QED
      BY <3>1, <3>2, StartInv
  <2>4. CASE CheckTx
    BY <2>4, CheckTxInv
  <2>5. CASE Persist
    BY <2>5, PersistInv
  <2>6. CASE SettleTx
    BY <2>6, SettleTxInv
  <2>7. CASE RefuseTx
    BY <2>7, RefuseInv DEF RefuseTx
  <2>8. CASE RefuseBlock
    BY <2>8, RefuseInv DEF RefuseBlock
  <2>9. CASE CommitBlock
    BY <2>9, CommitInv
  <2>10. CASE UNCHANGED vars
    BY <2>10 DEF IInv, Typed, BlockTyped, Counts, vars, chain, pool, call
  <2>11. QED
    BY <2>1, <2>2, <2>3, <2>4, <2>5, <2>6, <2>7, <2>8, <2>9, <2>10 DEF Next
<1>3. QED
  BY <1>1, <1>2, PTL DEF Spec

-----------------------------------------------------------------------------

\* No balance is ever negative, for any transactions, rewards and fee split: blocks
\* are checked transaction by transaction against what they have spent so far.
THEOREM NoDebt == Spec => []NeverNegative
<1>1. IInv => NeverNegative
  BY DEF IInv, Counts, NeverNegative
<1>2. QED
  BY <1>1, Invariance, PTL

\* A sender's transactions are on the chain once each and in the order of their
\* nonces, whatever the proposers put in their blocks.
THEOREM NoReplay == Spec => []EachTxOnce
<1>1. IInv => EachTxOnce
  <2> SUFFICES ASSUME IInv, NEW a \in Addr
               PROVE  /\ accounts[a].nonce = Len(spent[a])
                      /\ \A i \in DOMAIN spent[a] :
                           spent[a][i].from = a /\ spent[a][i].nonce = i - 1
    BY DEF EachTxOnce
  <2>1. spent[a] \in Seq(Tx)
    BY DEF IInv, Typed
  <2>2. DOMAIN spent[a] = 1 .. Len(spent[a])
    BY <2>1
  <2>3. QED
    BY <2>2 DEF IInv, Counts
<1>2. QED
  BY <1>1, Invariance, PTL

-----------------------------------------------------------------------------
(* The pool, and the loops of a call: the invariants. *)

\* A sequence cut in two is whole again when the parts are put together.
LEMMA SplitSeq ==
  ASSUME NEW S, NEW s \in Seq(S), NEW k \in 0 .. Len(s)
  PROVE  /\ SubSeq(s, 1, k) \in Seq(S) /\ SubSeq(s, k + 1, Len(s)) \in Seq(S)
         /\ SubSeq(s, 1, k) \o SubSeq(s, k + 1, Len(s)) = s
<1>1. Len(s) \in Nat /\ k \in Nat /\ k <= Len(s)
  OBVIOUS
<1>2. /\ SubSeq(s, 1, k) \in Seq(S) /\ Len(SubSeq(s, 1, k)) = k
      /\ SubSeq(s, k + 1, Len(s)) \in Seq(S) /\ Len(SubSeq(s, k + 1, Len(s))) = Len(s) - k
  BY <1>1
<1> DEFINE a == SubSeq(s, 1, k)
           b == SubSeq(s, k + 1, Len(s))
<1>3. /\ \A i \in 1 .. k : a[i] = s[i]
      /\ \A i \in 1 .. Len(s) - k : b[i] = s[k + i]
  BY <1>1
<1> HIDE DEF a, b
<1>4. a \in Seq(S) /\ Len(a) = k /\ b \in Seq(S) /\ Len(b) = Len(s) - k
  BY <1>2 DEF a, b
<1>5. a \o b \in Seq(S) /\ Len(a \o b) = Len(s)
  BY <1>1, <1>4
<1>6. ASSUME NEW i \in 1 .. Len(s)
      PROVE  (a \o b)[i] = s[i]
  <2>1. CASE i <= k
    <3>1. (a \o b)[i] = a[i]
      BY <1>1, <1>4, <2>1
    <3>2. QED
      BY <1>1, <1>3, <2>1, <3>1
  <2>2. CASE i > k
    <3>1. (a \o b)[i] = b[i - k]
      BY <1>1, <1>4, <2>2
    <3>2. i - k \in 1 .. Len(s) - k /\ k + (i - k) = i
      BY <1>1, <2>2
    <3>3. QED
      BY <1>3, <3>1, <3>2
  <2>3. i <= k \/ i > k
    BY <1>1
  <2>4. QED
    BY <2>1, <2>2, <2>3
<1> DEFINE whole == a \o b
<1> HIDE DEF whole
<1>7. whole = s
  <2>1. whole \in Seq(S) /\ Len(whole) = Len(s) /\ \A i \in 1 .. Len(s) : whole[i] = s[i]
    BY <1>5, <1>6 DEF whole
  <2>2. QED
    BY <2>1
<1>8. QED
  BY <1>4, <1>7 DEF a, b, whole

\* A loop over txs that has rest before it: rest is the end of txs, and what it has
\* behind it the beginning.
Aligned(txs, rest) ==
  /\ Len(rest) <= Len(txs)
  /\ \A k \in 1 .. Len(rest) : rest[k] = txs[Len(txs) - Len(rest) + k]
Behind(txs, rest) == SubSeq(txs, 1, Len(txs) - Len(rest))

\* At its start a loop has everything before it.
LEMMA LoopStarts ==
  ASSUME NEW txs \in Seq(Tx)
  PROVE  Aligned(txs, txs) /\ Behind(txs, txs) = <<>>
<1>1. Len(txs) \in Nat /\ Len(txs) - Len(txs) = 0
  OBVIOUS
<1>2. Behind(txs, txs) = <<>>
  BY <1>1 DEF Behind
<1>3. QED
  BY <1>1, <1>2 DEF Aligned

\* A turn moves one transaction from before the loop to behind it.
LEMMA LoopTurns ==
  ASSUME NEW txs \in Seq(Tx), NEW rest \in Seq(Tx), rest # <<>>, Aligned(txs, rest)
  PROVE  /\ Aligned(txs, Tail(rest)) /\ Tail(rest) \in Seq(Tx) /\ Head(rest) \in Tx
         /\ Behind(txs, rest) \in Seq(Tx)
         /\ Behind(txs, Tail(rest)) = Append(Behind(txs, rest), Head(rest))
         /\ Head(rest) = txs[Len(txs) - Len(rest) + 1]
<1> DEFINE n == Len(txs)
           m == Len(rest)
           tail == Tail(rest)
<1>1. n \in Nat /\ m \in Nat /\ m >= 1 /\ m <= n
  BY DEF Aligned
<1>2. /\ tail \in Seq(Tx) /\ Len(tail) = m - 1 /\ Head(rest) = rest[1] /\ Head(rest) \in Tx
      /\ \A k \in 1 .. m - 1 : tail[k] = rest[k + 1]
  BY <1>1
<1>3. \A k \in 1 .. m : rest[k] = txs[n - m + k]
  BY DEF Aligned
<1>4. Head(rest) = txs[n - m + 1]
  BY <1>1, <1>2, <1>3
<1>5. Aligned(txs, tail)
  <2>1. ASSUME NEW k \in 1 .. m - 1
        PROVE  tail[k] = txs[n - (m - 1) + k]
    <3>1. k + 1 \in 1 .. m /\ n - m + (k + 1) = n - (m - 1) + k
      BY <1>1
    <3>2. QED
      BY <1>2, <1>3, <3>1
  <2> HIDE DEF tail
  <2>2. QED
    BY <1>1, <1>2, <2>1 DEF Aligned
<1> HIDE DEF tail
<1>6. Behind(txs, tail) = Append(Behind(txs, rest), Head(rest)) /\ Behind(txs, rest) \in Seq(Tx)
  <2> DEFINE k == n - m
  <2>1. k \in Nat /\ k + 1 <= n /\ n - (m - 1) = k + 1
    BY <1>1
  <2>2. Behind(txs, rest) = SubSeq(txs, 1, k) /\ Behind(txs, tail) = SubSeq(txs, 1, k + 1)
    BY <1>2, <2>1 DEF Behind
  <2>3. Head(rest) = txs[k + 1]
    BY <1>4
  <2> HIDE DEF k, n
  <2>4. SubSeq(txs, 1, k) \in Seq(Tx) /\ SubSeq(txs, 1, k + 1) = Append(SubSeq(txs, 1, k), txs[k + 1])
    BY <2>1 DEF n
  <2>5. QED
    BY <2>2, <2>3, <2>4
<1>7. QED
  BY <1>2, <1>4, <1>5, <1>6 DEF tail

\* At its end a loop has everything behind it.
LEMMA LoopEnds ==
  ASSUME NEW txs \in Seq(Tx)
  PROVE  Behind(txs, <<>>) = txs
<1>1. Len(<<>>) = 0 /\ Len(txs) - 0 = Len(txs) /\ SubSeq(txs, 1, Len(txs)) = txs
  OBVIOUS
<1>2. QED
  BY <1>1 DEF Behind

\* The transactions the node answers for: the pool, behind those it took for a block
\* of its own.
Queue == IF phase # "idle" /\ block.own THEN block.txs \o mempool ELSE mempool

\* PoolFits at any time, for the queue: nothing but a compaction against new accounts
\* follows a change of the accounts.
PoolInv ==
  /\ mempool \in Seq(Tx) /\ index = IndexOf(mempool)
  /\ Len(Queue) <= MaxMempoolTxs
  /\ Fitting(Queue, accounts)

\* The empty pool.
LEMMA PoolInit == Init => PoolInv
<1> SUFFICES ASSUME Init
             PROVE  PoolInv
  OBVIOUS
<1>1. mempool = <<>> /\ Queue = <<>> /\ index = IndexOf(mempool)
  BY DEF Init, Queue
<1>2. Len(<<>>) = 0 /\ <<>> \in Seq(Tx) /\ MaxMempoolTxs \in Nat
  BY LedgerAssumption
<1>3. QED
  BY <1>1, <1>2 DEF PoolInv, Fitting

\* A step that leaves the accounts, the pool and the queue as they are.
LEMMA PoolKept ==
  ASSUME PoolInv, UNCHANGED <<accounts, pool>>, Queue' = Queue
  PROVE  PoolInv'
<1>1. mempool' = mempool /\ index' = index /\ accounts' = accounts
  BY DEF pool
<1>2. QED
  BY <1>1 DEF PoolInv

\* addTxToMempoolLocked: the index refuses a second nonce of a sender, and with it a
\* second transaction, as both would have the nonce of the account.
LEMMA PoolAdd ==
  ASSUME IInv, PoolInv, NEW tx \in Tx, AddTx(tx)
  PROVE  PoolInv'
<1>1. /\ mempool' = Append(mempool, tx) /\ mempool \in Seq(Tx)
      /\ index' = [ids |-> index.ids \cup {tx}, keys |-> index.keys \cup {Key(tx)}]
      /\ index = IndexOf(mempool) /\ accounts' = accounts
      /\ Queue = mempool /\ Queue' = mempool'
      /\ Len(mempool) < MaxMempoolTxs /\ Key(tx) \notin index.keys
      /\ WellFormed(tx) /\ Fits(tx, accounts) /\ Fitting(mempool, accounts)
  BY DEF AddTx, Acceptable, Valid, PoolInv, Queue, call
<1>2. ToSet(mempool') = ToSet(mempool) \cup {tx}
  BY <1>1, AppendedSet
<1>3. index' = IndexOf(mempool')
  <2>1. index.ids = ToSet(mempool) /\ index.keys = {Key(t) : t \in ToSet(mempool)}
    BY <1>1 DEF IndexOf
  <2>2. {Key(t) : t \in ToSet(mempool')} = index.keys \cup {Key(tx)}
    BY <1>2, <2>1
  <2>3. QED
    BY <1>1, <1>2, <2>1, <2>2 DEF IndexOf
<1>4. \A t \in ToSet(mempool) : Key(t) # Key(tx)
  BY <1>1 DEF IndexOf
<1>5. Fitting(mempool', accounts)
  BY <1>1, <1>4, FittingAppend
<1>6. mempool' \in Seq(Tx) /\ Len(mempool') = Len(mempool) + 1 /\ MaxMempoolTxs \in Nat
  BY <1>1, LedgerAssumption
<1>7. Len(mempool') <= MaxMempoolTxs
  BY <1>1, <1>6
<1>8. QED
  BY <1>1, <1>3, <1>5, <1>6, <1>7 DEF PoolInv

\* The proposer's transactions and what stays are the compacted pool.
LEMMA PoolPropose ==
  ASSUME IInv, PoolInv, NEW txs \in Seq(Tx), Propose(txs)
  PROVE  PoolInv' /\ Queue' = Compact(accounts)
<1> DEFINE ready == Compact(accounts)
           take == IF Len(ready) > MaxBlockTxs THEN MaxBlockTxs ELSE Len(ready)
<1>1. /\ StartBlock(txs, Wallet, TRUE)
      /\ txs = SubSeq(ready, 1, take)
      /\ mempool' = SubSeq(ready, take + 1, Len(ready)) /\ index' = IndexOf(mempool')
  BY DEF Propose, SetPool
<1>2. /\ accounts' = accounts /\ phase = "idle"
      /\ phase' = "check" /\ block'.own /\ block'.txs = txs
  BY <1>1 DEF StartBlock
<1>3. /\ accounts \in AccountsType /\ mempool \in Seq(Tx)
      /\ Len(mempool) <= MaxMempoolTxs
  BY <1>2 DEF IInv, Typed, PoolInv, Queue
<1>4. /\ ready \in Seq(Tx) /\ Len(ready) <= Len(mempool) /\ Fitting(ready, accounts)
  BY <1>3, CompactFits
<1> HIDE DEF ready
<1>5. take \in 0 .. Len(ready)
  BY <1>4, Constants
<1> HIDE DEF take
<1>6. /\ mempool' \in Seq(Tx) /\ txs \o mempool' = ready
  BY <1>1, <1>4, <1>5, SplitSeq
<1>7. Queue' = ready
  BY <1>2, <1>6 DEF Queue
<1>8. Len(ready) <= MaxMempoolTxs
  BY <1>3, <1>4, LedgerAssumption
<1>9. QED
  BY <1>1, <1>2, <1>4, <1>6, <1>7, <1>8 DEF PoolInv, ready

\* A refused proposal is put back: the pool is the queue.
LEMMA PoolRestored ==
  ASSUME IInv, PoolInv, phase # "idle", UNCHANGED accounts, RestoreTaken, EndCall
  PROVE  PoolInv' /\ mempool' = Queue
<1>1. /\ phase' = "idle" /\ accounts' = accounts
      /\ mempool' = Queue
      /\ index' = IndexOf(mempool')
  BY DEF EndCall, RestoreTaken, SetPool, Queue, PoolInv, pool
<1>2. Queue \in Seq(Tx)
  BY DEF IInv, BlockTyped, PoolInv, Queue
<1>3. Queue' = mempool'
  BY <1>1 DEF Queue
<1>4. QED
  BY <1>1, <1>2, <1>3 DEF PoolInv

\* A new block's accounts: the pool is compacted against them.
LEMMA PoolCommit ==
  ASSUME IInv, PoolInv, CommitBlock, accounts' \in AccountsType
  PROVE  PoolInv'
<1>1. /\ mempool' = Compact(accounts') /\ index' = IndexOf(mempool') /\ phase' = "idle"
  BY DEF CommitBlock, SetPool, EndCall
<1>2. mempool \in Seq(Tx)
  BY DEF PoolInv
<1>3. /\ Compact(accounts') \in Seq(Tx) /\ Len(Compact(accounts')) <= Len(mempool)
      /\ Fitting(Compact(accounts'), accounts')
  BY <1>2, CompactFits
<1>4. Len(mempool) <= Len(Queue) /\ Len(Queue) \in Nat
  <2>1. CASE block.own
    <3>1. Queue = block.txs \o mempool /\ block.txs \in Seq(Tx)
      BY <2>1 DEF Queue, CommitBlock, IInv, BlockTyped
    <3>2. Len(Queue) = Len(block.txs) + Len(mempool)
      BY <1>2, <3>1
    <3>3. QED
      BY <1>2, <3>1, <3>2
  <2>2. CASE ~block.own
    BY <1>2, <2>2 DEF Queue
  <2>3. QED
    BY <2>1, <2>2
<1>5. Len(Queue) <= MaxMempoolTxs /\ MaxMempoolTxs \in Nat
  BY LedgerAssumption DEF PoolInv
<1>6. Queue' = mempool'
  BY <1>1 DEF Queue
<1>7. Len(mempool') <= MaxMempoolTxs
  BY <1>1, <1>3, <1>4, <1>5, <1>2
<1>8. QED
  BY <1>1, <1>3, <1>6, <1>7 DEF PoolInv

\* What the two loops of applyBlockLocked know of the block behind them.
AllMove(txs) == \A t \in ToSet(txs) : Moves(t)
Passed == Behind(block.txs, todo)

\* The second loop follows calcStateHashWithBlock, which the first loop's fees, the
\* root and the reward are from; what it has settled is in the history, and what the
\* node itself proposed still fits.
Settling ==
  /\ AllMove(Passed) /\ \A t \in ToSet(Passed) : t \in ToSet(spending[t.from])
  /\ shadow = Through(Passed).accts
  /\ block.root = BalancesRoot(block.txs, block.recipient)
  /\ AllMove(block.txs) =>
       block.reward = ExpectedReward(height + 1, Through(block.txs).fees)
  /\ block.own => \A k \in 1 .. Len(todo) : Fits(todo[k], shadow)

LoopInv ==
  /\ phase # "settle" => shadow = accounts /\ spending = spent
  /\ phase # "idle" => Aligned(block.txs, todo)
  /\ phase = "check" /\ AllMove(Passed) => totalFees = Through(Passed).fees
  /\ phase = "settle" => Settling

\* The loop does the same as long as the accounts do not change.
LEMMA ThroughKept ==
  ASSUME accounts' = accounts
  PROVE  \A txs : Through(txs)' = Through(txs)
<1>1. [accts |-> accounts', fees |-> 0] = [accts |-> accounts, fees |-> 0]
  OBVIOUS
<1>2. QED
  BY <1>1, Zenon DEF Through

\* The root is a function of the accounts and the height.
LEMMA RootKept ==
  ASSUME accounts' = accounts, height' = height
  PROVE  \A txs, who : BalancesRoot(txs, who)' = BalancesRoot(txs, who)
<1>1. \A txs : Through(txs)' = Through(txs)
  BY ThroughKept
<1>2. QED
  BY <1>1 DEF BalancesRoot

\* The first transactions of some that fit fit.
LEMMA FrontFits ==
  ASSUME NEW accts, NEW a \in Seq(Tx), NEW b \in Seq(Tx), Fitting(a \o b, accts)
  PROVE  Fitting(a, accts)
<1>1. \A i \in 1 .. Len(a) : i \in 1 .. Len(a \o b) /\ (a \o b)[i] = a[i]
  OBVIOUS
<1>2. QED
  BY <1>1 DEF Fitting

\* No call is under way at first.
LEMMA LoopInit == Init => LoopInv
  BY DEF Init, LoopInv

\* A call begins: the first loop has summed nothing.
LEMMA LoopStart ==
  ASSUME IInv, LoopInv, NEW txs \in Seq(Tx), NEW who, NEW own, StartBlock(txs, who, own)
  PROVE  LoopInv'
<1>1. /\ phase' = "check" /\ block'.txs = txs /\ todo' = txs /\ totalFees' = 0
      /\ accounts' = accounts /\ shadow' = shadow /\ spending' = spending /\ spent' = spent
      /\ phase = "idle"
  BY DEF StartBlock, chain
<1>2. Aligned(block'.txs, todo') /\ Behind(block'.txs, todo') = <<>>
  BY <1>1, LoopStarts
<1>3. Through(<<>>)' = [accts |-> accounts, fees |-> 0]
  <2>1. accounts \in AccountsType
    BY DEF IInv, Typed
  <2>2. QED
    BY <1>1, <2>1, ThroughNone, ThroughKept
<1>4. Through(Passed)' = Through(<<>>)'
  <2>1. Passed' = <<>>
    BY <1>2 DEF Passed
  <2>2. QED
    BY <2>1 DEF Through
<1>5. shadow' = accounts' /\ spending' = spent'
  BY <1>1 DEF LoopInv
<1>6. QED
  BY <1>1, <1>2, <1>3, <1>4, <1>5 DEF LoopInv, Passed

\* The first loop sums what calcStateHashWithBlock sums, if every transaction moves.
LEMMA LoopCheckTx ==
  ASSUME IInv, LoopInv, CheckTx
  PROVE  LoopInv'
<1> DEFINE tx == Head(todo)
<1>1. /\ phase = "check" /\ phase' = "check" /\ todo # <<>> /\ todo' = Tail(todo)
      /\ totalFees' = totalFees + tx.fee /\ block' = block
      /\ accounts' = accounts /\ shadow' = shadow /\ spending' = spending /\ spent' = spent
  BY DEF CheckTx, chain
<1>2. /\ block.txs \in Seq(Tx) /\ todo \in Seq(Tx) /\ accounts \in AccountsType
      /\ Aligned(block.txs, todo)
  BY <1>1 DEF IInv, Typed, BlockTyped, LoopInv
<1>3. /\ Aligned(block.txs, todo') /\ tx \in Tx /\ Passed \in Seq(Tx)
      /\ Behind(block.txs, todo') = Append(Passed, tx)
  BY <1>1, <1>2, LoopTurns DEF Passed
<1>4. Passed' = Append(Passed, tx)
  BY <1>1, <1>3 DEF Passed
<1>5. ASSUME AllMove(Passed')
      PROVE  totalFees' = Through(Passed').fees
  <2>1. AllMove(Passed) /\ Moves(tx)
    <3>1. ToSet(Passed') = ToSet(Passed) \cup {tx}
      BY <1>3, <1>4, AppendedSet
    <3>2. QED
      BY <1>5, <3>1 DEF AllMove
  <2>2. totalFees = Through(Passed).fees
    BY <1>1, <2>1 DEF LoopInv
  <2>3. Through(Passed') = Moved(Through(Passed), tx)
    BY <1>2, <1>3, <1>4, ThroughAppend
  <2>4. QED
    BY <1>1, <2>1, <2>2, <2>3 DEF Moved
<1>6. Through(Passed)' = Through(Passed')
  <2>2. Through(Passed)' = FoldLeft(Moved, [accts |-> accounts, fees |-> 0], Passed')
    BY <1>1, Zenon DEF Through
  <2>3. QED
    BY <2>2, Zenon DEF Through
<1>7. AllMove(Passed)' = AllMove(Passed')
  BY DEF AllMove
<1>8. shadow' = accounts' /\ spending' = spent'
  BY <1>1 DEF LoopInv
<1>9. QED
  BY <1>1, <1>3, <1>5, <1>6, <1>7, <1>8 DEF LoopInv

\* The second loop begins where the root was computed: nothing has moved yet.
LEMMA LoopPersist ==
  ASSUME IInv, PoolInv, LoopInv, Persist
  PROVE  LoopInv'
<1> DEFINE txs == block.txs
           reward == ExpectedReward(height + 1, totalFees)
<1>1. /\ phase = "check" /\ todo = <<>> /\ phase' = "settle" /\ todo' = txs
      /\ accounts' = accounts /\ shadow' = shadow /\ spending' = spending /\ spent' = spent
      /\ height' = height
      /\ block' = [block EXCEPT !.reward = reward,
                                !.root = BalancesRoot(txs, block.recipient)]
  BY DEF Persist, chain
<1>2. /\ txs \in Seq(Tx) /\ accounts \in AccountsType
      /\ block = [txs |-> txs, recipient |-> block.recipient, own |-> block.own,
                  reward |-> block.reward, root |-> block.root]
  BY <1>1 DEF IInv, Typed, BlockTyped
<1>3. /\ block'.txs = txs /\ block'.recipient = block.recipient /\ block'.own = block.own
      /\ block'.reward = reward /\ block'.root = BalancesRoot(txs, block.recipient)
  <2> HIDE DEF txs, reward
  <2>1. QED
    BY <1>1, <1>2
<1>4. shadow = accounts
  BY <1>1 DEF LoopInv
<1>5. Passed = txs
  BY <1>1, <1>2, LoopEnds DEF Passed
<1>6. Aligned(txs, txs) /\ Passed' = <<>>
  BY <1>1, <1>2, <1>3, LoopStarts DEF Passed
<1>7. \A s : Through(s)' = Through(s)
  BY <1>1, ThroughKept
<1>8. \A s, who : BalancesRoot(s, who)' = BalancesRoot(s, who)
  BY <1>1, RootKept
<1>9. AllMove(txs) => reward = ExpectedReward(height + 1, Through(txs).fees)
  BY <1>1, <1>5 DEF LoopInv
<1>10. block.own => \A k \in 1 .. Len(txs) : Fits(txs[k], accounts)
  <2>1. block.own => Fitting(txs \o mempool, accounts) /\ mempool \in Seq(Tx)
    BY <1>1 DEF PoolInv, Queue
  <2>2. block.own => Fitting(txs, accounts)
    BY <1>2, <2>1, FrontFits
  <2>3. QED
    BY <2>2 DEF Fitting
<1>11. Settling'
  <2>1. ToSet(<<>>) = {}
    BY DEF ToSet
  <2>2. AllMove(Passed)' /\ \A t \in ToSet(Passed') : t \in ToSet(spending'[t.from])
    BY <1>6, <2>1 DEF AllMove
  <2>3. shadow' = Through(Passed').accts
    <3>1. Through(Passed') = [accts |-> accounts, fees |-> 0]
      BY <1>2, <1>6, ThroughNone
    <3>2. QED
      BY <1>1, <1>4, <3>1
  <2>4. Through(Passed)' = Through(Passed')
    BY <1>1, Zenon DEF Through
  <2>5. block'.root = BalancesRoot(block.txs, block.recipient)'
    <3>1. BalancesRoot(block.txs, block.recipient)' = BalancesRoot(block'.txs, block'.recipient)
      BY <1>1 DEF BalancesRoot, Through
    <3>2. QED
      BY <1>3, <3>1
  <2>6. AllMove(block'.txs) =>
          block'.reward = ExpectedReward(height + 1, Through(block'.txs).fees)
    BY <1>3, <1>9
  <2>7. Through(block.txs)' = Through(block'.txs)
    BY <1>1, Zenon DEF Through
  <2>8. block'.own => \A k \in 1 .. Len(todo') : Fits(todo'[k], shadow')
    BY <1>1, <1>3, <1>4, <1>10
  <2>9. AllMove(block.txs)' = AllMove(block'.txs)
    BY DEF AllMove
  <2>10. QED
    BY <1>1, <2>2, <2>3, <2>4, <2>5, <2>6, <2>7, <2>8, <2>9 DEF Settling
<1>12. Aligned(block'.txs, todo')
  BY <1>1, <1>3, <1>6
<1>13. QED
  BY <1>1, <1>11, <1>12 DEF LoopInv

\* One more transaction settles as it did in calcStateHashWithBlock, and the senders
\* of the node's own other ones keep their nonces and their coins.
LEMMA LoopSettleTx ==
  ASSUME IInv, PoolInv, LoopInv, SettleTx
  PROVE  LoopInv'
<1> DEFINE tx == Head(todo)
           txs == block.txs
<1>1. /\ phase = "settle" /\ phase' = "settle" /\ todo # <<>> /\ todo' = Tail(todo)
      /\ tx.from # tx.to /\ tx.amount > 0
      /\ shadow' = Transferred(shadow, tx) /\ block' = block
      /\ spending' = [spending EXCEPT ![tx.from] = Append(@, tx)]
      /\ accounts' = accounts /\ spent' = spent /\ height' = height
  BY DEF SettleTx, chain
<1>2. /\ txs \in Seq(Tx) /\ todo \in Seq(Tx) /\ accounts \in AccountsType
      /\ shadow \in AccountsType /\ spending \in [Addr -> Seq(Tx)]
      /\ Aligned(txs, todo) /\ Settling
  BY <1>1 DEF IInv, Typed, BlockTyped, LoopInv
<1>3. /\ Aligned(txs, todo') /\ tx \in Tx /\ Passed \in Seq(Tx)
      /\ Behind(txs, todo') = Append(Passed, tx) /\ todo' \in Seq(Tx)
  BY <1>1, <1>2, LoopTurns DEF Passed
<1>4. Passed' = Append(Passed, tx)
  BY <1>1, <1>3 DEF Passed
<1>5. ToSet(Passed') = ToSet(Passed) \cup {tx}
  BY <1>3, <1>4, AppendedSet
<1>6. tx.from \in Addr /\ Moves(tx)
  BY <1>1, <1>3, Constants DEF Moves
<1> HIDE DEF tx
<1>7. AllMove(Passed)'
  BY <1>2, <1>5, <1>6 DEF AllMove, Settling
<1>8. ASSUME NEW t \in ToSet(Passed')
      PROVE  t \in ToSet(spending'[t.from])
  <2>1. ToSet(spending'[tx.from]) = ToSet(spending[tx.from]) \cup {tx}
    <3>1. spending[tx.from] \in Seq(Tx) /\ spending'[tx.from] = Append(spending[tx.from], tx)
      BY <1>1, <1>2, <1>6
    <3>2. QED
      BY <1>3, <3>1, AppendedSet
  <2>2. CASE t = tx
    BY <2>1, <2>2
  <2>3. CASE t # tx
    <3>1. t \in ToSet(spending[t.from])
      BY <1>2, <1>5, <2>3 DEF Settling
    <3>2. CASE t.from = tx.from
      BY <2>1, <3>1, <3>2
    <3>3. CASE t.from # tx.from
      <4>1. spending'[t.from] = spending[t.from]
        BY <1>1, <1>2, <3>3
      <4>2. QED
        BY <3>1, <4>1
    <3>4. QED
      BY <3>2, <3>3
  <2>4. QED
    BY <2>2, <2>3
<1>9. shadow' = Through(Passed').accts
  <2>1. Through(Passed') = Moved(Through(Passed), tx)
    BY <1>2, <1>3, <1>4, ThroughAppend
  <2>2. shadow = Through(Passed).accts
    BY <1>2 DEF Settling
  <2>3. QED
    BY <1>1, <1>6, <2>1, <2>2 DEF Moved
<1>10. /\ Through(Passed)' = Through(Passed')
       /\ Through(block.txs)' = Through(block.txs)
       /\ BalancesRoot(block.txs, block.recipient)' = BalancesRoot(block.txs, block.recipient)
  <2>1. Through(Passed)' = Through(Passed')
    BY <1>1, Zenon DEF Through
  <2>2. Through(block.txs)' = Through(block.txs)
    BY <1>1, Zenon DEF Through
  <2>3. BalancesRoot(block.txs, block.recipient)' = BalancesRoot(block.txs, block.recipient)
    BY <1>1 DEF BalancesRoot, Through
  <2>4. QED
    BY <2>1, <2>2, <2>3
<1>11. ASSUME block.own, NEW k \in 1 .. Len(todo')
       PROVE  Fits(todo'[k], shadow')
  <2> DEFINE n == Len(txs)
             i == n - Len(todo) + 1
             j == n - Len(todo') + k
  <2>1. /\ Len(todo') = Len(todo) - 1 /\ Len(todo) \in Nat /\ n \in Nat
        /\ todo'[k] = todo[k + 1] /\ k + 1 \in 1 .. Len(todo)
    BY <1>1, <1>2
  <2>2. i \in 1 .. n /\ j \in 1 .. n /\ i # j
    BY <1>2, <2>1 DEF Aligned
  <2>3. tx = txs[i] /\ todo'[k] = txs[j]
    <3>1. tx = txs[i]
      BY <1>1, <1>2, LoopTurns DEF tx
    <3>2. todo'[k] = txs[j]
      BY <1>3 DEF Aligned
    <3>3. QED
      BY <3>1, <3>2
  <2>4. Fitting(txs, accounts)
    <3>1. Fitting(txs \o mempool, accounts) /\ mempool \in Seq(Tx)
      BY <1>1, <1>11 DEF PoolInv, Queue
    <3>2. QED
      BY <1>2, <3>1, FrontFits
  <2> DEFINE other == txs[j]
  <2>5. other.from # tx.from
    BY <2>2, <2>3, <2>4 DEF Fitting
  <2>6. other \in Tx /\ other.from \in Addr /\ Fits(other, shadow)
    <3>1. Fits(todo[k + 1], shadow)
      BY <1>2, <1>11, <2>1 DEF Settling
    <3>2. todo[k + 1] = other /\ other \in Tx
      BY <1>2, <2>1, <2>2, <2>3
    <3>3. QED
      BY <3>1, <3>2, Constants
  <2> HIDE DEF other
  <2>7. /\ shadow'[other.from].nonce = shadow[other.from].nonce
        /\ shadow'[other.from].balance =
             IF other.from = tx.to THEN shadow[other.from].balance + tx.amount
             ELSE shadow[other.from].balance
    BY <1>1, <1>2, <1>3, <2>5, <2>6, TransferredTyped
  <2>8. /\ shadow[other.from].balance \in Int /\ tx.amount \in Int
        /\ other.amount \in Int /\ other.fee \in Int
    BY <1>2, <1>3, <2>6, AccountOf, Constants
  <2>9. Fits(other, shadow')
    BY <1>1, <2>6, <2>7, <2>8 DEF Fits
  <2>10. QED
    BY <2>3, <2>9 DEF other
<1>12. Settling'
  <2>1. AllMove(block.txs) =>
          block.reward = ExpectedReward(height + 1, Through(block.txs).fees)
    BY <1>2 DEF Settling
  <2>2. block.root = BalancesRoot(block.txs, block.recipient)
    BY <1>2 DEF Settling
  <2>3. QED
    BY <1>1, <1>7, <1>8, <1>9, <1>10, <1>11, <2>1, <2>2 DEF Settling, AllMove, ExpectedReward
<1>13. QED
  BY <1>1, <1>3, <1>12 DEF LoopInv

\* A call that ends leaves the shadow accounts equal to the state.
LEMMA LoopEnd ==
  ASSUME EndCall
  PROVE  LoopInv'
  BY DEF EndCall, LoopInv

\* A step inside a call that leaves the pool and the block's transactions as they are.
LEMMA QueueKept ==
  ASSUME phase' # "idle" <=> phase # "idle",
         UNCHANGED pool, block'.txs = block.txs, block'.own = block.own
  PROVE  Queue' = Queue
<1>1. mempool' = mempool
  BY DEF pool
<1>2. QED
  BY <1>1 DEF Queue

\* Persisting a block leaves its transactions as they are.
LEMMA PersistKeeps ==
  ASSUME IInv, Persist
  PROVE  Queue' = Queue
<1>1. /\ phase = "check" /\ phase' = "settle" /\ pool' = pool
      /\ block' = [block EXCEPT !.reward = ExpectedReward(height + 1, totalFees),
                                !.root = BalancesRoot(block.txs, block.recipient)]
      /\ block = [txs |-> block.txs, recipient |-> block.recipient, own |-> block.own,
                  reward |-> block.reward, root |-> block.root]
  BY DEF Persist, IInv, BlockTyped
<1>2. block'.txs = block.txs /\ block'.own = block.own
  BY <1>1
<1>3. QED
  BY <1>1, <1>2, QueueKept

\* The queue always fits the accounts, within the limit of the pool.
THEOREM PoolInvariance == Spec => []PoolInv
<1>1. Init => PoolInv
  BY PoolInit
<1>2. IInv /\ IInv' /\ PoolInv /\ [Next]_vars => PoolInv'
  <2> SUFFICES ASSUME IInv, IInv', PoolInv, [Next]_vars
               PROVE  PoolInv'
    OBVIOUS
  <2>1. ASSUME NEW tx \in Tx, AddTx(tx)
        PROVE  PoolInv'
    BY <2>1, PoolAdd
  <2>2. ASSUME NEW txs \in BoundedSeq(Tx, MaxBlockTxs), Propose(txs)
        PROVE  PoolInv'
    BY <2>2, BoundedIsSeq, Constants, PoolPropose
  <2>3. ASSUME NEW txs \in BoundedSeq(Tx, MaxBlockTxs), NEW a \in Addr, Receive(txs, a)
        PROVE  PoolInv'
    <3>1. /\ phase = "idle" /\ ~block'.own /\ accounts' = accounts /\ pool' = pool
      BY <2>3 DEF Receive, StartBlock, pool
    <3>2. Queue' = Queue
      BY <3>1 DEF Queue, pool
    <3>3. QED
      BY <3>1, <3>2, PoolKept
  <2>4. CASE CheckTx
    <3>1. Queue' = Queue /\ accounts' = accounts /\ pool' = pool
      BY <2>4, QueueKept DEF CheckTx
    <3>2. QED
      BY <3>1, PoolKept
  <2>5. CASE Persist
    <3>1. accounts' = accounts /\ pool' = pool
      BY <2>5 DEF Persist
    <3>2. QED
      BY <2>5, <3>1, PersistKeeps, PoolKept
  <2>6. CASE SettleTx
    <3>1. Queue' = Queue /\ accounts' = accounts /\ pool' = pool
      BY <2>6, QueueKept DEF SettleTx
    <3>2. QED
      BY <3>1, PoolKept
  <2>7. CASE RefuseTx
    BY <2>7, PoolRestored DEF RefuseTx
  <2>8. CASE RefuseBlock
    BY <2>8, PoolRestored DEF RefuseBlock
  <2>9. CASE CommitBlock
    BY <2>9, PoolCommit DEF IInv, Typed, AccountsType
  <2>10. CASE UNCHANGED vars
    BY <2>10, PoolKept DEF vars, call, Queue, pool
  <2>11. QED
    BY <2>1, <2>2, <2>3, <2>4, <2>5, <2>6, <2>7, <2>8, <2>9, <2>10 DEF Next
<1>3. QED
  BY <1>1, <1>2, Invariance, PTL DEF Spec

\* The loops of a call stay in step with calcStateHashWithBlock.
THEOREM LoopInvariance == Spec => []LoopInv
<1>1. Init => LoopInv
  BY LoopInit
<1>2. IInv /\ PoolInv /\ LoopInv /\ [Next]_vars => LoopInv'
  <2> SUFFICES ASSUME IInv, PoolInv, LoopInv, [Next]_vars
               PROVE  LoopInv'
    OBVIOUS
  <2>1. ASSUME NEW tx \in Tx, AddTx(tx)
        PROVE  LoopInv'
    BY <2>1 DEF LoopInv, AddTx, chain, call
  <2>2. ASSUME NEW txs \in BoundedSeq(Tx, MaxBlockTxs), Propose(txs)
        PROVE  LoopInv'
    <3>1. txs \in Seq(Tx)
      BY BoundedIsSeq, Constants
    <3>2. StartBlock(txs, Wallet, TRUE)
      BY <2>2 DEF Propose
    <3>3. QED
      BY <3>1, <3>2, LoopStart
  <2>3. ASSUME NEW txs \in BoundedSeq(Tx, MaxBlockTxs), NEW a \in Addr, Receive(txs, a)
        PROVE  LoopInv'
    <3>1. txs \in Seq(Tx)
      BY BoundedIsSeq, Constants
    <3>2. StartBlock(txs, a, FALSE)
      BY <2>3 DEF Receive
    <3>3. QED
      BY <3>1, <3>2, LoopStart
  <2>4. CASE CheckTx
    BY <2>4, LoopCheckTx
  <2>5. CASE Persist
    BY <2>5, LoopPersist
  <2>6. CASE SettleTx
    BY <2>6, LoopSettleTx
  <2>7. CASE RefuseTx \/ RefuseBlock \/ CommitBlock
    BY <2>7, LoopEnd DEF RefuseTx, RefuseBlock, CommitBlock
  <2>8. CASE UNCHANGED vars
    <3>1. /\ UNCHANGED <<accounts, height, shadow, spending, spent, phase, block, todo>>
          /\ totalFees' = totalFees
      BY <2>8 DEF vars, chain, call
    <3>2. Passed' = Passed
      BY <3>1 DEF Passed
    <3>3. /\ Through(Passed)' = Through(Passed) /\ Through(block.txs)' = Through(block.txs)
      BY <3>1, <3>2 DEF Through
    <3>4. BalancesRoot(block.txs, block.recipient)' = BalancesRoot(block.txs, block.recipient)
      BY <3>1 DEF BalancesRoot, Through
    <3>5. Settling => Settling'
      BY <3>1, <3>2, <3>3, <3>4 DEF Settling, AllMove, ExpectedReward
    <3>6. QED
      BY <3>1, <3>2, <3>3, <3>5 DEF LoopInv, AllMove
  <2>9. QED
    BY <2>1, <2>2, <2>3, <2>4, <2>5, <2>6, <2>7, <2>8 DEF Next
<1>3. QED
  BY <1>1, <1>2, Invariance, PoolInvariance, PTL DEF Spec

-----------------------------------------------------------------------------
(* The supply, the root, and what leaves the pool. *)

\* The coins of the accounts are the rewards paid, as long as no block is at the
\* height from which the fees are split.
SupplyInv ==
  /\ minted \in Nat
  /\ height < FeeSplitForkHeight => Total(accounts) = minted

\* A payment of nothing.
LEMMA PayNothing ==
  ASSUME NEW accts \in AccountsType, NEW who \in Addr
  PROVE  [accts EXCEPT ![who].balance = @ + 0] = accts
<1>1. accts[who] \in [balance : Int, nonce : Nat]
  BY DEF AccountsType
<1>2. [accts[who] EXCEPT !.balance = @ + 0] = accts[who]
  BY <1>1
<1>3. QED
  BY <1>2 DEF AccountsType

\* The pool is not longer than the queue.
LEMMA QueueLonger ==
  ASSUME IInv, PoolInv
  PROVE  Len(mempool) <= Len(Queue) /\ Len(Queue) \in Nat
<1>1. mempool \in Seq(Tx)
  BY DEF PoolInv
<1>2. CASE phase # "idle" /\ block.own
  <2>1. Queue = block.txs \o mempool /\ block.txs \in Seq(Tx)
    BY <1>2 DEF Queue, IInv, BlockTyped
  <2>2. Len(Queue) = Len(block.txs) + Len(mempool)
    BY <1>1, <2>1
  <2>3. QED
    BY <1>1, <2>1, <2>2
<1>3. CASE ~(phase # "idle" /\ block.own)
  BY <1>1, <1>3 DEF Queue
<1>4. QED
  BY <1>2, <1>3

\* Below that height the block's reward is all that is paid.
LEMMA PaidBelowFork ==
  ASSUME shadow \in AccountsType, NEW b, b.recipient \in Addr, b.reward \in Nat,
         ~FeeSplitActive(height + 1)
  PROVE  Paid(b) = [shadow EXCEPT ![b.recipient].balance = @ + b.reward]
<1> DEFINE rewarded == [shadow EXCEPT ![b.recipient].balance = @ + b.reward]
<1>1. rewarded \in AccountsType
  BY TotalPaid
<1>2. Paid(b) = [rewarded EXCEPT ![TreasuryAddr].balance = @ + 0]
  BY DEF Paid
<1> HIDE DEF rewarded
<1>3. [rewarded EXCEPT ![TreasuryAddr].balance = @ + 0] = rewarded
  BY <1>1, Constants, PayNothing
<1>4. QED
  BY <1>2, <1>3 DEF rewarded

\* When the second loop is through, every transaction of the block has moved, and the
\* shadow accounts are those that calcStateHashWithBlock computed.
LEMMA LoopThrough ==
  ASSUME IInv, LoopInv, CommitBlock
  PROVE  /\ shadow = Through(block.txs).accts /\ Through(block.txs) \in TotalsType
         /\ block.reward = ExpectedReward(height + 1, Through(block.txs).fees)
         /\ block.root = BalancesRoot(block.txs, block.recipient)
         /\ \A t \in ToSet(block.txs) : t \in ToSet(spending[t.from])
<1>1. /\ phase = "settle" /\ todo = <<>> /\ block.txs \in Seq(Tx) /\ accounts \in AccountsType
      /\ Settling
  BY DEF CommitBlock, IInv, Typed, BlockTyped, LoopInv
<1>2. Passed = block.txs
  BY <1>1, LoopEnds DEF Passed
<1>3. Through(block.txs) \in TotalsType
  BY <1>1, ThroughTotal
<1>4. QED
  BY <1>1, <1>2, <1>3 DEF Settling

\* A block below the fee split adds its reward to the supply: the fees it pays out are
\* those its transfers took.
LEMMA SupplyCommit ==
  ASSUME IInv, LoopInv, SupplyInv, CommitBlock
  PROVE  SupplyInv'
<1>1. /\ height \in Nat /\ height < MaxHeight /\ height' = height + 1
      /\ shadow \in AccountsType /\ accounts \in AccountsType
      /\ block.recipient \in Addr /\ block.reward \in Nat /\ block.txs \in Seq(Tx)
      /\ accounts' = Paid(block) /\ minted' = minted + BlockReward(height + 1)
      /\ minted \in Nat
  BY DEF CommitBlock, IInv, Typed, BlockTyped, SupplyInv
<1>2. BlockReward(height + 1) \in Nat
  <2>1. height + 1 \in 1 .. MaxHeight
    BY <1>1, Constants
  <2>2. QED
    BY <2>1, RewardAssumption
<1>3. ASSUME height + 1 < FeeSplitForkHeight
      PROVE  Total(accounts') = minted + BlockReward(height + 1)
  <2> DEFINE fees == Through(block.txs).fees
  <2>1. ~FeeSplitActive(height + 1) /\ height < FeeSplitForkHeight
    BY <1>1, <1>3, LedgerAssumption DEF FeeSplitActive
  <2>2. accounts' = [shadow EXCEPT ![block.recipient].balance = @ + block.reward]
    BY <1>1, <2>1, PaidBelowFork
  <2>3. Total(accounts') = Total(shadow) + block.reward
    <3> DEFINE r == block.reward
    <3>1. r \in Int /\ block.recipient \in Addr /\ shadow \in AccountsType
      BY <1>1
    <3>2. accounts' = [shadow EXCEPT ![block.recipient].balance = @ + r]
      BY <2>2
    <3> HIDE DEF r
    <3>3. Total([shadow EXCEPT ![block.recipient].balance = @ + r]) = Total(shadow) + r
      BY <3>1, TotalPaid
    <3>4. QED
      BY <3>2, <3>3 DEF r
  <2>4. fees \in Int /\ block.reward = ExpectedReward(height + 1, fees)
    BY LoopThrough DEF TotalsType
  <2>5. Total(shadow) = Total(accounts) - fees
    BY <1>1, LoopThrough, ThroughTotal
  <2> HIDE DEF fees
  <2>6. block.reward = BlockReward(height + 1) + fees
    BY <2>1, <2>4 DEF ExpectedReward
  <2>7. Total(accounts) = minted
    BY <2>1 DEF SupplyInv
  <2>8. QED
    BY <1>1, <1>2, <2>3, <2>4, <2>5, <2>6, <2>7
<1>4. minted' \in Nat
  BY <1>1, <1>2
<1>5. height' < FeeSplitForkHeight => Total(accounts') = minted'
  BY <1>1, <1>3
<1>6. Total(accounts)' = Total(accounts')
  BY DEF Total
<1>7. QED
  BY <1>4, <1>5, <1>6 DEF SupplyInv

\* Nothing is minted at first.
LEMMA SupplyInit == Init => SupplyInv
<1> SUFFICES ASSUME Init
             PROVE  SupplyInv
  OBVIOUS
<1> DEFINE f == [a \in Addr |-> accounts[a].balance]
<1>1. f \in [Addr -> Int] /\ (\A a \in Addr : f[a] = 0) /\ IsFiniteSet(Addr)
  BY AddrAssumption DEF Init
<1>2. Total(accounts) = SumFunction(f)
  BY DEF Total
<1> HIDE DEF f
<1>3. SumFunction(f) = 0
  BY <1>1, SumOfZeros
<1>4. QED
  BY <1>2, <1>3 DEF SupplyInv, Init

\* Only a committed block changes the coins of the accounts.
THEOREM SupplyInvariance == Spec => []SupplyInv
<1>1. IInv /\ LoopInv /\ SupplyInv /\ [Next]_vars => SupplyInv'
  <2> SUFFICES ASSUME IInv, LoopInv, SupplyInv, [Next]_vars
               PROVE  SupplyInv'
    OBVIOUS
  <2>1. CASE CommitBlock
    BY <2>1, SupplyCommit
  <2>2. CASE ~CommitBlock
    <3>1. UNCHANGED <<accounts, height, minted>>
      BY <2>2 DEF Next, vars, chain, AddTx, Propose, Receive, StartBlock, CheckTx, Persist,
                  SettleTx, RefuseTx, RefuseBlock
    <3>2. QED
      BY <3>1 DEF SupplyInv, Total
  <2>3. QED
    BY <2>1, <2>2
<1>2. QED
  BY <1>1, SupplyInit, Invariance, LoopInvariance, PTL DEF Spec

\* Below the fee split the accounts hold what was minted and nothing else: fees move
\* coins, refused blocks create and destroy none.
THEOREM SupplyBelowFork == Spec => [](height < FeeSplitForkHeight => SupplyIsMinted)
<1>1. SupplyInv => (height < FeeSplitForkHeight => SupplyIsMinted)
  BY DEF SupplyInv, SupplyIsMinted, Total
<1>2. QED
  BY <1>1, SupplyInvariance, PTL

\* The types of the code, and MaxMempoolTxs: a proposal that is put back in front of the
\* pool finds the room that it left.
THEOREM TypeCorrect == Spec => []TypeOK
<1>1. IInv /\ PoolInv /\ SupplyInv => TypeOK
  <2> SUFFICES ASSUME IInv, PoolInv, SupplyInv
               PROVE  TypeOK
    OBVIOUS
  <2>1. Len(mempool) <= Len(Queue) /\ Len(Queue) \in Nat
    BY QueueLonger
  <2>2. Len(Queue) <= MaxMempoolTxs /\ MaxMempoolTxs \in Nat /\ mempool \in Seq(Tx)
    BY LedgerAssumption DEF PoolInv
  <2>3. Len(mempool) <= MaxMempoolTxs
    BY <2>1, <2>2
  <2>4. QED
    BY <2>2, <2>3 DEF IInv, Typed, AccountsType, SupplyInv, TypeOK
<1>2. QED
  BY <1>1, Invariance, PoolInvariance, SupplyInvariance, PTL

\* Between two calls each queued transaction fits the accounts and has its own sender,
\* and the index is the pool's, whatever blocks came from other nodes.
THEOREM PoolAlwaysFits == Spec => []PoolFits
<1>1. PoolInv => PoolFits
  <2> SUFFICES ASSUME PoolInv, phase = "idle"
               PROVE  /\ \A tx \in ToSet(mempool) : WellFormed(tx) /\ Fits(tx, accounts)
                      /\ \A i, j \in DOMAIN mempool : i # j => mempool[i].from # mempool[j].from
                      /\ index = IndexOf(mempool)
    BY DEF PoolFits
  <2>1. Fitting(mempool, accounts) /\ mempool \in Seq(Tx) /\ index = IndexOf(mempool)
    BY DEF PoolInv, Queue
  <2>2. DOMAIN mempool = 1 .. Len(mempool)
    BY <2>1
  <2>3. QED
    BY <2>1, <2>2 DEF Fitting, ToSet
<1>2. QED
  BY <1>1, PoolInvariance, PTL

\* The settling loop never refuses a transaction of the node's own proposal.
THEOREM OwnAlwaysSettles == Spec => []OwnBlockSettles
<1>1. IInv /\ PoolInv /\ LoopInv => OwnBlockSettles
  <2> SUFFICES ASSUME IInv, PoolInv, LoopInv, phase = "settle", todo # <<>>, block.own
               PROVE  WellFormed(Head(todo)) /\ Settles(Head(todo))
    BY DEF OwnBlockSettles
  <2>1. /\ block.txs \in Seq(Tx) /\ todo \in Seq(Tx) /\ Aligned(block.txs, todo)
        /\ \A k \in 1 .. Len(todo) : Fits(todo[k], shadow)
    BY DEF IInv, Typed, BlockTyped, LoopInv, Settling
  <2>2. Fitting(block.txs, accounts)
    <3>1. Fitting(block.txs \o mempool, accounts) /\ mempool \in Seq(Tx)
      BY DEF PoolInv, Queue
    <3>2. QED
      BY <2>1, <3>1, FrontFits
  <2> DEFINE i == Len(block.txs) - Len(todo) + 1
  <2>3. 1 \in 1 .. Len(todo) /\ Head(todo) = todo[1]
    BY <2>1
  <2>4. Head(todo) = block.txs[i] /\ i \in 1 .. Len(block.txs)
    BY <2>1, <2>3 DEF Aligned
  <2>5. WellFormed(Head(todo))
    BY <2>2, <2>4 DEF Fitting
  <2>6. Fits(Head(todo), shadow)
    BY <2>1, <2>3
  <2>7. QED
    BY <2>5, <2>6 DEF WellFormed, Settles
<1>2. QED
  BY <1>1, Invariance, PoolInvariance, LoopInvariance, PTL

\* Below the fee split the accounts after a block are those of its balances_root.
LEMMA RootOfCommit ==
  ASSUME IInv, LoopInv, CommitBlock, ~FeeSplitActive(height + 1)
  PROVE  MerkleRoot(accounts') = block.root
<1> DEFINE fees == Through(block.txs).fees
           reward == ExpectedReward(height + 1, fees)
           paid == [shadow EXCEPT ![TreasuryAddr].balance = @ + 0]
           rewarded == [shadow EXCEPT ![block.recipient].balance = @ + reward]
<1>1. /\ shadow \in AccountsType /\ block.recipient \in Addr /\ block.reward \in Nat
      /\ accounts' = Paid(block)
  BY DEF IInv, Typed, BlockTyped, CommitBlock
<1>2. /\ block.reward = reward /\ shadow = Through(block.txs).accts
      /\ block.root = BalancesRoot(block.txs, block.recipient)
  BY LoopThrough
<1>3. accounts' = rewarded
  BY <1>1, <1>2, PaidBelowFork
<1>4. paid = shadow
  BY <1>1, Constants, PayNothing
<1>5. BalancesRoot(block.txs, block.recipient) =
        MerkleRoot(IF reward > 0 THEN [paid EXCEPT ![block.recipient].balance = @ + reward]
                   ELSE paid)
  BY <1>2 DEF BalancesRoot
<1> HIDE DEF reward, paid
<1>6. CASE reward > 0
  BY <1>2, <1>3, <1>4, <1>5, <1>6
<1>7. CASE ~(reward > 0)
  <2>1. reward = 0
    BY <1>1, <1>2, <1>7
  <2>2. rewarded = shadow
    BY <1>1, <2>1, PayNothing
  <2>3. QED
    BY <1>2, <1>3, <1>4, <1>5, <1>7, <2>2
<1>8. QED
  BY <1>6, <1>7

\* The height grows by a committed block only.
LEMMA OnlyCommitGrows ==
  ASSUME [Next]_vars, height' # height
  PROVE  CommitBlock /\ height' = height + 1
<1>1. CommitBlock
  BY DEF Next, vars, chain, AddTx, Propose, Receive, StartBlock, CheckTx, Persist, SettleTx,
         RefuseTx, RefuseBlock
<1>2. QED
  BY <1>1 DEF CommitBlock

\* Below the fee split, calcStateHashWithBlock commits to the accounts that
\* applyBlockLocked then makes, for all transactions a block may hold.
THEOREM RootBelowFork ==
  Spec => [][height' # height /\ height' < FeeSplitForkHeight =>
               MerkleRoot(accounts') = block.root]_vars
<1>1. ASSUME IInv, LoopInv, [Next]_vars, height' # height, height' < FeeSplitForkHeight
      PROVE  MerkleRoot(accounts') = block.root
  <2>1. CommitBlock /\ height' = height + 1 /\ height \in Nat
    BY <1>1, OnlyCommitGrows DEF IInv, Typed
  <2>2. ~FeeSplitActive(height + 1)
    BY <1>1, <2>1, LedgerAssumption DEF FeeSplitActive
  <2>3. QED
    BY <1>1, <2>1, <2>2, RootOfCommit
<1>2. IInv /\ LoopInv /\ [Next]_vars =>
        [height' # height /\ height' < FeeSplitForkHeight =>
           MerkleRoot(accounts') = block.root]_vars
  BY <1>1
<1>3. QED
  BY <1>2, Invariance, LoopInvariance, PTL DEF Spec

\* The same for a chain that ends below the fee split, as the runs do.
THEOREM RootAlwaysState ==
  ASSUME MaxHeight < FeeSplitForkHeight
  PROVE  Spec => RootIsState
<1>1. ASSUME IInv, IInv', LoopInv, [Next]_vars, height' # height
      PROVE  MerkleRoot(accounts') = block.root
  <2>1. CommitBlock /\ height' = height + 1 /\ height \in Nat /\ height' <= MaxHeight
    BY <1>1, OnlyCommitGrows DEF IInv, Typed
  <2>2. ~FeeSplitActive(height + 1)
    BY <2>1, LedgerAssumption DEF FeeSplitActive
  <2>3. QED
    BY <1>1, <2>1, <2>2, RootOfCommit
<1>2. IInv /\ IInv' /\ LoopInv /\ [Next]_vars =>
        [height' # height => MerkleRoot(accounts') = block.root]_vars
  BY <1>1
<1>3. QED
  BY <1>2, Invariance, LoopInvariance, PTL DEF Spec, RootIsState

\* Two sequences put together hold what both hold.
LEMMA JoinedSet ==
  ASSUME NEW S, NEW a \in Seq(S), NEW b \in Seq(S)
  PROVE  ToSet(a \o b) = ToSet(a) \cup ToSet(b)
<1> DEFINE w == a \o b
           m == Len(a)
           n == Len(b)
<1>1. /\ m \in Nat /\ n \in Nat /\ w \in Seq(S) /\ Len(w) = m + n
      /\ \A i \in 1 .. m : w[i] = a[i]
      /\ \A i \in 1 .. n : w[m + i] = b[i]
  OBVIOUS
<1>2. DOMAIN w = 1 .. m + n /\ DOMAIN a = 1 .. m /\ DOMAIN b = 1 .. n
  BY <1>1
<1> HIDE DEF w, m, n
<1>3. \A i \in 1 .. m : i \in 1 .. m + n
  BY <1>1
<1>4. \A i \in 1 .. n : m + i \in 1 .. m + n
  BY <1>1
<1>5. ToSet(a) \subseteq ToSet(w) /\ ToSet(b) \subseteq ToSet(w)
  BY <1>1, <1>2, <1>3, <1>4 DEF ToSet
<1>6. ASSUME NEW i \in 1 .. m + n
      PROVE  w[i] \in ToSet(a) \cup ToSet(b)
  <2>1. CASE i \in 1 .. m
    BY <1>1, <1>2, <2>1 DEF ToSet
  <2>2. CASE i \notin 1 .. m
    <3>1. i - m \in 1 .. n /\ m + (i - m) = i
      BY <1>1, <2>2
    <3>2. w[i] = b[i - m]
      BY <1>1, <3>1
    <3>3. QED
      BY <1>2, <3>1, <3>2 DEF ToSet
  <2>3. QED
    BY <2>1, <2>2
<1>7. ToSet(w) \subseteq ToSet(a) \cup ToSet(b)
  BY <1>2, <1>6 DEF ToSet
<1>8. QED
  BY <1>5, <1>7 DEF w

\* The pool fits whatever was taken from it.
LEMMA PoolItselfFits ==
  ASSUME IInv, PoolInv
  PROVE  Fitting(mempool, accounts)
<1>1. mempool \in Seq(Tx) /\ Fitting(Queue, accounts)
  BY DEF PoolInv
<1>2. CASE phase # "idle" /\ block.own
  <2>1. Queue = block.txs \o mempool /\ block.txs \in Seq(Tx)
    BY <1>2 DEF Queue, IInv, BlockTyped
  <2> DEFINE m == Len(block.txs)
  <2>2. /\ m \in Nat /\ Len(Queue) = m + Len(mempool) /\ Len(mempool) \in Nat
        /\ \A i \in 1 .. Len(mempool) : Queue[m + i] = mempool[i]
    BY <1>1, <2>1
  <2> HIDE DEF m
  <2>3. \A i \in 1 .. Len(mempool) : m + i \in 1 .. Len(Queue)
    BY <2>2
  <2>4. \A i, j \in 1 .. Len(mempool) : i # j => m + i # m + j
    BY <2>2
  <2>5. QED
    BY <1>1, <2>2, <2>3, <2>4 DEF Fitting
<1>3. CASE ~(phase # "idle" /\ block.own)
  BY <1>1, <1>3 DEF Queue
<1>4. QED
  BY <1>2, <1>3

\* What the node answers for is the queue.
LEMMA HeldIsQueue == IInv /\ PoolInv => Held = ToSet(Queue)
<1> SUFFICES ASSUME IInv, PoolInv
             PROVE  Held = ToSet(Queue)
  OBVIOUS
<1>1. mempool \in Seq(Tx)
  BY DEF PoolInv
<1>2. CASE phase # "idle" /\ block.own
  <2>1. Queue = block.txs \o mempool /\ block.txs \in Seq(Tx)
    BY <1>2 DEF Queue, IInv, BlockTyped
  <2>2. QED
    BY <1>1, <1>2, <2>1, JoinedSet DEF Held
<1>3. CASE ~(phase # "idle" /\ block.own)
  BY <1>3 DEF Queue, Held
<1>4. QED
  BY <1>2, <1>3

\* The same after a step.
LEMMA HeldNext == IInv' /\ PoolInv' => Held' = ToSet(Queue')
<1>1. (IInv /\ PoolInv => Held = ToSet(Queue))'
  BY HeldIsQueue, PTL
<1>2. ToSet(Queue)' = ToSet(Queue')
  BY DEF ToSet
<1>3. QED
  BY <1>1, <1>2

\* A transaction of the pool that a compaction drops does not fit or is too cheap.
LEMMA CompactReason ==
  ASSUME IInv, PoolInv, NEW accts \in AccountsType, NEW tx \in ToSet(mempool),
         Fits(tx, accts), ~(tx.fee < RequiredFee)
  PROVE  tx \in ToSet(Compact(accts))
<1>1. mempool \in Seq(Tx) /\ Fitting(mempool, accounts)
  BY PoolItselfFits DEF PoolInv
<1>2. PICK i \in 1 .. Len(mempool) : tx = mempool[i]
  BY <1>1 DEF ToSet
<1>3. tx \in Tx /\ tx.fee \in Int
  BY <1>1, <1>2, Constants
<1>4. RequiredFee \in Int
  <2>1. /\ Len(mempool) \in Nat /\ FeeCongestionStep \in Nat /\ FeeCongestionStep > 0
        /\ BaseFee \in Nat /\ FeeStepIncrement \in Nat
    BY <1>1, LedgerAssumption
  <2>2. Len(mempool) \div FeeCongestionStep \in Int
    BY <2>1
  <2>3. QED
    BY <2>1, <2>2 DEF RequiredFee
<1>5. WellFormed(tx)
  BY <1>1, <1>2 DEF Fitting
<1>6. Valid(tx, accts)
  BY <1>3, <1>4, <1>5 DEF Valid
<1>7. \A j, k \in 1 .. Len(mempool) : j # k => mempool[j].from # mempool[k].from
  BY <1>1 DEF Fitting
<1>8. QED
  BY <1>1, <1>2, <1>6, <1>7, CompactKeeps

Leaves(tx) ==
  \/ tx \in Held' \cup ToSet(spent'[tx.from])
  \/ ~Fits(tx, accounts')
  \/ tx.fee < RequiredFee

\* Proposing compacts the pool against the accounts as they are, committing against
\* those of the new block; nothing else drops a transaction.
LEMMA LeaveStep ==
  ASSUME IInv, IInv', PoolInv, PoolInv', LoopInv, [Next]_vars, NEW tx \in Held
  PROVE  Leaves(tx)
<1>1. tx \in ToSet(Queue) /\ Held' = ToSet(Queue')
  BY HeldIsQueue, HeldNext
<1>2. ASSUME NEW t \in Tx, AddTx(t)
      PROVE  Leaves(tx)
  <2>1. Queue = mempool /\ Queue' = Append(mempool, t) /\ mempool \in Seq(Tx)
    BY <1>2 DEF AddTx, Queue, PoolInv, call
  <2>2. ToSet(Queue') = ToSet(Queue) \cup {t}
    BY <2>1, AppendedSet
  <2>3. QED
    BY <1>1, <2>2 DEF Leaves
<1>3. ASSUME NEW txs \in BoundedSeq(Tx, MaxBlockTxs), Propose(txs)
      PROVE  Leaves(tx)
  <2>1. txs \in Seq(Tx)
    BY BoundedIsSeq, Constants
  <2>2. Queue' = Compact(accounts)
    BY <1>3, <2>1, PoolPropose
  <2>3. phase = "idle" /\ accounts' = accounts
    BY <1>3 DEF Propose, StartBlock
  <2>4. tx \in ToSet(mempool) /\ accounts \in AccountsType
    BY <1>1, <2>3 DEF Queue, IInv, Typed
  <2>5. CASE Fits(tx, accounts) /\ ~(tx.fee < RequiredFee)
    BY <1>1, <2>2, <2>4, <2>5, CompactReason DEF Leaves
  <2>6. CASE ~Fits(tx, accounts) \/ tx.fee < RequiredFee
    BY <2>3, <2>6 DEF Leaves
  <2>7. QED
    BY <2>5, <2>6
<1>4. CASE Queue' = Queue
  BY <1>1, <1>4 DEF Leaves
<1>5. ASSUME NEW txs \in BoundedSeq(Tx, MaxBlockTxs), NEW a \in Addr, Receive(txs, a)
      PROVE  Leaves(tx)
  <2>1. Queue' = Queue
    BY <1>5 DEF Receive, StartBlock, pool, Queue
  <2>2. QED
    BY <1>4, <2>1
<1>6. CASE CheckTx \/ SettleTx
  <2>1. Queue' = Queue
    BY <1>6, QueueKept DEF CheckTx, SettleTx
  <2>2. QED
    BY <1>4, <2>1
<1>7. CASE Persist
  BY <1>4, <1>7, PersistKeeps
<1>8. CASE RefuseTx \/ RefuseBlock
  <2>1. phase # "idle" /\ UNCHANGED accounts /\ RestoreTaken /\ EndCall
    BY <1>8 DEF RefuseTx, RefuseBlock
  <2>2. mempool' = Queue /\ phase' = "idle"
    BY <2>1, PoolRestored DEF EndCall
  <2>3. Queue' = Queue
    BY <2>2 DEF Queue
  <2>4. QED
    BY <1>4, <2>3
<1>9. CASE CommitBlock
  <2>1. /\ phase = "settle" /\ mempool' = Compact(accounts') /\ phase' = "idle"
        /\ spent' = spending
    BY <1>9 DEF CommitBlock, SetPool, EndCall
  <2>2. Queue' = Compact(accounts')
    BY <2>1 DEF Queue
  <2>3. accounts' \in AccountsType
    BY DEF IInv, Typed, AccountsType
  <2>4. CASE tx \in ToSet(mempool)
    <3>1. CASE Fits(tx, accounts') /\ ~(tx.fee < RequiredFee)
      BY <1>1, <2>2, <2>3, <2>4, <3>1, CompactReason DEF Leaves
    <3>2. CASE ~Fits(tx, accounts') \/ tx.fee < RequiredFee
      BY <3>2 DEF Leaves
    <3>3. QED
      BY <3>1, <3>2
  <2>5. CASE tx \notin ToSet(mempool)
    <3>1. tx \in ToSet(block.txs)
      BY <2>5 DEF Held
    <3>2. tx \in ToSet(spending[tx.from])
      BY <1>9, <3>1, LoopThrough
    <3>3. QED
      BY <2>1, <3>2 DEF Leaves
  <2>6. QED
    BY <2>4, <2>5
<1>10. CASE UNCHANGED vars
  <2>1. Queue' = Queue
    BY <1>10 DEF Queue, vars, call, pool
  <2>2. QED
    BY <1>4, <2>1
<1>11. QED
  BY <1>2, <1>3, <1>5, <1>6, <1>7, <1>8, <1>9, <1>10 DEF Next

\* A transaction leaves the node on the chain, as unfit or as too cheap, and never because
\* a call failed.
THEOREM NoneLost == Spec => LeavesForAReason
<1>1. IInv /\ IInv' /\ PoolInv /\ PoolInv' /\ LoopInv /\ [Next]_vars =>
        [\A tx \in Held :
           \/ tx \in Held' \cup ToSet(spent'[tx.from])
           \/ ~Fits(tx, accounts')
           \/ tx.fee < RequiredFee]_vars
  BY LeaveStep DEF Leaves
<1>2. QED
  BY <1>1, Invariance, PoolInvariance, LoopInvariance, PTL DEF Spec, LeavesForAReason
=============================================================================
