----------------------------- MODULE GossipProofs -----------------------------
(***************************************************************************)
(* Proof that a node passes a block on once, for any mesh, any cap of      *)
(* m.seen and any bounds.  m.seen plays no part in it: a copy that is to   *)
(* be passed on stands for a block that the lock of the chain has accepted *)
(* once, so that no second copy of it can be accepted, and once it has     *)
(* been passed on no copy is left to do it again.                          *)
(*                                                                         *)
(* Then types, of which m.seen is the hard part, and that messages die     *)
(* out.                                                                    *)
(***************************************************************************)
EXTENDS
  Gossip, FiniteSetTheorems, SequenceTheorems, WellFoundedInduction, NaturalsInduction, TLAPS

AnyCopy == [id : [type : {"block", "msg"}, n : Nat], node : Node, via : Node \cup {NoSender},
            ttl : Int, at : {"origin", "wire", "unseen", "marked", "relay"}]

Counts(B) == \A c \in DOMAIN B : B[c] \in Nat \ {0}

Typing ==
  /\ height \in [Node -> Nat]
  /\ pending \in [Node -> SUBSET Nat] /\ \A n \in Node : IsFiniteSet(pending[n])
  /\ DOMAIN copies \subseteq AnyCopy /\ Counts(copies)
  /\ \A n \in Node : DOMAIN relayed[n] \subseteq Nat
  /\ DOMAIN relayed = Node /\ relayed = [n \in Node |-> relayed[n]]

\* The lock of the chain refuses a block that it has accepted before.
Handled(n, h) == h <= height[n] \/ h \in pending[n]

\* The copies of blocks that are about to be passed on.
Relaying(B) == {c \in DOMAIN B : c.at = "relay" /\ c.id.type = "block"}

OneRelay ==
  \A c \in Relaying(copies) :
    /\ copies[c] = 1
    /\ Handled(c.node, c.id.n) /\ c.id.n \notin DOMAIN relayed[c.node]
    /\ \A d \in Relaying(copies) : d.id = c.id /\ d.node = c.node => d = c

RelayedOnce ==
  \A n \in Node : \A h \in DOMAIN relayed[n] : relayed[n][h] = 1 /\ Handled(n, h)

\* No buffered block is the next one, and the proposer buffers none.
Gaps == pending[Leader] = {} /\ \A n \in Node : height[n] + 1 \notin pending[n]

\* The blocks that are under way have been proposed.
Proposals(B) == \A c \in DOMAIN B : c.id.type = "block" => c.id.n <= height[Leader]

IInv == Typing /\ OneRelay /\ RelayedOnce /\ Gaps /\ Proposals(copies)

-----------------------------------------------------------------------------
(* Bags. *)

LEMMA Taking ==
  ASSUME NEW B, Counts(B), NEW c \in DOMAIN B
  PROVE  LET W == B (-) SetToBag({c})
         IN /\ DOMAIN W \subseteq DOMAIN B /\ Counts(W)
            /\ \A d \in DOMAIN W : W[d] <= B[d]
            /\ \A d \in DOMAIN B \ {c} : d \in DOMAIN W /\ W[d] = B[d]
            /\ B[c] = 1 => c \notin DOMAIN W
<1> DEFINE D == [e \in DOMAIN B |-> IF e \in {c} THEN B[e] - 1 ELSE B[e]]
           W == [e \in {d \in DOMAIN D : D[d] > 0} |-> D[e]]
<1>1. B (-) SetToBag({c}) = W
  BY DEF (-), SetToBag
<1>2. /\ DOMAIN D = DOMAIN B /\ \A d \in DOMAIN B : D[d] \in Int /\ D[d] <= B[d]
      /\ \A d \in DOMAIN B \ {c} : D[d] = B[d] /\ D[d] > 0
      /\ D[c] = B[c] - 1
  BY DEF Counts
<1>3. DOMAIN W = {d \in DOMAIN B : D[d] > 0} /\ \A d \in DOMAIN W : W[d] = D[d]
  BY <1>2
<1> HIDE DEF W, D
<1>4. QED
  BY <1>1, <1>2, <1>3 DEF Counts

LEMMA Adding ==
  ASSUME NEW B, Counts(B), NEW S
  PROVE  LET W == B (+) SetToBag(S)
         IN /\ DOMAIN W = DOMAIN B \cup S /\ Counts(W)
            /\ \A d \in DOMAIN B \ S : W[d] = B[d]
            /\ \A d \in S \ DOMAIN B : W[d] = 1
<1> DEFINE W == [e \in DOMAIN B \cup S |-> (IF e \in DOMAIN B THEN B[e] ELSE 0)
                                           + (IF e \in S THEN 1 ELSE 0)]
<1>1. B (+) SetToBag(S) = W
  BY DEF (+), SetToBag
<1>2. Counts(W) /\ DOMAIN W = DOMAIN B \cup S
      /\ (\A d \in DOMAIN B \ S : W[d] = B[d]) /\ (\A d \in S \ DOMAIN B : W[d] = 1)
  BY DEF Counts
<1>3. QED
  BY <1>1, <1>2

-----------------------------------------------------------------------------
(* The height that drainPendingLocked reaches. *)

LEMMA Least ==
  ASSUME NEW T \in SUBSET Nat, T # {}
  PROVE  \E m \in T : \A n \in T : m <= n
<1>1. PICK m \in T : \A n \in T : <<n, m>> \notin OpToRel(<, Nat)
  BY NatLessThanWellFounded, WFMin
<1>2. ASSUME NEW n \in T PROVE m <= n
  <2>1. <<n, m>> \notin OpToRel(<, Nat)
    BY <1>1
  <2>2. n \in Nat /\ m \in Nat
    OBVIOUS
  <2>3. ~(n < m)
    BY <2>1, <2>2 DEF OpToRel
  <2>4. QED
    BY <2>2, <2>3
<1>3. QED
  BY <1>2

LEMMA DrainedAbove ==
  ASSUME Typing, NEW n \in Node, NEW h \in Nat
  PROVE  /\ Drained(h, n) \in Nat /\ Drained(h, n) >= h
         /\ Drained(h, n) + 1 \notin pending[n] /\ h + 1 .. Drained(h, n) \subseteq pending[n]
<1> DEFINE P == pending[n]
           N == Cardinality(P)
           Gap == {k \in h .. h + N : k + 1 \notin P}
           Ends(k) == h + 1 .. k \subseteq P /\ k + 1 \notin P
<1>1. P \in SUBSET Nat /\ IsFiniteSet(P) /\ N \in Nat
  BY FS_CardinalityType DEF Typing
<1>2. Gap # {}
  <2> SUFFICES ASSUME \A k \in h .. h + N : k + 1 \in P PROVE FALSE
    OBVIOUS
  <2> HIDE DEF N, P
  <2>1. h + 1 .. h + N + 1 \subseteq P
    <3> SUFFICES ASSUME NEW k \in h + 1 .. h + N + 1 PROVE k \in P
      OBVIOUS
    <3>1. k - 1 \in h .. h + N /\ (k - 1) + 1 = k
      BY <1>1
    <3>2. QED
      BY <3>1
  <2>2. Cardinality(h + 1 .. h + N + 1) <= Cardinality(P)
    BY <1>1, <2>1, FS_Subset
  <2>3. h + 1 \in Int /\ h + N + 1 \in Int
    BY <1>1
  <2>4. Cardinality(h + 1 .. h + N + 1) = N + 1
    BY <1>1, <2>3, FS_Interval
  <2>5. QED
    BY <1>1, <2>2, <2>4 DEF N
<1>3. Gap \in SUBSET Nat
  BY <1>1
<1>4. PICK m \in Gap : \A k \in Gap : m <= k
  BY <1>2, <1>3, Least
<1>5. h + 1 .. m \subseteq P
  <2> SUFFICES ASSUME NEW k \in h + 1 .. m, k \notin P PROVE FALSE
    OBVIOUS
  <2>1. m \in h .. h + N
    BY <1>4
  <2> HIDE DEF N, P
  <2>2. k - 1 \in h .. h + N /\ (k - 1) + 1 = k /\ k - 1 < m
    BY <1>1, <2>1
  <2>3. k - 1 \in Gap
    BY <2>2
  <2>4. QED
    BY <1>4, <2>2, <2>3
<1>6. \E k \in h .. h + N : h + 1 .. k \subseteq P /\ k + 1 \notin P
  BY <1>4, <1>5
<1>7. /\ Drained(h, n) \in h .. h + N
      /\ Drained(h, n) + 1 \notin P /\ h + 1 .. Drained(h, n) \subseteq P
  BY <1>6 DEF Drained
<1>8. QED
  BY <1>1, <1>7

\* Advance leaves the table typed, and handles the block and all that was handled.
LEMMA Advances ==
  ASSUME Typing, NEW n \in Node, NEW h \in Nat, h = height[n] + 1, Advance(h, n)
  PROVE  /\ height' \in [Node -> Nat]
         /\ pending' \in [Node -> SUBSET Nat] /\ \A m \in Node : IsFiniteSet(pending'[m])
         /\ Handled(n, h)'
         /\ \A m \in Node : \A k \in Nat : Handled(m, k) => Handled(m, k)'
         /\ n # Leader /\ Gaps => Gaps' /\ height'[Leader] = height[Leader]
<1>1. Drained(h, n) \in Nat /\ Drained(h, n) >= h /\ Drained(h, n) + 1 \notin pending[n]
  BY DrainedAbove
<1>2. height' = [height EXCEPT ![n] = Drained(h, n)]
      /\ pending' = [pending EXCEPT ![n] = {k \in @ : k > height'[n]}]
  BY DEF Advance
<1>3. height' \in [Node -> Nat] /\ height'[n] >= h
      /\ \A m \in Node \ {n} : height'[m] = height[m]
  BY <1>1, <1>2 DEF Typing
<1>4. pending' \in [Node -> SUBSET Nat] /\ pending'[n] = {k \in pending[n] : k > height'[n]}
      /\ \A m \in Node \ {n} : pending'[m] = pending[m]
  BY <1>2 DEF Typing
<1>5. IsFiniteSet(pending'[n])
  BY <1>4, FS_Subset DEF Typing
<1>6. \A m \in Node : IsFiniteSet(pending'[m])
  BY <1>4, <1>5 DEF Typing
<1>7. Handled(n, h)'
  BY <1>3 DEF Handled
<1>8. ASSUME NEW m \in Node, NEW k \in Nat, Handled(m, k) PROVE Handled(m, k)'
  <2>1. CASE m = n
    <3>1. height[n] \in Nat /\ height'[n] \in Nat
      BY <1>3 DEF Typing
    <3>2. QED
      BY <1>3, <1>4, <1>8, <2>1, <3>1 DEF Handled
  <2>2. CASE m # n
    BY <1>3, <1>4, <1>8, <2>2 DEF Handled
  <2>3. QED
    BY <2>1, <2>2
<1>9. height'[n] + 1 \notin pending'[n]
  BY <1>1, <1>2, <1>4 DEF Typing
<1>10. n # Leader /\ Gaps => Gaps' /\ height'[Leader] = height[Leader]
  BY <1>3, <1>4, <1>9, GossipAssumption DEF Gaps
<1>11. QED
  BY <1>3, <1>4, <1>6, <1>7, <1>8, <1>10

-----------------------------------------------------------------------------
(* The copies that are to be passed on. *)

\* Copies come that are not to be passed on, a copy that need not be goes, and what was
\* handled stays so: nothing changes for the others.
LEMMA NoNewRelay ==
  ASSUME IInv, Typing', Gaps', Proposals(copies)', UNCHANGED relayed,
         \A n \in Node : \A h \in Nat : Handled(n, h) => Handled(n, h)',
         \A c \in Relaying(copies') : c \in Relaying(copies) /\ copies'[c] <= copies[c]
  PROVE  IInv'
<1>1. ASSUME NEW c \in Relaying(copies')
      PROVE  /\ copies'[c] = 1
             /\ Handled(c.node, c.id.n)' /\ c.id.n \notin DOMAIN relayed'[c.node]
             /\ \A d \in Relaying(copies') : d.id = c.id /\ d.node = c.node => d = c
  <2>1. c \in Relaying(copies) /\ copies[c] = 1 /\ copies'[c] <= 1
    BY <1>1 DEF IInv, OneRelay
  <2>2. c \in AnyCopy /\ c \in DOMAIN copies'
    BY <2>1, <1>1 DEF IInv, Typing, Relaying
  <2>3. copies'[c] = 1
    BY <2>1, <2>2 DEF Typing, Counts
  <2>4. c.node \in Node /\ c.id.n \in Nat
    BY <2>2 DEF AnyCopy
  <2>5. Handled(c.node, c.id.n) /\ c.id.n \notin DOMAIN relayed[c.node]
    BY <2>1 DEF IInv, OneRelay
  <2>6. Handled(c.node, c.id.n)'
    BY <2>4, <2>5
  <2>7. QED
    BY <2>1, <2>3, <2>5, <2>6 DEF IInv, OneRelay
<1>2. OneRelay'
  BY <1>1 DEF OneRelay
<1>3. RelayedOnce'
  BY DEF IInv, RelayedOnce, Typing
<1>4. QED
  BY <1>2, <1>3 DEF IInv

\* The store is not touched.
LEMMA StoreFrame ==
  ASSUME IInv, UNCHANGED store
  PROVE  /\ height' \in [Node -> Nat] /\ pending' \in [Node -> SUBSET Nat]
         /\ \A n \in Node : IsFiniteSet(pending'[n])
         /\ \A n \in Node : \A h \in Nat : Handled(n, h) => Handled(n, h)'
         /\ Gaps' /\ height'[Leader] >= height[Leader]
<1>1. /\ height' \in [Node -> Nat] /\ pending' \in [Node -> SUBSET Nat]
      /\ \A n \in Node : IsFiniteSet(pending'[n])
      /\ \A n \in Node : \A h \in Nat : Handled(n, h) => Handled(n, h)'
  BY DEF IInv, Typing, store, Handled
<1>2. Gaps' /\ height' = height
  BY DEF IInv, Gaps, store
<1>3. QED
  BY <1>1, <1>2, GossipAssumption

LEMMA TypingLater ==
  ASSUME IInv, height' \in [Node -> Nat], pending' \in [Node -> SUBSET Nat],
         \A n \in Node : IsFiniteSet(pending'[n]),
         DOMAIN copies' \subseteq AnyCopy, Counts(copies'), UNCHANGED relayed
  PROVE  Typing'
BY DEF IInv, Typing

LEMMA Now ==
  ASSUME IInv
  PROVE  /\ Typing /\ Counts(copies) /\ DOMAIN copies \subseteq AnyCopy
         /\ \A c \in Relaying(copies) : c \in DOMAIN copies
BY DEF IInv, Typing, Relaying

\* Wire makes copies that have yet to arrive.
LEMMA Wired ==
  ASSUME NEW id \in [type : {"block", "msg"}, n : Nat], NEW n \in Node, NEW via,
         NEW ttl \in Int
  PROVE  \E S \in SUBSET AnyCopy :
           /\ Wire(id, n, via, ttl) = SetToBag(S)
           /\ \A c \in S : c.at = "wire" /\ c.id = id
<1> DEFINE S == {[id |-> id, node |-> m, via |-> n, ttl |-> ttl, at |-> "wire"] :
                   m \in Peers[n] \ {n, via}}
<1>1. Peers[n] \subseteq Node
  BY GossipAssumption
<1>2. S \in SUBSET AnyCopy /\ \A c \in S : c.at = "wire" /\ c.id = id
  BY <1>1 DEF AnyCopy
<1>3. Wire(id, n, via, ttl) = SetToBag(S)
  BY DEF Wire
<1>4. QED
  BY <1>2, <1>3

\* A copy makes way for others that are not to be passed on, or not yet, or for none.
LEMMA Replaces ==
  ASSUME IInv, UNCHANGED relayed, NEW c \in DOMAIN copies, NEW S \in SUBSET AnyCopy,
         height' \in [Node -> Nat], pending' \in [Node -> SUBSET Nat],
         \A n \in Node : IsFiniteSet(pending'[n]),
         \A n \in Node : \A h \in Nat : Handled(n, h) => Handled(n, h)',
         Gaps', height'[Leader] >= height[Leader],
         copies' = Without(c) (+) SetToBag(S) \/ copies' = Without(c),
         \A d \in S : d.id = c.id /\ (d.at # "relay" \/ d.id.type # "block")
  PROVE  IInv'
<1> DEFINE W == Without(c)
<1>1. /\ DOMAIN W \subseteq DOMAIN copies /\ Counts(W)
      /\ \A d \in DOMAIN W : W[d] <= copies[d]
  BY Now, Taking DEF Without
<1> HIDE DEF W
<1>0. ASSUME \A d \in DOMAIN copies' : d \in DOMAIN copies \/ d.id = c.id
      PROVE  Proposals(copies)'
  <2>1. ASSUME NEW d \in DOMAIN copies, d.id.type = "block" PROVE d.id.n <= height'[Leader]
    <3>1. d.id.n <= height[Leader] /\ d \in AnyCopy
      BY <2>1, Now DEF IInv, Proposals
    <3>2. d.id.n \in Nat /\ height[Leader] \in Nat /\ height'[Leader] \in Nat
      BY <3>1, GossipAssumption, Now DEF AnyCopy, Typing
    <3>3. QED
      BY <3>1, <3>2
  <2>2. QED
    BY <1>0, <2>1 DEF Proposals
<1>2. CASE copies' = W
  <2>1. Typing'
    BY <1>1, <1>2, Now, TypingLater
  <2>2. \A d \in Relaying(copies') : d \in Relaying(copies) /\ copies'[d] <= copies[d]
    BY <1>1, <1>2 DEF Relaying
  <2>3. Proposals(copies)'
    BY <1>1, <1>2, <1>0
  <2>4. QED
    BY <2>1, <2>2, <2>3, NoNewRelay
<1>3. CASE copies' = W (+) SetToBag(S)
  <2>1. DOMAIN copies' = DOMAIN W \cup S /\ Counts(copies')
        /\ \A d \in DOMAIN W \ S : copies'[d] = W[d]
    BY <1>1, <1>3, Adding
  <2>2. Typing'
    BY <1>1, <2>1, Now, TypingLater
  <2>3. \A d \in Relaying(copies') : d \in DOMAIN W \ S
    BY <2>1 DEF Relaying
  <2>4. \A d \in Relaying(copies') : d \in Relaying(copies) /\ copies'[d] <= copies[d]
    BY <1>1, <2>1, <2>3 DEF Relaying
  <2>5. Proposals(copies)'
    BY <1>1, <2>1, <1>0
  <2>6. QED
    BY <2>2, <2>4, <2>5, NoNewRelay
<1>4. QED
  BY <1>2, <1>3 DEF W

\* A block is accepted: the copy of it is the first that is to be passed on.
LEMMA NewRelay ==
  ASSUME IInv, UNCHANGED relayed, NEW c \in DOMAIN copies, c.id.type = "block",
         ~Handled(c.node, c.id.n), Moves(c, "relay"),
         height' \in [Node -> Nat], pending' \in [Node -> SUBSET Nat],
         \A n \in Node : IsFiniteSet(pending'[n]),
         \A n \in Node : \A h \in Nat : Handled(n, h) => Handled(n, h)',
         Handled(c.node, c.id.n)', Gaps', height'[Leader] = height[Leader]
  PROVE  IInv'
<1> DEFINE W == Without(c)
           r == [c EXCEPT !.at = "relay"]
<1>1. /\ DOMAIN W \subseteq DOMAIN copies /\ Counts(W)
      /\ \A d \in DOMAIN W : W[d] <= copies[d]
  BY Now, Taking DEF Without
<1>2. copies' = W (+) SetToBag({r})
  BY DEF Moves
<1>3. c \in AnyCopy /\ r \in AnyCopy /\ r.id = c.id /\ r.node = c.node /\ r.at = "relay"
  BY Now DEF AnyCopy
<1> HIDE DEF W, r
<1>4. c.node \in Node /\ c.id.n \in Nat
  BY <1>3 DEF AnyCopy
<1>5. \A d \in Relaying(copies) : ~(d.id = r.id /\ d.node = r.node)
  BY <1>3 DEF IInv, OneRelay
<1>6. r \notin DOMAIN copies
  BY <1>3, <1>5 DEF Relaying
<1>7. DOMAIN copies' = DOMAIN W \cup {r} /\ Counts(copies')
      /\ (\A d \in DOMAIN W \ {r} : copies'[d] = W[d]) /\ copies'[r] = 1
  <2>1. LET B == W (+) SetToBag({r})
        IN /\ DOMAIN B = DOMAIN W \cup {r} /\ Counts(B)
           /\ \A d \in DOMAIN W \ {r} : B[d] = W[d]
           /\ \A d \in {r} \ DOMAIN W : B[d] = 1
    BY ONLY <1>1, Adding
  <2>2. r \notin DOMAIN W
    BY <1>1, <1>6
  <2>3. QED
    BY ONLY <1>2, <2>1, <2>2
<1>8. Typing'
  BY <1>1, <1>3, <1>7, Now, TypingLater
<1>9. Relaying(copies') \subseteq Relaying(copies) \cup {r}
  BY <1>1, <1>7 DEF Relaying
<1>10. ASSUME NEW d \in Relaying(copies')
       PROVE  /\ copies'[d] = 1
              /\ Handled(d.node, d.id.n)' /\ d.id.n \notin DOMAIN relayed'[d.node]
              /\ \A e \in Relaying(copies') : e.id = d.id /\ e.node = d.node => e = d
  <2>1. CASE d = r
    <3>1. d.id.n \notin DOMAIN relayed[d.node]
      BY <1>3, <1>4, <2>1 DEF IInv, RelayedOnce
    <3>2. QED
      BY <1>3, <1>5, <1>7, <1>9, <2>1, <3>1
  <2>2. CASE d # r
    <3>1. d \in Relaying(copies) /\ d \in DOMAIN W /\ copies'[d] = W[d]
      BY <1>7, <1>9, <1>10, <2>2 DEF Relaying
    <3>2. copies[d] = 1 /\ Handled(d.node, d.id.n) /\ d.id.n \notin DOMAIN relayed[d.node]
      BY <3>1 DEF IInv, OneRelay
    <3>3. copies'[d] = 1
      BY <1>1, <3>1, <3>2 DEF Counts
    <3>4. d.node \in Node /\ d.id.n \in Nat
      BY <3>1, Now DEF AnyCopy
    <3>5. \A e \in Relaying(copies') : e.id = d.id /\ e.node = d.node => e = d
      BY <1>5, <1>9, <3>1 DEF IInv, OneRelay
    <3>6. QED
      BY <3>2, <3>3, <3>4, <3>5
  <2>3. QED
    BY <2>1, <2>2
<1>11. OneRelay'
  BY <1>10 DEF OneRelay
<1>12. RelayedOnce'
  BY DEF IInv, RelayedOnce, Typing
<1>13. Proposals(copies)'
  BY <1>1, <1>3, <1>7 DEF IInv, Proposals
<1>14. QED
  BY <1>8, <1>11, <1>12, <1>13 DEF IInv

-----------------------------------------------------------------------------
(* The actions. *)

LEMMA StepStart ==
  ASSUME IInv, NEW c \in DOMAIN copies, Start(c) \/ LookUp(c) \/ MarkSeen(c) \/ Lose(c)
  PROVE  IInv'
<1>1. UNCHANGED <<store, relayed>>
  BY DEF Start, LookUp, MarkSeen, Lose
<1>2. c \in AnyCopy
  BY Now
<1>3. \E S \in SUBSET AnyCopy :
        /\ copies' = Without(c) (+) SetToBag(S) \/ copies' = Without(c)
        /\ \A d \in S : d.id = c.id /\ d.at # "relay"
  <2>1. CASE Start(c)
    <3>1. PICK S \in SUBSET AnyCopy : /\ Wire(c.id, c.node, NoSender, c.ttl) = SetToBag(S)
                                      /\ \A d \in S : d.at = "wire" /\ d.id = c.id
      BY <1>2, Wired DEF AnyCopy
    <3>2. QED
      BY <2>1, <3>1 DEF Start
  <2>2. ASSUME NEW w \in {"unseen", "marked"}, Moves(c, w)
        PROVE  \E S \in SUBSET AnyCopy :
                 /\ copies' = Without(c) (+) SetToBag(S)
                 /\ \A d \in S : d.id = c.id /\ d.at # "relay"
    <3> DEFINE r == [c EXCEPT !.at = w]
    <3>1. r \in AnyCopy /\ r.id = c.id /\ r.at # "relay"
      BY <1>2 DEF AnyCopy
    <3>2. copies' = Without(c) (+) SetToBag({r})
      BY <2>2 DEF Moves
    <3> HIDE DEF r
    <3>3. QED
      BY <3>1, <3>2
  <2>3. CASE copies' = Without(c)
    <3>1. {} \in SUBSET AnyCopy
      OBVIOUS
    <3>2. QED
      BY <2>3, <3>1
  <2>4. QED
    BY <2>1, <2>2, <2>3 DEF LookUp, MarkSeen, Lose
<1>4. QED
  BY <1>1, <1>3, StoreFrame, Replaces

LEMMA StepHandleMessage ==
  ASSUME IInv, NEW c \in DOMAIN copies, HandleMessage(c)
  PROVE  IInv'
<1> DEFINE r == [c EXCEPT !.at = "relay"]
<1>1. c \in AnyCopy /\ UNCHANGED <<store, relayed>> /\ c.id.type = "msg"
  BY Now DEF HandleMessage
<1>2. r \in AnyCopy /\ r.id = c.id
  BY <1>1 DEF AnyCopy
<1>3. copies' = Without(c) (+) SetToBag({r})
  BY DEF HandleMessage, Moves
<1> HIDE DEF r
<1>4. {r} \in SUBSET AnyCopy /\ \A d \in {r} : d.id = c.id /\ d.id.type # "block"
  BY <1>1, <1>2
<1>5. QED
  BY <1>1, <1>3, <1>4, StoreFrame, Replaces

LEMMA StepHandleBlock ==
  ASSUME IInv, NEW c \in DOMAIN copies, HandleBlock(c)
  PROVE  IInv'
<1> DEFINE n == c.node
           h == c.id.n
<1>1. c.id.type = "block" /\ UNCHANGED relayed /\ n \in Node /\ h \in Nat
  BY Now DEF HandleBlock, AnyCopy
<1>2. h <= height[Leader] /\ height[n] \in Nat /\ height[Leader] \in Nat /\ Leader \in Node
  BY <1>1, Now, GossipAssumption DEF IInv, Proposals, Typing
<1>3. pending \in [Node -> SUBSET Nat] /\ \A m \in Node : IsFiniteSet(pending[m])
  BY DEF IInv, Typing
<1> HIDE DEF n, h
<1>4. CASE Successor(h, n) /\ Advance(h, n) /\ Moves(c, "relay")
  <2>1. h = height[n] + 1 /\ n # Leader /\ ~Handled(n, h)
    BY <1>1, <1>2, <1>4 DEF Successor, Handled, IInv, Gaps
  <2>2. /\ height' \in [Node -> Nat]
        /\ pending' \in [Node -> SUBSET Nat] /\ \A m \in Node : IsFiniteSet(pending'[m])
        /\ Handled(n, h)'
        /\ \A m \in Node : \A k \in Nat : Handled(m, k) => Handled(m, k)'
        /\ Gaps' /\ height'[Leader] = height[Leader]
    BY <1>1, <1>4, <2>1, Advances DEF IInv
  <2>3. QED
    BY <1>1, <1>4, <2>1, <2>2, NewRelay DEF n, h
<1>5. CASE /\ Bufferable(h, n) /\ pending' = [pending EXCEPT ![n] = @ \cup {h}]
           /\ Moves(c, "relay") /\ UNCHANGED height
  <2>1. h >= height[n] + 2 /\ h \notin pending[n] /\ n # Leader
    BY <1>1, <1>2, <1>5, GossipAssumption DEF Bufferable
  <2>2. ~Handled(n, h)
    BY <1>1, <1>2, <2>1 DEF Handled
  <2>3. IsFiniteSet(pending[n] \cup {h})
    BY <1>1, <1>3, FS_AddElement
  <2>4. /\ pending' \in [Node -> SUBSET Nat] /\ pending'[n] = pending[n] \cup {h}
        /\ \A m \in Node \ {n} : pending'[m] = pending[m]
    BY <1>1, <1>3, <1>5
  <2>5. height' = height /\ height \in [Node -> Nat] /\ \A m \in Node : IsFiniteSet(pending'[m])
    BY <1>3, <1>5, <2>3, <2>4 DEF IInv, Typing
  <2>6. \A m \in Node : \A k \in Nat : Handled(m, k) => Handled(m, k)'
    BY <1>1, <2>4, <2>5 DEF Handled
  <2>7. Handled(n, h)'
    BY <1>1, <2>4 DEF Handled
  <2>8. Gaps'
    <3>1. height[n] + 1 # h
      BY <1>1, <1>2, <2>1
    <3>2. QED
      BY <1>1, <1>2, <2>1, <2>4, <2>5, <3>1 DEF IInv, Gaps
  <2>9. QED
    BY <1>1, <1>5, <2>2, <2>4, <2>5, <2>6, <2>7, <2>8, NewRelay DEF n, h
<1>6. CASE copies' = Without(c) /\ UNCHANGED store
  <2>1. {} \in SUBSET AnyCopy
    OBVIOUS
  <2>2. QED
    BY <1>1, <1>6, <2>1, StoreFrame, Replaces
<1>7. QED
  BY <1>4, <1>5, <1>6 DEF HandleBlock, n, h

LEMMA StepForward ==
  ASSUME IInv, NEW c \in DOMAIN copies, Forward(c)
  PROVE  IInv'
<1> DEFINE n == c.node
           h == c.id.n
           t == c.ttl - 1
<1>1. /\ c \in AnyCopy /\ n \in Node /\ h \in Nat /\ t \in Int /\ c.at = "relay"
      /\ c.id \in [type : {"block", "msg"}, n : Nat] /\ UNCHANGED store
  BY Now DEF Forward, AnyCopy
<1>2. PICK S \in SUBSET AnyCopy : /\ Wire(c.id, n, c.via, t) = SetToBag(S)
                                  /\ \A d \in S : d.at = "wire" /\ d.id = c.id
  BY <1>1, Wired
<1> HIDE DEF n, h, t
<1>3. CASE UNCHANGED relayed
  <2>1. copies' = Without(c) (+) SetToBag(S) \/ copies' = Without(c)
    BY <1>2 DEF Forward, NextTTL, n, t
  <2>2. QED
    BY <1>1, <1>2, <1>3, <2>1, StoreFrame, Replaces
<1>4. CASE /\ c.id.type = "block" /\ copies' = Without(c) (+) SetToBag(S)
           /\ relayed' = [relayed EXCEPT ![n] = @ (+) SetToBag({h})]
  <2> DEFINE W == Without(c)
  <2>1. c \in Relaying(copies) /\ copies[c] = 1 /\ h \notin DOMAIN relayed[n] /\ Handled(n, h)
    BY <1>1, <1>4 DEF Relaying, IInv, OneRelay, n, h
  <2>2. /\ DOMAIN W \subseteq DOMAIN copies /\ Counts(W) /\ c \notin DOMAIN W
        /\ \A d \in DOMAIN W : W[d] <= copies[d]
    BY <2>1, Now, Taking DEF Without
  <2> HIDE DEF W
  <2>3. DOMAIN copies' = DOMAIN W \cup S /\ Counts(copies')
        /\ \A d \in DOMAIN W \ S : copies'[d] = W[d]
    BY <1>4, <2>2, Adding DEF W
  <2>4. ASSUME NEW d \in Relaying(copies')
        PROVE  d \in Relaying(copies) /\ d # c /\ copies'[d] = 1
    <3>1. d \in DOMAIN W \ S
      BY <1>2, <2>3, <2>4 DEF Relaying
    <3>2. d \in Relaying(copies) /\ d # c
      BY <2>2, <2>4, <3>1 DEF Relaying
    <3>3. copies[d] = 1
      BY <3>2 DEF IInv, OneRelay
    <3>4. QED
      BY <2>2, <2>3, <3>1, <3>2, <3>3 DEF Counts
  <2>5. Counts(relayed[n])
    BY <1>1 DEF IInv, RelayedOnce, Counts
  <2>6. /\ DOMAIN relayed' = Node
        /\ relayed'[n] = relayed[n] (+) SetToBag({h})
        /\ \A m \in Node \ {n} : relayed'[m] = relayed[m]
    BY <1>1, <1>4 DEF IInv, Typing
  <2>7. /\ DOMAIN relayed'[n] = DOMAIN relayed[n] \cup {h}
        /\ \A k \in DOMAIN relayed[n] : relayed'[n][k] = relayed[n][k]
        /\ relayed'[n][h] = 1
    <3>1. LET B == relayed[n] (+) SetToBag({h})
          IN /\ DOMAIN B = DOMAIN relayed[n] \cup {h}
             /\ \A k \in DOMAIN relayed[n] \ {h} : B[k] = relayed[n][k]
             /\ \A k \in {h} \ DOMAIN relayed[n] : B[k] = 1
      BY ONLY <2>5, Adding
    <3>2. QED
      BY ONLY <2>1, <2>6, <3>1
  <2>8. relayed' = [m \in Node |-> relayed'[m]]
    BY <1>4 DEF IInv, Typing
  <2>9. Typing'
    <3>1. height' \in [Node -> Nat] /\ pending' \in [Node -> SUBSET Nat]
          /\ \A m \in Node : IsFiniteSet(pending'[m])
      BY <1>1, StoreFrame
    <3>2. DOMAIN copies' \subseteq AnyCopy
      BY <2>2, <2>3, Now
    <3>3. \A m \in Node : DOMAIN relayed'[m] \subseteq Nat
      BY <1>1, <2>6, <2>7 DEF IInv, Typing
    <3>4. QED
      BY <2>3, <2>6, <2>8, <3>1, <3>2, <3>3 DEF Typing
  <2>10. ASSUME NEW m \in Node, NEW k \in Nat PROVE Handled(m, k)' <=> Handled(m, k)
    BY <1>1 DEF Handled, store
  <2>11. OneRelay'
    <3> SUFFICES ASSUME NEW d \in Relaying(copies')
                 PROVE  /\ copies'[d] = 1
                        /\ Handled(d.node, d.id.n)'
                        /\ d.id.n \notin DOMAIN relayed'[d.node]
                        /\ \A e \in Relaying(copies') : e.id = d.id /\ e.node = d.node => e = d
      BY DEF OneRelay
    <3>1. d \in Relaying(copies) /\ d # c /\ copies'[d] = 1
      BY <2>4
    <3>2. Handled(d.node, d.id.n) /\ d.id.n \notin DOMAIN relayed[d.node]
      BY <3>1 DEF IInv, OneRelay
    <3>3. \A e \in Relaying(copies) : e.id = d.id /\ e.node = d.node => e = d
      BY <3>1 DEF IInv, OneRelay
    <3>4. d \in AnyCopy /\ d.node \in Node /\ d.id.n \in Nat /\ d.id.type = "block"
          /\ d.id \in [type : {"block", "msg"}, n : Nat]
      BY <3>1, Now DEF AnyCopy, Relaying
    <3>5. d.node # n \/ d.id.n # h
      <4> SUFFICES ASSUME d.node = n, d.id.n = h PROVE FALSE
        OBVIOUS
      <4>1. d.id = c.id
        BY <1>1, <1>4, <3>4 DEF h
      <4>2. QED
        BY <2>1, <3>1, <3>3, <4>1 DEF n
    <3>6. d.id.n \notin DOMAIN relayed'[d.node]
      BY <2>6, <2>7, <3>2, <3>4, <3>5
    <3>7. Handled(d.node, d.id.n)'
      BY <2>10, <3>2, <3>4
    <3>8. QED
      BY <2>4, <3>1, <3>3, <3>6, <3>7
  <2>12. RelayedOnce'
    <3> SUFFICES ASSUME NEW m \in Node, NEW k \in DOMAIN relayed'[m]
                 PROVE  relayed'[m][k] = 1 /\ Handled(m, k)'
      BY DEF RelayedOnce
    <3>1. k \in Nat
      BY <2>9 DEF Typing
    <3>2. CASE m = n
      BY <1>1, <2>1, <2>7, <2>10, <3>1, <3>2 DEF IInv, RelayedOnce
    <3>3. CASE m # n
      BY <2>6, <2>10, <3>1, <3>3 DEF IInv, RelayedOnce
    <3>4. QED
      BY <3>2, <3>3
  <2>13. Gaps' /\ height' = height
    BY <1>1, StoreFrame DEF store
  <2>14. Proposals(copies)'
    BY <1>2, <2>2, <2>3, <2>13 DEF IInv, Proposals
  <2>15. QED
    BY <2>9, <2>11, <2>12, <2>13, <2>14 DEF IInv
<1>5. QED
  BY <1>2, <1>3, <1>4 DEF Forward, NextTTL, n, h, t

\* A message sets out from n; the proposer may have made a block before.
LEMMA StepLaunch ==
  ASSUME IInv, NEW id \in [type : {"block", "msg"}, n : Nat], NEW n \in Node,
         Launch(id, n), UNCHANGED <<pending, relayed>>, UNCHANGED height \/ Proposed,
         id.type = "block" => id.n <= height'[Leader]
  PROVE  IInv'
<1> DEFINE r == Origin(id, n)
<1>1. r \in AnyCopy /\ r.at = "origin" /\ r.id = id
  BY GossipAssumption DEF Origin, AnyCopy
<1>2. copies' = copies (+) SetToBag({r})
  BY DEF Launch
<1> HIDE DEF r
<1>3. /\ DOMAIN copies' = DOMAIN copies \cup {r} /\ Counts(copies')
      /\ \A d \in DOMAIN copies \ {r} : copies'[d] = copies[d]
  BY <1>2, Now, Adding
<1>4. /\ height' \in [Node -> Nat] /\ height'[Leader] >= height[Leader]
      /\ \A m \in Node : height'[m] >= height[m] /\ (m # Leader => height'[m] = height[m])
      /\ Leader \in Node
  BY GossipAssumption DEF IInv, Typing, Proposed
<1>5. \A m \in Node : \A k \in Nat : Handled(m, k) => Handled(m, k)'
  <2> SUFFICES ASSUME NEW m \in Node, NEW k \in Nat, Handled(m, k) PROVE Handled(m, k)'
    OBVIOUS
  <2>1. height[m] \in Nat /\ height'[m] \in Nat /\ height'[m] >= height[m]
    BY <1>4 DEF IInv, Typing
  <2>2. QED
    BY <2>1 DEF Handled
<1>6. Typing'
  BY <1>1, <1>3, <1>4 DEF IInv, Typing
<1>7. Gaps'
  BY <1>4 DEF IInv, Gaps
<1>8. Proposals(copies)'
  <2> SUFFICES ASSUME NEW d \in DOMAIN copies', d.id.type = "block"
               PROVE  d.id.n <= height'[Leader]
    BY DEF Proposals
  <2>1. CASE d = r
    BY <1>1, <2>1
  <2>2. CASE d \in DOMAIN copies
    <3>1. d.id.n <= height[Leader] /\ d.id.n \in Nat
      BY <2>2, Now DEF IInv, Proposals, AnyCopy
    <3>2. height[Leader] \in Nat /\ height'[Leader] \in Nat
      BY <1>4 DEF IInv, Typing
    <3>3. QED
      BY <1>4, <3>1, <3>2
  <2>3. QED
    BY <1>3, <2>1, <2>2
<1>9. \A c \in Relaying(copies') : c \in Relaying(copies) /\ copies'[c] <= copies[c]
  <2> SUFFICES ASSUME NEW c \in Relaying(copies')
               PROVE  c \in Relaying(copies) /\ copies'[c] <= copies[c]
    OBVIOUS
  <2>1. c \in DOMAIN copies \ {r} /\ c \in Relaying(copies)
    BY <1>1, <1>3 DEF Relaying
  <2>2. copies'[c] = copies[c] /\ copies[c] \in Nat
    BY <1>3, <2>1, Now DEF Counts
  <2>3. QED
    BY <2>1, <2>2
<1>10. QED
  BY <1>5, <1>6, <1>7, <1>8, <1>9, NoNewRelay

LEMMA StepAnnounce ==
  ASSUME IInv, NEW n \in Node, Announce(n), sent \in Nat
  PROVE  IInv'
<1>1. /\ Launch([type |-> "msg", n |-> sent'], n) /\ sent' \in Nat
      /\ UNCHANGED <<height, pending, relayed>>
  BY DEF Announce, store
<1>2. QED
  BY <1>1, StepLaunch

LEMMA StepProposeTick ==
  ASSUME IInv, ProposeTick
  PROVE  IInv'
<1> DEFINE h == height[Leader] + 1
<1>1. Leader \in Node /\ h \in Nat /\ height'[Leader] = h
  BY GossipAssumption DEF ProposeTick, Proposed, IInv, Typing
<1>2. /\ Launch([type |-> "block", n |-> h], Leader) /\ Proposed
      /\ UNCHANGED <<pending, relayed>>
  BY DEF ProposeTick
<1> HIDE DEF h
<1>3. h <= height'[Leader]
  BY <1>1
<1>4. QED
  BY <1>1, <1>2, <1>3, StepLaunch

\* The store of one node changes while no copy moves.
LEMMA StoreStep ==
  ASSUME IInv, UNCHANGED <<copies, relayed>>,
         height' \in [Node -> Nat], pending' \in [Node -> SUBSET Nat],
         \A n \in Node : IsFiniteSet(pending'[n]),
         \A n \in Node : \A h \in Nat : Handled(n, h) => Handled(n, h)',
         Gaps', height'[Leader] >= height[Leader]
  PROVE  IInv'
<1>1. Typing'
  BY Now, TypingLater
<1>2. Proposals(copies)'
  <2> SUFFICES ASSUME NEW d \in DOMAIN copies, d.id.type = "block"
               PROVE  d.id.n <= height'[Leader]
    BY DEF Proposals
  <2>1. d.id.n <= height[Leader] /\ d.id.n \in Nat
    BY Now DEF IInv, Proposals, AnyCopy
  <2>2. height[Leader] \in Nat /\ height'[Leader] \in Nat
    BY GossipAssumption DEF IInv, Typing
  <2>3. QED
    BY <2>1, <2>2
<1>3. \A c \in Relaying(copies') : c \in Relaying(copies) /\ copies'[c] <= copies[c]
  BY Now DEF Counts
<1>4. QED
  BY <1>1, <1>2, <1>3, NoNewRelay

LEMMA StepProposeBroadcast ==
  ASSUME IInv, ProposeBroadcast
  PROVE  IInv'
<1>1. Proposed /\ UNCHANGED <<pending, copies, relayed>>
  BY DEF ProposeBroadcast
<1>2. /\ height' \in [Node -> Nat] /\ height'[Leader] >= height[Leader]
      /\ \A m \in Node : height'[m] >= height[m] /\ (m # Leader => height'[m] = height[m])
      /\ Leader \in Node
  BY <1>1, GossipAssumption DEF IInv, Typing, Proposed
<1>3. \A m \in Node : \A k \in Nat : Handled(m, k) => Handled(m, k)'
  <2> SUFFICES ASSUME NEW m \in Node, NEW k \in Nat, Handled(m, k) PROVE Handled(m, k)'
    OBVIOUS
  <2>1. height[m] \in Nat /\ height'[m] \in Nat /\ height'[m] >= height[m]
    BY <1>2 DEF IInv, Typing
  <2>2. QED
    BY <1>1, <2>1 DEF Handled
<1>4. Gaps'
  BY <1>1, <1>2 DEF IInv, Gaps
<1>5. pending' \in [Node -> SUBSET Nat] /\ \A n \in Node : IsFiniteSet(pending'[n])
  BY <1>1 DEF IInv, Typing
<1>6. QED
  BY <1>1, <1>2, <1>3, <1>4, <1>5, StoreStep

LEMMA StepSyncBlock ==
  ASSUME IInv, NEW n \in Node, SyncBlock(n)
  PROVE  IInv'
<1>1. /\ Advance(height[n] + 1, n) /\ UNCHANGED <<copies, relayed>>
      /\ height[n] < height[Leader]
  BY DEF SyncBlock
<1>2. n # Leader /\ height[n] + 1 \in Nat /\ Leader \in Node /\ height[Leader] \in Nat
  BY <1>1, GossipAssumption DEF IInv, Typing
<1>3. /\ height' \in [Node -> Nat]
      /\ pending' \in [Node -> SUBSET Nat] /\ \A m \in Node : IsFiniteSet(pending'[m])
      /\ \A m \in Node : \A k \in Nat : Handled(m, k) => Handled(m, k)'
      /\ Gaps' /\ height'[Leader] = height[Leader]
  BY <1>1, <1>2, Advances DEF IInv
<1>4. height'[Leader] >= height[Leader]
  BY <1>2, <1>3
<1>5. QED
  BY <1>1, <1>3, <1>4, StoreStep

LEMMA StepStutter ==
  ASSUME IInv, UNCHANGED vars
  PROVE  IInv'
BY DEF vars, store, IInv, Typing, OneRelay, RelayedOnce, Gaps, Proposals, Counts, Relaying,
       Handled

-----------------------------------------------------------------------------

Inv == IInv /\ sent \in Nat

LEMMA InvInit == Init => Inv
<1> SUFFICES ASSUME Init PROVE Inv
  OBVIOUS
<1>1. DOMAIN copies = {} /\ \A n \in Node : DOMAIN relayed[n] = {}
  BY DEF Init, EmptyBag, SetToBag
<1>2. Typing
  BY <1>1, FS_EmptySet DEF Init, Typing, Counts
<1>3. OneRelay /\ RelayedOnce /\ Proposals(copies)
  BY <1>1 DEF OneRelay, Relaying, RelayedOnce, Proposals
<1>4. Gaps
  BY GossipAssumption DEF Init, Gaps
<1>5. QED
  BY <1>2, <1>3, <1>4 DEF Init, IInv, Inv

LEMMA InvNext == Inv /\ [Next]_vars => Inv'
<1> SUFFICES ASSUME Inv, [Next]_vars PROVE Inv'
  OBVIOUS
<1>1. sent' \in Nat
  <2>1. sent \in Nat
    BY DEF Inv
  <2>2. CASE ProposeTick \/ ProposeBroadcast
    BY <2>1, <2>2 DEF ProposeTick, ProposeBroadcast
  <2>3. ASSUME NEW n \in Node, Announce(n) \/ SyncBlock(n) PROVE sent' \in Nat
    <3>1. CASE Announce(n)
      BY <2>1, <3>1 DEF Announce
    <3>2. CASE SyncBlock(n)
      BY <2>1, <3>2 DEF SyncBlock
    <3>3. QED
      BY <2>3, <3>1, <3>2
  <2>4. ASSUME NEW c \in DOMAIN copies, Handle(c) \/ Lose(c) PROVE sent' = sent
    <3>1. CASE Start(c) \/ LookUp(c) \/ MarkSeen(c)
      BY <3>1 DEF Start, LookUp, MarkSeen
    <3>2. CASE HandleBlock(c)
      BY <3>2 DEF HandleBlock
    <3>3. CASE HandleMessage(c) \/ Forward(c) \/ Lose(c)
      BY <3>3 DEF HandleMessage, Forward, Lose
    <3>4. QED
      BY <2>4, <3>1, <3>2, <3>3 DEF Handle
  <2>5. CASE UNCHANGED vars
    BY <2>1, <2>5 DEF vars
  <2>6. QED
    BY <2>1, <2>2, <2>3, <2>4, <2>5 DEF Next, BagToSet
<1>2. CASE ProposeTick \/ ProposeBroadcast
  BY <1>1, <1>2, StepProposeTick, StepProposeBroadcast DEF Inv
<1>3. ASSUME NEW n \in Node, Announce(n) \/ SyncBlock(n) PROVE Inv'
  BY <1>1, <1>3, StepAnnounce, StepSyncBlock DEF Inv
<1>4. ASSUME NEW c \in DOMAIN copies, Handle(c) \/ Lose(c) PROVE Inv'
  BY <1>1, <1>4, StepStart, StepHandleBlock, StepHandleMessage, StepForward DEF Inv, Handle
<1>5. CASE UNCHANGED vars
  BY <1>1, <1>5, StepStutter DEF Inv
<1>6. QED
  BY <1>2, <1>3, <1>4, <1>5 DEF Next, BagToSet

\* handleIncoming passes a block on once per node, however copies race between the
\* look-up in m.seen and markSeen and whatever its cap has forgotten: the lock of the
\* chain accepts a block once.
THEOREM RelaysOnce == Spec => []BlockRelayedOnce
<1>1. Inv => BlockRelayedOnce
  BY DEF Inv, IInv, RelayedOnce, BlockRelayedOnce, BagToSet
<1>2. QED
  BY <1>1, InvInit, InvNext, PTL DEF Spec

-----------------------------------------------------------------------------
(* m.seen. *)

\* RemoveFirst on a sequence without repetitions.
LEMMA Removed ==
  ASSUME NEW S, NEW s \in Seq(S), IsInjective(s), NEW e
  PROVE  LET r == RemoveFirst(s, e)
         IN /\ r \in Seq(S) /\ Len(r) <= Len(s) /\ IsInjective(r)
            /\ \A i \in 1 .. Len(r) : r[i] # e
<1>1. CASE \A i \in 1 .. Len(s) : s[i] # e
  <2>1. RemoveFirst(s, e) = s
    BY <1>1 DEF RemoveFirst
  <2>2. QED
    BY <1>1, <2>1
<1>2. ASSUME NEW j \in 1 .. Len(s), s[j] = e
      PROVE  LET r == RemoveFirst(s, e)
             IN /\ r \in Seq(S) /\ Len(r) <= Len(s) /\ IsInjective(r)
                /\ \A i \in 1 .. Len(r) : r[i] # e
  <2> DEFINE I == {i \in 1 .. Len(s) : s[i] = e}
             r == SubSeq(s, 1, j - 1) \o SubSeq(s, j + 1, Len(s))
  <2>0. DOMAIN s = 1 .. Len(s) /\ Len(s) \in Nat
    OBVIOUS
  <2>1. I = {j}
    BY <1>2, <2>0 DEF IsInjective
  <2>2. Min({j}) = j
    BY DEF Min
  <2>3. SelectInSeq(s, LAMBDA v : v = e) = j
    BY <2>1, <2>2 DEF SelectInSeq
  <2>4. RemoveFirst(s, e) = r
    BY <1>2, <2>3 DEF RemoveFirst, RemoveAt
  <2>5. PICK a, b : a = SubSeq(s, 1, j - 1) /\ b = SubSeq(s, j + 1, Len(s))
    OBVIOUS
  <2>6. /\ a \in Seq(S) /\ b \in Seq(S) /\ Len(a) = j - 1 /\ Len(b) = Len(s) - j
        /\ \A i \in 1 .. j - 1 : a[i] = s[i]
        /\ \A i \in 1 .. Len(s) - j : b[i] = s[j + i]
    <3>1. j \in Int /\ Len(s) \in Int /\ \A i \in 1 .. Len(s) : s[i] \in S
      BY <2>0
    <3>2. /\ a \in Seq(S) /\ Len(a) = IF 1 <= j - 1 THEN j - 1 - 1 + 1 ELSE 0
          /\ \A i \in 1 .. j - 1 - 1 + 1 : a[i] = s[1 + i - 1]
      BY <2>0, <2>5, <3>1, SubSeqProperties
    <3>3. /\ b \in Seq(S) /\ Len(b) = IF j + 1 <= Len(s) THEN Len(s) - (j + 1) + 1 ELSE 0
          /\ \A i \in 1 .. Len(s) - (j + 1) + 1 : b[i] = s[j + 1 + i - 1]
      BY <2>0, <2>5, <3>1, SubSeqProperties
    <3>4. Len(a) = j - 1 /\ Len(b) = Len(s) - j
      <4>1. j \in Nat /\ j >= 1 /\ j <= Len(s) /\ Len(s) \in Nat
        BY <2>0
      <4>2. Len(a) = IF 1 <= j - 1 THEN j - 1 - 1 + 1 ELSE 0
        BY <3>2
      <4>3. Len(b) = IF j + 1 <= Len(s) THEN Len(s) - (j + 1) + 1 ELSE 0
        BY <3>3
      <4>4. QED
        BY ONLY <4>1, <4>2, <4>3
    <3>5. \A i \in 1 .. j - 1 : a[i] = s[i]
      BY <3>1, <3>2
    <3>6. \A i \in 1 .. Len(s) - j : b[i] = s[j + i]
      <4>1. \A i \in 1 .. Len(s) - j : i \in 1 .. Len(s) - (j + 1) + 1 /\ j + 1 + i - 1 = j + i
        BY <2>0
      <4>2. QED
        BY <3>3, <4>1
    <3>7. QED
      BY <3>2, <3>3, <3>4, <3>5, <3>6
  <2>7. /\ r = a \o b /\ r \in Seq(S) /\ Len(r) = Len(s) - 1
        /\ \A i \in 1 .. Len(r) : r[i] = s[IF i < j THEN i ELSE i + 1]
    <3>1. r = a \o b
      BY <2>5
    <3> HIDE DEF r
    <3>2. /\ r \in Seq(S) /\ Len(r) = Len(a) + Len(b)
          /\ \A i \in 1 .. Len(a) + Len(b) : r[i] = IF i <= Len(a) THEN a[i] ELSE b[i - Len(a)]
      BY <2>6, <3>1, ConcatProperties
    <3>3. Len(r) = Len(s) - 1
      BY <2>0, <2>6, <3>2
    <3>4. ASSUME NEW i \in 1 .. Len(r) PROVE r[i] = s[IF i < j THEN i ELSE i + 1]
      <4>1. CASE i < j
        <5>1. i \in 1 .. j - 1 /\ i <= Len(a) /\ i \in 1 .. Len(a) + Len(b)
          BY <2>0, <2>6, <3>2, <4>1
        <5>2. QED
          BY <2>6, <3>2, <4>1, <5>1
      <4>2. CASE ~(i < j)
        <5>1. /\ i - Len(a) \in 1 .. Len(s) - j /\ ~(i <= Len(a)) /\ i \in 1 .. Len(a) + Len(b)
              /\ j + (i - Len(a)) = i + 1
          BY <2>0, <2>6, <3>2, <4>2
        <5>2. QED
          BY <2>6, <3>2, <4>2, <5>1
      <4>3. QED
        BY <4>1, <4>2
    <3>5. QED
      BY <3>1, <3>2, <3>3, <3>4
  <2>8. DOMAIN r = 1 .. Len(r) /\ Len(r) \in Nat
    BY <2>7
  <2> HIDE DEF r
  <2>9. \A i \in 1 .. Len(r) : (IF i < j THEN i ELSE i + 1) \in 1 .. Len(s)
    <3>1. Len(r) = Len(s) - 1 /\ Len(s) \in Nat /\ j \in Nat /\ j >= 1 /\ j <= Len(s)
      BY <2>0, <2>7
    <3>2. QED
      BY ONLY <3>1
  <2>10. \A i \in 1 .. Len(r) : r[i] # e
    <3> SUFFICES ASSUME NEW i \in 1 .. Len(r), r[i] = e PROVE FALSE
      OBVIOUS
    <3>1. PICK k \in 1 .. Len(s) : k = (IF i < j THEN i ELSE i + 1)
      BY <2>9
    <3>2. s[k] = e /\ k # j
      BY <2>7, <3>1
    <3>3. QED
      BY <1>2, <2>0, <3>2 DEF IsInjective
  <2>11. IsInjective(r)
    <3> SUFFICES ASSUME NEW x \in 1 .. Len(r), NEW y \in 1 .. Len(r), r[x] = r[y] PROVE x = y
      BY <2>8 DEF IsInjective
    <3>1. PICK k \in 1 .. Len(s) : k = (IF x < j THEN x ELSE x + 1)
      BY <2>9
    <3>2. PICK l \in 1 .. Len(s) : l = (IF y < j THEN y ELSE y + 1)
      BY <2>9
    <3>3. s[k] = s[l]
      BY <2>7, <3>1, <3>2
    <3>4. k = l
      BY <2>0, <3>3 DEF IsInjective
    <3>5. QED
      BY <3>1, <3>2, <3>4
  <2>12. QED
    BY <2>0, <2>4, <2>7, <2>10, <2>11
<1>3. QED
  BY <1>1, <1>2

-----------------------------------------------------------------------------
(***************************************************************************)
(* Types.  The ids under way are those of blocks up to MaxHeight and of    *)
(* messages up to MaxMessages, so that no height beyond MaxHeight is       *)
(* reached or buffered; and m.seen, which has no id twice, stays within    *)
(* its cap.                                                                *)
(***************************************************************************)
Ats == {"origin", "wire", "unseen", "marked", "relay"}

SeenTyped(ids) == ids \in Seq(Ids) /\ Len(ids) <= SeenMax /\ IsInjective(ids)
StoreTyped ==
  height \in [Node -> 0 .. MaxHeight] /\ pending \in [Node -> SUBSET (1 .. MaxHeight)]
TableTyped == DOMAIN seen = Node /\ \A n \in Node : SeenTyped(seen[n])
CopiesTyped == DOMAIN copies \subseteq Copy /\ IsABag(copies)
RestTyped ==
  /\ sent \in 0 .. MaxMessages
  /\ missed \in [lost : 0 .. MaxLosses, synced : BOOLEAN, unsent : BOOLEAN]

Typed == StoreTyped /\ TableTyped /\ CopiesTyped /\ RestTyped

\* markSeen keeps m.seen within its cap.
LEMMA MarkedTyped ==
  ASSUME NEW ids, SeenTyped(ids), NEW id \in Ids
  PROVE  SeenTyped(Marked(ids, id))
<1>1. PICK r : /\ r = RemoveFirst(ids, id) /\ r \in Seq(Ids) /\ Len(r) <= Len(ids)
               /\ IsInjective(r) /\ \A i \in 1 .. Len(r) : r[i] # id
  BY Removed DEF SeenTyped
<1>2. PICK all : /\ all = Append(r, id) /\ all \in Seq(Ids) /\ Len(all) = Len(r) + 1
                 /\ all[Len(r) + 1] = id /\ \A i \in 1 .. Len(r) : all[i] = r[i]
  <2> DEFINE all == Append(r, id)
  <2>1. /\ all \in Seq(Ids) /\ Len(all) = Len(r) + 1
        /\ all[Len(r) + 1] = id /\ \A i \in 1 .. Len(r) : all[i] = r[i]
    BY <1>1, AppendProperties
  <2> HIDE DEF all
  <2>2. QED
    BY <2>1 DEF all
<1>3. DOMAIN r = 1 .. Len(r) /\ DOMAIN all = 1 .. Len(all) /\ Len(r) \in Nat /\ Len(ids) \in Nat
  BY <1>1, <1>2 DEF SeenTyped
<1>4. \A i, j \in 1 .. Len(all) : all[i] = all[j] => i = j
  <2> SUFFICES ASSUME NEW i \in 1 .. Len(all), NEW j \in 1 .. Len(all), all[i] = all[j]
               PROVE  i = j
    OBVIOUS
  <2>1. \A k \in 1 .. Len(all) : k \in 1 .. Len(r) \/ k = Len(r) + 1
    BY <1>2, <1>3
  <2>2. CASE i \in 1 .. Len(r) /\ j \in 1 .. Len(r)
    BY <1>1, <1>2, <1>3, <2>2 DEF IsInjective
  <2>3. CASE i \in 1 .. Len(r) /\ j = Len(r) + 1
    BY <1>1, <1>2, <2>3
  <2>4. CASE i = Len(r) + 1 /\ j \in 1 .. Len(r)
    BY <1>1, <1>2, <2>4
  <2>5. CASE i = Len(r) + 1 /\ j = Len(r) + 1
    BY <2>5
  <2>6. QED
    BY <2>1, <2>2, <2>3, <2>4, <2>5
<1>5. Marked(ids, id) = IF Len(all) > SeenMax THEN Tail(all) ELSE all
  BY <1>1, <1>2 DEF Marked
<1>6. CASE Len(all) > SeenMax
  <2>1. PICK t : /\ t = Tail(all) /\ t \in Seq(Ids) /\ Len(t) = Len(all) - 1
                 /\ \A i \in 1 .. Len(t) : t[i] = all[i + 1]
    <3>1. all \in Seq(Ids) /\ all # <<>>
      BY <1>2, <1>3
    <3>2. QED
      BY <3>1, HeadTailProperties
  <2>2. Len(t) <= SeenMax
    BY <1>1, <1>2, <1>3, <2>1, GossipAssumption DEF SeenTyped
  <2>3. IsInjective(t)
    <3> SUFFICES ASSUME NEW i \in 1 .. Len(t), NEW j \in 1 .. Len(t), t[i] = t[j]
                 PROVE  i = j
      BY <2>1 DEF IsInjective
    <3>1. i + 1 \in 1 .. Len(all) /\ j + 1 \in 1 .. Len(all) /\ all[i + 1] = all[j + 1]
      BY <1>2, <1>3, <2>1
    <3>2. i + 1 = j + 1
      BY <1>4, <3>1
    <3>3. QED
      BY <3>2
  <2>4. QED
    BY <1>5, <1>6, <2>1, <2>2, <2>3 DEF SeenTyped
<1>7. CASE ~(Len(all) > SeenMax)
  <2>1. Len(all) <= SeenMax
    BY <1>2, <1>3, <1>7, GossipAssumption
  <2>2. IsInjective(all)
    BY <1>3, <1>4 DEF IsInjective
  <2>3. QED
    BY <1>2, <1>5, <1>7, <2>1, <2>2 DEF SeenTyped
<1>8. QED
  BY <1>6, <1>7

LEMMA MarksTyped ==
  ASSUME TableTyped, NEW n \in Node, NEW id \in Ids, seen' = [seen EXCEPT ![n] = Marked(@, id)]
  PROVE  TableTyped'
<1>1. SeenTyped(Marked(seen[n], id))
  BY MarkedTyped DEF TableTyped
<1>2. /\ DOMAIN seen' = Node
      /\ \A m \in Node : seen'[m] = IF m = n THEN Marked(seen[n], id) ELSE seen[m]
  BY DEF TableTyped
<1>3. QED
  BY <1>1, <1>2 DEF TableTyped

\* Bags of copies.
LEMMA Removes ==
  ASSUME NEW B, DOMAIN B \subseteq Copy, IsABag(B), NEW c \in DOMAIN B
  PROVE  LET W == B (-) SetToBag({c}) IN DOMAIN W \subseteq Copy /\ IsABag(W)
<1> DEFINE D == [e \in DOMAIN B |-> IF e \in {c} THEN B[e] - 1 ELSE B[e]]
           W == [e \in {d \in DOMAIN D : D[d] > 0} |-> D[e]]
<1>1. B (-) SetToBag({c}) = W
  BY DEF (-), SetToBag
<1>2. DOMAIN D = DOMAIN B /\ \A d \in DOMAIN B : D[d] \in Int
  BY DEF IsABag
<1>3. DOMAIN W \subseteq DOMAIN B /\ IsABag(W)
  <2> HIDE DEF D
  <2>1. QED
    BY <1>2 DEF IsABag
<1>4. QED
  BY <1>1, <1>3

LEMMA Adds ==
  ASSUME NEW B, DOMAIN B \subseteq Copy, IsABag(B), NEW S \in SUBSET Copy
  PROVE  LET W == B (+) SetToBag(S) IN DOMAIN W \subseteq Copy /\ IsABag(W)
<1> DEFINE W == [e \in DOMAIN B \cup S |-> (IF e \in DOMAIN B THEN B[e] ELSE 0)
                                           + (IF e \in S THEN 1 ELSE 0)]
<1>1. B (+) SetToBag(S) = W
  BY DEF (+), SetToBag
<1>2. DOMAIN W \subseteq Copy /\ IsABag(W)
  BY DEF IsABag
<1>3. QED
  BY <1>1, <1>2

\* A copy goes, and others come in its place.
LEMMA CopiesStep ==
  ASSUME CopiesTyped, NEW c \in DOMAIN copies,
         copies' = Without(c) \/ \E S \in SUBSET Copy : copies' = Without(c) (+) SetToBag(S)
  PROVE  CopiesTyped'
<1>1. PICK W : W = Without(c) /\ DOMAIN W \subseteq Copy /\ IsABag(W)
  BY Removes DEF CopiesTyped, Without
<1>2. CASE copies' = W
  BY <1>1, <1>2 DEF CopiesTyped
<1>3. ASSUME NEW S \in SUBSET Copy, copies' = W (+) SetToBag(S) PROVE CopiesTyped'
  BY <1>1, <1>3, Adds DEF CopiesTyped
<1>4. QED
  BY <1>1, <1>2, <1>3

LEMMA CopyNow ==
  ASSUME CopiesTyped, NEW c \in DOMAIN copies
  PROVE  /\ c.id \in Ids /\ c.node \in Node /\ c.via \in Node \cup {NoSender}
         /\ c.ttl \in 1 .. TTL /\ c \in Copy
BY DEF CopiesTyped, Copy

LEMMA MovesTyped ==
  ASSUME CopiesTyped, NEW c \in DOMAIN copies, NEW w \in Ats, Moves(c, w)
  PROVE  CopiesTyped'
<1>1. [c EXCEPT !.at = w] \in Copy
  BY CopyNow DEF Copy, Ats
<1>2. copies' = Without(c) (+) SetToBag({[c EXCEPT !.at = w]})
  BY DEF Moves
<1>3. PICK d \in Copy : d = [c EXCEPT !.at = w]
  BY <1>1
<1>4. {d} \in SUBSET Copy /\ copies' = Without(c) (+) SetToBag({d})
  BY <1>2, <1>3
<1>5. QED
  BY <1>4, CopiesStep

LEMMA WireTyped ==
  ASSUME NEW id \in Ids, NEW n \in Node, NEW via, NEW t \in 1 .. TTL
  PROVE  \E S \in SUBSET Copy : Wire(id, n, via, t) = SetToBag(S)
<1> DEFINE S == {[id |-> id, node |-> m, via |-> n, ttl |-> t, at |-> "wire"] :
                   m \in Peers[n] \ {n, via}}
<1>1. Peers[n] \subseteq Node
  BY GossipAssumption
<1>2. S \in SUBSET Copy
  BY <1>1 DEF Copy
<1>3. Wire(id, n, via, t) = SetToBag(S)
  BY DEF Wire
<1>4. QED
  BY <1>2, <1>3

LEMMA LaunchTyped ==
  ASSUME CopiesTyped, NEW id \in Ids, NEW n \in Node, Launch(id, n)
  PROVE  CopiesTyped'
<1>1. TTL \in 1 .. TTL
  BY GossipAssumption
<1>2. Origin(id, n) \in Copy
  BY <1>1 DEF Origin, Copy
<1>3. PICK S \in SUBSET Copy : copies' = copies (+) SetToBag(S)
  BY <1>2 DEF Launch
<1>4. QED
  BY <1>3, Adds DEF CopiesTyped

-----------------------------------------------------------------------------
(* The actions. *)

\* drainPendingLocked reaches no height but of a buffered block.
LEMMA DrainsTyped ==
  ASSUME Typing, StoreTyped, NEW n \in Node, NEW h \in 1 .. MaxHeight, Advance(h, n)
  PROVE  StoreTyped'
<1>1. h \in Nat /\ h <= MaxHeight
  BY GossipAssumption
<1>2. /\ Drained(h, n) \in Nat /\ Drained(h, n) >= h /\ h + 1 .. Drained(h, n) \subseteq pending[n]
  BY <1>1, DrainedAbove
<1>3. Drained(h, n) \in 0 .. MaxHeight
  <2>1. CASE Drained(h, n) = h
    BY <1>1, <2>1, GossipAssumption
  <2>2. CASE Drained(h, n) > h
    <3>1. Drained(h, n) \in pending[n]
      BY <1>1, <1>2, <2>2
    <3>2. pending[n] \subseteq 1 .. MaxHeight
      BY DEF StoreTyped
    <3>3. QED
      BY <3>1, <3>2, GossipAssumption
  <2>3. QED
    BY <1>1, <1>2, <2>1, <2>2
<1>4. height' \in [Node -> 0 .. MaxHeight]
  BY <1>3 DEF Advance, StoreTyped
<1>5. \A S : S \subseteq pending[n] => S \in SUBSET (1 .. MaxHeight)
  BY DEF StoreTyped
<1>6. PICK S : S \subseteq pending[n] /\ pending' = [pending EXCEPT ![n] = S]
  BY DEF Advance
<1>7. pending' \in [Node -> SUBSET (1 .. MaxHeight)]
  BY <1>5, <1>6 DEF StoreTyped
<1>8. QED
  BY <1>4, <1>7 DEF StoreTyped

LEMMA BlockId == \A h \in 1 .. MaxHeight : [type |-> "block", n |-> h] \in Ids
BY DEF Ids

LEMMA IdOfBlock == \A id \in Ids : id.type = "block" => id.n \in 1 .. MaxHeight
BY DEF Ids

LEMMA ProposeTyped ==
  ASSUME StoreTyped, Proposed, UNCHANGED pending, height[Leader] < MaxHeight
  PROVE  StoreTyped' /\ height[Leader] + 1 \in 1 .. MaxHeight
<1>1. height[Leader] \in 0 .. MaxHeight /\ Leader \in Node
  BY GossipAssumption DEF StoreTyped
<1>2. height[Leader] + 1 \in 0 .. MaxHeight /\ height[Leader] + 1 \in 1 .. MaxHeight
  BY <1>1, GossipAssumption
<1>3. height' \in [Node -> 0 .. MaxHeight]
  BY <1>1, <1>2 DEF StoreTyped, Proposed
<1>4. QED
  BY <1>2, <1>3 DEF StoreTyped

LEMMA KeepsType ==
  /\ Typed /\ UNCHANGED store => StoreTyped'
  /\ Typed /\ UNCHANGED seen => TableTyped'
  /\ Typed /\ UNCHANGED copies => CopiesTyped'
  /\ Typed /\ UNCHANGED <<sent, missed>> => RestTyped'
<1>1. Typed /\ UNCHANGED store => StoreTyped'
  BY DEF Typed, StoreTyped, store
<1>2. Typed /\ UNCHANGED seen => TableTyped'
  BY DEF Typed, TableTyped
<1>3. Typed /\ UNCHANGED copies => CopiesTyped'
  BY DEF Typed, CopiesTyped
<1>4. Typed /\ UNCHANGED <<sent, missed>> => RestTyped'
  BY DEF Typed, RestTyped
<1>5. QED
  BY <1>1, <1>2, <1>3, <1>4

LEMMA TypedProposeTick == Typed /\ ProposeTick => Typed'
<1> SUFFICES ASSUME Typed, ProposeTick PROVE Typed'
  OBVIOUS
<1>1. StoreTyped' /\ height[Leader] + 1 \in 1 .. MaxHeight
  BY ProposeTyped DEF Typed, ProposeTick
<1>2. [type |-> "block", n |-> height[Leader] + 1] \in Ids
  BY <1>1, BlockId
<1>3. CopiesTyped'
  BY <1>2, LaunchTyped, GossipAssumption DEF Typed, ProposeTick
<1>4. TableTyped' /\ RestTyped'
  BY KeepsType DEF ProposeTick
<1>5. QED
  BY <1>1, <1>3, <1>4 DEF Typed

LEMMA TypedProposeBroadcast == Typed /\ ProposeBroadcast => Typed'
<1> SUFFICES ASSUME Typed, ProposeBroadcast PROVE Typed'
  OBVIOUS
<1>1. StoreTyped'
  BY ProposeTyped DEF Typed, ProposeBroadcast
<1>2. TableTyped' /\ CopiesTyped'
  BY KeepsType DEF ProposeBroadcast
<1>3. RestTyped'
  BY DEF Typed, RestTyped, ProposeBroadcast
<1>4. QED
  BY <1>1, <1>2, <1>3 DEF Typed

LEMMA TypedAnnounce ==
  ASSUME Typed, NEW n \in Node, Announce(n)
  PROVE  Typed'
<1>1. sent' = sent + 1 /\ sent' \in 0 .. MaxMessages /\ sent' \in 1 .. MaxMessages
  BY GossipAssumption DEF Typed, RestTyped, Announce
<1>2. [type |-> "msg", n |-> sent'] \in Ids
  BY <1>1 DEF Ids
<1>3. CopiesTyped'
  BY <1>2, LaunchTyped DEF Typed, Announce
<1>4. RestTyped'
  BY <1>1 DEF Typed, RestTyped, Announce
<1>5. StoreTyped' /\ TableTyped'
  BY KeepsType DEF Announce
<1>6. QED
  BY <1>3, <1>4, <1>5 DEF Typed

LEMMA TypedSyncBlock ==
  ASSUME Typed, Typing, NEW n \in Node, SyncBlock(n)
  PROVE  Typed'
<1>1. height[n] + 1 \in 1 .. MaxHeight
  BY GossipAssumption DEF Typed, StoreTyped, SyncBlock
<1>2. StoreTyped'
  BY <1>1, DrainsTyped DEF Typed, SyncBlock
<1>3. TableTyped' /\ CopiesTyped'
  BY KeepsType DEF SyncBlock
<1>4. RestTyped'
  BY DEF Typed, RestTyped, SyncBlock
<1>5. QED
  BY <1>2, <1>3, <1>4 DEF Typed

LEMMA TypedStart ==
  ASSUME Typed, NEW c \in DOMAIN copies, Start(c)
  PROVE  Typed'
<1>1. c.id \in Ids /\ c.node \in Node /\ c.ttl \in 1 .. TTL
  BY CopyNow DEF Typed
<1>2. CopiesTyped'
  BY <1>1, WireTyped, CopiesStep DEF Typed, Start
<1>3. TableTyped'
  BY <1>1, MarksTyped DEF Typed, Start
<1>4. StoreTyped' /\ RestTyped'
  BY KeepsType DEF Start
<1>5. QED
  BY <1>2, <1>3, <1>4 DEF Typed

LEMMA TypedLookUp ==
  ASSUME Typed, NEW c \in DOMAIN copies, LookUp(c)
  PROVE  Typed'
<1>1. copies' = Without(c) \/ Moves(c, "unseen")
  BY DEF LookUp
<1>2. CopiesTyped'
  BY <1>1, CopiesStep, MovesTyped DEF Typed, Ats
<1>3. StoreTyped' /\ TableTyped' /\ RestTyped'
  BY KeepsType DEF LookUp
<1>4. QED
  BY <1>2, <1>3 DEF Typed

LEMMA TypedMarkSeen ==
  ASSUME Typed, NEW c \in DOMAIN copies, MarkSeen(c)
  PROVE  Typed'
<1>1. c.id \in Ids /\ c.node \in Node
  BY CopyNow DEF Typed
<1>2. CopiesTyped'
  BY MovesTyped DEF Typed, MarkSeen, Ats
<1>3. TableTyped'
  BY <1>1, MarksTyped DEF Typed, MarkSeen
<1>4. StoreTyped' /\ RestTyped'
  BY KeepsType DEF MarkSeen
<1>5. QED
  BY <1>2, <1>3, <1>4 DEF Typed

LEMMA TypedHandleBlock ==
  ASSUME Typed, Typing, NEW c \in DOMAIN copies, HandleBlock(c)
  PROVE  Typed'
<1>1. c.node \in Node /\ c.id.n \in 1 .. MaxHeight
  BY CopyNow, IdOfBlock DEF Typed, HandleBlock
<1>2. TableTyped' /\ RestTyped'
  BY KeepsType DEF HandleBlock
<1>3. CopiesTyped'
  <2>1. copies' = Without(c) \/ Moves(c, "relay")
    BY DEF HandleBlock
  <2>2. QED
    BY <2>1, CopiesStep, MovesTyped DEF Typed, Ats
<1>4. StoreTyped'
  <2>1. CASE Advance(c.id.n, c.node)
    BY <1>1, <2>1, DrainsTyped DEF Typed
  <2>2. CASE /\ pending' = [pending EXCEPT ![c.node] = @ \cup {c.id.n}]
             /\ UNCHANGED height
    BY <1>1, <2>2 DEF Typed, StoreTyped
  <2>3. CASE UNCHANGED store
    BY <2>3, KeepsType
  <2>4. QED
    BY <2>1, <2>2, <2>3 DEF HandleBlock
<1>5. QED
  BY <1>2, <1>3, <1>4 DEF Typed

LEMMA TypedHandleMessage ==
  ASSUME Typed, NEW c \in DOMAIN copies, HandleMessage(c)
  PROVE  Typed'
<1>1. CopiesTyped'
  BY MovesTyped DEF Typed, HandleMessage, Ats
<1>2. StoreTyped' /\ TableTyped' /\ RestTyped'
  BY KeepsType DEF HandleMessage
<1>3. QED
  BY <1>1, <1>2 DEF Typed

LEMMA TypedForward ==
  ASSUME Typed, NEW c \in DOMAIN copies, Forward(c)
  PROVE  Typed'
<1>1. c.id \in Ids /\ c.node \in Node /\ c.ttl \in 1 .. TTL
  BY CopyNow DEF Typed
<1>2. CopiesTyped'
  <2>1. CASE copies' = Without(c)
    BY <2>1, CopiesStep DEF Typed
  <2>2. CASE NextTTL(c) > 0 /\ copies' = Without(c) (+) Wire(c.id, c.node, c.via, NextTTL(c))
    <3>1. NextTTL(c) \in 1 .. TTL
      BY <1>1, <2>2, GossipAssumption DEF NextTTL
    <3>2. QED
      BY <1>1, <2>2, <3>1, WireTyped, CopiesStep DEF Typed
  <2>3. NextTTL(c) <= 0 \/ NextTTL(c) > 0
    BY <1>1, GossipAssumption DEF NextTTL
  <2>4. QED
    BY <2>1, <2>2, <2>3 DEF Forward
<1>3. StoreTyped' /\ TableTyped' /\ RestTyped'
  BY KeepsType DEF Forward
<1>4. QED
  BY <1>2, <1>3 DEF Typed

LEMMA TypedLose ==
  ASSUME Typed, NEW c \in DOMAIN copies, Lose(c)
  PROVE  Typed'
<1>1. CopiesTyped'
  BY CopiesStep DEF Typed, Lose
<1>2. RestTyped'
  BY GossipAssumption DEF Typed, RestTyped, Lose
<1>3. StoreTyped' /\ TableTyped'
  BY KeepsType DEF Lose
<1>4. QED
  BY <1>1, <1>2, <1>3 DEF Typed

LEMMA TypedInit == Init => Typed
<1> SUFFICES ASSUME Init PROVE Typed
  OBVIOUS
<1>1. StoreTyped
  BY GossipAssumption DEF Init, StoreTyped
<1>2. TableTyped
  BY GossipAssumption DEF Init, TableTyped, SeenTyped, IsInjective
<1>3. CopiesTyped
  BY DEF Init, CopiesTyped, EmptyBag, SetToBag, IsABag
<1>4. RestTyped
  BY GossipAssumption DEF Init, RestTyped
<1>5. QED
  BY <1>1, <1>2, <1>3, <1>4 DEF Typed

LEMMA TypedNext == Typed /\ Inv /\ [Next]_vars => Typed'
<1> SUFFICES ASSUME Typed, Inv, [Next]_vars PROVE Typed'
  OBVIOUS
<1>0. Typing
  BY DEF Inv, IInv
<1>1. CASE ProposeTick \/ ProposeBroadcast
  BY <1>1, TypedProposeTick, TypedProposeBroadcast
<1>2. ASSUME NEW n \in Node, Announce(n) \/ SyncBlock(n) PROVE Typed'
  BY <1>0, <1>2, TypedAnnounce, TypedSyncBlock
<1>3. ASSUME NEW c \in DOMAIN copies, Handle(c) \/ Lose(c) PROVE Typed'
  BY <1>0, <1>3, TypedStart, TypedLookUp, TypedMarkSeen, TypedHandleBlock,
     TypedHandleMessage, TypedForward, TypedLose DEF Handle
<1>4. CASE UNCHANGED vars
  <2>1. UNCHANGED store /\ UNCHANGED seen /\ UNCHANGED copies /\ UNCHANGED <<sent, missed>>
    BY <1>4 DEF vars
  <2>2. QED
    BY <2>1, KeepsType DEF Typed
<1>5. QED
  BY <1>1, <1>2, <1>3, <1>4 DEF Next, BagToSet

\* m.seen stays within SeenMax however it is filled and renewed, no copy is under way
\* whose TTL has run out, and drainPendingLocked stops at the last block there is.
THEOREM GossipTyped == Spec => []TypeOK
<1>1. Typed => TypeOK
  BY DEF Typed, StoreTyped, TableTyped, SeenTyped, CopiesTyped, RestTyped, TypeOK, BagToSet
<1>2. QED
  BY <1>1, TypedInit, TypedNext, InvInit, InvNext, PTL DEF Spec

\* markSeen renews an entry of m.seen and makes no second one.
THEOREM SeenOnce == Spec => [](\A n \in Node : IsInjective(seen[n]))
<1>1. Typed => \A n \in Node : IsInjective(seen[n])
  BY DEF Typed, TableTyped, SeenTyped
<1>2. QED
  BY <1>1, TypedInit, TypedNext, InvInit, InvNext, PTL DEF Spec

-----------------------------------------------------------------------------
(***************************************************************************)
(* Messages die out.  The copies under way weigh less after every step of  *)
(* one of them.  The weight is a sum over the domain of a bag, which is    *)
(* unrolled as the totals in LedgerProofs are: the recursion behind the    *)
(* sum has a solution (SetRecursion), so that it may be taken in any order *)
(* (SumAny) and over any larger set (SumPart).                             *)
(***************************************************************************)

\* Induction along an interval, for a property given as the set of its elements.
LEMMA UpTo ==
  ASSUME NEW n \in Nat, NEW P, 0 \in P, \A k \in 1 .. n : k - 1 \in P => k \in P
  PROVE  \A k \in 0 .. n : k \in P
<1> DEFINE Bad == {k \in 0 .. n : k \notin P}
<1>1. SUFFICES ASSUME Bad # {}
               PROVE  FALSE
  OBVIOUS
<1>2. Bad \in SUBSET Nat
  OBVIOUS
<1>3. PICK m \in Bad : \A k \in Bad : m <= k
  BY <1>1, <1>2, Least
<1>4. m \in 1 .. n
  OBVIOUS
<1>5. m - 1 \in 0 .. n /\ ~(m <= m - 1)
  BY <1>4
<1>6. m - 1 \in P
  BY <1>3, <1>5
<1>7. QED
  BY <1>4, <1>6

\* Recursion over the subsets of a finite set: one element is picked, the rest is
\* folded first.
Recurs(g, Sets, base, pick, step) ==
  \A s \in Sets : g[s] = IF s = {} THEN base ELSE step[<<pick[s], g[s \ {pick[s]}]>>]

\* Every such recursion has a solution.
LEMMA SetRecursion ==
  ASSUME NEW D, IsFiniteSet(D), NEW V, NEW base \in V,
         NEW pick, \A s \in SUBSET D : s # {} => pick[s] \in s,
         NEW step \in [D \X V -> V]
  PROVE  \E g \in [SUBSET D -> V] : Recurs(g, SUBSET D, base, pick, step)
<1> DEFINE Small(n) == {s \in SUBSET D : Cardinality(s) <= n}
           Works(n) == \E g \in [Small(n) -> V] : Recurs(g, Small(n), base, pick, step)
<1>1. ASSUME NEW s \in SUBSET D
      PROVE  /\ IsFiniteSet(s) /\ Cardinality(s) \in Nat
             /\ Cardinality(s) = 0 <=> s = {}
             /\ s # {} => /\ pick[s] \in D /\ s \ {pick[s]} \in SUBSET D
                          /\ Cardinality(s \ {pick[s]}) = Cardinality(s) - 1
  BY FS_Subset, FS_CardinalityType, FS_EmptySet, FS_RemoveElement
<1>2. Works(0)
  <2> DEFINE g == [s \in Small(0) |-> base]
  <2>1. g \in [Small(0) -> V]
    OBVIOUS
  <2>2. ASSUME NEW s \in Small(0)
        PROVE  s = {}
    <3>1. s \in SUBSET D /\ Cardinality(s) <= 0
      OBVIOUS
    <3> HIDE DEF g, Small
    <3>2. Cardinality(s) \in Nat
      BY <1>1, <3>1
    <3>3. Cardinality(s) = 0
      BY <3>1, <3>2
    <3>4. QED
      BY <1>1, <3>1, <3>3
  <2>3. Recurs(g, Small(0), base, pick, step)
    <3>1. \A s \in Small(0) : g[s] = base
      OBVIOUS
    <3> HIDE DEF g, Small
    <3>2. QED
      BY <2>2, <3>1 DEF Recurs
  <2>4. QED
    BY <2>1, <2>3
<1>3. ASSUME NEW n \in Nat, Works(n)
      PROVE  Works(n + 1)
  <2>1. PICK g \in [Small(n) -> V] : Recurs(g, Small(n), base, pick, step)
    BY <1>3
  <2> DEFINE h == [s \in Small(n + 1) |->
                     IF s = {} THEN base ELSE step[<<pick[s], g[s \ {pick[s]}]>>]]
  <2>2. ASSUME NEW s \in Small(n + 1), s # {}
        PROVE  /\ s \ {pick[s]} \in Small(n) /\ s \ {pick[s]} \in Small(n + 1)
               /\ pick[s] \in D
    <3>1. s \in SUBSET D /\ Cardinality(s) <= n + 1
      OBVIOUS
    <3>2. /\ Cardinality(s) \in Nat /\ pick[s] \in D /\ s \ {pick[s]} \in SUBSET D
          /\ Cardinality(s \ {pick[s]}) = Cardinality(s) - 1
      BY <1>1, <2>2, <3>1
    <3>3. Cardinality(s \ {pick[s]}) <= n /\ Cardinality(s \ {pick[s]}) <= n + 1
      BY <3>1, <3>2
    <3>4. QED
      BY <3>2, <3>3
  <2>3. ASSUME NEW s \in Small(n + 1)
        PROVE  h[s] \in V
    BY <2>2, <2>3
  <2>4. ASSUME NEW s \in Small(n)
        PROVE  s \in Small(n + 1) /\ h[s] = g[s]
    <3>1. Cardinality(s) \in Nat /\ Cardinality(s) <= n
      BY <1>1
    <3>2. s \in Small(n + 1)
      BY <3>1
    <3>3. g[s] = IF s = {} THEN base ELSE step[<<pick[s], g[s \ {pick[s]}]>>]
      BY <2>1 DEF Recurs
    <3>4. QED
      BY <3>2, <3>3
  <2>5. Recurs(h, Small(n + 1), base, pick, step)
    BY <2>2, <2>4 DEF Recurs
  <2>6. h \in [Small(n + 1) -> V]
    BY <2>3
  <2>7. QED
    BY <2>5, <2>6
<1>4. ASSUME NEW n \in Nat
      PROVE  Works(n)
  <2> DEFINE Bad == {k \in Nat : ~Works(k)}
  <2> HIDE DEF Works
  <2>1. SUFFICES ASSUME Bad # {}
                 PROVE  FALSE
    OBVIOUS
  <2>2. PICK m \in Bad : \A k \in Bad : m <= k
    BY <2>1, Least
  <2>3. m \in Nat /\ m # 0
    BY <1>2
  <2>4. m - 1 \in Nat /\ m - 1 \notin Bad
    BY <2>2, <2>3
  <2>5. Works(m - 1 + 1)
    BY <1>3, <2>4
  <2>6. QED
    BY <2>3, <2>5
<1>5. Small(Cardinality(D)) = SUBSET D
  <2>1. \A s \in SUBSET D : Cardinality(s) <= Cardinality(D)
    BY FS_Subset
  <2>2. QED
    BY <2>1
<1>6. QED
  <2>1. Works(Cardinality(D))
    <3> HIDE DEF Works
    <3>1. QED
      BY <1>4, FS_CardinalityType
  <2> DEFINE All == Small(Cardinality(D))
  <2>2. \E g \in [All -> V] : Recurs(g, All, base, pick, step)
    BY <2>1
  <2> HIDE DEF All
  <2>3. All = SUBSET D
    BY <1>5 DEF All
  <2>4. QED
    BY <2>2, <2>3

\* The element a sum takes first.
Some(s) == CHOOSE x \in s : TRUE

SumsUp(g, f, S) ==
  /\ g[{}] = 0
  /\ \A s \in SUBSET S : s # {} => g[s] = f[Some(s)] + g[s \ {Some(s)}]

\* A sum, term by term: the terms come in an order that depends on the set only.
LEMMA SumTerms ==
  ASSUME NEW S, IsFiniteSet(S), NEW f \in [S -> Int]
  PROVE  \E g \in [SUBSET S -> Int] : SumFunction(f) = g[S] /\ SumsUp(g, f, S)
<1> DEFINE D == DOMAIN f
           g == CHOOSE r : r = [s \in SUBSET D |-> IF s = {} THEN 0
                  ELSE f[Some(s)] + r[s \ {Some(s)}]]
           pick == [s \in SUBSET S |-> Some(s)]
           step == [p \in S \X Int |-> f[p[1]] + p[2]]
<1>1. SumFunction(f) = g[D]
  BY DEF Some, SumFunction, SumFunctionOnSet, FoldFunctionOnSet, MapThenFoldSet
<1>2. D = S
  OBVIOUS
<1> HIDE DEF D
<1>3. ASSUME NEW s \in SUBSET S, s # {}
      PROVE  Some(s) \in s
  BY <1>3 DEF Some
<1>4. PICK r \in [SUBSET S -> Int] : Recurs(r, SUBSET S, 0, pick, step)
  <2>1. \A s \in SUBSET S : s # {} => pick[s] \in s
    BY <1>3
  <2>2. step \in [S \X Int -> Int] /\ 0 \in Int
    OBVIOUS
  <2> HIDE DEF pick, step
  <2>3. QED
    BY <2>1, <2>2, SetRecursion
<1>5. ASSUME NEW s \in SUBSET S
      PROVE  r[s] = IF s = {} THEN 0
                    ELSE f[Some(s)] + r[s \ {Some(s)}]
  <2>1. r[s] = IF s = {} THEN 0 ELSE step[<<pick[s], r[s \ {pick[s]}]>>]
    BY <1>4 DEF Recurs
  <2>2. pick[s] = Some(s)
    BY DEF pick
  <2>3. CASE s # {}
    <3>1. pick[s] \in S /\ s \ {pick[s]} \in SUBSET S
      BY <1>3, <2>2, <2>3
    <3>2. r[s \ {pick[s]}] \in Int
      BY <3>1
    <3> HIDE DEF pick
    <3>3. step[<<pick[s], r[s \ {pick[s]}]>>] = f[pick[s]] + r[s \ {pick[s]}]
      BY <3>1, <3>2
    <3>4. QED
      BY <2>1, <2>2, <2>3, <3>3
  <2>4. QED
    BY <2>1, <2>3
<1> DEFINE F(q) == [s \in SUBSET S |-> IF s = {} THEN 0
                      ELSE f[Some(s)] + q[s \ {Some(s)}]]
<1>6. r = F(r)
  BY <1>5
<1>7. g = F(g)
  <2>1. \E q : q = [s \in SUBSET D |-> IF s = {} THEN 0 ELSE f[Some(s)] + q[s \ {Some(s)}]]
    BY <1>2, <1>6
  <2>2. g = [s \in SUBSET D |-> IF s = {} THEN 0 ELSE f[Some(s)] + g[s \ {Some(s)}]]
    BY <2>1
  <2> HIDE DEF g
  <2>3. QED
    BY <1>2, <2>2
<1> HIDE DEF g
<1>8. ASSUME NEW s \in SUBSET S
      PROVE  g[s] = IF s = {} THEN 0
                    ELSE f[Some(s)] + g[s \ {Some(s)}]
  <2>1. F(g)[s] = IF s = {} THEN 0
                  ELSE f[Some(s)] + g[s \ {Some(s)}]
    OBVIOUS
  <2>2. QED
    BY <1>7, <2>1
<1>9. \A s \in SUBSET S : g[s] \in Int
  <2> DEFINE n == Cardinality(S)
             Good == {k \in 0 .. n : \A s \in SUBSET S : Cardinality(s) = k => g[s] \in Int}
  <2>1. n \in Nat /\ \A s \in SUBSET S : IsFiniteSet(s) /\ Cardinality(s) \in 0 .. n
    BY FS_CardinalityType, FS_Subset
  <2>2. 0 \in Good
    <3>1. \A s \in SUBSET S : Cardinality(s) = 0 => s = {}
      BY <2>1, FS_EmptySet
    <3>2. g[{}] \in Int /\ 0 \in 0 .. n
      <4>1. g[{}] = 0
        BY <1>8
      <4>2. QED
        BY <2>1, <4>1
    <3>3. QED
      BY <3>1, <3>2
  <2>3. ASSUME NEW k \in 1 .. n, k - 1 \in Good
        PROVE  k \in Good
    <3>1. ASSUME NEW s \in SUBSET S, Cardinality(s) = k
          PROVE  g[s] \in Int
      <4> DEFINE x == Some(s)
      <4>1. s # {}
        BY <2>1, <3>1, FS_EmptySet
      <4>2. x \in s /\ s \ {x} \in SUBSET S
        BY <1>3, <4>1
      <4>3. Cardinality(s \ {x}) = k - 1
        BY <2>1, <3>1, <4>2, FS_RemoveElement
      <4>4. g[s \ {x}] \in Int
        BY <2>3, <4>2, <4>3
      <4>5. g[s] = f[x] + g[s \ {x}]
        BY <1>8, <4>1
      <4>6. f[x] \in Int
        BY <4>2
      <4> HIDE DEF x
      <4>7. QED
        BY <4>4, <4>5, <4>6
    <3>2. QED
      BY <2>1, <3>1
  <2> HIDE DEF Good, n
  <2>4. \A k \in 0 .. n : k \in Good
    BY <2>1, <2>2, <2>3, UpTo
  <2>5. QED
    BY <2>1, <2>4 DEF Good
<1>10. g = [s \in SUBSET S |-> g[s]]
  BY <1>7
<1>11. g \in [SUBSET S -> Int]
  BY <1>9, <1>10
<1>12. g[{}] = 0
  BY <1>8
<1>13. QED
  BY <1>1, <1>2, <1>8, <1>11, <1>12 DEF SumsUp

AnyFirst(g, f, S) == \A s \in SUBSET S : \A a \in s : g[s] = f[a] + g[s \ {a}]

\* A sum, with any term first.
LEMMA SumAny ==
  ASSUME NEW S, IsFiniteSet(S), NEW f \in [S -> Int], NEW g \in [SUBSET S -> Int],
         SumsUp(g, f, S)
  PROVE  AnyFirst(g, f, S)
<1> DEFINE n == Cardinality(S)
           Holds(s) == \A a \in s : g[s] = f[a] + g[s \ {a}]
           Good == {k \in 0 .. n : \A s \in SUBSET S : Cardinality(s) = k => Holds(s)}
<1>1. n \in Nat /\ \A s \in SUBSET S : IsFiniteSet(s) /\ Cardinality(s) \in 0 .. n
  BY FS_CardinalityType, FS_Subset
<1>2. 0 \in Good
  <2>1. \A s \in SUBSET S : Cardinality(s) = 0 => s = {}
    BY <1>1, FS_EmptySet
  <2>2. 0 \in 0 .. n
    BY <1>1
  <2>3. QED
    BY <2>1, <2>2
<1>3. ASSUME NEW k \in 1 .. n, k - 1 \in Good
      PROVE  k \in Good
  <2>1. ASSUME NEW s \in SUBSET S, Cardinality(s) = k, NEW a \in s
        PROVE  g[s] = f[a] + g[s \ {a}]
    <3> DEFINE x == Some(s)
    <3>1. x \in s /\ s # {}
      BY DEF Some
    <3>2. g[s] = f[x] + g[s \ {x}]
      BY <3>1 DEF SumsUp
    <3> HIDE DEF x
    <3>3. CASE x = a
      BY <3>2, <3>3
    <3>4. CASE x # a
      <4> DEFINE r == s \ {a}
                 t == s \ {x}
                 both == r \ {x}
      <4>1. r \in SUBSET S /\ t \in SUBSET S /\ x \in r /\ a \in t /\ both \in SUBSET S
            /\ t \ {a} = both
        BY <3>1, <3>4
      <4>2. Cardinality(r) = k - 1 /\ Cardinality(t) = k - 1
        BY <1>1, <2>1, <3>1, FS_RemoveElement
      <4> HIDE DEF r, t
      <4>3. Holds(r) /\ Holds(t)
        BY <1>3, <4>1, <4>2
      <4>4. g[r] = f[x] + g[both] /\ g[t] = f[a] + g[both]
        BY <4>1, <4>3
      <4>5. f[x] \in Int /\ f[a] \in Int /\ g[both] \in Int
        BY <3>1, <4>1
      <4> HIDE DEF both
      <4>6. g[s] = f[x] + g[t]
        BY <3>2 DEF t
      <4>7. g[s] = f[a] + g[r]
        BY <4>4, <4>5, <4>6
      <4>8. QED
        BY <4>7 DEF r
    <3>5. QED
      BY <3>3, <3>4
  <2>2. QED
    BY <1>1, <2>1
<1> HIDE DEF Good, n
<1>4. \A k \in 0 .. n : k \in Good
  BY <1>1, <1>2, <1>3, UpTo
<1>5. QED
  BY <1>1, <1>4 DEF Good, n, AnyFirst

\* Terms that are zero may be left out.
LEMMA SumPart ==
  ASSUME NEW S, IsFiniteSet(S), NEW T \in SUBSET S, NEW f \in [S -> Int], NEW h \in [T -> Int],
         \A x \in T : h[x] = f[x], \A x \in S \ T : f[x] = 0
  PROVE  SumFunction(f) = SumFunction(h)
<1>1. IsFiniteSet(T) /\ IsFiniteSet(S \ T)
  BY FS_Subset
<1>2. PICK g \in [SUBSET S -> Int] : SumFunction(f) = g[S] /\ SumsUp(g, f, S)
  BY SumTerms, Zenon
<1>3. PICK q \in [SUBSET T -> Int] : SumFunction(h) = q[T] /\ SumsUp(q, h, T)
  BY <1>1, SumTerms, Zenon
<1>4. AnyFirst(g, f, S)
  BY <1>2, SumAny, Zenon
<1>5. q[T] = g[T]
  <2> DEFINE n == Cardinality(T)
             Good == {k \in 0 .. n : \A s \in SUBSET T : Cardinality(s) = k => q[s] = g[s]}
  <2>1. n \in Nat /\ \A s \in SUBSET T : IsFiniteSet(s) /\ Cardinality(s) \in 0 .. n
    BY <1>1, FS_CardinalityType, FS_Subset
  <2>2. 0 \in Good
    <3>1. \A s \in SUBSET T : Cardinality(s) = 0 => s = {}
      BY <2>1, FS_EmptySet
    <3>2. 0 \in 0 .. n /\ q[{}] = g[{}]
      BY <1>2, <1>3, <2>1 DEF SumsUp
    <3>3. QED
      BY <3>1, <3>2
  <2>3. ASSUME NEW k \in 1 .. n, k - 1 \in Good
        PROVE  k \in Good
    <3>1. ASSUME NEW s \in SUBSET T, Cardinality(s) = k
          PROVE  q[s] = g[s]
      <4> DEFINE x == Some(s)
      <4>1. s # {}
        BY <2>1, <3>1, FS_EmptySet
      <4>2. x \in s /\ s \ {x} \in SUBSET T /\ s \in SUBSET S
        BY <4>1 DEF Some
      <4>3. Cardinality(s \ {x}) = k - 1
        BY <2>1, <3>1, <4>2, FS_RemoveElement
      <4>4. q[s \ {x}] = g[s \ {x}]
        BY <2>3, <4>2, <4>3
      <4>5. q[s] = h[x] + q[s \ {x}]
        BY <1>3, <4>1 DEF SumsUp
      <4>6. g[s] = f[x] + g[s \ {x}]
        BY <1>2, <4>1, <4>2 DEF SumsUp
      <4>7. h[x] = f[x]
        BY <4>2
      <4> HIDE DEF x
      <4>8. QED
        BY <4>4, <4>5, <4>6, <4>7
    <3>2. QED
      BY <2>1, <3>1
  <2> HIDE DEF Good, n
  <2>4. \A k \in 0 .. n : k \in Good
    BY <2>1, <2>2, <2>3, UpTo
  <2>5. QED
    BY <2>1, <2>4 DEF Good, n
<1>6. g[S] = g[T]
  <2> DEFINE R == S \ T
             n == Cardinality(R)
             Good == {k \in 0 .. n : \A s \in SUBSET R : Cardinality(s) = k => g[T \cup s] = g[T]}
  <2>1. n \in Nat /\ \A s \in SUBSET R : IsFiniteSet(s) /\ Cardinality(s) \in 0 .. n
    BY <1>1, FS_CardinalityType, FS_Subset
  <2>2. 0 \in Good
    <3>1. \A s \in SUBSET R : Cardinality(s) = 0 => s = {}
      BY <2>1, FS_EmptySet
    <3>2. 0 \in 0 .. n /\ T \cup {} = T
      BY <2>1
    <3>3. QED
      BY <3>1, <3>2
  <2>3. ASSUME NEW k \in 1 .. n, k - 1 \in Good
        PROVE  k \in Good
    <3>1. ASSUME NEW s \in SUBSET R, Cardinality(s) = k
          PROVE  g[T \cup s] = g[T]
      <4>1. s # {}
        BY <2>1, <3>1, FS_EmptySet
      <4>2. PICK x \in s : TRUE
        BY <4>1
      <4>3. Cardinality(s \ {x}) = k - 1 /\ s \ {x} \in SUBSET R
        BY <2>1, <3>1, <4>2, FS_RemoveElement
      <4>4. g[T \cup (s \ {x})] = g[T]
        BY <2>3, <4>3
      <4>5. x \in T \cup s /\ T \cup s \in SUBSET S /\ (T \cup s) \ {x} = T \cup (s \ {x})
        BY <4>2
      <4>6. g[T \cup s] = f[x] + g[(T \cup s) \ {x}]
        BY <1>4, <4>5 DEF AnyFirst
      <4>7. f[x] = 0 /\ g[T] \in Int
        BY <4>2
      <4>8. g[T \cup s] = f[x] + g[T \cup (s \ {x})]
        BY <4>5, <4>6
      <4>9. QED
        BY ONLY <4>4, <4>7, <4>8
    <3>2. QED
      BY <2>1, <3>1
  <2>4. R \in SUBSET R /\ T \cup R = S
    OBVIOUS
  <2> HIDE DEF Good, n
  <2>5. \A k \in 0 .. n : k \in Good
    BY <2>1, <2>2, <2>3, UpTo
  <2>6. g[T \cup R] = g[T]
    BY <2>1, <2>4, <2>5 DEF Good, n
  <2>7. QED
    BY <2>4, <2>6
<1>7. QED
  BY <1>2, <1>3, <1>5, <1>6

\* h has v more than f at the places N.
Raised(f, h, S, N, v) == \A x \in S : h[x] = f[x] + (IF x \in N THEN v ELSE 0)

\* As much added to each of some terms.
LEMMA SumAdds ==
  ASSUME NEW S, IsFiniteSet(S), NEW f \in [S -> Int], NEW h \in [S -> Int],
         NEW N \in SUBSET S, NEW v \in Int,
         Raised(f, h, S, N, v)
  PROVE  SumFunction(f) \in Int /\ SumFunction(h) = SumFunction(f) + Cardinality(N) * v
<1> DEFINE n == Cardinality(S)
           Diff(s) == Cardinality(s \cap N) * v
<1>1. PICK g \in [SUBSET S -> Int] : SumFunction(f) = g[S] /\ SumsUp(g, f, S)
  BY SumTerms, Zenon
<1>2. PICK q \in [SUBSET S -> Int] : SumFunction(h) = q[S] /\ SumsUp(q, h, S)
  BY SumTerms, Zenon
<1> DEFINE Good == {k \in 0 .. n : \A s \in SUBSET S : Cardinality(s) = k => q[s] = g[s] + Diff(s)}
<1>3. n \in Nat /\ \A s \in SUBSET S : /\ IsFiniteSet(s) /\ Cardinality(s) \in 0 .. n
                                       /\ IsFiniteSet(s \cap N) /\ Cardinality(s \cap N) \in Nat
  <2>1. \A s \in SUBSET S : s \cap N \in SUBSET S
    OBVIOUS
  <2>2. QED
    BY <2>1, FS_CardinalityType, FS_Subset
<1>4. 0 \in Good
  <2>1. \A s \in SUBSET S : Cardinality(s) = 0 => s = {}
    BY <1>3, FS_EmptySet
  <2>2. 0 \in 0 .. n
    BY <1>3
  <2>3. q[{}] = g[{}] + Diff({})
    <3>1. {} \cap N = {} /\ Cardinality({}) = 0 /\ 0 * v = 0
      BY FS_EmptySet
    <3>2. QED
      BY <1>1, <1>2, <3>1 DEF SumsUp
  <2>4. QED
    BY <2>1, <2>2, <2>3
<1>5. ASSUME NEW k \in 1 .. n, k - 1 \in Good
      PROVE  k \in Good
  <2>1. ASSUME NEW s \in SUBSET S, Cardinality(s) = k
        PROVE  q[s] = g[s] + Diff(s)
    <3> DEFINE x == Some(s)
               common == s \cap N
    <3>0. IsFiniteSet(s) /\ IsFiniteSet(common) /\ Cardinality(common) \in Nat /\ n \in Nat
      BY <1>3
    <3>1. s # {}
      BY <2>1, <3>0, FS_EmptySet
    <3>2. x \in s /\ s \ {x} \in SUBSET S
      BY <3>1 DEF Some
    <3> HIDE DEF x, common
    <3>3. Cardinality(s \ {x}) = k - 1
      <4>1. IsFiniteSet(s) /\ k \in Int
        BY <3>0
      <4>2. Cardinality(s \ {x}) = Cardinality(s) - 1
        BY <3>2, <4>1, FS_RemoveElement
      <4>3. QED
        BY <2>1, <4>2
    <3>4. q[s \ {x}] = g[s \ {x}] + Diff(s \ {x})
      BY <1>5, <3>2, <3>3
    <3>5. g[s] = f[x] + g[s \ {x}] /\ q[s] = h[x] + q[s \ {x}]
      BY <1>1, <1>2, <3>1 DEF SumsUp, x
    <3>6. f[x] \in Int /\ g[s \ {x}] \in Int
      BY <3>2
    <3>7. CASE x \in N
      <4>1. (s \ {x}) \cap N = common \ {x} /\ x \in common /\ h[x] = f[x] + v
        BY <3>2, <3>7 DEF common, Raised
      <4>2. Cardinality(common \ {x}) = Cardinality(common) - 1
        BY <3>0, <4>1, FS_RemoveElement
      <4>3. Diff(s) = Diff(s \ {x}) + v /\ Diff(s \ {x}) \in Int
        <5>1. \A m \in Nat : m * v = (m - 1) * v + v /\ (m - 1) * v \in Int
          OBVIOUS
        <5>2. Diff(s) = Cardinality(common) * v /\ Diff(s \ {x}) = (Cardinality(common) - 1) * v
          BY <4>1, <4>2 DEF common
        <5> HIDE DEF Diff
        <5>3. QED
          BY <3>0, <5>1, <5>2
      <4> HIDE DEF Diff
      <4>4. QED
        BY <3>4, <3>5, <3>6, <4>1, <4>3
    <3>8. CASE x \notin N
      <4>1. (s \ {x}) \cap N = s \cap N /\ h[x] = f[x]
        BY <3>2, <3>6, <3>8 DEF Raised
      <4>2. Diff(s) = Diff(s \ {x}) /\ Diff(s) \in Int
        <5>1. Diff(s) = Diff(s \ {x}) /\ Diff(s) = Cardinality(common) * v
          BY <4>1 DEF common
        <5>2. \A m \in Nat : m * v \in Int
          OBVIOUS
        <5> HIDE DEF Diff
        <5>3. QED
          BY <3>0, <5>1, <5>2
      <4> HIDE DEF Diff
      <4>3. QED
        BY <3>4, <3>5, <3>6, <4>1, <4>2
    <3>9. QED
      BY <3>7, <3>8
  <2>2. QED
    BY <1>3, <2>1
<1>6. q[S] = g[S] + Cardinality(N) * v
  <2> HIDE DEF Good, n
  <2>1. \A k \in 0 .. n : k \in Good
    BY <1>3, <1>4, <1>5, UpTo
  <2>2. Cardinality(S) \in Good
    BY <1>3, <2>1 DEF n
  <2>3. S \cap N = N
    OBVIOUS
  <2>4. QED
    BY <2>2, <2>3 DEF Good
<1>7. g[S] \in Int
  OBVIOUS
<1>8. QED
  BY <1>1, <1>2, <1>6, <1>7

-----------------------------------------------------------------------------
(* The weight of a bag of copies. *)

\* The nodes of a mesh are finitely many, one at least.
LEMMA FanOutPositive == FanOut \in Nat /\ FanOut >= 1
<1>1. FanOut \in Nat /\ (FanOut = 0 <=> Node = {})
  BY GossipAssumption, FS_CardinalityType, FS_EmptySet DEF FanOut
<1>2. Node # {}
  BY GossipAssumption
<1>3. QED
  BY <1>1, <1>2

\* The recursion of Burden has a solution.
LEMMA BurdenGrows ==
  /\ Burden \in [0 .. TTL -> Nat] /\ Burden[0] = 1
  /\ \A t \in 1 .. TTL : Burden[t] = 5 * FanOut * Burden[t - 1]
<1> DEFINE k == 5 * FanOut
           Grows(p, n) == p[0] = 1 /\ \A t \in 1 .. n : p[t] = k * p[t - 1]
           Good == {n \in 0 .. TTL : \E p \in [0 .. n -> Nat] : Grows(p, n)}
<1>1. TTL \in Nat
  BY GossipAssumption
<1>2. k \in Nat
  BY FanOutPositive
<1> HIDE DEF k
<1>3. 0 \in Good
  <2> DEFINE p == [t \in 0 .. 0 |-> 1]
  <2>1. p \in [0 .. 0 -> Nat] /\ Grows(p, 0)
    OBVIOUS
  <2> HIDE DEF p, Grows
  <2>2. QED
    BY <1>1, <2>1
<1>4. ASSUME NEW n \in 1 .. TTL, n - 1 \in Good
      PROVE  n \in Good
  <2>1. PICK p \in [0 .. n - 1 -> Nat] : Grows(p, n - 1)
    BY <1>4
  <2> DEFINE q == [t \in 0 .. n |-> IF t = n THEN k * p[n - 1] ELSE p[t]]
  <2>2. n - 1 \in 0 .. n - 1 /\ n \in Nat /\ \A t \in 0 .. n : t # n => t \in 0 .. n - 1
    BY <1>1
  <2>3. k * p[n - 1] \in Nat
    <3>1. \A m \in Nat : k * m \in Nat
      BY <1>2
    <3>2. QED
      BY <2>2, <3>1
  <2>4. q \in [0 .. n -> Nat]
    BY <2>2, <2>3
  <2>5. Grows(q, n)
    <3>1. q[0] = 1
      BY <1>1, <2>1, <2>2
    <3>2. ASSUME NEW t \in 1 .. n PROVE q[t] = k * q[t - 1]
      <4>1. t - 1 \in 0 .. n - 1 /\ t - 1 # n /\ t - 1 \in 0 .. n
        BY <2>2
      <4>2. q[t - 1] = p[t - 1]
        BY <4>1
      <4>3. CASE t = n
        BY <4>2, <4>3
      <4>4. CASE t # n
        <5>1. t \in 1 .. n - 1 /\ t \in 0 .. n
          BY <2>2, <4>4
        <5>2. q[t] = p[t] /\ p[t] = k * p[t - 1]
          BY <2>1, <4>4, <5>1
        <5>3. QED
          BY <4>2, <5>2
      <4>5. QED
        BY <4>3, <4>4
    <3>3. QED
      BY <3>1, <3>2
  <2> HIDE DEF q, Grows
  <2>6. n \in 0 .. TTL
    OBVIOUS
  <2>7. QED
    BY <2>4, <2>5, <2>6
<1>5. PICK p \in [0 .. TTL -> Nat] : Grows(p, TTL)
  <2> HIDE DEF Good
  <2>1. TTL \in Good
    BY <1>1, <1>3, <1>4, UpTo
  <2>2. QED
    BY <2>1 DEF Good
<1> DEFINE F(q) == [t \in 0 .. TTL |-> IF t = 0 THEN 1 ELSE k * q[t - 1]]
<1>6. p = F(p)
  <2>1. ASSUME NEW t \in 0 .. TTL PROVE p[t] = IF t = 0 THEN 1 ELSE k * p[t - 1]
    <3>1. t = 0 \/ t \in 1 .. TTL
      BY <1>1
    <3>2. QED
      BY <1>5, <3>1
  <2>2. QED
    BY <2>1
<1>7. Burden = F(Burden)
  BY <1>6 DEF Burden, k
<1>8. ASSUME NEW t \in 0 .. TTL PROVE Burden[t] = IF t = 0 THEN 1 ELSE k * Burden[t - 1]
  <2>1. F(Burden)[t] = IF t = 0 THEN 1 ELSE k * Burden[t - 1]
    OBVIOUS
  <2> HIDE DEF F
  <2>2. QED
    BY <1>7, <2>1
<1> DEFINE Natural == {t \in 0 .. TTL : Burden[t] \in Nat}
<1>9. \A t \in 0 .. TTL : t \in Natural
  <2>1. 0 \in Natural
    BY <1>1, <1>8
  <2>2. ASSUME NEW t \in 1 .. TTL, t - 1 \in Natural PROVE t \in Natural
    <3>1. \A m \in Nat : k * m \in Nat
      BY <1>2
    <3>2. t \in 0 .. TTL /\ t # 0 /\ Burden[t - 1] \in Nat
      BY <1>1, <2>2
    <3>3. Burden[t] = k * Burden[t - 1]
      BY <1>8, <3>2
    <3>4. QED
      BY <3>1, <3>2, <3>3
  <2> HIDE DEF Natural
  <2>3. QED
    BY <1>1, <2>1, <2>2, UpTo
<1>10. Burden = [t \in 0 .. TTL |-> Burden[t]]
  BY <1>7, <1>8
<1>11. \A t \in 1 .. TTL : t \in 0 .. TTL /\ t # 0
  BY <1>1
<1>12. 0 \in 0 .. TTL
  BY <1>1
<1>13. Burden \in [0 .. TTL -> Nat]
  BY <1>9, <1>10
<1>14. \A t \in 1 .. TTL : Burden[t] = 5 * FanOut * Burden[t - 1]
  BY <1>8, <1>11 DEF k
<1>15. QED
  BY <1>8, <1>12, <1>13, <1>14

\* No burden is nothing.
LEMMA BurdenPositive == \A t \in 0 .. TTL : Burden[t] \in Nat /\ Burden[t] >= 1
<1> DEFINE k == 5 * FanOut
           Good == {t \in 0 .. TTL : Burden[t] >= 1}
<1>1. k \in Nat /\ k >= 1 /\ TTL \in Nat
  BY FanOutPositive, GossipAssumption
<1>2. /\ \A t \in 0 .. TTL : Burden[t] \in Nat
      /\ Burden[0] = 1 /\ \A t \in 1 .. TTL : Burden[t] = k * Burden[t - 1]
  BY BurdenGrows
<1> HIDE DEF k
<1>3. 0 \in Good
  BY <1>1, <1>2
<1>4. ASSUME NEW t \in 1 .. TTL, t - 1 \in Good PROVE t \in Good
  <2>1. \A m \in Nat : m >= 1 => k * m >= 1
    BY <1>1
  <2>2. t - 1 \in 0 .. TTL /\ Burden[t - 1] >= 1 /\ t \in 0 .. TTL
    BY <1>4
  <2>3. QED
    BY <1>2, <2>1, <2>2
<1> HIDE DEF Good
<1>5. \A t \in 0 .. TTL : t \in Good
  BY <1>1, <1>3, <1>4, UpTo
<1>6. QED
  BY <1>2, <1>5 DEF Good

\* What a copy weighs where it is.
LEMMA Weighs ==
  ASSUME NEW c \in Copy
  PROVE  /\ Burden[c.ttl] \in Nat /\ Burden[c.ttl] >= 1
         /\ Steps[c.at] \in Nat /\ Steps[c.at] >= 1
         /\ Weight(c) \in Nat /\ Weight(c) >= 1
         /\ Weight(c) = Steps[c.at] * Burden[c.ttl]
<1>1. c.ttl \in 0 .. TTL /\ c.at \in Ats
  BY GossipAssumption DEF Copy, Ats
<1>2. Burden[c.ttl] \in Nat /\ Burden[c.ttl] >= 1
  BY <1>1, BurdenPositive
<1>3. Steps[c.at] \in Nat /\ Steps[c.at] >= 1
  BY <1>1, FanOutPositive DEF Ats, Steps
<1>4. \A m \in Nat, n \in Nat : m >= 1 /\ n >= 1 => m * n \in Nat /\ m * n >= 1
  OBVIOUS
<1>5. Weight(c) = Steps[c.at] * Burden[c.ttl]
  BY DEF Weight
<1>6. QED
  BY <1>2, <1>3, <1>4, <1>5

Times(c, B) == IF c \in DOMAIN B THEN B[c] ELSE 0
Load(B) == SumFunction([c \in DOMAIN B |-> B[c] * Weight(c)])

\* A bag weighs the same over any set that has all its copies.
LEMMA LoadOver ==
  ASSUME NEW D \in SUBSET Copy, IsFiniteSet(D), NEW B, IsABag(B), DOMAIN B \subseteq D
  PROVE  /\ [c \in D |-> Times(c, B) * Weight(c)] \in [D -> Int]
         /\ Load(B) = SumFunction([c \in D |-> Times(c, B) * Weight(c)])
<1> DEFINE f == [c \in D |-> Times(c, B) * Weight(c)]
           h == [c \in DOMAIN B |-> B[c] * Weight(c)]
<1>1. \A c \in DOMAIN B : B[c] \in Nat /\ Times(c, B) = B[c]
  BY DEF IsABag, Times
<1>2. \A c \in D \ DOMAIN B : Times(c, B) = 0
  BY DEF Times
<1>3. \A c \in D : Weight(c) \in Nat
  BY Weighs
<1>4. \A m \in Nat, n \in Nat : m * n \in Int /\ 0 * n = 0
  OBVIOUS
<1>5. \A c \in D : Times(c, B) \in Nat
  BY <1>1, <1>2
<1>6. f \in [D -> Int]
  BY <1>3, <1>4, <1>5
<1>7. h \in [DOMAIN B -> Int]
  BY <1>1, <1>3, <1>4
<1>8. \A c \in DOMAIN B : h[c] = f[c]
  BY <1>1
<1>9. \A c \in D \ DOMAIN B : f[c] = 0
  <2>1. ASSUME NEW c \in D \ DOMAIN B PROVE f[c] = 0
    <3>1. f[c] = Times(c, B) * Weight(c)
      OBVIOUS
    <3>2. Times(c, B) = 0 /\ Weight(c) \in Nat
      BY <1>2, <1>3
    <3> HIDE DEF f
    <3>3. QED
      BY <1>4, <3>1, <3>2
  <2>2. QED
    BY <2>1
<1>10. SumFunction(f) = SumFunction(h)
  <2> HIDE DEF f, h
  <2>1. DOMAIN B \in SUBSET D
    OBVIOUS
  <2>2. QED
    BY <1>6, <1>7, <1>8, <1>9, <2>1, SumPart
<1>11. Load(B) = SumFunction(h)
  BY DEF Load
<1> HIDE DEF h
<1>12. Load(B) = SumFunction(f)
  BY <1>10, <1>11
<1>13. QED
  BY <1>6, <1>12

\* W has "one" more than B of the copies in N.
Differ(B, W, D, N, one) ==
  \A c \in D : Times(c, W) = Times(c, B) + (IF c \in N THEN one ELSE 0)

\* As many more of some copies of one weight.
LEMMA LoadChanges ==
  ASSUME NEW D \in SUBSET Copy, IsFiniteSet(D), NEW B, IsABag(B), DOMAIN B \subseteq D,
         NEW W, IsABag(W), DOMAIN W \subseteq D,
         NEW N \in SUBSET D, NEW v \in Int, NEW one \in {1, -1},
         Differ(B, W, D, N, one),
         \A c \in N : Weight(c) = v
  PROVE  Load(B) \in Int /\ Load(W) = Load(B) + Cardinality(N) * (one * v)
<1> DEFINE f == [c \in D |-> Times(c, B) * Weight(c)]
           h == [c \in D |-> Times(c, W) * Weight(c)]
           u == one * v
<1>1. f \in [D -> Int] /\ Load(B) = SumFunction(f)
  BY LoadOver
<1>2. h \in [D -> Int] /\ Load(W) = SumFunction(h)
  BY LoadOver
<1>3. u \in Int
  OBVIOUS
<1>4. ASSUME NEW c \in D PROVE h[c] = f[c] + (IF c \in N THEN u ELSE 0)
  <2>1. h[c] = Times(c, W) * Weight(c) /\ f[c] = Times(c, B) * Weight(c)
    OBVIOUS
  <2>2. Times(c, W) = Times(c, B) + (IF c \in N THEN one ELSE 0)
    BY DEF Differ
  <2>3. Weight(c) \in Nat /\ Times(c, B) \in Nat
    <3>1. Times(c, B) \in Nat
      BY DEF IsABag, Times
    <3>2. QED
      BY <3>1, Weighs
  <2>4. \A m \in Int, n \in Int : (m + one) * n = m * n + one * n /\ m * n + 0 = m * n /\ m + 0 = m
    BY one \in Int
  <2> HIDE DEF f, h
  <2>5. CASE c \in N
    <3>1. u = one * Weight(c)
      BY <2>5
    <3>2. h[c] = (Times(c, B) + one) * Weight(c)
      BY <2>1, <2>2, <2>5
    <3>3. (Times(c, B) + one) * Weight(c) = Times(c, B) * Weight(c) + one * Weight(c)
      BY <2>3, <2>4
    <3> HIDE DEF u
    <3>4. QED
      BY <2>1, <2>5, <3>1, <3>2, <3>3
  <2>6. CASE c \notin N
    <3>1. Times(c, W) = Times(c, B)
      BY <2>2, <2>3, <2>6
    <3>2. f[c] \in Int
      BY <1>1
    <3>3. QED
      BY <2>1, <2>6, <3>1, <3>2
  <2>7. QED
    BY <2>5, <2>6
<1> HIDE DEF f, h, u
<1>5. N \in SUBSET D /\ Raised(f, h, D, N, u)
  BY <1>4 DEF Raised
<1>6. SumFunction(f) \in Int /\ SumFunction(h) = SumFunction(f) + Cardinality(N) * u
  BY <1>1, <1>2, <1>3, <1>5, SumAdds
<1>7. QED
  BY <1>1, <1>2, <1>6 DEF u

\* Adding some copies.
LEMMA LoadAdds ==
  ASSUME NEW B, IsABag(B), DOMAIN B \in SUBSET Copy, IsFiniteSet(DOMAIN B),
         NEW N \in SUBSET Copy, IsFiniteSet(N), NEW v \in Int, \A c \in N : Weight(c) = v
  PROVE  LET W == B (+) SetToBag(N)
         IN /\ IsABag(W) /\ DOMAIN W \in SUBSET Copy /\ IsFiniteSet(DOMAIN W)
            /\ Load(B) \in Int /\ Load(W) = Load(B) + Cardinality(N) * v
<1> DEFINE W == [e \in DOMAIN B \cup N |-> (IF e \in DOMAIN B THEN B[e] ELSE 0)
                                           + (IF e \in N THEN 1 ELSE 0)]
           D == DOMAIN B \cup N
<1>1. B (+) SetToBag(N) = W
  BY DEF (+), SetToBag
<1>2. Differ(B, W, D, N, 1)
  BY DEF Times, Differ, IsABag
<1>3. IsABag(W) /\ DOMAIN W = D
  BY DEF IsABag
<1>4. D \in SUBSET Copy /\ IsFiniteSet(D) /\ N \in SUBSET D /\ DOMAIN B \subseteq D
  BY FS_Union
<1> HIDE DEF W, D
<1>5. DOMAIN W \subseteq D
  BY <1>3
<1>6. 1 \in {1, -1} /\ v = 1 * v
  OBVIOUS
<1>7. Load(B) \in Int /\ Load(W) = Load(B) + Cardinality(N) * (1 * v)
  BY <1>2, <1>3, <1>4, <1>5, <1>6, LoadChanges
<1>8. QED
  BY <1>1, <1>3, <1>4, <1>6, <1>7

\* Taking one copy.
LEMMA LoadTakes ==
  ASSUME NEW B, IsABag(B), DOMAIN B \in SUBSET Copy, IsFiniteSet(DOMAIN B),
         NEW c \in DOMAIN B
  PROVE  LET W == B (-) SetToBag({c})
         IN /\ IsABag(W) /\ DOMAIN W \in SUBSET Copy /\ IsFiniteSet(DOMAIN W)
            /\ Load(B) \in Int /\ Load(W) = Load(B) - Weight(c)
<1> DEFINE M == [e \in DOMAIN B |-> IF e \in {c} THEN B[e] - 1 ELSE B[e]]
           W == [e \in {d \in DOMAIN M : M[d] > 0} |-> M[e]]
           D == DOMAIN B
<1>1. B (-) SetToBag({c}) = W
  BY DEF (-), SetToBag
<1>2. /\ DOMAIN M = DOMAIN B /\ \A e \in DOMAIN B : B[e] \in Nat /\ B[e] > 0 /\ M[e] \in Nat
      /\ \A e \in DOMAIN B : M[e] = B[e] + (IF e \in {c} THEN -1 ELSE 0)
  BY DEF IsABag
<1>3. IsABag(W) /\ DOMAIN W = {d \in DOMAIN B : M[d] > 0} /\ \A d \in DOMAIN W : W[d] = M[d]
  <2> HIDE DEF M
  <2>1. QED
    BY <1>2 DEF IsABag
<1> HIDE DEF W, M
<1>4. Differ(B, W, D, {c}, -1)
  <2>1. ASSUME NEW e \in D PROVE Times(e, W) = M[e] /\ Times(e, B) = B[e]
    BY <1>2, <1>3 DEF Times
  <2>2. QED
    BY <1>2, <2>1 DEF Differ
<1>5. /\ DOMAIN W \subseteq D /\ DOMAIN B \subseteq D /\ {c} \in SUBSET D
      /\ D \in SUBSET Copy /\ IsFiniteSet(D)
  BY <1>3
<1>6. IsFiniteSet(DOMAIN W) /\ DOMAIN W \in SUBSET Copy
  <2>1. DOMAIN W \in SUBSET D
    BY <1>5
  <2>2. QED
    BY <1>5, <2>1, FS_Subset
<1> DEFINE v == Weight(c)
<1>7. v \in Int /\ \A e \in {c} : Weight(e) = v
  <2>1. c \in Copy
    OBVIOUS
  <2>2. QED
    BY <2>1, Weighs
<1>8. -1 \in {1, -1}
  OBVIOUS
<1> HIDE DEF v, D
<1>9. Load(B) \in Int /\ Load(W) = Load(B) + Cardinality({c}) * (-1 * v)
  BY <1>3, <1>4, <1>5, <1>7, <1>8, LoadChanges
<1>10. Cardinality({c}) = 1
  BY FS_Singleton
<1>11. Load(B) + 1 * (-1 * v) = Load(B) - v
  BY <1>7, <1>9
<1>12. QED
  BY <1>1, <1>3, <1>6, <1>9, <1>10, <1>11 DEF v

-----------------------------------------------------------------------------
(* Every step of a copy takes weight away. *)

\* Copies that together weigh less than c.
Lighter(c, N) ==
  /\ N \in SUBSET Copy /\ IsFiniteSet(N)
  /\ \E v \in Nat : (\A d \in N : Weight(d) = v) /\ Cardinality(N) * v < Weight(c)

FiniteCopies == IsFiniteSet(DOMAIN copies)
Bagged == CopiesTyped /\ FiniteCopies

\* A copy goes, and lighter ones may come in its place.
Fades(c) ==
  copies' = Without(c) \/ \E N : Lighter(c, N) /\ copies' = Without(c) (+) SetToBag(N)

LEMMA Fading ==
  ASSUME Bagged, NEW c \in DOMAIN copies, Fades(c)
  PROVE  TotalWeight' < TotalWeight /\ FiniteCopies'
<1>1. /\ DOMAIN copies \in SUBSET Copy /\ IsABag(copies) /\ IsFiniteSet(DOMAIN copies)
      /\ TotalWeight = Load(copies) /\ TotalWeight' = Load(copies')
  BY DEF Bagged, CopiesTyped, FiniteCopies, TotalWeight, Load
<1>2. PICK W : /\ W = Without(c) /\ IsABag(W) /\ DOMAIN W \in SUBSET Copy /\ IsFiniteSet(DOMAIN W)
               /\ Load(copies) \in Int /\ Load(W) = Load(copies) - Weight(c)
  BY <1>1, LoadTakes DEF Without
<1>3. Weight(c) \in Nat /\ Weight(c) >= 1
  <2>1. c \in Copy
    BY <1>1
  <2>2. QED
    BY <2>1, Weighs
<1>4. CASE copies' = W
  <2>1. Load(copies') < Load(copies)
    BY <1>2, <1>3, <1>4
  <2>2. QED
    BY <1>1, <1>2, <1>4, <2>1 DEF FiniteCopies
<1>5. ASSUME NEW N, Lighter(c, N), copies' = W (+) SetToBag(N)
      PROVE  TotalWeight' < TotalWeight /\ FiniteCopies'
  <2>1. PICK v \in Nat : (\A d \in N : Weight(d) = v) /\ Cardinality(N) * v < Weight(c)
    BY <1>5 DEF Lighter
  <2>2. N \in SUBSET Copy /\ IsFiniteSet(N) /\ v \in Int
    BY <1>5 DEF Lighter
  <2>3. PICK V : /\ V = W (+) SetToBag(N) /\ IsFiniteSet(DOMAIN V)
                 /\ Load(W) \in Int /\ Load(V) = Load(W) + Cardinality(N) * v
    BY <1>2, <2>1, <2>2, LoadAdds
  <2>4. Cardinality(N) * v \in Int
    <3>1. Cardinality(N) \in Nat
      BY <2>2, FS_CardinalityType
    <3>2. \A m \in Nat, n \in Nat : m * n \in Int
      OBVIOUS
    <3>3. QED
      BY <3>1, <3>2
  <2>5. Load(V) < Load(copies)
    BY <1>2, <1>3, <2>1, <2>3, <2>4
  <2>6. QED
    BY <1>1, <1>5, <2>3, <2>5 DEF FiniteCopies
<1>6. QED
  BY <1>2, <1>4, <1>5 DEF Fades

\* A copy that moves on has a step less to take.
LEMMA MovesFade ==
  ASSUME Bagged, NEW c \in DOMAIN copies, NEW w \in Ats,
         <<c.at, w>> \in {<<"wire", "unseen">>, <<"unseen", "marked">>, <<"marked", "relay">>},
         Moves(c, w)
  PROVE  Fades(c)
<1>1. c \in Copy
  BY DEF Bagged, CopiesTyped
<1>2. PICK d : d = [c EXCEPT !.at = w]
  OBVIOUS
<1>3. d \in Copy /\ d.at = w /\ d.ttl = c.ttl
  BY <1>1, <1>2 DEF Copy, Ats
<1>4. Steps[w] \in Nat /\ Steps[c.at] \in Nat /\ Steps[w] < Steps[c.at]
  <2>1. Steps.wire = 4 /\ Steps.unseen = 3 /\ Steps.marked = 2 /\ Steps.relay = 1
    BY DEF Steps
  <2>2. QED
    BY <2>1
<1>5. Weight(d) = Steps[w] * Burden[c.ttl] /\ Weight(d) \in Nat
  BY <1>3, Weighs
<1>6. Weight(c) = Steps[c.at] * Burden[c.ttl] /\ Burden[c.ttl] \in Nat /\ Burden[c.ttl] >= 1
  BY <1>1, Weighs
<1>7. \A m \in Nat, n \in Nat, b \in Nat : m < n /\ b >= 1 => m * b < n * b
  OBVIOUS
<1>8. Weight(d) < Weight(c)
  BY <1>4, <1>5, <1>6, <1>7
<1>9. Cardinality({d}) = 1 /\ IsFiniteSet({d}) /\ {d} \in SUBSET Copy
  BY <1>3, FS_Singleton
<1>10. Cardinality({d}) * Weight(d) < Weight(c)
  BY <1>5, <1>8, <1>9
<1>11. Lighter(c, {d})
  BY <1>5, <1>9, <1>10 DEF Lighter
<1>12. copies' = Without(c) (+) SetToBag({d})
  BY <1>2 DEF Moves
<1>13. QED
  BY <1>11, <1>12 DEF Fades

\* The copies S are sent.
Sends(S, id, n, via, t) ==
  /\ Wire(id, n, via, t) = SetToBag(S)
  /\ IsFiniteSet(S) /\ Cardinality(S) <= FanOut
  /\ \A d \in S : Weight(d) = 4 * Burden[t]

\* gossipForward and gossipOrigin send no more copies than there are nodes.
LEMMA WireSends ==
  ASSUME NEW id \in Ids, NEW n \in Node, NEW via, NEW t \in 1 .. TTL
  PROVE  \E S \in SUBSET Copy : Sends(S, id, n, via, t)
<1> DEFINE S == {[id |-> id, node |-> m, via |-> n, ttl |-> t, at |-> "wire"] :
                   m \in Peers[n] \ {n, via}}
           f == [d \in S |-> d.node]
<1>1. Peers[n] \subseteq Node
  BY GossipAssumption
<1>2. S \in SUBSET Copy /\ \A d \in S : d.at = "wire" /\ d.ttl = t
  BY <1>1 DEF Copy
<1>3. Wire(id, n, via, t) = SetToBag(S)
  BY DEF Wire
<1>4. f \in Injection(S, Node)
  <2>1. \A d \in S : d.node \in Node /\ d = [id |-> id, node |-> d.node, via |-> n, ttl |-> t,
                                            at |-> "wire"]
    BY <1>1
  <2>2. f \in [S -> Node] /\ \A a, b \in S : f[a] = f[b] => a = b
    BY <2>1
  <2> HIDE DEF f, S
  <2>3. QED
    BY <2>2 DEF Injection, IsInjective
<1> HIDE DEF f, S
<1>5. IsFiniteSet(S) /\ Cardinality(S) <= FanOut
  BY <1>4, GossipAssumption, FS_Injection DEF FanOut
<1>6. ASSUME NEW d \in S PROVE Weight(d) = 4 * Burden[t]
  <2>1. Weight(d) = Steps[d.at] * Burden[d.ttl] /\ d.at = "wire" /\ d.ttl = t
    BY <1>2 DEF Weight
  <2>2. Steps["wire"] = 4
    BY DEF Steps
  <2>3. QED
    BY <2>1, <2>2
<1>7. QED
  BY <1>2, <1>3, <1>5, <1>6 DEF Sends

\* What is sent to all nodes weighs less than five copies for each node.
LEMMA SentLess ==
  ASSUME NEW k \in Nat, k <= FanOut, NEW b \in Nat, b >= 1
  PROVE  k * (4 * b) < 5 * FanOut * b /\ k * (4 * b) < (5 * FanOut + 1) * b
<1>1. FanOut \in Nat /\ FanOut >= 1
  BY FanOutPositive
<1>2. PICK m \in Nat : m = FanOut * b
  BY <1>1
<1>3. m >= 1
  <2>1. \A x \in Nat, y \in Nat : x >= 1 /\ y >= 1 => x * y >= 1
    OBVIOUS
  <2>2. QED
    BY <1>1, <1>2, <2>1
<1>4. k * (4 * b) <= 4 * m
  <2>1. \A x \in Nat, y \in Nat, z \in Nat : x <= y => x * (4 * z) <= 4 * (y * z)
    OBVIOUS
  <2>2. QED
    BY <1>1, <1>2, <2>1
<1>5. 5 * FanOut * b = 5 * m /\ (5 * FanOut + 1) * b = 5 * m + b
  BY <1>1, <1>2
<1>6. k * (4 * b) \in Int
  <2>1. \A x \in Nat, y \in Nat : x * (4 * y) \in Int
    OBVIOUS
  <2>2. QED
    BY <2>1
<1>7. QED
  BY <1>3, <1>4, <1>5, <1>6

\* gossipOrigin and gossipBlock.
LEMMA StartFades ==
  ASSUME Bagged, NEW c \in DOMAIN copies, Start(c)
  PROVE  Fades(c)
<1>1. c \in Copy /\ c.id \in Ids /\ c.node \in Node /\ c.ttl \in 1 .. TTL /\ c.at = "origin"
  BY CopyNow DEF Bagged, Start
<1>2. PICK S \in SUBSET Copy : Sends(S, c.id, c.node, NoSender, c.ttl)
  BY <1>1, WireSends
<1>3. PICK b \in Nat : b = Burden[c.ttl] /\ b >= 1
  BY <1>1, Weighs
<1>4. Weight(c) = (5 * FanOut + 1) * b
  <2>1. Steps["origin"] = 5 * FanOut + 1
    BY DEF Steps
  <2>2. QED
    BY <1>1, <1>3, <2>1 DEF Weight
<1>5. Cardinality(S) * (4 * b) < Weight(c)
  <2>1. PICK k \in Nat : k = Cardinality(S) /\ k <= FanOut
    BY <1>2, FS_CardinalityType DEF Sends
  <2>2. k * (4 * b) < (5 * FanOut + 1) * b
    BY <1>3, <2>1, SentLess, Zenon
  <2>3. QED
    BY <1>4, <2>1, <2>2
<1>6. 4 * b \in Nat
  OBVIOUS
<1>7. Lighter(c, S)
  BY <1>2, <1>3, <1>5, <1>6 DEF Lighter, Sends
<1>8. QED
  BY <1>2, <1>7 DEF Fades, Start, Sends

\* gossipForward.
LEMMA ForwardFades ==
  ASSUME Bagged, NEW c \in DOMAIN copies, Forward(c)
  PROVE  Fades(c)
<1>1. c \in Copy /\ c.id \in Ids /\ c.node \in Node /\ c.ttl \in 1 .. TTL /\ c.at = "relay"
  BY CopyNow DEF Bagged, Forward
<1>2. CASE copies' = Without(c)
  BY <1>2 DEF Fades
<1>3. CASE NextTTL(c) > 0 /\ copies' = Without(c) (+) Wire(c.id, c.node, c.via, NextTTL(c))
  <2>1. PICK t \in 1 .. TTL : t = NextTTL(c) /\ t = c.ttl - 1
    BY <1>1, <1>3, GossipAssumption DEF NextTTL
  <2>2. PICK S \in SUBSET Copy : Sends(S, c.id, c.node, c.via, t)
    BY <1>1, WireSends
  <2>3. PICK b \in Nat : b = Burden[t] /\ b >= 1
    <3>1. t \in 0 .. TTL
      BY GossipAssumption
    <3>2. QED
      BY <3>1, BurdenPositive
  <2>4. Weight(c) = 5 * FanOut * b
    <3>1. Burden[c.ttl] = 5 * FanOut * Burden[c.ttl - 1]
      BY <1>1, BurdenGrows
    <3>2. Steps["relay"] = 1
      BY DEF Steps
    <3>3. Weight(c) = 1 * Burden[c.ttl] /\ Burden[c.ttl] \in Nat
      BY <1>1, <3>2, Weighs
    <3>4. QED
      BY <2>1, <2>3, <3>1, <3>3
  <2>5. Cardinality(S) * (4 * b) < Weight(c)
    <3>1. PICK k \in Nat : k = Cardinality(S) /\ k <= FanOut
      BY <2>2, FS_CardinalityType DEF Sends
    <3>2. k * (4 * b) < 5 * FanOut * b
      BY <2>3, <3>1, SentLess, Zenon
    <3>3. QED
      BY <2>4, <3>1, <3>2
  <2>6. 4 * b \in Nat
    OBVIOUS
  <2>7. Lighter(c, S)
    BY <2>2, <2>3, <2>5, <2>6 DEF Lighter, Sends
  <2>8. QED
    BY <1>3, <2>1, <2>2, <2>7 DEF Fades, Sends
<1>4. NextTTL(c) <= 0 \/ NextTTL(c) > 0
  BY <1>1, GossipAssumption DEF NextTTL
<1>5. QED
  BY <1>2, <1>3, <1>4 DEF Forward

\* Every step of a copy, and its loss.
LEMMA CopyFades ==
  ASSUME Bagged, NEW c \in DOMAIN copies, Handle(c) \/ Lose(c)
  PROVE  Fades(c)
<1>1. CASE Start(c)
  BY <1>1, StartFades
<1>2. CASE LookUp(c)
  <2>1. c.at = "wire" /\ (copies' = Without(c) \/ Moves(c, "unseen"))
    BY <1>2 DEF LookUp
  <2>2. QED
    BY <2>1, MovesFade DEF Fades, Ats
<1>3. CASE MarkSeen(c)
  BY <1>3, MovesFade DEF MarkSeen, Ats
<1>4. CASE HandleBlock(c)
  <2>1. c.at = "marked" /\ (copies' = Without(c) \/ Moves(c, "relay"))
    BY <1>4 DEF HandleBlock
  <2>2. QED
    BY <2>1, MovesFade DEF Fades, Ats
<1>5. CASE HandleMessage(c)
  BY <1>5, MovesFade DEF HandleMessage, Ats
<1>6. CASE Forward(c)
  BY <1>6, ForwardFades
<1>7. CASE Lose(c)
  BY <1>7 DEF Lose, Fades
<1>8. QED
  BY <1>1, <1>2, <1>3, <1>4, <1>5, <1>6, <1>7 DEF Handle

\* What DiesOut says of a step.
Dies ==
  \/ copies' = copies \/ sent' # sent \/ height'[Leader] # height[Leader]
  \/ TotalWeight' < TotalWeight

LEMMA LaunchFinite ==
  ASSUME FiniteCopies, NEW id, NEW n, Launch(id, n)
  PROVE  FiniteCopies'
<1>1. DOMAIN copies' = DOMAIN copies \cup {Origin(id, n)}
  BY DEF Launch, (+), SetToBag
<1>2. QED
  BY <1>1, FS_AddElement DEF FiniteCopies

LEMMA StepDies == Typed /\ FiniteCopies /\ [Next]_vars => Dies /\ FiniteCopies'
<1> SUFFICES ASSUME Typed, FiniteCopies, [Next]_vars PROVE Dies /\ FiniteCopies'
  OBVIOUS
<1>1. Bagged
  BY DEF Typed, Bagged
<1>2. CASE UNCHANGED copies
  BY <1>2 DEF Dies, FiniteCopies
<1>3. CASE ProposeTick
  <2>1. height[Leader] \in Nat /\ Leader \in DOMAIN height
    BY GossipAssumption DEF Typed, StoreTyped
  <2>2. height'[Leader] = height[Leader] + 1
    BY <1>3, <2>1 DEF ProposeTick, Proposed
  <2>3. FiniteCopies'
    BY <1>3, LaunchFinite DEF ProposeTick
  <2>4. QED
    BY <2>1, <2>2, <2>3 DEF Dies
<1>4. ASSUME NEW n \in Node, Announce(n) PROVE Dies /\ FiniteCopies'
  <2>1. sent \in Nat /\ sent' = sent + 1
    BY <1>4, GossipAssumption DEF Typed, RestTyped, Announce
  <2>2. FiniteCopies'
    BY <1>4, LaunchFinite DEF Announce
  <2>3. QED
    BY <2>1, <2>2 DEF Dies
<1>5. ASSUME NEW c \in DOMAIN copies, Handle(c) \/ Lose(c) PROVE Dies /\ FiniteCopies'
  BY <1>1, <1>5, CopyFades, Fading DEF Dies
<1>6. CASE ProposeBroadcast \/ \E n \in Node : SyncBlock(n)
  BY <1>2, <1>6 DEF ProposeBroadcast, SyncBlock
<1>7. CASE UNCHANGED vars
  BY <1>2, <1>7 DEF vars
<1>8. QED
  BY <1>3, <1>4, <1>5, <1>6, <1>7 DEF Next, BagToSet

\* A message or a block, once sent, causes only so many more steps in the whole mesh,
\* whatever m.seen forgets and however copies race in handleIncoming: gossipForward
\* counts the TTL down, and no node sends to more peers than there are.
THEOREM GossipDies == Spec => DiesOut
<1>1. Init => FiniteCopies
  BY FS_EmptySet DEF Init, FiniteCopies, EmptyBag, SetToBag
<1>2. Typed /\ FiniteCopies /\ [Next]_vars => FiniteCopies'
  BY StepDies
<1>3. Typed /\ FiniteCopies /\ [Next]_vars => [Dies]_vars
  BY StepDies
<1>4. QED
  BY <1>1, <1>2, <1>3, TypedInit, TypedNext, InvInit, InvNext, PTL DEF Spec, DiesOut, Dies
=============================================================================
