-------------------------------- MODULE Gossip --------------------------------
(***************************************************************************)
(* How messages and blocks spread over the mesh: gossip.go, messages.go    *)
(* and seen.go of src/internal/mesh.                                       *)
(*                                                                         *)
(* Every copy of a message is a goroutine, first sendWireOnce at the       *)
(* sender, then handleIncoming at the receiver.  "copies" is the bag of    *)
(* them; "at" says what a copy does next.  The look-up in m.seen and       *)
(* markSeen take the lock of the daemon one after the other, so other      *)
(* copies come between them.                                               *)
(*                                                                         *)
(* The one proposer makes the one chain, so a block is its height.  An     *)
(* entry of m.seen lives for two minutes, longer than a copy with its      *)
(* timeouts of seconds can be on its way; only the cap SeenMax forgets     *)
(* what may still come.                                                    *)
(***************************************************************************)
EXTENDS Integers, Sequences, FiniteSets, Bags, SequencesExt

CONSTANTS
  Node, Leader,
  Peers,          \* bootstrapPeers of each node
  TTL,            \* 3 in the code
  SeenMax,        \* 5000 in the code
  BufferDistance, \* maxProposalBufferDistance = 2
  Lag,            \* how far back a block may be under way when the next is proposed
  NoSender,
  Apart,          \* a bound: announcements are explored apart from blocks
  MaxHeight, MaxMessages, MaxLosses \* bounds

ASSUME GossipAssumption ==
  /\ IsFiniteSet(Node) /\ Leader \in Node /\ NoSender \notin Node
  /\ Peers \in [Node -> SUBSET Node]
  /\ TTL \in Nat \ {0} /\ SeenMax \in Nat \ {0} /\ BufferDistance \in Nat
  /\ Lag \in Nat /\ Apart \in BOOLEAN
  /\ MaxHeight \in Nat /\ MaxMessages \in Nat /\ MaxLosses \in Nat

VARIABLES
  height,   \* c.height of each node
  pending,  \* the heights in c.pending of each node
  seen,     \* m.seen of each node, the oldest id first
  copies,   \* the copies under way
  sent,     \* how many messages there have been
  relayed,  \* history: the bag of blocks each node has passed on
  missed    \* history: copies lost, whether a node got a block another way, or a
            \* block was never sent

store == <<height, pending>>
vars == <<store, seen, copies, sent, relayed, missed>>

Ids == {[type |-> "block", n |-> h] : h \in 1 .. MaxHeight} \cup
       {[type |-> "msg", n |-> i] : i \in 1 .. MaxMessages}
Copy == [id : Ids, node : Node, via : Node \cup {NoSender}, ttl : 1 .. TTL,
         at : {"origin", "wire", "unseen", "marked", "relay"}]

Init ==
  /\ height = [n \in Node |-> 0] /\ pending = [n \in Node |-> {}]
  /\ seen = [n \in Node |-> <<>>]
  /\ copies = EmptyBag /\ sent = 0
  /\ relayed = [n \in Node |-> EmptyBag]
  /\ missed = [lost |-> 0, synced |-> FALSE, unsent |-> FALSE]

-----------------------------------------------------------------------------
\* Slip: the cap is enforced before the entry is made.
MarkedLate(ids, id) ==
  Append(IF Len(ids) > SeenMax THEN Tail(ids) ELSE ids, id)

\* markSeen: the newest entry moves to the end, the oldest leaves when the cap is
\* exceeded.  No id is in m.seen twice.
Marked(ids, id) ==
  LET all == Append(RemoveFirst(ids, id), id)
  IN IF Len(all) > SeenMax THEN Tail(all) ELSE all

Without(c) == copies (-) SetToBag({c})
Moves(c, where) == copies' = Without(c) (+) SetToBag({[c EXCEPT !.at = where]})

\* The copies that node n sends on when it has the message from "via".
Wire(id, n, via, ttl) ==
  SetToBag({[id |-> id, node |-> m, via |-> n, ttl |-> ttl, at |-> "wire"] :
              m \in Peers[n] \ {n, via}})

-----------------------------------------------------------------------------
(* Origins. *)

Origin(id, n) == [id |-> id, node |-> n, via |-> NoSender, ttl |-> TTL, at |-> "origin"]
Launch(id, n) == copies' = copies (+) SetToBag({Origin(id, n)})

Alone(type) == Apart => \A c \in BagToSet(copies) : c.id.type = type

\* gossipOrigin, for the signed state.
Announce(n) ==
  /\ sent < MaxMessages /\ Alone("msg")
  /\ sent' = sent + 1
  /\ Launch([type |-> "msg", n |-> sent'], n)
  /\ UNCHANGED <<store, seen, relayed, missed>>

Proposed == height' = [height EXCEPT ![Leader] = @ + 1]

\* The ticker of three seconds paces the proposer: a copy of an older block than this
\* has arrived or has timed out.
Paced == \A c \in BagToSet(copies) : c.id.type = "block" => c.id.n + Lag > height[Leader]

\* The proposer loop hands the block to a goroutine that runs gossipBlock.
ProposeTick ==
  /\ height[Leader] < MaxHeight /\ Paced /\ Alone("block")
  /\ Proposed
  /\ Launch([type |-> "block", n |-> height[Leader] + 1], Leader)
  /\ UNCHANGED <<pending, seen, sent, relayed, missed>>

\* POST /chain/propose_broadcast: the block is read back, and that is all.
ProposeBroadcast ==
  /\ height[Leader] < MaxHeight
  /\ Proposed
  /\ missed' = [missed EXCEPT !.unsent = TRUE]
  /\ UNCHANGED <<pending, seen, copies, sent, relayed>>

\* gossipOrigin and gossipBlock: mark the id, then a goroutine for every peer.
Start(c) ==
  /\ c.at = "origin"
  /\ seen' = [seen EXCEPT ![c.node] = Marked(@, c.id)]
  /\ copies' = Without(c) (+) Wire(c.id, c.node, NoSender, c.ttl)
  /\ UNCHANGED <<store, sent, relayed, missed>>

-----------------------------------------------------------------------------
(* handleIncoming. *)

\* sendWireOnce does not try again.
Lose(c) ==
  /\ missed.lost < MaxLosses /\ c.at = "wire"
  /\ copies' = Without(c)
  /\ missed' = [missed EXCEPT !.lost = @ + 1]
  /\ UNCHANGED <<store, seen, sent, relayed>>

LookUp(c) ==
  /\ c.at = "wire"
  /\ IF c.id \in ToSet(seen[c.node]) THEN copies' = Without(c) ELSE Moves(c, "unseen")
  /\ UNCHANGED <<store, seen, sent, relayed, missed>>

MarkSeen(c) ==
  /\ c.at = "unseen"
  /\ seen' = [seen EXCEPT ![c.node] = Marked(@, c.id)]
  /\ Moves(c, "marked")
  /\ UNCHANGED <<store, sent, relayed, missed>>

Successor(h, n) == h = height[n] + 1

\* Slip: a second copy of a buffered block counts as buffered.
BufferableAgain(h, n) == h \in height[n] + 2 .. height[n] + BufferDistance

Bufferable(h, n) ==
  h \in (height[n] + 2 .. height[n] + BufferDistance) \ pending[n]

\* The height after h has been applied and the buffer drained.
Drained(h, n) ==
  CHOOSE k \in h .. h + Cardinality(pending[n]) :
    h + 1 .. k \subseteq pending[n] /\ k + 1 \notin pending[n]

Advance(h, n) ==
  /\ height' = [height EXCEPT ![n] = Drained(h, n)]
  /\ pending' = [pending EXCEPT ![n] = {k \in @ : k > height'[n]}]

\* Slip: a block that is only buffered is not passed on.
HandleApplied(c) ==
  /\ c.at = "marked" /\ c.id.type = "block"
  /\ \/ Successor(c.id.n, c.node) /\ Advance(c.id.n, c.node) /\ Moves(c, "relay")
     \/ /\ Bufferable(c.id.n, c.node)
        /\ pending' = [pending EXCEPT ![c.node] = @ \cup {c.id.n}]
        /\ copies' = Without(c) /\ UNCHANGED height
     \/ /\ ~Successor(c.id.n, c.node) /\ ~Bufferable(c.id.n, c.node)
        /\ copies' = Without(c) /\ UNCHANGED store
  /\ UNCHANGED <<seen, sent, relayed, missed>>

\* A block is applied or buffered, and then passed on; one that is refused is not.
HandleBlock(c) ==
  /\ c.at = "marked" /\ c.id.type = "block"
  /\ \/ Successor(c.id.n, c.node) /\ Advance(c.id.n, c.node) /\ Moves(c, "relay")
     \/ /\ Bufferable(c.id.n, c.node)
        /\ pending' = [pending EXCEPT ![c.node] = @ \cup {c.id.n}]
        /\ Moves(c, "relay") /\ UNCHANGED height
     \/ /\ ~Successor(c.id.n, c.node) /\ ~Bufferable(c.id.n, c.node)
        /\ copies' = Without(c) /\ UNCHANGED store
  /\ UNCHANGED <<seen, sent, relayed, missed>>

\* The inbox, which the message is appended to, is never read.
HandleMessage(c) ==
  /\ c.at = "marked" /\ c.id.type = "msg"
  /\ Moves(c, "relay")
  /\ UNCHANGED <<store, seen, sent, relayed, missed>>

\* Slip: the TTL is not counted down.
SameTTL(c) == c.ttl

NextTTL(c) == c.ttl - 1

\* gossipForward, to every peer but the one the copy came from.
Forward(c) ==
  /\ c.at = "relay"
  /\ IF NextTTL(c) <= 0
     THEN copies' = Without(c) /\ UNCHANGED relayed
     ELSE /\ copies' = Without(c) (+) Wire(c.id, c.node, c.via, NextTTL(c))
          /\ relayed' = IF c.id.type = "block"
                         THEN [relayed EXCEPT ![c.node] = @ (+) SetToBag({c.id.n})]
                         ELSE relayed
  /\ UNCHANGED <<store, seen, sent, missed>>

Handle(c) ==
  Start(c) \/ LookUp(c) \/ MarkSeen(c) \/ HandleBlock(c) \/ HandleMessage(c) \/ Forward(c)

\* bootstrapSync brings the next block before gossip does.
SyncBlock(n) ==
  /\ height[n] < height[Leader]
  /\ Advance(height[n] + 1, n)
  /\ missed' = [missed EXCEPT !.synced = TRUE]
  /\ UNCHANGED <<seen, copies, sent, relayed>>

Next ==
  \/ ProposeTick \/ ProposeBroadcast
  \/ \E n \in Node : Announce(n) \/ SyncBlock(n)
  \/ \E c \in BagToSet(copies) : Handle(c) \/ Lose(c)

Spec == Init /\ [][Next]_vars

\* The proposer keeps proposing and every goroutine runs on.
FairSpec ==
  Spec /\ WF_vars(ProposeTick \/ ProposeBroadcast)
       /\ WF_vars(\E c \in BagToSet(copies) : Handle(c))

-----------------------------------------------------------------------------
(* Properties. *)

\* The tables have the types of the code, and m.seen stays within its cap.
TypeOK ==
  /\ height \in [Node -> 0 .. MaxHeight] /\ pending \in [Node -> SUBSET (1 .. MaxHeight)]
  /\ \A n \in Node : /\ seen[n] \in Seq(Ids) /\ Len(seen[n]) <= SeenMax
  /\ IsABag(copies) /\ BagToSet(copies) \subseteq Copy
  /\ sent \in 0 .. MaxMessages
  /\ missed \in [lost : 0 .. MaxLosses, synced : BOOLEAN, unsent : BOOLEAN]

\* A node passes a block on once, although two copies can both find its id unseen and
\* the cap can forget it: the second is refused under the lock of the chain.
BlockRelayedOnce ==
  \A n \in Node : \A h \in BagToSet(relayed[n]) : relayed[n][h] = 1

\* What a copy can still cause: its own steps, and those of the copies it is
\* passed on as.
FanOut == Cardinality(Node)
Burden[t \in 0 .. TTL] == IF t = 0 THEN 1 ELSE 5 * FanOut * Burden[t - 1]
Steps == [origin |-> 5 * FanOut + 1, wire |-> 4, unseen |-> 3, marked |-> 2, relay |-> 1]
Weight(c) == Steps[c.at] * Burden[c.ttl]
TotalWeight == SumFunction([c \in DOMAIN copies |-> copies[c] * Weight(c)])

\* A message dies out however small m.seen is and however copies race: apart from new
\* messages, no step leaves more to do than there was, and a copy's own step leaves
\* less ("to prevent loops/duplication", seen.go:6).
DiesOut ==
  [][copies' = copies \/ sent' # sent \/ height'[Leader] # height[Leader]
     \/ TotalWeight' < TotalWeight]_vars

\* Blocks reach every node by gossip: one that overtakes the one before it is buffered,
\* passed on all the same, and applied later, and one lost copy is made up for by what
\* other nodes pass on (handleIncoming, drainPendingLocked, gossipForward).  A node that
\* has got the block from the sync loop already does not pass it on, so the two together
\* are excepted; so is a block that propose_broadcast has made, which is not sent.
ReachesAll ==
  <>(\/ \A n \in Node : height[n] = MaxHeight
     \/ missed.lost > 0 /\ missed.synced
     \/ missed.unsent)
=============================================================================
