------------------------------- MODULE SyncLoop -------------------------------
(***************************************************************************)
(* How a node catches up with its peers: bootstrapSync of                  *)
(* src/internal/mesh/chain_sync.go, the peer records it shares with the    *)
(* dial loop (dial.go, peer_touch.go), and the two other goroutines that   *)
(* bring blocks in at the same time, block gossip and the pull that a      *)
(* signed state announcement starts (messages.go).                         *)
(*                                                                         *)
(* A block names its parent, so it is written as the chain that ends in    *)
(* it: a sequence with one element per height, the branch of the block.    *)
(* There is one branch as long as the proposer loses no block.  Each       *)
(* request is a step; what is done with the answer under a lock is part of *)
(* the step, except that the loop applies a range block by block while it  *)
(* holds the lock of the chain, and a crash may come between two of them.  *)
(* Time is abstracted: a suppression ends at some point, how long it lasts *)
(* (SyncFailures, FailureCount) is left out.  Every peer meters requests   *)
(* with a bucket of tokens (http_ratelimit.go, which RateLimit has in      *)
(* full); it refills while the loop sleeps between two rounds.             *)
(***************************************************************************)
EXTENDS Integers, Sequences, FiniteSets, SequencesExt

CONSTANTS
  Peer, Leader,     \* the peers of this node; Leader is the proposer
  Nobody,           \* no peer, no pull under way
  Chunk,            \* blocks per range, 50 in the code
  BufferDistance,   \* maxProposalBufferDistance = 2
  SuppressAfter,    \* peerFailureSuppressAfter = 3
  Burst, Refill,    \* tokens in a full bucket, and what a sleep of the loop brings back
  MaxHeight, MaxFaults, MaxOutages, MaxRestarts, MaxLosses, MaxPulls, \* bounds
  MaxTrouble        \* a bound on the last five together

ASSUME SyncAssumption ==
  /\ Leader \in Peer /\ Nobody \notin Peer
  /\ Chunk \in Nat \ {0} /\ BufferDistance \in Nat /\ SuppressAfter \in Nat \ {0}
  /\ Burst \in Nat /\ Refill \in Nat
  /\ MaxHeight \in Nat /\ MaxFaults \in Nat /\ MaxOutages \in Nat
  /\ MaxRestarts \in Nat /\ MaxLosses \in Nat /\ MaxPulls \in Nat /\ MaxTrouble \in Nat

VARIABLES
  truth,    \* the proposer's chain
  served,   \* the chain each peer's HTTP surface shows, from the start of replay on
  shown,    \* history: the longest chain each peer has shown
  up,       \* whether each peer can be reached
  bucket,   \* the tokens each peer keeps for this node
  chain,    \* this node's chain
  pending,  \* and its buffer, c.pending
  peers,    \* m.peers, with LastHeight and LastTip as last, and whether a dial is on
  loop,     \* the locals of bootstrapSync
  pull,     \* the locals of maybeSyncFromSignedState
  used      \* how much of each bound is used

world == <<truth, served, shown, up>>
store == <<chain, pending>>
vars == <<world, store, bucket, peers, loop, pull, used>>

Block == BoundedSeq(0 .. MaxLosses, MaxHeight)
Prefix(b, n) == SubSeq(b, 1, n)
Use(what) ==
  /\ used.faults + used.outages + used.restarts + used.losses + used.pulls < MaxTrouble
  /\ used' = [used EXCEPT ![what] = @ + 1]

Resting == [pc |-> "rest", toProbe |-> {}, samples |-> {}, addr |-> Nobody,
            best |-> <<>>, from |-> 0, got |-> <<>>, progressed |-> FALSE]
Idle == [addr |-> Nobody, next |-> 0, to |-> 0]
NewPeer == [dialing |-> FALSE, reachable |-> FALSE, suppressed |-> FALSE,
            failures |-> 0, last |-> <<>>]

Init ==
  /\ truth = <<>> /\ served = [p \in Peer |-> <<>>] /\ shown = served
  /\ up = [p \in Peer |-> TRUE] /\ bucket = [p \in Peer |-> Burst]
  /\ chain = <<>> /\ pending = {}
  /\ peers = [p \in Peer |-> NewPeer]
  /\ loop = Resting /\ pull = Idle
  /\ used = [faults |-> 0, outages |-> 0, restarts |-> 0, losses |-> 0, pulls |-> 0]

-----------------------------------------------------------------------------
(* applyBlockOrBufferLocked and drainPendingLocked, on the pair of a chain  *)
(* and a buffer; ChainNode has them in full.                                *)

Extends(b, s) == Len(b) = Len(s.chain) + 1 /\ Prefix(b, Len(s.chain)) = s.chain

Bufferable(b, s) ==
  /\ Len(b) \in Len(s.chain) + 2 .. Len(s.chain) + BufferDistance
  /\ \A q \in s.pending : Len(q) # Len(b)

\* The chains that the buffer continues the chain to, block by block.
Reach(s) ==
  {q \in {s.chain} \cup s.pending :
     /\ IsPrefix(s.chain, q)
     /\ \A n \in Len(s.chain) + 1 .. Len(q) : Prefix(q, n) \in s.pending}

\* The loop stops at the first height it cannot fill; what it finds there it drops.
Drain(s) ==
  LET end == CHOOSE q \in Reach(s) : \A r \in Reach(s) : Len(r) <= Len(q)
  IN [chain |-> end,
      pending |-> {q \in s.pending : Len(q) \notin Len(s.chain) + 1 .. Len(end) + 1}]

Taken(b, s) == Extends(b, s) \/ Bufferable(b, s)

Deliver(s, b) ==
  IF Extends(b, s) THEN Drain([s EXCEPT !.chain = b])
  ELSE IF Bufferable(b, s) THEN [s EXCEPT !.pending = @ \cup {b}]
  ELSE s

Store == [chain |-> chain, pending |-> pending]
SetStore(s) == chain' = s.chain /\ pending' = s.pending

-----------------------------------------------------------------------------
(* The peer records. *)

SyncFailed(p) == peers' = [peers EXCEPT ![p].suppressed = TRUE]
SyncSucceeded(p, tip) ==
  peers' = [peers EXCEPT ![p].suppressed = FALSE, ![p].last = tip]

\* Slip: a peer is heard again only when it has grown.
Grown(p, tip) == Len(tip) > Len(peers[p].last)

\* notePeerHeightSample: neither a lower height nor another tip at the same one.
Accepts(p, tip) ==
  /\ Len(tip) >= Len(peers[p].last)
  /\ Len(tip) = Len(peers[p].last) /\ tip # <<>> => tip = peers[p].last

\* ConnectToPeers looks at the suppression, dials, and then takes the lock again.
ShouldDial(p) ==
  /\ ~peers[p].suppressed /\ ~peers[p].dialing
  /\ peers' = [peers EXCEPT ![p].dialing = TRUE]
  /\ UNCHANGED <<world, store, bucket, loop, pull, used>>

\* TouchReachable: what the dial found.
TouchReachable(p) ==
  LET r == peers[p]
      n == IF r.failures < SuppressAfter THEN r.failures + 1 ELSE SuppressAfter
      found == IF up[p]
               THEN [r EXCEPT !.reachable = TRUE, !.suppressed = FALSE, !.failures = 0]
               ELSE [r EXCEPT !.reachable = FALSE, !.failures = n,
                              !.suppressed = @ \/ n = SuppressAfter]
  IN /\ r.dialing
     /\ peers' = [peers EXCEPT ![p] = [found EXCEPT !.dialing = FALSE]]
     /\ UNCHANGED <<world, store, bucket, loop, pull, used>>

\* A message of p arrives: TouchPeer.
Touch(p) ==
  /\ up[p]
  /\ peers' = [peers EXCEPT ![p].suppressed = FALSE, ![p].failures = 0]
  /\ UNCHANGED <<world, store, bucket, loop, pull, used>>

\* The clock reaches SuppressedUntil.
Expire(p) ==
  /\ peers[p].suppressed
  /\ peers' = [peers EXCEPT ![p].suppressed = FALSE]
  /\ UNCHANGED <<world, store, bucket, loop, pull, used>>

-----------------------------------------------------------------------------
(* bootstrapSync. *)

\* Slip: the refill is not cut at a full bucket.
Overfull(n) == n + Refill

Refilled(n) == IF n + Refill < Burst THEN n + Refill ELSE Burst

\* reachablePeersForSync; with no peer the loop sleeps and tries again.
StartRound ==
  LET ready == {p \in Peer : peers[p].reachable /\ ~peers[p].suppressed}
  IN /\ loop.pc = "rest" /\ ready # {}
     /\ bucket' = [p \in Peer |-> Refilled(bucket[p])]
     /\ loop' = [Resting EXCEPT !.pc = "probe", !.toProbe = ready]
     /\ UNCHANGED <<world, store, peers, pull, used>>

\* A request of this node is answered, or fails: the peer is away, it has no token left
\* for this node, or the network loses the request.
Asked(p) == up[p] /\ bucket[p] > 0 /\ bucket' = [bucket EXCEPT ![p] = @ - 1]
Fails(p) == /\ UNCHANGED bucket
            /\ \/ (~up[p] \/ bucket[p] = 0) /\ UNCHANGED used
               \/ used.faults < MaxFaults /\ Use("faults")

\* What a peer answers: /chain/status, and /chain/block for a height.
StatusOf(p) == served[p]
HasBlock(p, h) == h <= Len(served[p])
BlockOf(p, h) == Prefix(served[p], h)

Probe(p) ==
  /\ loop.pc = "probe" /\ p \in loop.toProbe
  /\ \/ /\ Fails(p) /\ SyncFailed(p)
        /\ loop' = [loop EXCEPT !.toProbe = @ \ {p}]
     \/ /\ Asked(p) /\ ~Accepts(p, StatusOf(p)) /\ SyncFailed(p)
        /\ loop' = [loop EXCEPT !.toProbe = @ \ {p}]
        /\ UNCHANGED used
     \/ /\ Asked(p) /\ Accepts(p, StatusOf(p)) /\ SyncSucceeded(p, StatusOf(p))
        /\ loop' = [loop EXCEPT !.toProbe = @ \ {p},
                                !.samples = @ \cup {<<p, StatusOf(p)>>}]
        /\ UNCHANGED used
  /\ UNCHANGED <<world, store, pull>>

\* The candidates are sorted by height; a node that is not behind rests.
Choose ==
  /\ loop.pc = "probe" /\ loop.toProbe = {}
  /\ \/ /\ \A c \in loop.samples : Len(c[2]) <= Len(chain)
        /\ loop' = Resting
     \/ \E c \in loop.samples :
          /\ \A d \in loop.samples : Len(d[2]) <= Len(c[2])
          /\ Len(c[2]) > Len(chain)
          /\ loop' = [Resting EXCEPT !.pc = "fetch", !.addr = c[1], !.best = c[2],
                                     !.from = Len(chain) + 1]
  /\ UNCHANGED <<world, store, bucket, peers, pull, used>>

End == IF loop.from + Chunk - 1 > Len(loop.best)
       THEN Len(loop.best) ELSE loop.from + Chunk - 1

\* One request of requestPeerRange.  An error drops what the range has brought.
Fetch ==
  LET h == loop.from + Len(loop.got)
      p == loop.addr
  IN /\ loop.pc = "fetch"
     /\ \/ /\ Asked(p) /\ HasBlock(p, h)
           /\ loop' = [loop EXCEPT !.got = Append(@, BlockOf(p, h)),
                                   !.pc = IF h = End THEN "apply" ELSE "fetch"]
           /\ UNCHANGED <<peers, used>>
        \/ /\ Fails(p) \/ (Asked(p) /\ ~HasBlock(p, h) /\ UNCHANGED used)
           /\ SyncFailed(p)
           /\ loop' = [loop EXCEPT !.got = <<>>, !.pc = "finish"]
     /\ UNCHANGED <<world, store, pull>>

\* The range is applied block by block; then the buffer is drained.
ApplyBlock ==
  LET s == Deliver(Store, Head(loop.got))
  IN /\ loop.pc = "apply" /\ loop.got # <<>>
     /\ SetStore(s)
     /\ loop' = [loop EXCEPT !.got = Tail(@), !.progressed = @ \/ Len(s.chain) > Len(chain)]
     /\ UNCHANGED <<world, bucket, peers, pull, used>>

EndRange ==
  LET s == Drain(Store)
      next == loop.from + Chunk
  IN /\ loop.pc = "apply" /\ loop.got = <<>>
     /\ SetStore(s)
     /\ loop' = [loop EXCEPT !.from = next,
                             !.progressed = @ \/ Len(s.chain) > Len(chain),
                             !.pc = IF next <= Len(loop.best) THEN "fetch" ELSE "finish"]
     /\ UNCHANGED <<world, bucket, peers, pull, used>>

\* Slip: the goroutine returns when it has caught up once.
Return ==
  /\ loop.pc = "finish"
  /\ loop' = [Resting EXCEPT !.pc = "returned"]
  /\ UNCHANGED <<world, store, bucket, peers, pull, used>>

\* The end of a round: height and tip of this node become those of the peer.
Finish ==
  /\ loop.pc = "finish"
  /\ IF Len(chain) < Len(loop.best) /\ ~loop.progressed
     THEN SyncFailed(loop.addr)
     ELSE SyncSucceeded(loop.addr, chain)
  /\ loop' = Resting
  /\ UNCHANGED <<world, store, bucket, pull, used>>

-----------------------------------------------------------------------------
(* Block gossip and the pull of maybeSyncFromSignedState. *)

\* c.mu is free: the loop is not applying a range.
Free == loop.pc # "apply"

Gossip(n) ==
  /\ Free /\ Taken(Prefix(truth, n), Store)
  /\ SetStore(Deliver(Store, Prefix(truth, n)))
  /\ UNCHANGED <<world, bucket, peers, loop, pull, used>>

\* The announcement of o, passed on by p.
Announce(o, p) ==
  /\ Free /\ pull = Idle /\ used.pulls < MaxPulls
  /\ Len(served[o]) > Len(chain)
  /\ pull' = [addr |-> p, next |-> Len(chain) + 1, to |-> Len(served[o])]
  /\ Use("pulls")
  /\ UNCHANGED <<world, store, bucket, peers, loop>>

\* One block; any error ends the pull.
Pull ==
  LET p == pull.addr
      b == BlockOf(p, pull.next)
      good == HasBlock(p, pull.next) /\ Taken(b, Store)
  IN /\ Free /\ pull # Idle
     /\ \/ /\ Asked(p) /\ good
           /\ SetStore(Deliver(Store, b))
           /\ pull' = IF pull.next < pull.to THEN [pull EXCEPT !.next = @ + 1] ELSE Idle
           /\ UNCHANGED used
        \/ /\ pull' = Idle
           /\ \/ Fails(p)
              \/ Asked(p) /\ ~good /\ UNCHANGED used
           /\ UNCHANGED store
     /\ UNCHANGED <<world, peers, loop>>

\* This node restarts: blocks are on the disk, everything else is in memory.
NodeRestart ==
  /\ used.restarts < MaxRestarts /\ Use("restarts")
  /\ pending' = {} /\ loop' = Resting /\ pull' = Idle
  /\ peers' = [p \in Peer |-> NewPeer]
  /\ UNCHANGED <<world, chain, bucket>>

-----------------------------------------------------------------------------
(* The peers. *)

Produce ==
  /\ served[Leader] = truth /\ Len(truth) < MaxHeight
  /\ truth' = Append(truth, used.losses)
  /\ served' = [served EXCEPT ![Leader] = truth']
  /\ shown' = [shown EXCEPT ![Leader] = truth']
  /\ UNCHANGED <<up, store, bucket, peers, loop, pull, used>>

\* A peer applies the next block of the proposer, or replays one from its disk.
Grow(p) ==
  /\ IsStrictPrefix(served[p], truth)
  /\ served' = [served EXCEPT ![p] = Prefix(truth, Len(@) + 1)]
  /\ shown' = [shown EXCEPT ![p] = IF Len(served'[p]) > Len(@) THEN served'[p] ELSE @]
  /\ UNCHANGED <<truth, up, store, bucket, peers, loop, pull, used>>

\* The HTTP surface opens before replay has begun.
PeerRestart(p) ==
  /\ used.restarts < MaxRestarts /\ Use("restarts")
  /\ served' = [served EXCEPT ![p] = <<>>]
  /\ UNCHANGED <<truth, shown, up, store, bucket, peers, loop, pull>>

\* The file of the proposer's tip decays.  The start that finds it halts with the file
\* in quarantine, and the next one serves without it.
LoseTip ==
  /\ used.losses < MaxLosses /\ Use("losses")
  /\ truth # <<>>
  /\ truth' = Front(truth)
  /\ served' = [served EXCEPT ![Leader] = <<>>]
  /\ UNCHANGED <<shown, up, store, bucket, peers, loop, pull>>

Down(p) ==
  /\ up[p] /\ used.outages < MaxOutages /\ Use("outages")
  /\ up' = [up EXCEPT ![p] = FALSE]
  /\ UNCHANGED <<truth, served, shown, store, bucket, peers, loop, pull>>

Up(p) ==
  /\ ~up[p]
  /\ up' = [up EXCEPT ![p] = TRUE]
  /\ UNCHANGED <<truth, served, shown, store, bucket, peers, loop, pull, used>>

-----------------------------------------------------------------------------
Sync ==
  StartRound \/ (\E p \in Peer : Probe(p)) \/ Choose \/ Fetch \/ ApplyBlock \/ EndRange \/ Finish

Next ==
  \/ Sync \/ Pull \/ NodeRestart \/ Produce \/ LoseTip
  \/ \E n \in 1 .. Len(truth) : Gossip(n)
  \/ \E p \in Peer :
       \/ ShouldDial(p) \/ TouchReachable(p) \/ Touch(p) \/ Expire(p)
       \/ Grow(p) \/ PeerRestart(p) \/ Down(p) \/ Up(p)
       \/ \E o \in Peer : Announce(o, p)

Spec == Init /\ [][Next]_vars

\* The loops of this node run on, and suppressions end; the proposer's ticker runs on,
\* outages and replays end, a pull goes on.  The last four can happen only so often
\* between two faults, so that their fairness is one condition.  Gossip, announcements
\* and incoming messages may never arrive.
Fairness ==
  /\ WF_vars(Sync)
  /\ WF_vars(\E p \in Peer : ShouldDial(p) \/ TouchReachable(p))
  /\ WF_vars(\E p \in Peer : Expire(p))
  /\ WF_vars(Produce \/ Pull \/ \E p \in Peer : Up(p) \/ Grow(p))

FairSpec == Spec /\ Fairness

-----------------------------------------------------------------------------
(* Properties. *)

\* Records and locals hold what the code's types allow.
TypeOK ==
  /\ truth \in Block /\ served \in [Peer -> Block] /\ shown \in [Peer -> Block]
  /\ up \in [Peer -> BOOLEAN] /\ bucket \in [Peer -> 0 .. Burst]
  /\ chain \in Block /\ pending \subseteq Block
  /\ peers \in [Peer -> [dialing : BOOLEAN, reachable : BOOLEAN, suppressed : BOOLEAN,
                         failures : 0 .. SuppressAfter, last : Block]]
  /\ loop.pc \in {"rest", "probe", "fetch", "apply", "finish"}
  /\ loop.toProbe \subseteq Peer /\ loop.samples \subseteq Peer \X Block
  /\ loop.addr \in Peer \cup {Nobody} /\ loop.best \in Block
  /\ loop.got \in Seq(Block) /\ Len(loop.got) <= Chunk
  /\ pull.addr \in Peer \cup {Nobody}

\* The end of a round records this node's own height as the peer's
\* (chain_sync.go:170), which may be above it, and notePeerHeightSample refuses a peer
\* that is below its record; yet, unless the proposer has lost a block, a peer that has
\* replayed its files and has a block this node lacks is never refused as stale or
\* conflicting.
AheadIsHeard ==
  used.losses = 0 =>
    \A p \in Peer :
      Len(served[p]) > Len(chain) /\ served[p] = shown[p] => Accepts(p, served[p])

\* The node has the proposer's tip again and again, although requests fail or are refused
\* with 429, peers go away or answer while they replay, this node restarts, and gossip
\* may bring nothing, unless the proposer has lost a block ("Bootstrap sync reaches
\* parity from configured peers", LAUNCH_CANDIDATE_RUNBOOK.md:17).
ReachesParity == []<>(chain = truth \/ used.losses > 0)
=============================================================================
