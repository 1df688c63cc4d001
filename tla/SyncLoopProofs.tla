---------------------------- MODULE SyncLoopProofs ----------------------------
(***************************************************************************)
(* Proof that bootstrapSync hears a peer that is ahead, for any number of  *)
(* peers and any bounds.  As long as the proposer has lost no block, every *)
(* chain that a peer serves, that this node holds, buffers or has fetched, *)
(* and every tip that it has noted is a prefix of the proposer's chain; so *)
(* the record of a peer is no longer than what that peer has shown, or no  *)
(* longer than this node's own chain, and two tips of one height are one.  *)
(* Types are proved at the end.                                            *)
(***************************************************************************)
EXTENDS SyncLoop, NaturalsInduction, WellFoundedInduction, TLAPS

\* A prefix of the proposer's chain.
Of(b) ==
  /\ b \in Seq(Nat) /\ Len(b) <= Len(truth)
  /\ \A i \in 1 .. Len(b) : b[i] = truth[i]

World ==
  /\ truth \in Seq(Nat)
  /\ served \in [Peer -> Seq(Nat)] /\ shown \in [Peer -> Seq(Nat)]
  /\ \A p \in Peer : Of(served[p]) /\ Of(shown[p]) /\ Len(served[p]) <= Len(shown[p])

Blocks == Of(chain) /\ \A q \in pending : Of(q)

Record == [dialing : BOOLEAN, reachable : BOOLEAN, suppressed : BOOLEAN,
           failures : Nat, last : Seq(Nat)]

\* LastHeight of a peer is a height that it has shown, or one of this node's.
Noted(p) ==
  /\ Of(peers[p].last)
  /\ Len(peers[p].last) <= Len(shown[p]) \/ Len(peers[p].last) <= Len(chain)

Records == peers \in [Peer -> Record] /\ \A p \in Peer : Noted(p)

Loop == [pc : {"rest", "probe", "fetch", "apply", "finish"}, toProbe : SUBSET Peer,
         samples : SUBSET (Peer \X Seq(Nat)), addr : Peer \cup {Nobody}, best : Seq(Nat),
         from : Nat, got : Seq(Seq(Nat)), progressed : BOOLEAN]

Locals ==
  /\ loop \in Loop
  /\ loop.pc \in {"fetch", "apply", "finish"} => loop.addr \in Peer
  /\ \A i \in 1 .. Len(loop.got) : Of(loop.got[i])

Pulling ==
  /\ pull \in [addr : Peer \cup {Nobody}, next : Nat, to : Nat]
  /\ pull # Idle => pull.addr \in Peer

Good == World /\ Blocks /\ Records /\ Locals /\ Pulling

Uses == [faults : Nat, outages : Nat, restarts : Nat, losses : Nat, pulls : Nat]

IInv == used \in Uses /\ (used.losses = 0 => Good)

-----------------------------------------------------------------------------
(* Prefixes. *)

LEMMA SameLength ==
  ASSUME NEW a, NEW b, Of(a), Of(b), Len(a) = Len(b)
  PROVE  a = b
BY DEF Of

LEMMA PrefixOf ==
  ASSUME NEW t, Of(t), NEW n \in Nat, n <= Len(t)
  PROVE  Of(Prefix(t, n)) /\ Len(Prefix(t, n)) = n
BY DEF Of, Prefix

\* A nonempty set of numbers with a bound has a greatest one.
LEMMA Greatest ==
  ASSUME NEW T \in SUBSET Nat, NEW N \in Nat, T # {}, \A n \in T : n <= N
  PROVE  \E m \in T : \A n \in T : n <= m
<1> DEFINE D == {N - n : n \in T}
<1>1. D \in SUBSET Nat /\ D # {}
  <2>1. \A n \in T : N - n \in Nat
    OBVIOUS
  <2>2. QED
    BY <2>1
<1>2. PICK d \in D : \A e \in D : <<e, d>> \notin OpToRel(<, Nat)
  BY <1>1, NatLessThanWellFounded, WFMin
<1>3. PICK m \in T : d = N - m
  BY <1>2
<1>4. ASSUME NEW n \in T PROVE n <= m
  <2>1. <<N - n, d>> \notin OpToRel(<, Nat)
    BY <1>2
  <2>2. ~(N - n < d)
    BY <2>1, <1>1, <1>2, <1>4 DEF OpToRel
  <2>3. QED
    BY <2>2, <1>3
<1>5. QED
  BY <1>4

-----------------------------------------------------------------------------
(* The store: drainPendingLocked and applyBlockOrBufferLocked. *)

GoodStore(s) == Of(s.chain) /\ \A q \in s.pending : Of(q)

\* What becomes of a good store: it is good, and its chain no shorter.
Follows(s, t) == GoodStore(t) /\ Len(t.chain) >= Len(s.chain)

LEMMA DrainFollows ==
  ASSUME truth \in Seq(Nat), NEW s, GoodStore(s)
  PROVE  Follows(s, Drain(s))
<1> DEFINE Lens == {Len(q) : q \in Reach(s)}
           Longest(q) == q \in Reach(s) /\ \A r \in Reach(s) : Len(r) <= Len(q)
           end == CHOOSE q \in Reach(s) : \A r \in Reach(s) : Len(r) <= Len(q)
<1>1. \A q \in Reach(s) : Of(q) /\ Len(q) >= Len(s.chain) /\ Len(q) \in Nat
  BY DEF Reach, GoodStore, Of, IsPrefix
<1>2. s.chain \in Reach(s)
  BY DEF Reach, GoodStore, Of, IsPrefix
<1>3. Lens \in SUBSET Nat /\ Lens # {} /\ \A n \in Lens : n <= Len(truth)
  BY <1>1, <1>2 DEF Of
<1> HIDE DEF Lens
<1>4. PICK m \in Lens : \A n \in Lens : n <= m
  <2>1. Len(truth) \in Nat
    OBVIOUS
  <2>2. QED
    BY <1>3, <2>1, Greatest
<1> USE DEF Lens
<1>5. \E q \in Reach(s) : \A r \in Reach(s) : Len(r) <= Len(q)
  BY <1>4
<1>6. end \in Reach(s)
  BY <1>5
<1>7. Of(end) /\ Len(end) >= Len(s.chain)
  BY <1>1, <1>6
<1>8. /\ Drain(s).chain = end
      /\ Drain(s).pending \subseteq s.pending
  BY DEF Drain
<1>9. QED
  BY <1>7, <1>8 DEF Follows, GoodStore

LEMMA DeliverFollows ==
  ASSUME truth \in Seq(Nat), NEW c, NEW P, GoodStore([chain |-> c, pending |-> P]),
         NEW b, Of(b)
  PROVE  Follows([chain |-> c, pending |-> P], Deliver([chain |-> c, pending |-> P], b))
<1> DEFINE s == [chain |-> c, pending |-> P]
<1>1. CASE Extends(b, s)
  <2> DEFINE t == [s EXCEPT !.chain = b]
  <2>1. t.chain = b /\ t.pending = P
    OBVIOUS
  <2>2. GoodStore(t) /\ Len(t.chain) >= Len(c)
    BY <2>1, <1>1 DEF GoodStore, Extends, Of
  <2>3. Follows(t, Drain(t))
    BY <2>2, DrainFollows
  <2> HIDE DEF t
  <2>4. Len(Drain(t).chain) >= Len(c)
    <3>1. Len(Drain(t).chain) \in Nat /\ Len(t.chain) \in Nat /\ Len(c) \in Nat
      BY <2>2, <2>3 DEF Follows, GoodStore, Of
    <3>2. QED
      BY <3>1, <2>2, <2>3 DEF Follows
  <2>5. Follows(s, Drain(t))
    BY <2>3, <2>4 DEF Follows
  <2> USE DEF t
  <2>6. QED
    BY <2>5, <1>1 DEF Deliver
<1>2. CASE ~Extends(b, s) /\ Bufferable(b, s)
  <2>1. Deliver(s, b) = [s EXCEPT !.pending = @ \cup {b}]
    BY <1>2 DEF Deliver
  <2>2. Deliver(s, b).chain = c /\ Deliver(s, b).pending = P \cup {b}
    BY <2>1
  <2>3. QED
    BY <2>2 DEF Follows, GoodStore, Of
<1>3. CASE ~Extends(b, s) /\ ~Bufferable(b, s)
  <2>1. Deliver(s, b) = s
    BY <1>3 DEF Deliver
  <2>2. QED
    BY <2>1 DEF Follows, GoodStore, Of
<1>4. QED
  BY <1>1, <1>2, <1>3

\* A step that gives the store such a successor and keeps the world and the records.
LEMMA StoreStep ==
  ASSUME Good, NEW s, Follows(Store, s), SetStore(s), UNCHANGED <<world, peers>>
  PROVE  World' /\ Blocks' /\ Records'
<1> USE DEF Good, world
<1>1. World'
  BY DEF World, Of
<1>2. Blocks'
  BY DEF Follows, GoodStore, SetStore, Of, Blocks
<1>3. Len(chain') >= Len(chain) /\ Len(chain') \in Nat /\ Len(chain) \in Nat
  BY <1>2 DEF Follows, SetStore, Store, Blocks, Of
<1>4. ASSUME NEW p \in Peer PROVE Noted(p)'
  BY <1>3 DEF Records, Noted, Of, Record, World
<1>5. QED
  BY <1>1, <1>2, <1>4 DEF Records

LEMMA GoodStoreNow == Good => GoodStore(Store) /\ truth \in Seq(Nat)
BY DEF Good, GoodStore, Store, Blocks, World

-----------------------------------------------------------------------------
(* The parts of Good that a step leaves alone. *)

LEMMA WorldFrame ==
  ASSUME Good, UNCHANGED <<world, store>>
  PROVE  World' /\ Blocks' /\ (UNCHANGED peers => Records')
BY DEF Good, world, store, World, Blocks, Records, Noted, Of

LEMMA LocalsFrame ==
  ASSUME Good, UNCHANGED <<truth, loop>>
  PROVE  Locals'
BY DEF Good, Locals, Of

LEMMA PullFrame ==
  ASSUME Good, UNCHANGED pull
  PROVE  Pulling'
BY DEF Good, Pulling

\* A record gets another tip, which its peer has shown or this node has.
LEMMA RecordStep ==
  ASSUME Good, UNCHANGED <<world, store>>, NEW p \in Peer, NEW r \in Record,
         peers' = [peers EXCEPT ![p] = r],
         Of(r.last), Len(r.last) <= Len(shown[p]) \/ Len(r.last) <= Len(chain)
  PROVE  World' /\ Blocks' /\ Records'
<1>1. World' /\ Blocks'
  BY WorldFrame
<1>2. peers' \in [Peer -> Record]
  BY DEF Good, Records
<1>3. ASSUME NEW q \in Peer PROVE Noted(q)'
  <2>1. peers'[q].last = IF q = p THEN r.last ELSE peers[q].last
    BY DEF Good, Records
  <2>2. UNCHANGED <<truth, shown, chain>>
    BY DEF world, store
  <2>3. CASE q = p
    BY <2>1, <2>2, <2>3 DEF Noted, Of
  <2>4. CASE q # p
    BY <2>1, <2>2, <2>4 DEF Good, Records, Noted, Of
  <2>5. QED
    BY <2>3, <2>4
<1>4. QED
  BY <1>1, <1>2, <1>3 DEF Records

LEMMA RecordNow ==
  ASSUME Good, NEW p \in Peer
  PROVE  /\ peers[p] \in Record /\ Of(peers[p].last)
         /\ Len(peers[p].last) <= Len(shown[p]) \/ Len(peers[p].last) <= Len(chain)
BY DEF Good, Records, Noted

LEMMA FailedStep ==
  ASSUME Good, UNCHANGED <<world, store>>, NEW p \in Peer, SyncFailed(p)
  PROVE  World' /\ Blocks' /\ Records'
<1> DEFINE r == [peers[p] EXCEPT !.suppressed = TRUE]
<1>1. r \in Record /\ r.last = peers[p].last
  BY RecordNow DEF Record
<1>2. peers' = [peers EXCEPT ![p] = r]
  BY DEF SyncFailed
<1>3. QED
  BY <1>1, <1>2, RecordNow, RecordStep

LEMMA SucceededStep ==
  ASSUME Good, UNCHANGED <<world, store>>, NEW p \in Peer, NEW tip, SyncSucceeded(p, tip),
         Of(tip), Len(tip) <= Len(shown[p]) \/ Len(tip) <= Len(chain)
  PROVE  World' /\ Blocks' /\ Records'
<1> DEFINE r == [peers[p] EXCEPT !.suppressed = FALSE, !.last = tip]
<1>1. r \in Record /\ r.last = tip
  BY RecordNow DEF Record, Of
<1>2. peers' = [peers EXCEPT ![p] = r]
  BY DEF SyncSucceeded, Good, Records
<1>3. QED
  BY <1>1, <1>2, RecordStep

-----------------------------------------------------------------------------
(* The dial loop. *)

LEMMA DialSteps ==
  ASSUME Good, NEW p \in Peer, ShouldDial(p) \/ TouchReachable(p) \/ Touch(p) \/ Expire(p)
  PROVE  Good'
<1>1. \E r \in Record : r.last = peers[p].last /\ peers' = [peers EXCEPT ![p] = r]
  <2>0. peers[p] \in Record /\ peers \in [Peer -> Record]
    BY RecordNow DEF Good, Records
  <2>1. CASE ShouldDial(p)
    <3> DEFINE r == [peers[p] EXCEPT !.dialing = TRUE]
    <3>1. r \in Record /\ r.last = peers[p].last
      BY <2>0 DEF Record
    <3>2. peers' = [peers EXCEPT ![p] = r]
      BY <2>1 DEF ShouldDial
    <3>3. QED
      BY <3>1, <3>2
  <2>2. CASE TouchReachable(p)
    <3> DEFINE n == IF peers[p].failures < SuppressAfter
                    THEN peers[p].failures + 1 ELSE SuppressAfter
               found == IF up[p]
                        THEN [peers[p] EXCEPT !.reachable = TRUE, !.suppressed = FALSE,
                                              !.failures = 0]
                        ELSE [peers[p] EXCEPT !.reachable = FALSE, !.failures = n,
                                              !.suppressed = @ \/ n = SuppressAfter]
               r == [found EXCEPT !.dialing = FALSE]
    <3>1. n \in Nat
      BY <2>0, SyncAssumption DEF Record
    <3>2. found \in Record /\ found.last = peers[p].last
      <4> HIDE DEF n
      <4>1. CASE up[p]
        BY <4>1, <2>0 DEF Record
      <4>2. CASE ~up[p]
        BY <4>2, <3>1, <2>0 DEF Record
      <4>3. QED
        BY <4>1, <4>2
    <3>3. r \in Record /\ r.last = peers[p].last
      <4> HIDE DEF found
      <4>1. QED
        BY <3>2 DEF Record
    <3>4. peers' = [peers EXCEPT ![p] = r]
      BY <2>2 DEF TouchReachable
    <3> HIDE DEF r
    <3>5. QED
      BY <3>3, <3>4
  <2>3. CASE Touch(p)
    <3> DEFINE r == [peers[p] EXCEPT !.suppressed = FALSE, !.failures = 0]
    <3>1. r \in Record /\ r.last = peers[p].last
      BY <2>0 DEF Record
    <3>2. peers' = [peers EXCEPT ![p] = r]
      BY <2>3, <2>0 DEF Touch
    <3>3. QED
      BY <3>1, <3>2
  <2>4. CASE Expire(p)
    <3> DEFINE r == [peers[p] EXCEPT !.suppressed = FALSE]
    <3>1. r \in Record /\ r.last = peers[p].last
      BY <2>0 DEF Record
    <3>2. peers' = [peers EXCEPT ![p] = r]
      BY <2>4 DEF Expire
    <3>3. QED
      BY <3>1, <3>2
  <2>5. QED
    BY <2>1, <2>2, <2>3, <2>4
<1>2. UNCHANGED <<world, store, loop, pull, truth>>
  BY DEF ShouldDial, TouchReachable, Touch, Expire, world
<1>3. World' /\ Blocks' /\ Records'
  BY <1>1, <1>2, RecordNow, RecordStep
<1>4. QED
  BY <1>2, <1>3, LocalsFrame, PullFrame DEF Good

-----------------------------------------------------------------------------
(* bootstrapSync. *)

LEMMA LoopNow ==
  ASSUME Good
  PROVE  /\ loop \in Loop
         /\ loop.pc \in {"fetch", "apply", "finish"} => loop.addr \in Peer
         /\ \A i \in 1 .. Len(loop.got) : Of(loop.got[i])
         /\ truth \in Seq(Nat)
         /\ \A p \in Peer : Of(served[p]) /\ Len(served[p]) <= Len(shown[p])
         /\ Of(chain) /\ Len(chain) \in Nat
<1>1. World /\ Blocks /\ Locals
  BY DEF Good
<1>2. \A p \in Peer : Of(served[p]) /\ Len(served[p]) <= Len(shown[p])
  BY <1>1 DEF World
<1>3. Of(chain) /\ Len(chain) \in Nat
  BY <1>1 DEF Blocks, Of
<1>4. QED
  BY <1>1, <1>2, <1>3 DEF Locals, World

LEMMA LoopLater ==
  ASSUME loop' \in Loop, loop'.pc \in {"fetch", "apply", "finish"} => loop'.addr \in Peer,
         \A i \in 1 .. Len(loop'.got) : Of(loop'.got[i]), UNCHANGED truth
  PROVE  Locals'
BY DEF Locals, Loop, Of

LEMMA RestingLoop == Resting \in Loop /\ Resting.got = <<>> /\ Resting.pc = "rest"
BY DEF Resting, Loop

LEMMA StepStartRound ==
  ASSUME Good, StartRound
  PROVE  Good'
<1> DEFINE ready == {p \in Peer : peers[p].reachable /\ ~peers[p].suppressed}
<1>1. /\ loop' = [Resting EXCEPT !.pc = "probe", !.toProbe = ready]
      /\ UNCHANGED <<world, store, peers, pull, truth>>
  BY DEF StartRound, world
<1>2. loop' \in Loop /\ loop'.pc = "probe" /\ loop'.got = <<>>
  <2>1. ready \in SUBSET Peer
    OBVIOUS
  <2> HIDE DEF ready
  <2>2. QED
    BY <1>1, <2>1, RestingLoop DEF Loop
<1>3. Locals'
  BY <1>1, <1>2, LoopLater
<1>4. QED
  BY <1>1, <1>3, WorldFrame, PullFrame DEF Good

LEMMA StepProbe ==
  ASSUME Good, NEW p \in Peer, Probe(p)
  PROVE  Good'
<1>1. UNCHANGED <<world, store, pull, truth>> /\ loop.pc = "probe"
  BY DEF Probe, world
<1>2. World' /\ Blocks' /\ Records'
  <2>1. CASE SyncFailed(p)
    BY <2>1, <1>1, FailedStep
  <2>2. CASE SyncSucceeded(p, StatusOf(p))
    BY <2>2, <1>1, LoopNow, SucceededStep DEF StatusOf
  <2>3. QED
    BY <2>1, <2>2 DEF Probe
<1>3. /\ loop' \in Loop /\ loop'.pc = loop.pc /\ loop'.got = loop.got
  <2>1. served[p] \in Seq(Nat) /\ loop \in Loop
    BY LoopNow DEF Of
  <2>2. CASE loop' = [loop EXCEPT !.toProbe = @ \ {p}]
    BY <2>1, <2>2 DEF Loop
  <2>3. CASE loop' = [loop EXCEPT !.toProbe = @ \ {p},
                                  !.samples = @ \cup {<<p, StatusOf(p)>>}]
    <3>1. loop.samples \cup {<<p, StatusOf(p)>>} \in SUBSET (Peer \X Seq(Nat))
      BY <2>1 DEF Loop, StatusOf
    <3>2. loop.toProbe \ {p} \in SUBSET Peer
      BY <2>1 DEF Loop
    <3>3. QED
      BY ONLY <2>1, <2>3, <3>1, <3>2 DEF Loop
  <2>4. QED
    BY <2>2, <2>3 DEF Probe
<1>4. Locals'
  BY <1>1, <1>3, LoopNow, LoopLater
<1>5. QED
  BY <1>1, <1>2, <1>4, PullFrame DEF Good

LEMMA StepChoose ==
  ASSUME Good, Choose
  PROVE  Good'
<1>1. UNCHANGED <<world, store, peers, pull, truth>>
  BY DEF Choose, world
<1>2. loop' \in Loop /\ (loop'.pc = "rest" \/ loop'.addr \in Peer) /\ loop'.got = <<>>
  <2>1. CASE loop' = Resting
    BY <2>1, RestingLoop
  <2>2. ASSUME NEW c \in loop.samples,
               loop' = [Resting EXCEPT !.pc = "fetch", !.addr = c[1], !.best = c[2],
                                       !.from = Len(chain) + 1]
        PROVE  loop' \in Loop /\ loop'.addr \in Peer /\ loop'.got = <<>>
    <3>1. c[1] \in Peer /\ c[2] \in Seq(Nat) /\ Len(chain) + 1 \in Nat
      BY <2>2, LoopNow DEF Loop
    <3>2. QED
      BY <2>2, <3>1, RestingLoop DEF Loop
  <2>3. QED
    BY <2>1, <2>2 DEF Choose
<1>3. Locals'
  BY <1>1, <1>2, LoopLater
<1>4. QED
  BY <1>1, <1>3, WorldFrame, PullFrame DEF Good

LEMMA StepFetch ==
  ASSUME Good, Fetch
  PROVE  Good'
<1> DEFINE h == loop.from + Len(loop.got)
           p == loop.addr
           b == BlockOf(p, h)
<1>1. UNCHANGED <<world, store, pull, truth>> /\ p \in Peer /\ loop \in Loop /\ h \in Nat
  BY LoopNow DEF Fetch, world, Loop
<1>2. CASE /\ Asked(p) /\ HasBlock(p, h)
           /\ loop' = [loop EXCEPT !.got = Append(@, BlockOf(p, h)),
                                   !.pc = IF h = End THEN "apply" ELSE "fetch"]
           /\ UNCHANGED <<peers, used>>
  <2>1. Of(b)
    BY <1>1, <1>2, LoopNow, PrefixOf DEF BlockOf, HasBlock
  <2> HIDE DEF b, h, p
  <2>2. loop' = [loop EXCEPT !.got = Append(@, b), !.pc = IF h = End THEN "apply" ELSE "fetch"]
    BY <1>2 DEF b, h, p
  <2>3. loop' \in Loop /\ loop'.addr = p /\ loop'.got = Append(loop.got, b)
    <3>1. loop.got \in Seq(Seq(Nat)) /\ b \in Seq(Nat)
      BY <1>1, <2>1 DEF Loop, Of
    <3>2. Append(loop.got, b) \in Seq(Seq(Nat))
      BY <3>1
    <3> DEFINE c == IF h = End THEN "apply" ELSE "fetch"
               g == Append(loop.got, b)
               r == [loop EXCEPT !.got = g, !.pc = c]
    <3>3. c \in {"rest", "probe", "fetch", "apply", "finish"}
      OBVIOUS
    <3>4. loop' = r
      BY <2>2
    <3> HIDE DEF c, g
    <3>5. g \in Seq(Seq(Nat))
      BY <3>2 DEF g
    <3>6. r \in Loop /\ r.addr = loop.addr /\ r.got = g
      BY ONLY <1>1, <3>3, <3>5 DEF Loop
    <3>7. QED
      BY <3>4, <3>6 DEF p, g
  <2>4. \A i \in 1 .. Len(loop'.got) : Of(loop'.got[i])
    <3>1. loop.got \in Seq(Seq(Nat)) /\ b \in Seq(Nat)
      BY <1>1, <2>1 DEF Loop, Of
    <3>2. QED
      BY <3>1, <2>1, <2>3, LoopNow
  <2>5. Locals'
    BY <1>1, <2>3, <2>4, LoopLater
  <2>6. QED
    BY <1>1, <1>2, <2>5, WorldFrame, PullFrame DEF Good
<1>3. CASE SyncFailed(p) /\ loop' = [loop EXCEPT !.got = <<>>, !.pc = "finish"]
  <2>1. World' /\ Blocks' /\ Records'
    BY <1>1, <1>3, FailedStep
  <2>2. loop' \in Loop /\ loop'.addr = p /\ loop'.got = <<>>
    <3>1. <<>> \in Seq(Seq(Nat))
      OBVIOUS
    <3> DEFINE r == [loop EXCEPT !.got = <<>>, !.pc = "finish"]
    <3>2. r \in Loop /\ r.addr = loop.addr /\ r.got = <<>>
      BY ONLY <3>1, <1>1 DEF Loop
    <3>3. QED
      BY <3>2, <1>3
  <2>3. Locals'
    BY <1>1, <2>2, LoopLater
  <2>4. QED
    BY <1>1, <2>1, <2>3, PullFrame DEF Good
<1>4. QED
  BY <1>2, <1>3 DEF Fetch

LEMMA StepApplyBlock ==
  ASSUME Good, ApplyBlock
  PROVE  Good'
<1> DEFINE b == Head(loop.got)
           s == Deliver(Store, b)
<1>1. UNCHANGED <<world, peers, pull, truth>> /\ loop.pc = "apply" /\ loop.got # <<>>
  BY DEF ApplyBlock, world
<1>2. loop \in Loop /\ loop.got \in Seq(Seq(Nat))
  BY LoopNow DEF Loop
<1>3. Of(b) /\ \A i \in 1 .. Len(Tail(loop.got)) : Of(Tail(loop.got)[i])
  BY <1>1, <1>2, LoopNow
<1>4. Follows(Store, s)
  BY <1>3, GoodStoreNow, DeliverFollows DEF Store
<1>5. World' /\ Blocks' /\ Records'
  BY <1>1, <1>4, StoreStep DEF ApplyBlock
<1>6. loop' \in Loop /\ loop'.addr = loop.addr /\ loop'.got = Tail(loop.got)
  <2> DEFINE q == loop.progressed \/ Len(s.chain) > Len(chain)
  <2> HIDE DEF q, s
  <2>1. loop' = [loop EXCEPT !.got = Tail(@), !.progressed = q]
    BY DEF ApplyBlock, q, s
  <2>2. q \in BOOLEAN
    BY DEF q
  <2>3. Tail(loop.got) \in Seq(Seq(Nat))
    BY <1>1, <1>2
  <2>4. QED
    BY ONLY <1>2, <2>1, <2>2, <2>3 DEF Loop
<1>7. Locals'
  BY <1>1, <1>3, <1>6, LoopNow, LoopLater
<1>8. QED
  BY <1>1, <1>5, <1>7, PullFrame DEF Good

LEMMA StepEndRange ==
  ASSUME Good, EndRange
  PROVE  Good'
<1> DEFINE s == Drain(Store)
           next == loop.from + Chunk
<1>1. UNCHANGED <<world, peers, pull, truth>> /\ loop.pc = "apply" /\ loop.got = <<>>
  BY DEF EndRange, world
<1>2. loop \in Loop /\ next \in Nat
  BY LoopNow, SyncAssumption DEF Loop
<1>3. Follows(Store, s)
  BY GoodStoreNow, DrainFollows
<1>4. World' /\ Blocks' /\ Records'
  BY <1>1, <1>3, StoreStep DEF EndRange
<1>5. loop' \in Loop /\ loop'.got = <<>> /\ loop'.addr = loop.addr
  <2> DEFINE q == loop.progressed \/ Len(s.chain) > Len(chain)
             pc == IF next <= Len(loop.best) THEN "fetch" ELSE "finish"
  <2> HIDE DEF q, s, next, pc
  <2>1. loop' = [loop EXCEPT !.from = next, !.progressed = q, !.pc = pc]
    BY DEF EndRange, q, s, next, pc
  <2>2. q \in BOOLEAN /\ pc \in {"fetch", "finish"}
    BY DEF q, pc
  <2>3. QED
    BY <1>1, <1>2, <2>1, <2>2 DEF Loop
<1>6. Locals'
  BY <1>1, <1>5, LoopNow, LoopLater
<1>7. QED
  BY <1>1, <1>4, <1>6, PullFrame DEF Good

LEMMA StepFinish ==
  ASSUME Good, Finish
  PROVE  Good'
<1> DEFINE p == loop.addr
<1>1. UNCHANGED <<world, store, pull, truth>> /\ p \in Peer
  BY LoopNow DEF Finish, world
<1>2. World' /\ Blocks' /\ Records'
  <2>1. CASE SyncFailed(p)
    BY <1>1, <2>1, FailedStep
  <2>2. CASE SyncSucceeded(p, chain)
    BY <1>1, <2>2, LoopNow, SucceededStep
  <2>3. QED
    BY <2>1, <2>2 DEF Finish
<1>3. Locals'
  BY <1>1, RestingLoop, LoopLater DEF Finish
<1>4. QED
  BY <1>1, <1>2, <1>3, PullFrame DEF Good

-----------------------------------------------------------------------------
(* Gossip, the pull, and a restart of this node. *)

LEMMA StepGossip ==
  ASSUME Good, NEW n \in 1 .. Len(truth), Gossip(n)
  PROVE  Good'
<1>1. UNCHANGED <<world, peers, loop, pull, truth>> /\ SetStore(Deliver(Store, Prefix(truth, n)))
  BY DEF Gossip, world
<1>2. Of(Prefix(truth, n))
  <2>1. Of(truth) /\ n \in Nat /\ n <= Len(truth)
    BY LoopNow DEF Of
  <2>2. QED
    BY <2>1, PrefixOf
<1>3. Follows(Store, Deliver(Store, Prefix(truth, n)))
  BY <1>2, GoodStoreNow, DeliverFollows DEF Store
<1>4. World' /\ Blocks' /\ Records'
  BY <1>1, <1>3, StoreStep
<1>5. QED
  BY <1>1, <1>4, LocalsFrame, PullFrame DEF Good

LEMMA StepAnnounce ==
  ASSUME Good, NEW o \in Peer, NEW p \in Peer, Announce(o, p)
  PROVE  Good'
<1>1. UNCHANGED <<world, store, peers, loop, truth>>
  BY DEF Announce, world
<1>2. Len(chain) + 1 \in Nat /\ Len(served[o]) \in Nat
  BY LoopNow DEF Of
<1>3. pull' \in [addr : Peer \cup {Nobody}, next : Nat, to : Nat] /\ pull'.addr \in Peer
  BY <1>2 DEF Announce
<1>4. Pulling'
  BY <1>3 DEF Pulling
<1>5. QED
  BY <1>1, <1>4, WorldFrame, LocalsFrame DEF Good

LEMMA StepPull ==
  ASSUME Good, Pull
  PROVE  Good'
<1> DEFINE p == pull.addr
           b == BlockOf(p, pull.next)
<1>1. UNCHANGED <<world, peers, loop, truth>> /\ p \in Peer
      /\ pull \in [addr : Peer \cup {Nobody}, next : Nat, to : Nat]
  BY DEF Pull, world, Good, Pulling
<1>2. Idle \in [addr : Peer \cup {Nobody}, next : Nat, to : Nat]
  BY DEF Idle
<1>3. CASE /\ HasBlock(p, pull.next) /\ SetStore(Deliver(Store, b))
           /\ pull' = IF pull.next < pull.to THEN [pull EXCEPT !.next = @ + 1] ELSE Idle
  <2>1. Of(b)
    BY <1>1, <1>3, LoopNow, PrefixOf DEF BlockOf, HasBlock
  <2>2. Follows(Store, Deliver(Store, b))
    BY <2>1, GoodStoreNow, DeliverFollows DEF Store
  <2>3. World' /\ Blocks' /\ Records'
    BY <1>1, <1>3, <2>2, StoreStep
  <2>4. Pulling'
    BY <1>1, <1>2, <1>3 DEF Pulling, Idle
  <2>5. QED
    BY <1>1, <2>3, <2>4, LocalsFrame DEF Good
<1>4. CASE pull' = Idle /\ UNCHANGED store
  <2>1. Pulling'
    BY <1>2, <1>4 DEF Pulling, Idle
  <2>2. QED
    BY <1>1, <1>4, <2>1, WorldFrame, LocalsFrame DEF Good
<1>5. QED
  BY <1>3, <1>4 DEF Pull

LEMMA StepNodeRestart ==
  ASSUME Good, NodeRestart
  PROVE  Good'
<1>1. /\ pending' = {} /\ loop' = Resting /\ pull' = Idle
      /\ peers' = [p \in Peer |-> NewPeer]
      /\ UNCHANGED <<truth, served, shown, chain>>
  BY DEF NodeRestart, world
<1>2. World' /\ Blocks'
  BY <1>1 DEF Good, World, Blocks, Of
<1>3. Records'
  <2>1. NewPeer \in Record /\ NewPeer.last = <<>>
    BY DEF NewPeer, Record
  <2>2. \A p \in Peer : Noted(p)'
    <3>1. Len(chain) \in Nat /\ truth \in Seq(Nat)
      BY LoopNow
    <3>2. Of(<<>>)' /\ chain' = chain
      BY <1>1, <3>1 DEF Of
    <3>3. \A p \in Peer : peers'[p].last = <<>>
      BY <1>1, <2>1
    <3>4. Len(<<>>) <= Len(chain)
      BY <3>1
    <3>5. QED
      BY ONLY <3>2, <3>3, <3>4 DEF Noted
  <2>3. peers' \in [Peer -> Record]
    BY <1>1, <2>1
  <2>4. QED
    BY <2>2, <2>3 DEF Records
<1>4. Locals'
  BY <1>1, RestingLoop, LoopLater
<1>5. Pulling'
  BY <1>1 DEF Pulling, Idle
<1>6. QED
  BY <1>2, <1>3, <1>4, <1>5 DEF Good

-----------------------------------------------------------------------------
(* The peers. *)

\* What is a prefix of the proposer's chain stays one when that chain grows.
LEMMA TruthGrows ==
  ASSUME Good, NEW x \in Nat, truth' = Append(truth, x),
         UNCHANGED <<store, peers, loop, pull>>, World',
         \A p \in Peer : Len(shown'[p]) >= Len(shown[p])
  PROVE  Good'
<1>1. truth \in Seq(Nat) /\ Len(truth') = Len(truth) + 1
      /\ \A i \in 1 .. Len(truth) : truth'[i] = truth[i]
  BY DEF Good, World
<1>2. Blocks'
  <2>1. Of(chain) /\ UNCHANGED <<chain, pending>>
    BY DEF Good, Blocks, store
  <2>2. Of(chain)'
    BY ONLY <1>1, <2>1 DEF Of
  <2>3. ASSUME NEW q \in pending' PROVE Of(q)'
    <3>1. Of(q)
      BY <2>1, <2>3 DEF Good, Blocks
    <3>2. QED
      BY ONLY <1>1, <3>1 DEF Of
  <2>4. QED
    BY <2>2, <2>3 DEF Blocks
<1>3. \A p \in Peer : Noted(p)'
  <2> SUFFICES ASSUME NEW p \in Peer PROVE Noted(p)'
    OBVIOUS
  <2>1. Noted(p) /\ Of(shown[p]) /\ Of(shown[p])' /\ Of(chain)
    BY DEF Good, Records, World, Blocks
  <2>2. Of(peers[p].last)'
    <3>1. Of(peers[p].last) /\ peers' = peers
      BY <2>1 DEF Noted
    <3>2. QED
      BY <1>1, <3>1 DEF Of
  <2>3. Len(peers[p].last) \in Nat /\ Len(shown[p]) \in Nat /\ Len(shown'[p]) \in Nat
    BY <2>1 DEF Noted, Of
  <2>4. QED
    BY <2>1, <2>2, <2>3 DEF Noted, store
<1>4. Locals'
  BY <1>1 DEF Good, Locals, Of
<1>5. QED
  BY <1>2, <1>3, <1>4, PullFrame DEF Good, Records

LEMMA StepProduce ==
  ASSUME Good, used \in Uses, Produce
  PROVE  Good'
<1>1. /\ truth' = Append(truth, used.losses)
      /\ served' = [served EXCEPT ![Leader] = truth']
      /\ shown' = [shown EXCEPT ![Leader] = truth']
      /\ UNCHANGED <<store, peers, loop, pull>>
  BY DEF Produce
<1>2. used.losses \in Nat /\ World /\ truth \in Seq(Nat) /\ Leader \in Peer
  BY SyncAssumption DEF Uses, Good, World
<1>3. truth' \in Seq(Nat) /\ Len(truth') = Len(truth) + 1
      /\ \A i \in 1 .. Len(truth) : truth'[i] = truth[i]
  BY <1>1, <1>2
<1>4. ASSUME NEW p \in Peer
      PROVE  /\ Of(served[p])' /\ Of(shown[p])' /\ Len(served'[p]) <= Len(shown'[p])
             /\ Len(shown'[p]) >= Len(shown[p])
  <2>1. Of(served[p]) /\ Of(shown[p]) /\ Len(served[p]) <= Len(shown[p])
    BY <1>2 DEF World
  <2>2. CASE p = Leader
    <3>1. served'[p] = truth' /\ shown'[p] = truth'
      BY <1>1, <1>2, <2>2 DEF World
    <3>2. QED
      BY <3>1, <1>3, <2>1, <1>2 DEF Of
  <2>3. CASE p # Leader
    <3>1. served'[p] = served[p] /\ shown'[p] = shown[p]
      BY <1>1, <1>2, <2>3 DEF World
    <3>2. QED
      BY <3>1, <1>3, <2>1, <1>2 DEF Of
  <2>4. QED
    BY <2>2, <2>3
<1>5. World'
  BY <1>1, <1>2, <1>3, <1>4 DEF World
<1>6. QED
  BY <1>1, <1>2, <1>4, <1>5, TruthGrows

\* A peer serves another prefix, and what it has shown is not forgotten.
LEMMA PeerServes ==
  ASSUME Good, NEW p \in Peer, NEW b, Of(b), NEW c, Of(c),
         served' = [served EXCEPT ![p] = b], shown' = [shown EXCEPT ![p] = c],
         Len(b) <= Len(c), Len(c) >= Len(shown[p]),
         UNCHANGED <<truth, store, peers, loop, pull>>
  PROVE  Good'
<1>1. World /\ truth \in Seq(Nat)
  BY DEF Good, World
<1>2. ASSUME NEW q \in Peer
      PROVE  /\ Of(served[q])' /\ Of(shown[q])' /\ Len(served'[q]) <= Len(shown'[q])
             /\ Len(shown'[q]) >= Len(shown[q])
  <2>1. Of(served[q]) /\ Of(shown[q]) /\ Len(served[q]) <= Len(shown[q])
    BY <1>1 DEF World
  <2>2. CASE q = p
    <3>1. served'[q] = b /\ shown'[q] = c
      BY <1>1, <2>2 DEF World
    <3>2. QED
      BY <3>1, <2>2 DEF Of
  <2>3. CASE q # p
    <3>1. served'[q] = served[q] /\ shown'[q] = shown[q]
      BY <1>1, <2>3 DEF World
    <3>2. UNCHANGED truth /\ Len(shown[q]) \in Nat
      BY <2>1 DEF Of
    <3>3. Of(served[q])' /\ Of(shown[q])'
      BY ONLY <3>1, <3>2, <2>1 DEF Of
    <3>4. QED
      BY ONLY <3>1, <3>2, <3>3, <2>1
  <2>4. QED
    BY <2>2, <2>3
<1>3. World'
  BY <1>1, <1>2 DEF World, Of
<1>4. Records'
  <2> SUFFICES ASSUME NEW q \in Peer PROVE Noted(q)'
    BY DEF Good, Records
  <2>1. Noted(q) /\ Of(shown[q]) /\ Of(shown[q])'
    BY <1>2 DEF Good, Records, World
  <2>2. Len(peers[q].last) \in Nat /\ Len(shown[q]) \in Nat /\ Len(shown'[q]) \in Nat
    BY <2>1 DEF Noted, Of
  <2>3. QED
    BY <1>2, <2>1, <2>2 DEF Noted, Of, store
<1>5. Blocks'
  BY DEF Good, Blocks, Of, store
<1>6. QED
  BY <1>3, <1>4, <1>5, LocalsFrame, PullFrame DEF Good

LEMMA StepGrow ==
  ASSUME Good, NEW p \in Peer, Grow(p)
  PROVE  Good'
<1> DEFINE n == Len(served[p]) + 1
           b == Prefix(truth, n)
           c == IF Len(b) > Len(shown[p]) THEN b ELSE shown[p]
<1>1. World /\ truth \in Seq(Nat) /\ Of(served[p]) /\ Of(shown[p]) /\ Of(truth)
  BY DEF Good, World, Of
<1>2. n \in Nat /\ n <= Len(truth)
  <2>1. IsPrefix(served[p], truth) /\ served[p] # truth
    BY DEF Grow, IsStrictPrefix
  <2>2. Len(served[p]) # Len(truth)
    BY <1>1, <2>1, SameLength
  <2>3. QED
    BY <1>1, <2>2 DEF Of
<1>3. Of(b) /\ Len(b) = n
  BY <1>1, <1>2, PrefixOf
<1> HIDE DEF b
<1>4. Of(c) /\ Len(b) <= Len(c) /\ Len(c) >= Len(shown[p])
  <2>1. Len(b) \in Nat /\ Len(shown[p]) \in Nat
    BY <1>1, <1>3 DEF Of
  <2>2. QED
    BY <1>1, <1>3, <2>1
<1>5. served' = [served EXCEPT ![p] = b] /\ served'[p] = b
  BY <1>1 DEF Grow, b, World
<1>6. shown' = [shown EXCEPT ![p] = c]
  BY <1>5 DEF Grow
<1>7. UNCHANGED <<truth, store, peers, loop, pull>>
  BY DEF Grow
<1> HIDE DEF c
<1>8. QED
  BY <1>3, <1>4, <1>5, <1>6, <1>7, PeerServes

LEMMA StepPeerRestart ==
  ASSUME Good, NEW p \in Peer, PeerRestart(p)
  PROVE  Good'
<1>1. World /\ truth \in Seq(Nat) /\ Of(shown[p]) /\ shown \in [Peer -> Seq(Nat)]
  BY DEF Good, World
<1>2. Of(<<>>) /\ Len(<<>>) <= Len(shown[p])
  BY <1>1 DEF Of
<1>3. shown' = [shown EXCEPT ![p] = shown[p]]
  BY <1>1 DEF PeerRestart
<1>4. served' = [served EXCEPT ![p] = <<>>] /\ UNCHANGED <<truth, store, peers, loop, pull>>
  BY DEF PeerRestart
<1>5. Len(shown[p]) >= Len(shown[p])
  BY <1>1 DEF Of
<1>6. QED
  BY <1>1, <1>2, <1>3, <1>4, <1>5, PeerServes

-----------------------------------------------------------------------------
(* Every step. *)

LEMMA GoodFrame ==
  ASSUME Good, UNCHANGED <<truth, served, shown, store, peers, loop, pull>>
  PROVE  Good'
BY DEF Good, World, Blocks, Records, Noted, Locals, Pulling, Of, store

LEMMA SyncStep ==
  ASSUME Good, Sync
  PROVE  Good'
BY StepStartRound, StepProbe, StepChoose, StepFetch, StepApplyBlock, StepEndRange,
   StepFinish DEF Sync

\* The number of losses is counted, and never falls.
LEMMA UsedNext ==
  ASSUME used \in Uses, [Next]_vars
  PROVE  /\ used' \in Uses
         /\ used.losses <= used'.losses
         /\ LoseTip => used'.losses > 0
<1>1. \A w \in {"faults", "outages", "restarts", "losses", "pulls"} :
        Use(w) => used' \in Uses /\ used'.losses >= used.losses
                  /\ (w = "losses" => used'.losses > 0)
  BY DEF Use, Uses
<1>2. (UNCHANGED used \/ \E w \in {"faults", "outages", "restarts", "losses", "pulls"} : Use(w))
  BY DEF Next, Sync, StartRound, Probe, Choose, Fetch, ApplyBlock, EndRange, Finish,
         Pull, NodeRestart, Produce, LoseTip, Gossip, ShouldDial, TouchReachable, Touch,
         Expire, Grow, PeerRestart, Down, Up, Announce, Fails, vars
<1>3. LoseTip => Use("losses")
  BY DEF LoseTip
<1>4. QED
  BY <1>1, <1>2, <1>3 DEF Uses

LEMMA IInvInit == Init => IInv
<1> SUFFICES ASSUME Init PROVE IInv
  OBVIOUS
<1>1. used \in Uses
  BY DEF Init, Uses
<1>2. truth = <<>> /\ \A p \in Peer : served[p] = <<>> /\ shown[p] = <<>>
  BY DEF Init
<1>3. World
  BY <1>2 DEF Init, World, Of
<1>4. Blocks
  BY DEF Init, Blocks, Of
<1>5. Records
  <2>1. NewPeer \in Record /\ NewPeer.last = <<>>
    BY DEF NewPeer, Record
  <2>2. peers \in [Peer -> Record] /\ \A p \in Peer : peers[p].last = <<>>
    BY <2>1 DEF Init
  <2>3. Of(<<>>) /\ chain = <<>>
    BY DEF Init, Of
  <2>4. \A p \in Peer : Noted(p)
    BY ONLY <2>2, <2>3 DEF Noted
  <2>5. QED
    BY <2>2, <2>4 DEF Records
<1>6. Locals
  BY RestingLoop DEF Init, Locals
<1>7. Pulling
  BY DEF Init, Pulling, Idle
<1>8. QED
  BY <1>1, <1>3, <1>4, <1>5, <1>6, <1>7 DEF IInv, Good

LEMMA IInvNext == IInv /\ [Next]_vars => IInv'
<1> SUFFICES ASSUME IInv, [Next]_vars, used'.losses = 0 PROVE Good'
  BY UsedNext DEF IInv
<1>1. used \in Uses /\ used.losses = 0 /\ Good /\ ~LoseTip
  BY UsedNext DEF IInv, Uses
<1>2. CASE Sync
  BY <1>1, <1>2, SyncStep
<1>3. CASE Pull \/ NodeRestart \/ Produce
  BY <1>1, <1>3, StepPull, StepNodeRestart, StepProduce
<1>4. ASSUME NEW n \in 1 .. Len(truth), Gossip(n) PROVE Good'
  BY <1>1, <1>4, StepGossip
<1>5. ASSUME NEW p \in Peer, ShouldDial(p) \/ TouchReachable(p) \/ Touch(p) \/ Expire(p)
      PROVE  Good'
  BY <1>1, <1>5, DialSteps
<1>6. ASSUME NEW p \in Peer, Grow(p) \/ PeerRestart(p) PROVE Good'
  BY <1>1, <1>6, StepGrow, StepPeerRestart
<1>7. ASSUME NEW p \in Peer, Down(p) \/ Up(p) PROVE Good'
  BY <1>1, <1>7, GoodFrame DEF Down, Up
<1>8. ASSUME NEW o \in Peer, NEW p \in Peer, Announce(o, p) PROVE Good'
  BY <1>1, <1>8, StepAnnounce
<1>9. CASE UNCHANGED vars
  BY <1>1, <1>9, GoodFrame DEF vars, world
<1>10. QED
  BY <1>1, <1>2, <1>3, <1>4, <1>5, <1>6, <1>7, <1>8, <1>9 DEF Next

-----------------------------------------------------------------------------

LEMMA GoodHears == IInv => AheadIsHeard
<1> SUFFICES ASSUME IInv, used.losses = 0, NEW p \in Peer,
                    Len(served[p]) > Len(chain), served[p] = shown[p]
             PROVE  Accepts(p, served[p])
  BY DEF AheadIsHeard
<1> DEFINE last == peers[p].last
<1>1. Of(last) /\ Of(served[p]) /\ Of(chain)
      /\ (Len(last) <= Len(shown[p]) \/ Len(last) <= Len(chain))
  BY RecordNow, LoopNow DEF IInv
<1>2. Len(last) <= Len(served[p])
  BY <1>1 DEF Of
<1>3. Len(served[p]) = Len(last) => served[p] = last
  BY <1>1, SameLength
<1>4. QED
  BY <1>2, <1>3 DEF Accepts

\* Until the proposer loses a block, notePeerHeightSample never refuses a peer that has
\* replayed its files and has a block this node lacks, although bootstrapSync ends a
\* round by writing this node's own height into the peer's record.
THEOREM HearsWhoIsAhead == Spec => []AheadIsHeard
BY IInvInit, IInvNext, GoodHears, PTL DEF Spec

-----------------------------------------------------------------------------
(***************************************************************************)
(* Types, with or without losses.  What makes them an invariant is that    *)
(* the loop asks only for heights of the range it fetches, so that a range *)
(* is never longer than Chunk, and that a buffer and a chain are made of   *)
(* blocks that a peer has or has had.                                      *)
(***************************************************************************)
PeerRecord == [dialing : BOOLEAN, reachable : BOOLEAN, suppressed : BOOLEAN,
               failures : 0 .. SuppressAfter, last : Block]

LoopRecord == [pc : {"rest", "probe", "fetch", "apply", "finish"}, toProbe : SUBSET Peer,
               samples : SUBSET (Peer \X Block), addr : Peer \cup {Nobody}, best : Block,
               from : Nat, got : Seq(Block), progressed : BOOLEAN]

WorldTyped ==
  /\ truth \in Block /\ served \in [Peer -> Block] /\ shown \in [Peer -> Block]
  /\ up \in [Peer -> BOOLEAN]
StoreTyped == chain \in Block /\ pending \subseteq Block
BucketTyped == bucket \in [Peer -> 0 .. Burst]
PeersTyped == peers \in [Peer -> PeerRecord]

\* The next request of a range is within it.
LoopTyped ==
  /\ loop \in LoopRecord /\ Len(loop.got) <= Chunk
  /\ loop.pc \in {"fetch", "apply", "finish"} => loop.addr \in Peer
  /\ loop.pc \in {"fetch", "apply"} => loop.from > 0
  /\ loop.pc = "fetch" => loop.from + Len(loop.got) <= End

PullTyped ==
  /\ pull \in [addr : Peer \cup {Nobody}, next : Nat, to : Nat]
  /\ pull # Idle => pull.addr \in Peer /\ pull.next > 0

UsedTyped == used \in Uses /\ used.losses <= MaxLosses

Typed ==
  WorldTyped /\ StoreTyped /\ BucketTyped /\ PeersTyped /\ LoopTyped /\ PullTyped /\ UsedTyped

\* BoundedSeq, as the sequences of a bounded length.
LEMMA BlockIs ==
  \A b : b \in Block <=> b \in Seq(0 .. MaxLosses) /\ Len(b) <= MaxHeight
<1> SUFFICES ASSUME NEW b
             PROVE  b \in Block <=> b \in Seq(0 .. MaxLosses) /\ Len(b) <= MaxHeight
  OBVIOUS
<1> DEFINE S == 0 .. MaxLosses
<1> HIDE DEF S
<1>1. b \in Block <=> \E m \in 0 .. MaxHeight : b \in [1 .. m -> S]
  BY DEF Block, BoundedSeq, SeqOf, S
<1>2. ASSUME NEW m \in 0 .. MaxHeight, b \in [1 .. m -> S]
      PROVE  b \in Seq(S) /\ Len(b) <= MaxHeight
  <2>1. m \in Nat /\ m <= MaxHeight
    BY SyncAssumption
  <2>2. b \in Seq(S) /\ Len(b) = m
    BY <1>2, <2>1
  <2>3. QED
    BY <2>1, <2>2
<1>3. ASSUME b \in Seq(S), Len(b) <= MaxHeight
      PROVE  \E m \in 0 .. MaxHeight : b \in [1 .. m -> S]
  <2>1. Len(b) \in 0 .. MaxHeight /\ b \in [1 .. Len(b) -> S]
    BY <1>3, SyncAssumption
  <2>2. QED
    BY <2>1
<1>4. b \in Block <=> b \in Seq(S) /\ Len(b) <= MaxHeight
  BY <1>1, <1>2, <1>3
<1>5. QED
  BY <1>4 DEF S

LEMMA EmptyBlock == <<>> \in Block
<1>1. <<>> \in Seq(0 .. MaxLosses) /\ Len(<<>>) = 0 /\ 0 <= MaxHeight
  BY SyncAssumption
<1>2. QED
  BY <1>1, BlockIs

LEMMA PrefixTyped ==
  ASSUME NEW b \in Block, NEW n \in Nat, n <= Len(b)
  PROVE  Prefix(b, n) \in Block /\ Len(Prefix(b, n)) = n
<1> DEFINE S == 0 .. MaxLosses
<1> HIDE DEF S
<1>1. b \in Seq(S) /\ Len(b) <= MaxHeight /\ Len(b) \in Nat
  BY BlockIs DEF S
<1>2. Prefix(b, n) \in Seq(S) /\ Len(Prefix(b, n)) = n
  BY <1>1 DEF Prefix
<1>3. n <= MaxHeight
  BY <1>1, SyncAssumption
<1>4. QED
  BY <1>2, <1>3, BlockIs DEF S

LEMMA BlockLen == \A b \in Block : Len(b) \in 0 .. MaxHeight
BY BlockIs, SyncAssumption

\* drainPendingLocked takes blocks of the buffer only.
LEMMA DrainTyped ==
  ASSUME NEW s, s.chain \in Block, s.pending \subseteq Block
  PROVE  Drain(s).chain \in Block /\ Drain(s).pending \subseteq Block
<1> DEFINE R == Reach(s)
           Lens == {Len(q) : q \in R}
           end == CHOOSE q \in R : \A r \in R : Len(r) <= Len(q)
<1>1. R \subseteq Block /\ s.chain \in R
  <2>1. R \subseteq Block
    BY DEF Reach
  <2>2. Len(s.chain) \in Nat
    BY BlockLen
  <2>3. s.chain \in R
    BY <2>2 DEF Reach, IsPrefix
  <2>4. QED
    BY <2>1, <2>3
<1> HIDE DEF R
<1>2. Lens \in SUBSET Nat /\ Lens # {} /\ \A n \in Lens : n <= MaxHeight
  <2>1. \A q \in R : Len(q) \in Nat /\ Len(q) <= MaxHeight
    BY <1>1, BlockLen, SyncAssumption
  <2>2. QED
    BY <1>1, <2>1
<1>3. PICK m \in Lens : \A n \in Lens : n <= m
  <2> HIDE DEF Lens
  <2>1. QED
    BY <1>2, Greatest, SyncAssumption
<1>4. \E q \in R : \A r \in R : Len(r) <= Len(q)
  BY <1>3
<1>5. end \in R
  BY <1>4
<1>6. Drain(s).chain = end /\ Drain(s).pending \subseteq s.pending
  BY DEF Drain, R
<1>7. QED
  BY <1>1, <1>5, <1>6

LEMMA DeliverTyped ==
  ASSUME NEW c \in Block, NEW P \in SUBSET Block, NEW b \in Block
  PROVE  LET s == Deliver([chain |-> c, pending |-> P], b)
         IN s.chain \in Block /\ s.pending \subseteq Block
<1> DEFINE s == [chain |-> c, pending |-> P]
           t == [s EXCEPT !.chain = b]
           u == [s EXCEPT !.pending = @ \cup {b}]
<1>1. /\ s.chain = c /\ s.pending = P /\ t.chain = b /\ t.pending = P
      /\ u.chain = c /\ u.pending = P \cup {b}
  OBVIOUS
<1>2. Drain(t).chain \in Block /\ Drain(t).pending \subseteq Block
  <2> HIDE DEF t
  <2>1. QED
    BY <1>1, DrainTyped
<1>3. Deliver(s, b) \in {Drain(t), u, s}
  BY DEF Deliver
<1> HIDE DEF s, t, u
<1>4. Deliver(s, b).chain \in Block /\ Deliver(s, b).pending \subseteq Block
  BY <1>1, <1>2, <1>3
<1>5. QED
  BY <1>4 DEF s

\* The counters of the bounds.
LEMMA UseTyped ==
  ASSUME UsedTyped, NEW w \in {"faults", "outages", "restarts", "losses", "pulls"}, Use(w),
         w = "losses" => used.losses < MaxLosses
  PROVE  UsedTyped'
BY SyncAssumption DEF UsedTyped, Uses, Use

\* A request takes a token, and one that fails none.
LEMMA RequestTyped ==
  ASSUME BucketTyped, UsedTyped, NEW p \in Peer,
         Fails(p) \/ (Asked(p) /\ UNCHANGED used)
  PROVE  BucketTyped' /\ UsedTyped'
<1>1. CASE Fails(p)
  <2>1. bucket' = bucket /\ (UNCHANGED used \/ Use("faults"))
    BY <1>1 DEF Fails
  <2>2. UsedTyped'
    <3>1. CASE UNCHANGED used
      BY <3>1 DEF UsedTyped
    <3>2. CASE Use("faults")
      BY <3>2, UseTyped
    <3>3. QED
      BY <2>1, <3>1, <3>2
  <2>3. QED
    BY <2>1, <2>2 DEF BucketTyped
<1>2. CASE Asked(p) /\ UNCHANGED used
  <2>1. bucket[p] \in 0 .. Burst /\ bucket[p] > 0
    BY <1>2 DEF BucketTyped, Asked
  <2>2. bucket[p] - 1 \in 0 .. Burst
    BY <2>1, SyncAssumption
  <2>3. bucket' = [bucket EXCEPT ![p] = bucket[p] - 1]
    BY <1>2 DEF Asked
  <2>4. QED
    BY <1>2, <2>2, <2>3 DEF BucketTyped, UsedTyped
<1>3. QED
  BY <1>1, <1>2

-----------------------------------------------------------------------------
(* The peer records. *)

LEMMA NewPeerTyped == NewPeer \in PeerRecord
BY EmptyBlock, SyncAssumption DEF NewPeer, PeerRecord

LEMMA NotedTyped ==
  ASSUME PeersTyped, NEW p \in Peer,
         SyncFailed(p) \/ \E tip \in Block : SyncSucceeded(p, tip)
  PROVE  PeersTyped'
<1>1. peers[p] \in PeerRecord
  BY DEF PeersTyped
<1>2. CASE SyncFailed(p)
  <2> DEFINE r == [peers[p] EXCEPT !.suppressed = TRUE]
  <2>1. r \in PeerRecord
    BY <1>1 DEF PeerRecord
  <2>2. peers' = [peers EXCEPT ![p] = r]
    BY <1>2 DEF SyncFailed
  <2> HIDE DEF r
  <2>3. QED
    BY <2>1, <2>2 DEF PeersTyped
<1>3. ASSUME NEW tip \in Block, SyncSucceeded(p, tip) PROVE PeersTyped'
  <2> DEFINE r == [peers[p] EXCEPT !.suppressed = FALSE, !.last = tip]
  <2>1. r \in PeerRecord
    BY <1>1, <1>3 DEF PeerRecord
  <2>2. peers' = [peers EXCEPT ![p] = r]
    BY <1>3 DEF SyncSucceeded, PeersTyped
  <2> HIDE DEF r
  <2>3. QED
    BY <2>1, <2>2 DEF PeersTyped
<1>4. QED
  BY <1>2, <1>3

LEMMA DialTyped ==
  ASSUME Typed, NEW p \in Peer, ShouldDial(p) \/ TouchReachable(p) \/ Touch(p) \/ Expire(p)
  PROVE  PeersTyped'
<1>0. 0 \in 0 .. SuppressAfter
  BY SyncAssumption
<1>1. peers[p] \in PeerRecord /\ peers \in [Peer -> PeerRecord]
  BY DEF Typed, PeersTyped
<1>2. \E r \in PeerRecord : peers' = [peers EXCEPT ![p] = r]
  <2>1. CASE ShouldDial(p)
    <3> DEFINE r == [peers[p] EXCEPT !.dialing = TRUE]
    <3>1. r \in PeerRecord
      BY <1>1 DEF PeerRecord
    <3>2. peers' = [peers EXCEPT ![p] = r]
      BY <2>1 DEF ShouldDial
    <3>3. QED
      BY <3>1, <3>2
  <2>2. CASE TouchReachable(p)
    <3> DEFINE n == IF peers[p].failures < SuppressAfter
                    THEN peers[p].failures + 1 ELSE SuppressAfter
               found == IF up[p]
                        THEN [peers[p] EXCEPT !.reachable = TRUE, !.suppressed = FALSE,
                                              !.failures = 0]
                        ELSE [peers[p] EXCEPT !.reachable = FALSE, !.failures = n,
                                              !.suppressed = @ \/ n = SuppressAfter]
               r == [found EXCEPT !.dialing = FALSE]
    <3>1. n \in 0 .. SuppressAfter
      BY <1>1, SyncAssumption DEF PeerRecord
    <3>2. found \in PeerRecord
      <4> HIDE DEF n
      <4>1. CASE up[p]
        BY ONLY <4>1, <1>0, <1>1 DEF PeerRecord
      <4>2. CASE ~up[p]
        BY <4>2, <3>1, <1>1 DEF PeerRecord
      <4>3. QED
        BY <4>1, <4>2
    <3>3. r \in PeerRecord
      <4> HIDE DEF found
      <4>1. QED
        BY <3>2 DEF PeerRecord
    <3>4. peers' = [peers EXCEPT ![p] = r]
      BY <2>2 DEF TouchReachable
    <3> HIDE DEF r
    <3>5. QED
      BY <3>3, <3>4
  <2>3. CASE Touch(p)
    <3> DEFINE r == [peers[p] EXCEPT !.suppressed = FALSE, !.failures = 0]
    <3>1. r \in PeerRecord
      BY <1>0, <1>1 DEF PeerRecord
    <3>2. peers' = [peers EXCEPT ![p] = r]
      BY <2>3, <1>1 DEF Touch
    <3>3. QED
      BY <3>1, <3>2
  <2>4. CASE Expire(p)
    <3> DEFINE r == [peers[p] EXCEPT !.suppressed = FALSE]
    <3>1. r \in PeerRecord
      BY <1>1 DEF PeerRecord
    <3>2. peers' = [peers EXCEPT ![p] = r]
      BY <2>4 DEF Expire
    <3>3. QED
      BY <3>1, <3>2
  <2>5. QED
    BY <2>1, <2>2, <2>3, <2>4
<1>3. QED
  BY <1>1, <1>2 DEF PeersTyped

-----------------------------------------------------------------------------
(* The loop. *)

LEMMA RestTyped ==
  Resting \in LoopRecord /\ Resting.got = <<>> /\ Resting.pc = "rest" /\ Resting.from = 0
<1>1. <<>> \in Seq(Block) /\ <<>> \in Block
  BY EmptyBlock
<1>2. QED
  BY <1>1 DEF Resting, LoopRecord

\* A loop that asks for nothing.
LEMMA CalmTyped ==
  ASSUME loop' \in LoopRecord, loop'.pc \in {"rest", "probe", "finish"}, loop'.got = <<>>,
         loop'.pc = "finish" => loop'.addr \in Peer
  PROVE  LoopTyped'
BY SyncAssumption DEF LoopTyped

LEMMA LoopRest == loop' = Resting => LoopTyped'
BY RestTyped, CalmTyped

LEMMA StartRoundTyped == Typed /\ StartRound => BucketTyped' /\ LoopTyped'
<1> SUFFICES ASSUME Typed, StartRound PROVE BucketTyped' /\ LoopTyped'
  OBVIOUS
<1> DEFINE ready == {p \in Peer : peers[p].reachable /\ ~peers[p].suppressed}
           r == [Resting EXCEPT !.pc = "probe", !.toProbe = ready]
<1>1. BucketTyped'
  <2>1. ASSUME NEW n \in 0 .. Burst PROVE Refilled(n) \in 0 .. Burst
    BY SyncAssumption DEF Refilled
  <2>2. bucket' = [p \in Peer |-> Refilled(bucket[p])]
    BY DEF StartRound
  <2>3. QED
    BY <2>1, <2>2 DEF Typed, BucketTyped
<1>2. ready \in SUBSET Peer
  OBVIOUS
<1> HIDE DEF ready
<1>3. r \in LoopRecord /\ r.pc = "probe" /\ r.got = <<>>
  BY <1>2, RestTyped DEF LoopRecord
<1>4. loop' = r
  BY DEF StartRound, ready
<1> HIDE DEF r
<1>5. LoopTyped'
  BY <1>3, <1>4, CalmTyped
<1>6. QED
  BY <1>1, <1>5

LEMMA ProbeTyped ==
  ASSUME Typed, NEW p \in Peer, Probe(p)
  PROVE  BucketTyped' /\ PeersTyped' /\ LoopTyped' /\ UsedTyped'
<1>1. served[p] \in Block /\ loop \in LoopRecord /\ loop.pc = "probe"
  BY DEF Typed, WorldTyped, LoopTyped, Probe
<1>2. BucketTyped' /\ UsedTyped'
  BY RequestTyped DEF Typed, Probe
<1>3. PeersTyped'
  BY <1>1, NotedTyped DEF Typed, Probe, StatusOf
<1>4. PICK T \in SUBSET Peer, X \in SUBSET (Peer \X Block) :
        loop' = [loop EXCEPT !.toProbe = T, !.samples = X]
  <2> DEFINE T == loop.toProbe \ {p}
             X == loop.samples \cup {<<p, StatusOf(p)>>}
  <2>1. T \in SUBSET Peer /\ loop.samples \in SUBSET (Peer \X Block)
    BY <1>1 DEF LoopRecord
  <2>2. X \in SUBSET (Peer \X Block)
    BY <1>1, <2>1 DEF StatusOf
  <2>3. CASE loop' = [loop EXCEPT !.toProbe = @ \ {p}]
    <3>1. loop' = [loop EXCEPT !.toProbe = T, !.samples = loop.samples]
      BY <2>3, <1>1 DEF LoopRecord
    <3>2. QED
      BY <2>1, <3>1
  <2>4. CASE loop' = [loop EXCEPT !.toProbe = @ \ {p},
                                  !.samples = @ \cup {<<p, StatusOf(p)>>}]
    BY <2>1, <2>2, <2>4
  <2>5. QED
    BY <2>3, <2>4 DEF Probe
<1>5. /\ loop' \in LoopRecord /\ loop'.pc = "probe" /\ loop'.got = loop.got
  BY <1>1, <1>4 DEF LoopRecord
<1>6. Len(loop.got) <= Chunk
  BY DEF Typed, LoopTyped
<1>7. LoopTyped'
  BY <1>5, <1>6 DEF LoopTyped
<1>8. QED
  BY <1>2, <1>3, <1>7

\* The range that is asked for begins above this node's chain and within the peer's.
LEMMA ChooseTyped == Typed /\ Choose => LoopTyped'
<1> SUFFICES ASSUME Typed, Choose PROVE LoopTyped'
  OBVIOUS
<1>1. loop \in LoopRecord /\ Len(chain) \in Nat
  BY BlockLen, SyncAssumption DEF Typed, LoopTyped, StoreTyped
<1>2. CASE loop' = Resting
  BY <1>2, LoopRest
<1>3. ASSUME NEW c \in loop.samples, Len(c[2]) > Len(chain),
             loop' = [Resting EXCEPT !.pc = "fetch", !.addr = c[1], !.best = c[2],
                                     !.from = Len(chain) + 1]
      PROVE  LoopTyped'
  <2>1. c[1] \in Peer /\ c[2] \in Block /\ Len(c[2]) \in Nat
    BY <1>1, <1>3, BlockLen, SyncAssumption DEF LoopRecord
  <2>2. PICK q \in Peer, b \in Block, n \in Nat :
          q = c[1] /\ b = c[2] /\ n = Len(chain) + 1 /\ n > 0 /\ n <= Len(b)
    BY <1>1, <1>3, <2>1
  <2>3. loop' = [Resting EXCEPT !.pc = "fetch", !.addr = q, !.best = b, !.from = n]
    BY <1>3, <2>2
  <2>4. /\ loop' \in LoopRecord /\ loop'.pc = "fetch" /\ loop'.addr = q /\ loop'.best = b
        /\ loop'.from = n /\ loop'.got = <<>>
    BY ONLY <2>3, RestTyped DEF LoopRecord
  <2>5. n <= End'
    BY <2>1, <2>2, <2>4, SyncAssumption DEF End
  <2>6. QED
    BY <2>2, <2>4, <2>5, SyncAssumption DEF LoopTyped
<1>4. QED
  BY <1>2, <1>3 DEF Choose

LEMMA EndIsInRange ==
  LoopTyped => End \in Int /\ End <= Len(loop.best) /\ End <= loop.from + Chunk - 1
               /\ Len(loop.best) \in Nat /\ loop.from \in Nat /\ Len(loop.got) \in Nat
BY BlockLen, SyncAssumption DEF LoopTyped, LoopRecord, End

\* requestPeerRange asks for at most Chunk blocks.
LEMMA FetchTyped ==
  ASSUME Typed, Fetch
  PROVE  BucketTyped' /\ PeersTyped' /\ LoopTyped' /\ UsedTyped'
<1>1. /\ loop \in LoopRecord /\ loop.addr \in Peer /\ loop.from > 0 /\ loop.pc = "fetch"
      /\ loop.from + Len(loop.got) <= End /\ LoopTyped /\ loop.got \in Seq(Block)
      /\ served[loop.addr] \in Block
  BY DEF Typed, LoopTyped, LoopRecord, WorldTyped, Fetch
<1>2. PICK p \in Peer, h \in Nat \ {0} : p = loop.addr /\ h = loop.from + Len(loop.got)
  BY <1>1, EndIsInRange
<1>3. BucketTyped' /\ UsedTyped'
  BY <1>2, RequestTyped DEF Typed, Fetch
<1>4. CASE /\ HasBlock(p, h) /\ UNCHANGED peers
           /\ loop' = [loop EXCEPT !.got = Append(@, BlockOf(p, h)),
                                   !.pc = IF h = End THEN "apply" ELSE "fetch"]
  <2>1. BlockOf(p, h) \in Block
    BY <1>1, <1>2, <1>4, PrefixTyped DEF HasBlock, BlockOf
  <2>2. PICK g \in Seq(Block), c \in {"fetch", "apply"} :
          /\ g = Append(loop.got, BlockOf(p, h)) /\ c = (IF h = End THEN "apply" ELSE "fetch")
    <3>1. Append(loop.got, BlockOf(p, h)) \in Seq(Block)
      BY <1>1, <2>1
    <3>2. (IF h = End THEN "apply" ELSE "fetch") \in {"fetch", "apply"}
      OBVIOUS
    <3>3. QED
      BY ONLY <3>1, <3>2
  <2>3. loop' = [loop EXCEPT !.got = g, !.pc = c]
    BY <1>4, <2>2
  <2>4. /\ loop' \in LoopRecord /\ loop'.pc = c /\ loop'.got = g /\ loop'.addr = loop.addr
        /\ loop'.from = loop.from /\ loop'.best = loop.best
    BY ONLY <1>1, <2>2, <2>3 DEF LoopRecord
  <2>5. Len(g) = Len(loop.got) + 1 /\ Len(loop.got) \in Nat
    BY <1>1, <2>2
  <2>6. Len(g) <= Chunk
    BY <1>1, <1>2, <2>5, EndIsInRange, SyncAssumption
  <2>7. End' = End
    BY <2>4 DEF End
  <2>8. c = "fetch" => loop.from + Len(g) <= End
    BY <1>1, <1>2, <2>2, <2>5, EndIsInRange
  <2>9. LoopTyped'
    BY <1>1, <2>4, <2>6, <2>7, <2>8 DEF LoopTyped
  <2>10. QED
    BY <1>3, <1>4, <2>9 DEF Typed, PeersTyped
<1>5. CASE SyncFailed(p) /\ loop' = [loop EXCEPT !.got = <<>>, !.pc = "finish"]
  <2>1. <<>> \in Seq(Block)
    OBVIOUS
  <2>2. loop' \in LoopRecord /\ loop'.pc = "finish" /\ loop'.got = <<>> /\ loop'.addr \in Peer
    BY ONLY <1>1, <1>5, <2>1 DEF LoopRecord
  <2>3. PeersTyped'
    BY <1>5, NotedTyped DEF Typed
  <2>4. QED
    BY <1>3, <2>2, <2>3, CalmTyped
<1>6. QED
  BY <1>2, <1>4, <1>5 DEF Fetch

\* A call into the chain leaves blocks there.
LEMMA SetTyped ==
  ASSUME NEW s, s.chain \in Block, s.pending \subseteq Block, SetStore(s)
  PROVE  StoreTyped'
BY DEF SetStore, StoreTyped

LEMMA DeliverSet ==
  ASSUME StoreTyped, NEW b \in Block, SetStore(Deliver(Store, b))
  PROVE  StoreTyped'
<1>1. Deliver(Store, b).chain \in Block /\ Deliver(Store, b).pending \subseteq Block
  BY DeliverTyped DEF StoreTyped, Store
<1>2. QED
  BY <1>1, SetTyped

LEMMA ApplyBlockTyped == Typed /\ ApplyBlock => StoreTyped' /\ LoopTyped'
<1> SUFFICES ASSUME Typed, ApplyBlock PROVE StoreTyped' /\ LoopTyped'
  OBVIOUS
<1>1. /\ loop \in LoopRecord /\ loop.pc = "apply" /\ loop.got \in Seq(Block) /\ loop.got # <<>>
      /\ LoopTyped /\ StoreTyped
  BY DEF Typed, LoopTyped, LoopRecord, ApplyBlock
<1>2. Head(loop.got) \in Block /\ Tail(loop.got) \in Seq(Block)
      /\ Len(Tail(loop.got)) <= Len(loop.got) /\ Len(Tail(loop.got)) \in Nat
      /\ Len(loop.got) \in Nat
  BY <1>1
<1>3. StoreTyped'
  BY <1>1, <1>2, DeliverSet DEF ApplyBlock
<1>4. PICK g \in Seq(Block), q \in BOOLEAN :
        g = Tail(loop.got) /\ loop' = [loop EXCEPT !.got = g, !.progressed = q]
  <2>1. loop.progressed \in BOOLEAN
    BY <1>1 DEF LoopRecord
  <2> DEFINE q == loop.progressed \/ Len(Deliver(Store, Head(loop.got)).chain) > Len(chain)
  <2>2. q \in BOOLEAN
    OBVIOUS
  <2>3. loop' = [loop EXCEPT !.got = Tail(loop.got), !.progressed = q]
    BY DEF ApplyBlock
  <2> HIDE DEF q
  <2>4. QED
    BY <1>2, <2>2, <2>3
<1>5. /\ loop' \in LoopRecord /\ loop'.pc = "apply" /\ loop'.got = g
      /\ loop'.addr = loop.addr /\ loop'.from = loop.from
  BY ONLY <1>1, <1>4 DEF LoopRecord
<1>6. Len(loop.got) <= Chunk /\ loop.addr \in Peer /\ loop.from > 0
  BY <1>1 DEF LoopTyped
<1>7. Len(g) <= Chunk
  BY <1>2, <1>4, <1>6, SyncAssumption
<1>8. LoopTyped'
  BY <1>5, <1>6, <1>7 DEF LoopTyped
<1>9. QED
  BY <1>3, <1>8

LEMMA EndRangeTyped == Typed /\ EndRange => StoreTyped' /\ LoopTyped'
<1> SUFFICES ASSUME Typed, EndRange PROVE StoreTyped' /\ LoopTyped'
  OBVIOUS
<1>1. /\ loop \in LoopRecord /\ loop.pc = "apply" /\ loop.got = <<>>
      /\ LoopTyped /\ StoreTyped /\ loop.addr \in Peer
  BY DEF Typed, LoopTyped, LoopRecord, EndRange
<1>2. StoreTyped'
  <2>1. Store.chain \in Block /\ Store.pending \subseteq Block
    BY <1>1 DEF StoreTyped, Store
  <2>2. QED
    BY <2>1, DrainTyped, SetTyped DEF EndRange
<1>3. PICK n \in Nat, q \in BOOLEAN, c \in {"fetch", "finish"} :
        /\ n = loop.from + Chunk /\ c = (IF n <= Len(loop.best) THEN "fetch" ELSE "finish")
        /\ loop' = [loop EXCEPT !.from = n, !.progressed = q, !.pc = c]
  <2> DEFINE n == loop.from + Chunk
             q == loop.progressed \/ Len(Drain(Store).chain) > Len(chain)
             c == IF n <= Len(loop.best) THEN "fetch" ELSE "finish"
  <2>1. loop.progressed \in BOOLEAN /\ loop.from \in Nat
    BY <1>1 DEF LoopRecord
  <2>2. q \in BOOLEAN /\ n \in Nat /\ c \in {"fetch", "finish"}
    BY <2>1, SyncAssumption
  <2>3. loop' = [loop EXCEPT !.from = n, !.progressed = q, !.pc = c]
    BY DEF EndRange
  <2>4. n = loop.from + Chunk /\ c = (IF n <= Len(loop.best) THEN "fetch" ELSE "finish")
    OBVIOUS
  <2> HIDE DEF n, q, c
  <2>5. QED
    BY <2>2, <2>3, <2>4
<1>4. /\ loop' \in LoopRecord /\ loop'.pc = c /\ loop'.got = <<>>
      /\ loop'.addr = loop.addr /\ loop'.from = n /\ loop'.best = loop.best
  BY ONLY <1>1, <1>3 DEF LoopRecord
<1>5. n > 0 /\ Len(loop.best) \in Nat
  <2>1. loop.from > 0 /\ loop.from \in Nat /\ Len(loop.best) \in Nat
    BY <1>1, EndIsInRange DEF LoopTyped
  <2>2. QED
    BY <1>3, <2>1, SyncAssumption
<1>6. c = "fetch" => n <= End'
  BY <1>3, <1>4, <1>5, SyncAssumption DEF End
<1>7. LoopTyped'
  BY <1>1, <1>4, <1>5, <1>6, SyncAssumption DEF LoopTyped
<1>8. QED
  BY <1>2, <1>7

LEMMA FinishTyped == Typed /\ Finish => PeersTyped' /\ LoopTyped'
<1> SUFFICES ASSUME Typed, Finish PROVE PeersTyped' /\ LoopTyped'
  OBVIOUS
<1>1. loop.addr \in Peer /\ chain \in Block /\ PeersTyped
  BY DEF Typed, LoopTyped, StoreTyped, Finish
<1>2. PeersTyped'
  BY <1>1, NotedTyped DEF Finish
<1>3. QED
  BY <1>2, LoopRest DEF Finish

-----------------------------------------------------------------------------
(* The other goroutines, and the peers. *)

LEMMA PullTypedNext ==
  ASSUME Typed, Pull
  PROVE  BucketTyped' /\ StoreTyped' /\ PullTyped' /\ UsedTyped'
<1>1. /\ pull \in [addr : Peer \cup {Nobody}, next : Nat, to : Nat]
      /\ pull.addr \in Peer /\ pull.next > 0 /\ pull.next \in Nat
      /\ served[pull.addr] \in Block /\ StoreTyped
  BY DEF Typed, PullTyped, WorldTyped, Pull
<1>2. BucketTyped' /\ UsedTyped'
  BY <1>1, RequestTyped DEF Typed, Pull
<1>3. StoreTyped'
  <2>1. CASE UNCHANGED store
    BY <1>1, <2>1 DEF store, StoreTyped
  <2>2. CASE HasBlock(pull.addr, pull.next)
             /\ SetStore(Deliver(Store, BlockOf(pull.addr, pull.next)))
    <3>1. BlockOf(pull.addr, pull.next) \in Block
      BY <1>1, <2>2, PrefixTyped DEF HasBlock, BlockOf
    <3>2. QED
      BY <1>1, <2>2, <3>1, DeliverSet
  <2>3. QED
    BY <2>1, <2>2 DEF Pull
<1>4. PullTyped'
  <2>1. CASE pull' = Idle
    BY <2>1 DEF PullTyped, Idle
  <2>2. CASE pull' = [pull EXCEPT !.next = @ + 1]
    <3>1. pull.next + 1 \in Nat /\ pull.next + 1 > 0
      BY <1>1
    <3>2. /\ pull' \in [addr : Peer \cup {Nobody}, next : Nat, to : Nat]
          /\ pull'.addr = pull.addr /\ pull'.next = pull.next + 1
      BY <1>1, <2>2, <3>1
    <3>3. QED
      BY <1>1, <3>1, <3>2 DEF PullTyped
  <2>3. QED
    BY <2>1, <2>2 DEF Pull
<1>5. QED
  BY <1>2, <1>3, <1>4

LEMMA AnnounceTyped ==
  ASSUME Typed, NEW o \in Peer, NEW p \in Peer, Announce(o, p)
  PROVE  PullTyped' /\ UsedTyped'
<1>1. Len(chain) + 1 \in Nat /\ Len(chain) + 1 > 0 /\ Len(served[o]) \in Nat
  BY BlockLen, SyncAssumption DEF Typed, WorldTyped, StoreTyped
<1>2. PICK n \in Nat, t \in Nat : n > 0 /\ pull' = [addr |-> p, next |-> n, to |-> t]
  BY <1>1 DEF Announce
<1>3. PullTyped'
  BY <1>2 DEF PullTyped
<1>4. UsedTyped'
  BY UseTyped DEF Typed, Announce
<1>5. QED
  BY <1>3, <1>4

LEMMA GossipTyped ==
  ASSUME Typed, NEW n \in 1 .. Len(truth), Gossip(n)
  PROVE  StoreTyped'
<1>1. n \in Nat /\ n <= Len(truth) /\ truth \in Block /\ StoreTyped
  BY BlockLen, SyncAssumption DEF Typed, WorldTyped
<1>2. Prefix(truth, n) \in Block
  BY <1>1, PrefixTyped
<1>3. QED
  BY <1>1, <1>2, DeliverSet DEF Gossip

LEMMA NodeRestartTyped ==
  ASSUME Typed, NodeRestart
  PROVE  StoreTyped' /\ PeersTyped' /\ LoopTyped' /\ PullTyped' /\ UsedTyped'
<1>1. StoreTyped'
  BY DEF Typed, StoreTyped, NodeRestart
<1>2. PeersTyped'
  BY NewPeerTyped DEF PeersTyped, NodeRestart
<1>3. LoopTyped'
  BY LoopRest DEF NodeRestart
<1>4. PullTyped'
  BY DEF PullTyped, Idle, NodeRestart
<1>5. UsedTyped'
  BY UseTyped DEF Typed, NodeRestart
<1>6. QED
  BY <1>1, <1>2, <1>3, <1>4, <1>5

\* A block names the losses before it, and there are at most MaxLosses.
LEMMA ProduceTyped == Typed /\ Produce => WorldTyped'
<1> SUFFICES ASSUME Typed, Produce PROVE WorldTyped'
  OBVIOUS
<1>1. truth \in Seq(0 .. MaxLosses) /\ Len(truth) < MaxHeight /\ Len(truth) \in Nat
  BY BlockIs DEF Typed, WorldTyped, Produce
<1>2. used.losses \in 0 .. MaxLosses
  BY SyncAssumption DEF Typed, UsedTyped, Uses
<1>3. /\ Append(truth, used.losses) \in Seq(0 .. MaxLosses)
      /\ Len(Append(truth, used.losses)) = Len(truth) + 1
  BY <1>1, <1>2
<1>4. truth' \in Block
  <2>1. Len(truth) + 1 <= MaxHeight
    BY <1>1, SyncAssumption
  <2>2. QED
    BY <1>3, <2>1, BlockIs DEF Produce
<1>5. QED
  BY <1>4 DEF Typed, WorldTyped, Produce

LEMMA GrowTyped ==
  ASSUME Typed, NEW p \in Peer, Grow(p)
  PROVE  WorldTyped'
<1> DEFINE S == 0 .. MaxLosses
<1>1. truth \in Block /\ served[p] \in Block /\ served \in [Peer -> Block]
      /\ shown \in [Peer -> Block]
  BY DEF Typed, WorldTyped
<1>2. truth \in Seq(S) /\ served[p] \in Seq(S)
  BY <1>1, BlockIs
<1> HIDE DEF S
<1>3. Len(served[p]) + 1 <= Len(truth) /\ Len(served[p]) + 1 \in Nat
  <2>1. Len(served[p]) <= Len(truth) /\ served[p] # truth
        /\ SubSeq(served[p], 1, Len(served[p])) = SubSeq(truth, 1, Len(served[p]))
    BY DEF Grow, IsStrictPrefix, IsPrefix
  <2>2. Len(served[p]) # Len(truth)
    BY <1>2, <2>1
  <2>3. QED
    BY <1>2, <2>1, <2>2
<1>4. PICK b \in Block : b = Prefix(truth, Len(served[p]) + 1)
  BY <1>1, <1>3, PrefixTyped
<1>5. served' = [served EXCEPT ![p] = b]
  BY <1>4 DEF Grow
<1>6. served' \in [Peer -> Block] /\ served'[p] = b
  BY <1>1, <1>4, <1>5
<1>7. shown' \in [Peer -> Block]
  <2>1. \/ shown' = [shown EXCEPT ![p] = b]
        \/ shown' = [shown EXCEPT ![p] = shown[p]]
    BY <1>6 DEF Grow
  <2>2. QED
    BY <1>1, <1>4, <2>1
<1>8. truth' = truth /\ up' = up
  BY DEF Grow
<1>9. QED
  BY <1>6, <1>7, <1>8 DEF Typed, WorldTyped

LEMMA PeerRestartTyped ==
  ASSUME Typed, NEW p \in Peer, PeerRestart(p)
  PROVE  WorldTyped' /\ UsedTyped'
<1>1. UsedTyped'
  BY UseTyped DEF Typed, PeerRestart
<1>2. WorldTyped'
  BY EmptyBlock DEF Typed, WorldTyped, PeerRestart
<1>3. QED
  BY <1>1, <1>2

LEMMA LoseTipTyped == Typed /\ LoseTip => WorldTyped' /\ UsedTyped'
<1> SUFFICES ASSUME Typed, LoseTip PROVE WorldTyped' /\ UsedTyped'
  OBVIOUS
<1>1. UsedTyped'
  BY UseTyped DEF Typed, LoseTip
<1>2. truth \in Block /\ truth # <<>>
  BY DEF Typed, WorldTyped, LoseTip
<1>3. truth \in Seq(0 .. MaxLosses)
  BY <1>2, BlockIs
<1>4. Len(truth) - 1 \in Nat /\ Len(truth) - 1 <= Len(truth)
  BY <1>2, <1>3
<1>5. Front(truth) = Prefix(truth, Len(truth) - 1)
  BY DEF Front, Prefix
<1>6. Front(truth) \in Block
  BY <1>2, <1>4, <1>5, PrefixTyped
<1>7. WorldTyped'
  BY <1>6, EmptyBlock DEF Typed, WorldTyped, LoseTip
<1>8. QED
  BY <1>1, <1>7

LEMMA OutageTyped ==
  ASSUME Typed, NEW p \in Peer, Down(p) \/ Up(p)
  PROVE  WorldTyped' /\ UsedTyped'
<1>1. WorldTyped'
  BY DEF Typed, WorldTyped, Down, Up
<1>2. CASE Down(p)
  BY <1>1, <1>2, UseTyped DEF Typed, Down
<1>3. CASE Up(p)
  BY <1>1, <1>3 DEF Typed, UsedTyped, Up
<1>4. QED
  BY <1>2, <1>3

-----------------------------------------------------------------------------

\* What a step does not change keeps its type.
LEMMA Unchanged ==
  /\ Typed /\ UNCHANGED world => WorldTyped'
  /\ Typed /\ UNCHANGED store => StoreTyped'
  /\ Typed /\ UNCHANGED bucket => BucketTyped'
  /\ Typed /\ UNCHANGED peers => PeersTyped'
  /\ Typed /\ UNCHANGED loop => LoopTyped'
  /\ Typed /\ UNCHANGED pull => PullTyped'
  /\ Typed /\ UNCHANGED used => UsedTyped'
<1>1. Typed /\ UNCHANGED world => WorldTyped'
  BY DEF Typed, WorldTyped, world
<1>2. Typed /\ UNCHANGED store => StoreTyped'
  BY DEF Typed, StoreTyped, store
<1>3. Typed /\ UNCHANGED bucket => BucketTyped'
  BY DEF Typed, BucketTyped
<1>4. Typed /\ UNCHANGED peers => PeersTyped'
  BY DEF Typed, PeersTyped
<1>5. Typed /\ UNCHANGED loop => LoopTyped'
  BY DEF Typed, LoopTyped, End
<1>6. Typed /\ UNCHANGED pull => PullTyped'
  BY DEF Typed, PullTyped
<1>7. Typed /\ UNCHANGED used => UsedTyped'
  BY DEF Typed, UsedTyped
<1>8. QED
  BY <1>1, <1>2, <1>3, <1>4, <1>5, <1>6, <1>7

LEMMA TypedInit == Init => Typed
<1> SUFFICES ASSUME Init PROVE Typed
  OBVIOUS
<1>1. WorldTyped /\ StoreTyped
  BY EmptyBlock DEF Init, WorldTyped, StoreTyped
<1>2. BucketTyped
  <2>1. Burst \in 0 .. Burst
    BY SyncAssumption
  <2>2. QED
    BY <2>1 DEF Init, BucketTyped
<1>3. PeersTyped
  BY NewPeerTyped DEF Init, PeersTyped
<1>4. LoopTyped
  BY RestTyped, SyncAssumption DEF Init, LoopTyped
<1>5. PullTyped
  BY DEF Init, PullTyped, Idle
<1>6. UsedTyped
  BY SyncAssumption DEF Init, UsedTyped, Uses
<1>7. QED
  BY <1>1, <1>2, <1>3, <1>4, <1>5, <1>6 DEF Typed

LEMMA TypedNext == Typed /\ [Next]_vars => Typed'
<1> SUFFICES ASSUME Typed, [Next]_vars PROVE Typed'
  OBVIOUS
<1> USE Unchanged DEF Typed
<1>1. CASE StartRound
  BY <1>1, StartRoundTyped DEF StartRound
<1>2. ASSUME NEW p \in Peer, Probe(p) PROVE Typed'
  BY <1>2, ProbeTyped DEF Probe
<1>3. CASE Choose
  BY <1>3, ChooseTyped DEF Choose
<1>4. CASE Fetch
  BY <1>4, FetchTyped DEF Fetch
<1>5. CASE ApplyBlock
  BY <1>5, ApplyBlockTyped DEF ApplyBlock
<1>6. CASE EndRange
  BY <1>6, EndRangeTyped DEF EndRange
<1>7. CASE Finish
  BY <1>7, FinishTyped DEF Finish
<1>8. CASE Pull
  BY <1>8, PullTypedNext DEF Pull
<1>9. CASE NodeRestart
  BY <1>9, NodeRestartTyped DEF NodeRestart
<1>10. CASE Produce
  BY <1>10, ProduceTyped DEF Produce, store
<1>11. CASE LoseTip
  BY <1>11, LoseTipTyped DEF LoseTip, store
<1>12. ASSUME NEW n \in 1 .. Len(truth), Gossip(n) PROVE Typed'
  BY <1>12, GossipTyped DEF Gossip
<1>13. ASSUME NEW p \in Peer, ShouldDial(p) \/ TouchReachable(p) \/ Touch(p) \/ Expire(p)
       PROVE  Typed'
  BY <1>13, DialTyped DEF ShouldDial, TouchReachable, Touch, Expire
<1>14. ASSUME NEW p \in Peer, Grow(p) PROVE Typed'
  BY <1>14, GrowTyped DEF Grow
<1>15. ASSUME NEW p \in Peer, PeerRestart(p) PROVE Typed'
  BY <1>15, PeerRestartTyped DEF PeerRestart
<1>16. ASSUME NEW p \in Peer, Down(p) \/ Up(p) PROVE Typed'
  BY <1>16, OutageTyped DEF Down, Up
<1>17. ASSUME NEW o \in Peer, NEW p \in Peer, Announce(o, p) PROVE Typed'
  BY <1>17, AnnounceTyped DEF Announce
<1>18. CASE UNCHANGED vars
  BY <1>18 DEF vars
<1>19. QED
  BY <1>1, <1>2, <1>3, <1>4, <1>5, <1>6, <1>7, <1>8, <1>9, <1>10, <1>11, <1>12, <1>13,
     <1>14, <1>15, <1>16, <1>17, <1>18 DEF Next, Sync

\* bootstrapSync never holds more than a range of Chunk blocks, works on blocks of its
\* peers only, and never counts more tokens than a full bucket has.
THEOREM SyncTyped == Spec => []TypeOK
<1>1. Typed => TypeOK
  BY DEF Typed, WorldTyped, StoreTyped, BucketTyped, PeersTyped, LoopTyped, PullTyped,
         PeerRecord, LoopRecord, TypeOK
<1>2. QED
  BY <1>1, TypedInit, TypedNext, PTL DEF Spec
=============================================================================
