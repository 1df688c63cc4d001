------------------------------ MODULE PeerTable ------------------------------
(***************************************************************************)
(* internal/mesh: the peers that gossip is sent to (m.bootstrapPeers) and  *)
(* the peer records (m.peers), beside the goroutines that dial them        *)
(* (dial.go), the one that evicts the dead (discovery.go) and POST /peers  *)
(* (daemon_bridge.go).                                                     *)
(*                                                                         *)
(* m.bootstrapPeers is a slice, and a slice is an array and a length.  The *)
(* eviction filters it in place and takes no lock; the dial goroutine of   *)
(* the startup list ranges over the same array; an append writes into it   *)
(* as long as it has room.  Every read of a cell is a step here.           *)
(***************************************************************************)
EXTENDS Integers, Sequences, SequencesExt

CONSTANTS
  Startup,              \* finalPeers, in order
  Strangers,            \* peers that nobody configured
  MaxOutages, MaxPosts, \* bounds: peers that go away, requests to POST /peers
  Nobody                \* no peer, no call

ASSUME PeersAssumption ==
  /\ Startup \in Seq(STRING) /\ Startup # <<>> /\ IsInjective(Startup)
  /\ Strangers \cap ToSet(Startup) = {}
  /\ {Nobody, "startup"} \cap (Strangers \cup ToSet(Startup)) = {}
  /\ Nobody \notin [of : Nat, len : Nat, at : Nat, out : Nat]

VARIABLES
  up,        \* the peers that accept a connection
  peers,     \* m.peers: address -> its record
  array,     \* the startup array, and those a full append has moved to
  boot,      \* m.bootstrapPeers: which array, and how much of it
  dial,      \* the goroutines of ConnectToPeers
  evict,     \* the locals of discoveryEvictDeadLoop, Nobody between ticks
  post,      \* the locals of POST /peers while it holds m.lock, Nobody without
  firm,      \* history: what was listed and reachable during the pass of evict
  crossed,   \* history: an append was to another list than POST /peers had looked at
  outages, posts

world   == <<up, outages, posts>>
history == <<firm, crossed>>
vars    == <<world, peers, array, boot, dial, evict, post, history>>

Peer  == ToSet(Startup) \cup Strangers
Size  == Len(Startup)
Cells(s) == {array[s.of][i] : i \in 1 .. s.len}

Listed  == Cells(boot)
Dialled == ToSet(array[1]) \cup (DOMAIN dial \ {"startup"})
Reachable(p) == p \in DOMAIN peers /\ peers[p].reachable

Fresh == [reachable |-> FALSE, suppressed |-> FALSE]

Record(p) == IF p \in DOMAIN peers THEN peers[p] ELSE Fresh
WithRecord(p, r) == [q \in DOMAIN peers \cup {p} |-> IF q = p THEN r ELSE peers[q]]

(* buildStartupPeerSet, the initial peer map, and the loops that start.    *)
Init ==
  /\ up \in {Peer, Peer \ {Startup[1]}}
  /\ peers = [p \in ToSet(Startup) |-> Fresh]
  /\ array = <<Startup>>
  /\ boot = [of |-> 1, len |-> Size]
  /\ dial = [g \in {"startup"} |-> [at |-> 1, call |-> Nobody]]
  /\ evict = Nobody /\ post = Nobody /\ firm = {} /\ crossed = FALSE
  /\ outages = 0 /\ posts = 0

LockFree == post = Nobody

Target(g) == IF g = "startup" THEN array[1][dial[g].at] ELSE g

(* A goroutine that goes through its list only once.                       *)
NextAtOnce(g) == IF g = "startup" /\ dial[g].at < Size THEN dial[g].at + 1 ELSE dial[g].at

NextAt(g) == IF g = "startup" THEN (dial[g].at % Size) + 1 ELSE 1

(* shouldDialPeer, for a peer that is suppressed: it is passed over.       *)
PassOver(g) ==
  /\ LockFree
  /\ dial[g].call = Nobody
  /\ Record(Target(g)).suppressed
  /\ dial' = [dial EXCEPT ![g].at = NextAt(g)]
  /\ UNCHANGED <<world, peers, array, boot, evict, post, history>>

(* shouldDialPeer, and the connection that is made or fails.               *)
Dial(g) ==
  /\ LockFree
  /\ dial[g].call = Nobody
  /\ ~Record(Target(g)).suppressed
  /\ dial' = [dial EXCEPT ![g].call = [addr |-> Target(g), ok |-> Target(g) \in up]]
  /\ UNCHANGED <<world, peers, array, boot, evict, post, history>>

(* TouchReachable.  A failure suppresses the peer if it is the third.      *)
Found(r, ok, third) ==
  [reachable |-> ok, suppressed |-> ~ok /\ (r.suppressed \/ third)]

TouchReachable(g) ==
  LET c == dial[g].call IN
  /\ LockFree
  /\ c # Nobody
  /\ \E third \in BOOLEAN : peers' = WithRecord(c.addr, Found(Record(c.addr), c.ok, third))
  /\ firm' = IF c.ok THEN firm ELSE firm \ {c.addr}
  /\ dial' = [dial EXCEPT ![g] = [at |-> NextAt(g), call |-> Nobody]]
  /\ UNCHANGED <<world, array, boot, evict, post, crossed>>

(* SuppressedUntil passes.                                                 *)
Expire(p) ==
  /\ p \in DOMAIN peers /\ peers[p].suppressed
  /\ peers' = [peers EXCEPT ![p].suppressed = FALSE]
  /\ UNCHANGED <<world, array, boot, dial, evict, post, history>>

(* TouchPeer: a message came from p.                                       *)
TouchPeer(p) ==
  /\ LockFree
  /\ p \in up
  /\ peers' = WithRecord(p, [Record(p) EXCEPT !.suppressed = FALSE])
  /\ UNCHANGED <<world, array, boot, dial, evict, post, history>>

(* discoveryEvictDeadLoop: a tick; out is the slice without its cells.     *)
EvictStart ==
  /\ evict = Nobody
  /\ evict' = [of |-> boot.of, len |-> boot.len, at |-> 1, out |-> 0]
  /\ firm' = {p \in Listed : Reachable(p)}
  /\ UNCHANGED <<world, peers, array, boot, dial, post, crossed>>

(* Where out has room for the next peer; and a filter that does not close  *)
(* the gaps.                                                               *)
SlotInPlace(e) == e.at
Slot(e) == e.out + 1

(* The range reads one cell, and keeps a reachable peer.                   *)
EvictNext ==
  /\ evict # Nobody
  /\ evict.at <= evict.len
  /\ LET p == array[evict.of][evict.at] IN
     IF Reachable(p)
       THEN /\ array' = [array EXCEPT ![evict.of][Slot(evict)] = p]
            /\ evict' = [evict EXCEPT !.at = @ + 1, !.out = @ + 1]
       ELSE evict' = [evict EXCEPT !.at = @ + 1] /\ UNCHANGED array
  /\ UNCHANGED <<world, peers, boot, dial, post, history>>

(* m.bootstrapPeers = out.                                                 *)
EvictEnd ==
  /\ evict # Nobody
  /\ evict.at > evict.len
  /\ boot' = [of |-> evict.of, len |-> evict.out]
  /\ evict' = Nobody
  /\ firm' = {}
  /\ UNCHANGED <<world, peers, array, dial, post, crossed>>

(* POST /peers takes m.lock and looks p up.  A peer without a record ends  *)
(* here: TouchReachable waits for the lock its caller holds.               *)
PostLook(p) ==
  /\ LockFree
  /\ posts < MaxPosts
  /\ posts' = posts + 1
  /\ post' = IF p \notin DOMAIN peers THEN [addr |-> p, of |-> 0, len |-> 0]
             ELSE IF p \in Listed THEN Nobody
             ELSE [addr |-> p, of |-> boot.of, len |-> boot.len]
  /\ UNCHANGED <<up, peers, array, boot, dial, evict, history, outages>>

Stuck == post # Nobody /\ post.of = 0

(* The goroutine POST /peers starts for the peer; and one that is missing. *)
NoGoroutine(p) == dial
WithGoroutine(p) ==
  [g \in DOMAIN dial \cup {p} |->
     IF g \in DOMAIN dial THEN dial[g] ELSE [at |-> 1, call |-> Nobody]]

(* The array of a slice has no room left; and a test that is late by one.  *)
FullLate(s) == s.len > Len(array[s.of])
Full(s) == s.len = Len(array[s.of])

(* The array that append moves a full one to: it is twice as long.         *)
Grown(a, p) ==
  [i \in 1 .. 2 * Len(a) |->
     CASE i <= Len(a) -> a[i] [] i = Len(a) + 1 -> p [] OTHER -> Nobody]

(* append, in place or to a larger array, and the goroutine that dials p.  *)
PostAppend ==
  /\ post # Nobody /\ ~Stuck
  /\ IF Full(post)
       THEN /\ array' = Append(array, Grown(array[post.of], post.addr))
            /\ boot' = [of |-> Len(array) + 1, len |-> post.len + 1]
       ELSE /\ array' = [array EXCEPT ![post.of][post.len + 1] = post.addr]
            /\ boot' = [of |-> post.of, len |-> post.len + 1]
  /\ crossed' = (crossed \/ boot # [of |-> post.of, len |-> post.len])
  /\ dial' = WithGoroutine(post.addr)
  /\ post' = Nobody
  /\ UNCHANGED <<world, peers, evict, firm>>

(* The network.                                                            *)
GoesAway(p) ==
  /\ p \in up /\ outages < MaxOutages
  /\ up' = up \ {p} /\ outages' = outages + 1
  /\ UNCHANGED <<peers, array, boot, dial, evict, post, history, posts>>

ComesBack(p) ==
  /\ p \notin up
  /\ up' = up \cup {p}
  /\ UNCHANGED <<peers, array, boot, dial, evict, post, history, outages, posts>>

Goroutine(g) == PassOver(g) \/ Dial(g) \/ TouchReachable(g)

Next ==
  \/ \E g \in DOMAIN dial : PassOver(g) \/ Dial(g) \/ TouchReachable(g)
  \/ \E p \in Peer : Expire(p) \/ TouchPeer(p) \/ PostLook(p) \/ GoesAway(p) \/ ComesBack(p)
  \/ EvictStart \/ EvictNext \/ EvictEnd
  \/ PostAppend

Spec == Init /\ [][Next]_vars

(* The dial goroutines run on, and a suppression is at most 60 s.          *)
FairSpec ==
  /\ Spec
  /\ \A g \in Peer \cup {"startup"} : WF_vars(g \in DOMAIN dial /\ Goroutine(g))
  /\ \A p \in Peer : WF_vars(Expire(p))
  /\ WF_vars(PostAppend)

(* Records and slices are within their bounds: no slice reaches beyond its *)
(* array, or to a cell that was never written.                             *)
TypeOK ==
  /\ up \subseteq Peer /\ firm \subseteq Peer
  /\ DOMAIN peers \subseteq Peer
  /\ \A p \in DOMAIN peers : peers[p] \in [reachable : BOOLEAN, suppressed : BOOLEAN]
  /\ array[1] \in [1 .. Size -> Peer]
  /\ \A k \in DOMAIN array : array[k] \in Seq(Peer \cup {Nobody})
  /\ boot.of \in DOMAIN array /\ boot.len \in 0 .. Len(array[boot.of])
  /\ Nobody \notin Listed
  /\ evict # Nobody => evict.out < evict.at /\ evict.at <= evict.len + 1

(* An eviction never loses a peer that was listed and reachable all        *)
(* through it, although it overwrites the cells it reads and a request may *)
(* append in the middle of it (discoveryEvictDeadLoop).                    *)
KeptWhileReachable ==
  [][evict # Nobody /\ evict' = Nobody => firm \subseteq Listed']_vars

(* Between evictions, every peer that gossip is sent to is dialled by some *)
(* goroutine, so that it can be found reachable and be kept.  An append to *)
(* a full array moves the list away from the array the startup goroutine   *)
(* ranges over; only the goroutine of the request then dials the new peer  *)
(* (daemon_bridge.go:411-426, dial.go:21).  The exception is a request     *)
(* that appends to the list it looked at although an eviction has ended    *)
(* since: it puts back the peers that were evicted, and the eviction may   *)
(* have overwritten the only cell that had them dialled.                   *)
ListedIsDialled == evict = Nobody /\ ~crossed => Listed \subseteq Dialled

(* A peer that stays up and is dialled is found reachable, for good, also  *)
(* after suppressions and after the eviction has taken it off the list:    *)
(* the sync loop can use it again.  The one exception is a request for a   *)
(* peer without a record, which never gives m.lock back.                   *)
DialledIsReached ==
  \A p \in Peer :
    <>[](p \in up /\ p \in Dialled) => <>[]Reachable(p) \/ <>Stuck
=============================================================================
