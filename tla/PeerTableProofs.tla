--------------------------- MODULE PeerTableProofs ---------------------------
(***************************************************************************)
(* Proofs about PeerTable, for any startup list, any strangers, and any    *)
(* number of outages and of requests.                                      *)
(*                                                                         *)
(* Three slices are in use at a time: the one the eviction filters, the    *)
(* list itself and the one a request has looked at.  They are ordered by   *)
(* age (Ordered), so that an append writes beyond the cells an eviction    *)
(* goes through, and an eviction writes only behind its own range.  From   *)
(* that follow Kept, that no reachable peer is lost, and Served, that the  *)
(* list is dialled.                                                        *)
(***************************************************************************)
EXTENDS PeerTable, TLAPS

\* The cells of a slice are within its array and have been written.
Filled(a, s) ==
  /\ s.of \in DOMAIN a /\ s.len \in 0 .. Len(a[s.of])
  /\ \A i \in 1 .. s.len : a[s.of][i] \in Peer

Typed ==
  /\ up \subseteq Peer /\ firm \subseteq Peer /\ crossed \in BOOLEAN
  /\ DOMAIN peers \subseteq Peer
  /\ \A p \in DOMAIN peers : peers[p] \in [reachable : BOOLEAN, suppressed : BOOLEAN]
  /\ DOMAIN dial \subseteq Peer \cup {"startup"}
  /\ \A g \in DOMAIN dial :
       /\ dial[g] = [at |-> dial[g].at, call |-> dial[g].call] /\ dial[g].at \in 1 .. Size
       /\ dial[g].call # Nobody => dial[g].call \in [addr : Peer, ok : BOOLEAN]

Arrays ==
  /\ array \in Seq(Seq(Peer \cup {Nobody})) /\ Len(array) > 0
  /\ \A k \in DOMAIN array : Len(array[k]) > 0
  /\ array[1] \in [1 .. Size -> Peer]

Slices ==
  /\ boot \in [of : Nat, len : Nat] /\ Filled(array, boot)
  /\ evict # Nobody =>
       /\ evict \in [of : Nat, len : Nat, at : Nat, out : Nat] /\ Filled(array, evict)
       /\ evict.out < evict.at /\ evict.at <= evict.len + 1
  /\ post # Nobody =>
       /\ post \in [addr : Peer, of : Nat, len : Nat]
       /\ post.of # 0 => Filled(array, post)

\* s is of an older array than t, or not longer.
Before(s, t) == s.of < t.of \/ (s.of = t.of /\ s.len <= t.len)

\* The slices in use, the oldest first.
Ordered ==
  /\ evict # Nobody => Before(evict, boot)
  /\ post # Nobody /\ post.of # 0 => Before(boot, post)

\* What the eviction must keep is in the cells it has written or has still to read.
Held(p) ==
  \E i \in 1 .. evict.len : array[evict.of][i] = p /\ (i <= evict.out \/ evict.at <= i)
Kept == evict # Nobody => \A p \in firm : Reachable(p) /\ Held(p)

\* The list that the next eviction starts from, or the one that is being filtered.
Base == IF evict = Nobody THEN boot ELSE evict
Served == ~crossed => Cells(Base) \subseteq Dialled

IInv == Typed /\ Arrays /\ Slices /\ Ordered /\ Kept /\ Served

-----------------------------------------------------------------------------

\* What the proofs need to know of the constants.
LEMMA Start ==
  /\ Size \in Nat /\ Size > 0 /\ Startup \in [1 .. Size -> Peer]
  /\ "startup" \notin Peer /\ Nobody \notin Peer
<1>1. Startup \in Seq(STRING) /\ Startup # <<>>
  BY PeersAssumption
<1>2. Size \in Nat /\ Size > 0 /\ Startup \in [1 .. Size -> STRING]
  BY <1>1 DEF Size
<1>3. \A i \in 1 .. Size : Startup[i] \in Peer
  BY DEF Peer, ToSet, Size
<1>4. QED
  BY <1>2, <1>3, PeersAssumption DEF Peer

\* A cell that has been written stays written, and its array keeps its length.
Grows(a, b) ==
  \A k \in DOMAIN a :
    /\ k \in DOMAIN b /\ Len(b[k]) = Len(a[k])
    /\ \A i \in 1 .. Len(a[k]) : a[k][i] \in Peer => b[k][i] \in Peer

\* A slice keeps its cells while arrays only gain cells.
LEMMA StaysFilled ==
  ASSUME NEW a, NEW b, NEW s, s.len \in Nat, Grows(a, b), Filled(a, s), Len(a[s.of]) \in Nat
  PROVE  Filled(b, s)
<1>1. /\ s.of \in DOMAIN a /\ s.len \in 0 .. Len(a[s.of])
      /\ \A i \in 1 .. s.len : a[s.of][i] \in Peer
  BY DEF Filled
<1>2. /\ s.of \in DOMAIN b /\ Len(b[s.of]) = Len(a[s.of])
      /\ \A i \in 1 .. Len(a[s.of]) : a[s.of][i] \in Peer => b[s.of][i] \in Peer
  BY <1>1 DEF Grows
<1>3. \A i \in 1 .. s.len : i \in 1 .. Len(a[s.of])
  BY <1>1
<1>4. QED
  BY <1>1, <1>2, <1>3 DEF Filled

\* A peer is written into a cell.
LEMMA Written ==
  ASSUME Arrays, NEW k \in DOMAIN array, NEW i \in 1 .. Len(array[k]), NEW p \in Peer,
         array' = [array EXCEPT ![k] = [array[k] EXCEPT ![i] = p]]
  PROVE  /\ Arrays' /\ Grows(array, array')
         /\ DOMAIN array' = DOMAIN array
         /\ array'[k][i] = p
         /\ \A m \in DOMAIN array : \A j \in 1 .. Len(array[m]) :
              m # k \/ j # i => array'[m][j] = array[m][j]
<1> DEFINE S == Peer \cup {Nobody}
           new == [array[k] EXCEPT ![i] = p]
<1>1. /\ array \in Seq(Seq(S)) /\ DOMAIN array = 1 .. Len(array) /\ Len(array) \in Nat
      /\ array' = [array EXCEPT ![k] = new]
  BY DEF Arrays
<1>2. array[k] \in Seq(S) /\ p \in S
  BY <1>1
<1>3. /\ new \in Seq(S) /\ Len(new) = Len(array[k]) /\ new[i] = p
      /\ \A j \in 1 .. Len(array[k]) : j # i => new[j] = array[k][j]
  BY <1>2
<1> HIDE DEF new, S
<1>4. /\ array' \in Seq(Seq(S)) /\ Len(array') = Len(array) /\ DOMAIN array' = DOMAIN array
      /\ array'[k] = new /\ \A m \in DOMAIN array : m # k => array'[m] = array[m]
  BY <1>1, <1>3
<1>5. Grows(array, array')
  <2> SUFFICES ASSUME NEW m \in DOMAIN array
               PROVE  /\ m \in DOMAIN array' /\ Len(array'[m]) = Len(array[m])
                      /\ \A j \in 1 .. Len(array[m]) : array[m][j] \in Peer =>
                                                         array'[m][j] \in Peer
    BY DEF Grows
  <2>1. CASE m = k
    BY <2>1, <1>3, <1>4
  <2>2. CASE m # k
    BY <2>2, <1>4
  <2>3. QED
    BY <2>1, <2>2
<1>6. array'[1] \in [1 .. Size -> Peer]
  <2>1. array[1] \in [1 .. Size -> Peer] /\ 1 \in DOMAIN array
    BY <1>1 DEF Arrays
  <2>2. CASE k = 1
    <3>1. array'[1] = [array[1] EXCEPT ![i] = p]
      BY <2>2, <1>4 DEF new
    <3>2. QED
      BY <2>1, <3>1
  <2>3. CASE k # 1
    BY <2>1, <2>3, <1>4
  <2>4. QED
    BY <2>2, <2>3
<1>7. Arrays'
  <2>1. \A m \in DOMAIN array' : Len(array'[m]) > 0
    BY <1>4, <1>5 DEF Grows, Arrays
  <2>2. QED
    BY <1>1, <1>4, <1>6, <2>1 DEF Arrays, S
<1>8. QED
  BY <1>3, <1>4, <1>5, <1>7

\* A full array is copied to a larger one.
LEMMA Copied ==
  ASSUME Arrays, NEW k \in DOMAIN array, NEW p \in Peer,
         array' = Append(array, Grown(array[k], p))
  PROVE  LET m == Len(array) + 1
             n == Len(array[k])
         IN /\ Arrays' /\ Grows(array, array')
            /\ m \in DOMAIN array' /\ m \notin DOMAIN array
            /\ n + 1 \in 0 .. Len(array'[m])
            /\ array'[m][n + 1] = p /\ \A i \in 1 .. n : array'[m][i] = array[k][i]
            /\ \A j \in DOMAIN array : array'[j] = array[j]
<1> DEFINE S == Peer \cup {Nobody}
           old == array[k]
           n == Len(old)
           new == Grown(old, p)
           m == Len(array) + 1
<1>1. /\ array \in Seq(Seq(S)) /\ DOMAIN array = 1 .. Len(array) /\ Len(array) \in Nat
      /\ old \in Seq(S) /\ n \in Nat /\ n > 0 /\ p \in S /\ Nobody \in S
  BY DEF Arrays
<1>2. new = [i \in 1 .. 2 * n |->
               CASE i <= n -> old[i] [] i = n + 1 -> p [] OTHER -> Nobody]
  BY DEF Grown
<1> HIDE DEF old, S, new, n
<1>3. \A i \in 1 .. 2 * n : i <= n => new[i] = old[i] /\ old[i] \in S
  BY <1>1, <1>2 DEF n
<1>4. n + 1 \in 1 .. 2 * n /\ new[n + 1] = p
  BY <1>1, <1>2
<1>5. \A i \in 1 .. 2 * n : new[i] \in S
  <2> SUFFICES ASSUME NEW i \in 1 .. 2 * n PROVE new[i] \in S
    OBVIOUS
  <2>1. CASE i <= n
    BY <2>1, <1>3
  <2>2. CASE i = n + 1
    BY <2>2, <1>1, <1>4
  <2>3. CASE ~(i <= n) /\ i # n + 1
    <3>1. new[i] = Nobody
      BY <2>3, <1>2
    <3>2. QED
      BY <3>1, <1>1
  <2>4. QED
    BY <2>1, <2>2, <2>3
<1>6. new \in [1 .. 2 * n -> S] /\ 2 * n \in Nat
  BY <1>1, <1>2, <1>5
<1>7. new \in Seq(S) /\ Len(new) = 2 * n
  BY <1>6
<1>8. array' = Append(array, new)
  BY DEF new, old
<1>9. /\ array' \in Seq(Seq(S)) /\ Len(array') = m /\ array'[m] = new
      /\ \A j \in DOMAIN array : array'[j] = array[j]
      /\ DOMAIN array' = 1 .. m
  BY <1>1, <1>7, <1>8
<1>10. Grows(array, array')
  BY <1>1, <1>9 DEF Grows
<1>11. Arrays'
  <2>1. \A j \in DOMAIN array' : j = m \/ j \in DOMAIN array
    BY <1>1, <1>9
  <2>2. \A j \in DOMAIN array' : Len(array'[j]) > 0
    BY <1>1, <1>7, <1>9, <2>1 DEF Arrays
  <2>3. QED
    BY <1>1, <1>9, <2>2 DEF Arrays, S
<1>12. \A i \in 1 .. n : i \in 1 .. 2 * n /\ i <= n
  BY <1>1
<1>13. /\ m \in DOMAIN array' /\ m \notin DOMAIN array /\ n + 1 \in 0 .. Len(array'[m])
       /\ array'[m][n + 1] = p /\ \A i \in 1 .. n : array'[m][i] = old[i]
  BY <1>1, <1>3, <1>4, <1>7, <1>9, <1>12
<1>14. QED
  BY <1>9, <1>10, <1>11, <1>13 DEF n, old

-----------------------------------------------------------------------------
(* The steps that leave the list, its slices and its arrays alone. *)

\* The list is all of the startup array, and nobody else uses it yet (StartMeshDaemon).
LEMMA InitInv == Init => IInv
<1> SUFFICES ASSUME Init PROVE IInv
  OBVIOUS
<1>1. /\ array = <<Startup>> /\ boot = [of |-> 1, len |-> Size]
      /\ evict = Nobody /\ post = Nobody /\ firm = {} /\ crossed = FALSE
      /\ dial = [g \in {"startup"} |-> [at |-> 1, call |-> Nobody]]
      /\ up \in {Peer, Peer \ {Startup[1]}} /\ peers = [p \in ToSet(Startup) |-> Fresh]
  BY DEF Init
<1>2. Arrays
  <2>1. Startup \in Seq(Peer \cup {Nobody})
    BY Start
  <2>2. Len(Startup) > 0
    BY Start DEF Size
  <2>3. QED
    BY <1>1, <2>1, <2>2, Start DEF Arrays
<1>3. Slices
  <2>1. DOMAIN array = {1} /\ array[1] = Startup /\ Len(Startup) = Size
    BY <1>1 DEF Size
  <2>2. Filled(array, boot)
    BY <1>1, <2>1, Start DEF Filled
  <2>3. QED
    BY <1>1, <2>2, Start DEF Slices
<1>4. Typed
  <2>1. /\ dial["startup"] = [at |-> 1, call |-> Nobody] /\ DOMAIN dial = {"startup"}
        /\ \A p \in DOMAIN peers : peers[p] = Fresh
        /\ DOMAIN peers \subseteq Peer
    BY <1>1 DEF Peer
  <2>2. \A g \in DOMAIN dial : dial[g] = [at |-> 1, call |-> Nobody]
    BY <2>1
  <2>3. up \subseteq Peer /\ firm \subseteq Peer /\ 1 \in 1 .. Size
    BY <1>1, Start
  <2>4. QED
    BY <1>1, <2>1, <2>2, <2>3 DEF Typed, Fresh
<1>5. Ordered /\ Kept
  BY <1>1 DEF Ordered, Kept
<1>6. Served
  <2>1. array[1] = Startup /\ Len(Startup) = Size /\ Base = boot
    BY <1>1 DEF Size, Base
  <2>2. QED
    BY <1>1, <2>1 DEF Served, Cells, Dialled, ToSet, Size
<1>7. QED
  BY <1>2, <1>3, <1>4, <1>5, <1>6 DEF IInv

\* Nothing is lost while no slice changes and what the eviction must keep is reachable.
LEMMA Quiet ==
  ASSUME IInv, Typed', UNCHANGED <<array, boot, evict, post, crossed>>,
         DOMAIN dial \subseteq DOMAIN dial', firm' \subseteq firm,
         \A p \in firm' : Reachable(p) => Reachable(p)'
  PROVE  IInv'
<1>1. Arrays' /\ Slices' /\ Ordered'
  BY DEF IInv, Arrays, Slices, Ordered, Filled, Before
<1>2. Kept'
  BY DEF IInv, Kept, Held
<1>3. Served'
  BY DEF IInv, Served, Cells, Base, Dialled
<1>4. QED
  BY <1>1, <1>2, <1>3 DEF IInv

\* Every goroutine dials a peer.
LEMMA TargetIsPeer ==
  ASSUME IInv, NEW g \in DOMAIN dial
  PROVE  Target(g) \in Peer /\ NextAt(g) \in 1 .. Size
<1>1. /\ g \in Peer \cup {"startup"} /\ dial[g].at \in 1 .. Size
      /\ array[1] \in [1 .. Size -> Peer]
  BY DEF IInv, Typed, Arrays
<1>2. dial[g].at % Size \in 0 .. Size - 1
  BY <1>1, Start
<1>3. QED
  BY <1>1, <1>2, Start DEF Target, NextAt

\* Records are made of peers only.
LEMMA RecordTyped ==
  ASSUME Typed, NEW p \in Peer, NEW r \in [reachable : BOOLEAN, suppressed : BOOLEAN],
         peers' = WithRecord(p, r)
  PROVE  /\ DOMAIN peers' \subseteq Peer
         /\ \A q \in DOMAIN peers' : peers'[q] \in [reachable : BOOLEAN, suppressed : BOOLEAN]
         /\ Record(p) \in [reachable : BOOLEAN, suppressed : BOOLEAN]
         /\ Reachable(p)' = r.reachable
         /\ \A q \in Peer \ {p} : Reachable(q)' = Reachable(q)
  BY DEF Typed, WithRecord, Record, Fresh, Reachable

\* A suppressed peer is passed over (shouldDialPeer).
LEMMA StepPassOver ==
  ASSUME IInv, NEW g \in DOMAIN dial, PassOver(g)
  PROVE  IInv'
<1>1. dial' = [dial EXCEPT ![g].at = NextAt(g)] /\ NextAt(g) \in 1 .. Size
  BY TargetIsPeer DEF PassOver
<1>2. UNCHANGED <<up, peers, firm, array, boot, evict, post, crossed>>
  BY DEF PassOver, world, history
<1>3. Typed'
  BY <1>1, <1>2 DEF IInv, Typed
<1>4. QED
  BY <1>1, <1>2, <1>3, Quiet DEF Reachable

\* A connection is tried (ConnectToPeers).
LEMMA StepDial ==
  ASSUME IInv, NEW g \in DOMAIN dial, Dial(g)
  PROVE  IInv'
<1>1. /\ dial' = [dial EXCEPT ![g].call = [addr |-> Target(g), ok |-> Target(g) \in up]]
      /\ Target(g) \in Peer
  BY TargetIsPeer DEF Dial
<1>2. UNCHANGED <<up, peers, firm, array, boot, evict, post, crossed>>
  BY DEF Dial, world, history
<1>3. Typed'
  BY <1>1, <1>2 DEF IInv, Typed
<1>4. QED
  BY <1>1, <1>2, <1>3, Quiet DEF Reachable

\* A failed connection makes a peer unreachable, which the eviction need not keep then.
LEMMA StepTouchReachable ==
  ASSUME IInv, NEW g \in DOMAIN dial, TouchReachable(g)
  PROVE  IInv'
<1>1. dial[g].call # Nobody
  BY DEF TouchReachable
<1>2. PICK p \in Peer, ok \in BOOLEAN : dial[g].call = [addr |-> p, ok |-> ok]
  BY <1>1 DEF IInv, Typed
<1>3. PICK third \in BOOLEAN : peers' = WithRecord(p, Found(Record(p), ok, third))
  BY <1>2 DEF TouchReachable
<1>4. /\ firm' = IF ok THEN firm ELSE firm \ {p}
      /\ dial' = [dial EXCEPT ![g] = [at |-> NextAt(g), call |-> Nobody]]
      /\ UNCHANGED <<up, array, boot, evict, post, crossed>>
  BY <1>2 DEF TouchReachable, world
<1> DEFINE r == Found(Record(p), ok, third)
<1>5. Record(p) \in [reachable : BOOLEAN, suppressed : BOOLEAN]
  BY DEF IInv, Typed, Record, Fresh
<1>6. r \in [reachable : BOOLEAN, suppressed : BOOLEAN] /\ r.reachable = ok
  BY <1>5 DEF Found
<1>7. peers' = WithRecord(p, r)
  BY <1>3
<1> HIDE DEF r
<1>8. /\ DOMAIN peers' \subseteq Peer
      /\ \A q \in DOMAIN peers' : peers'[q] \in [reachable : BOOLEAN, suppressed : BOOLEAN]
      /\ Reachable(p)' = ok /\ \A q \in Peer \ {p} : Reachable(q)' = Reachable(q)
  BY <1>6, <1>7, RecordTyped DEF IInv
<1>9. NextAt(g) \in 1 .. Size
  BY TargetIsPeer
<1>10. Typed'
  BY <1>4, <1>8, <1>9 DEF IInv, Typed
<1>11. \A q \in firm' : Reachable(q) => Reachable(q)'
  BY <1>4, <1>8 DEF IInv, Typed
<1>12. QED
  BY <1>4, <1>10, <1>11, Quiet

\* A suppression ends (shouldDialPeer).
LEMMA StepExpire ==
  ASSUME IInv, NEW p \in Peer, Expire(p)
  PROVE  IInv'
<1>1. p \in DOMAIN peers /\ peers' = [peers EXCEPT ![p].suppressed = FALSE]
  BY DEF Expire
<1>2. UNCHANGED <<up, firm, dial, array, boot, evict, post, crossed>>
  BY DEF Expire, world, history
<1>3. Typed'
  BY <1>1, <1>2 DEF IInv, Typed
<1>4. \A q \in Peer : Reachable(q)' = Reachable(q)
  BY <1>1 DEF IInv, Typed, Reachable
<1>5. QED
  BY <1>2, <1>3, <1>4, Quiet DEF IInv, Typed

\* A message makes no peer unreachable (TouchPeer).
LEMMA StepTouchPeer ==
  ASSUME IInv, NEW p \in Peer, TouchPeer(p)
  PROVE  IInv'
<1> DEFINE r == [Record(p) EXCEPT !.suppressed = FALSE]
<1>1. peers' = WithRecord(p, r)
  BY DEF TouchPeer
<1>2. UNCHANGED <<up, firm, dial, array, boot, evict, post, crossed>>
  BY DEF TouchPeer, world, history
<1>3. Record(p) \in [reachable : BOOLEAN, suppressed : BOOLEAN]
  BY DEF IInv, Typed, Record, Fresh
<1>4. r \in [reachable : BOOLEAN, suppressed : BOOLEAN] /\ r.reachable = Record(p).reachable
  BY <1>3
<1> HIDE DEF r
<1>5. Typed'
  BY <1>1, <1>2, <1>4, RecordTyped DEF IInv, Typed
<1>6. Record(p).reachable = Reachable(p)
  BY DEF Record, Fresh, Reachable, IInv, Typed
<1>7. \A q \in Peer : Reachable(q)' = Reachable(q)
  BY <1>1, <1>4, <1>6, RecordTyped DEF IInv
<1>8. QED
  BY <1>2, <1>5, <1>7, Quiet DEF IInv, Typed

\* Peers that go away or come back change no record.
LEMMA StepWorld ==
  ASSUME IInv, NEW p \in Peer, GoesAway(p) \/ ComesBack(p)
  PROVE  IInv'
<1>1. up' \subseteq Peer
  BY DEF IInv, Typed, GoesAway, ComesBack
<1>2. UNCHANGED <<peers, firm, dial, array, boot, evict, post, crossed>>
  BY DEF GoesAway, ComesBack, history
<1>3. Typed'
  BY <1>1, <1>2 DEF IInv, Typed
<1>4. QED
  BY <1>2, <1>3, Quiet DEF Reachable

-----------------------------------------------------------------------------
(* The eviction. *)

\* What the startup goroutine ranges over is dialled.
LEMMA FirstIsDialled ==
  Arrays' => \A i \in 1 .. Len(array'[1]) : array'[1][i] \in Dialled'
  BY DEF Arrays, Dialled, ToSet

\* What is firm at the tick is in the cells still to be read (discoveryEvictDeadLoop).
LEMMA StepEvictStart ==
  ASSUME IInv, EvictStart
  PROVE  IInv'
<1>1. /\ evict = Nobody /\ evict' = [of |-> boot.of, len |-> boot.len, at |-> 1, out |-> 0]
      /\ firm' = {p \in Listed : Reachable(p)}
      /\ UNCHANGED <<up, peers, array, boot, dial, post, crossed>>
  BY DEF EvictStart, world
<1>2. boot \in [of : Nat, len : Nat] /\ Filled(array, boot)
  BY DEF IInv, Slices
<1>3. Listed \subseteq Peer
  BY <1>2 DEF Listed, Cells, Filled
<1>4. Typed' /\ Arrays'
  BY <1>1, <1>3 DEF IInv, Typed, Arrays
<1>5. Slices'
  <2>1. Filled(array, evict')
    BY <1>1, <1>2 DEF Filled
  <2>2. QED
    BY <1>1, <1>2, <2>1 DEF IInv, Slices
<1>6. Ordered'
  BY <1>1, <1>2 DEF IInv, Ordered, Before
<1>7. Kept'
  <2> SUFFICES ASSUME NEW p \in firm'
               PROVE  Reachable(p)' /\ Held(p)'
    BY DEF Kept
  <2>1. PICK i \in 1 .. boot.len : array[boot.of][i] = p
    BY <1>1 DEF Listed, Cells
  <2>2. QED
    BY <1>1, <1>2, <2>1 DEF Held, Reachable
<1>8. Served'
  <2>1. Cells(Base)' = Cells(Base)
    BY <1>1 DEF Cells, Base
  <2>2. QED
    BY <1>1, <2>1 DEF IInv, Served, Dialled
<1>9. QED
  BY <1>4, <1>5, <1>6, <1>7, <1>8 DEF IInv

\* A peer that is kept is written over one that has been read.
LEMMA StepEvictNext ==
  ASSUME IInv, EvictNext
  PROVE  IInv'
<1> DEFINE k == evict.of
           p == array[k][evict.at]
<1>1. /\ evict # Nobody /\ evict.at <= evict.len
      /\ UNCHANGED <<up, peers, boot, dial, post, firm, crossed>>
  BY DEF EvictNext, world, history
<1>2. /\ evict \in [of : Nat, len : Nat, at : Nat, out : Nat] /\ Filled(array, evict)
      /\ evict.out < evict.at
      /\ boot \in [of : Nat, len : Nat] /\ Filled(array, boot)
      /\ post # Nobody => post \in [addr : Peer, of : Nat, len : Nat]
      /\ post # Nobody /\ post.of # 0 => Filled(array, post)
  BY <1>1 DEF IInv, Slices
<1>3. /\ k \in DOMAIN array /\ evict.len \in 0 .. Len(array[k]) /\ Len(array[k]) \in Nat
      /\ \A i \in 1 .. evict.len : array[k][i] \in Peer
      /\ \A s \in DOMAIN array : Len(array[s]) \in Nat
      /\ 1 \in DOMAIN array
  BY <1>2 DEF IInv, Arrays, Filled
<1>4. evict.at \in 1 .. evict.len /\ p \in Peer
  BY <1>1, <1>2, <1>3
<1>5. Typed'
  BY <1>1 DEF IInv, Typed
<1>6. CASE Reachable(p)
  <2> DEFINE o == evict.out + 1
  <2>1. /\ array' = [array EXCEPT ![k][o] = p]
        /\ evict' = [evict EXCEPT !.at = @ + 1, !.out = @ + 1]
    BY <1>6 DEF EvictNext, Slot
  <2>2. o \in 1 .. Len(array[k]) /\ o \in 1 .. evict.len /\ o <= evict.at
    BY <1>2, <1>3, <1>4
  <2>3. /\ evict'.of = k /\ evict'.len = evict.len
        /\ evict'.at = evict.at + 1 /\ evict'.out = o
    BY <1>2, <2>1
  <2>a. evict' \in [of : Nat, len : Nat, at : Nat, out : Nat]
    <3>1. evict.at + 1 \in Nat /\ o \in Nat
      BY <1>2
    <3>2. evict' = [of |-> k, len |-> evict.len, at |-> evict.at + 1, out |-> o]
      BY <1>2, <2>1
    <3> HIDE DEF o
    <3>3. QED
      BY <1>2, <3>1, <3>2
  <2> HIDE DEF k, p, o
  <2>4. /\ Arrays' /\ Grows(array, array') /\ array'[k][o] = p
        /\ \A m \in DOMAIN array : \A j \in 1 .. Len(array[m]) :
             m # k \/ j # o => array'[m][j] = array[m][j]
    <3>1. PICK m \in DOMAIN array, q \in Peer : m = k /\ q = p
      BY <1>3, <1>4
    <3>2. PICK j \in 1 .. Len(array[m]) : j = o
      BY <2>2, <3>1
    <3>3. array' = [array EXCEPT ![m] = [array[m] EXCEPT ![j] = q]]
      BY <2>1, <3>1, <3>2
    <3>4. Arrays
      BY DEF IInv
    <3>5. Arrays' /\ Grows(array, array')
      BY <3>1, <3>2, <3>3, <3>4, Written
    <3>6. array'[m][j] = q
      BY <3>1, <3>2, <3>3, <3>4, Written
    <3>7. \A n \in DOMAIN array : \A i \in 1 .. Len(array[n]) :
            n # m \/ i # j => array'[n][i] = array[n][i]
      BY <3>1, <3>2, <3>3, <3>4, Written
    <3>8. QED
      BY <3>1, <3>2, <3>5, <3>6, <3>7
  <2>5. Slices'
    <3>1. Filled(array', evict) /\ Filled(array', boot)
      BY <1>2, <1>3, <2>4, StaysFilled DEF Filled
    <3>2. post # Nobody /\ post.of # 0 => Filled(array', post)
      BY <1>2, <1>3, <2>4, StaysFilled DEF Filled
    <3>3. Filled(array', evict')
      BY <2>3, <3>1 DEF Filled, k
    <3>4. evict'.out < evict'.at /\ evict'.at <= evict'.len + 1
      BY <1>2, <1>4, <2>3 DEF o
    <3>5. QED
      BY <1>1, <1>2, <2>a, <3>1, <3>2, <3>3, <3>4 DEF Slices
  <2>6. Ordered'
    BY <1>1, <2>3 DEF IInv, Ordered, Before, k
  <2>7. Kept'
    <3> SUFFICES ASSUME NEW q \in firm
                 PROVE  Reachable(q)' /\ Held(q)'
      BY <1>1 DEF Kept
    <3>1. Reachable(q)' /\ Held(q)
      BY <1>1 DEF IInv, Kept, Reachable
    <3>2. PICK i \in 1 .. evict.len : array[k][i] = q /\ (i <= evict.out \/ evict.at <= i)
      BY <3>1 DEF Held, k
    <3>3. CASE i = evict.at
      <4>1. array'[k][o] = q
        BY <2>4, <3>2, <3>3 DEF p
      <4>2. QED
        BY <2>2, <2>3, <3>1, <4>1 DEF Held, o
    <3>4. CASE i # evict.at
      <4>1. i # o /\ i \in 1 .. Len(array[k]) /\ (i <= o \/ evict.at + 1 <= i)
        BY <1>2, <1>3, <1>4, <2>2, <3>2, <3>4 DEF o
      <4>2. array'[k][i] = q
        BY <1>3, <2>4, <3>2, <4>1
      <4>3. QED
        BY <2>3, <3>1, <4>1, <4>2 DEF Held
    <3>5. QED
      BY <3>3, <3>4
  <2>8. Served'
    <3> SUFFICES ASSUME ~crossed, NEW i \in 1 .. evict.len
                 PROVE  array'[k][i] \in Dialled'
      <4>1. evict' # Nobody => Cells(Base)' = {array'[k][i] : i \in 1 .. evict.len}
        BY <2>3 DEF Cells, Base
      <4>2. evict' # Nobody
        BY <2>a, PeersAssumption
      <4>3. QED
        BY <1>1, <4>1, <4>2 DEF Served
    <3>1. CASE k = 1
      <4>1. i \in 1 .. Len(array'[k])
        BY <1>3, <2>4 DEF Grows
      <4>2. QED
        BY <2>4, <3>1, <4>1, FirstIsDialled
    <3>2. CASE k # 1
      <4>1. array'[1] = array[1]
        BY <1>3, <2>1, <3>2
      <4>2. Dialled' = Dialled
        BY <1>1, <4>1 DEF Dialled
      <4>3. array[k][i] \in Dialled /\ p \in Dialled
        BY <1>1, <1>4 DEF IInv, Served, Base, Cells, k, p
      <4>4. array'[k][i] = p \/ array'[k][i] = array[k][i]
        BY <1>3, <2>4
      <4>5. QED
        BY <4>2, <4>3, <4>4
    <3>3. QED
      BY <3>1, <3>2
  <2>9. QED
    BY <1>5, <2>4, <2>5, <2>6, <2>7, <2>8 DEF IInv
<1>7. CASE ~Reachable(p)
  <2>1. array' = array /\ evict' = [evict EXCEPT !.at = @ + 1]
    BY <1>7 DEF EvictNext
  <2>2. /\ evict'.of = k /\ evict'.len = evict.len
        /\ evict'.at = evict.at + 1 /\ evict'.out = evict.out
        /\ evict' \in [of : Nat, len : Nat, at : Nat, out : Nat]
    BY <1>2, <2>1
  <2> HIDE DEF p
  <2>3. Arrays' /\ Ordered'
    BY <1>1, <2>1, <2>2 DEF IInv, Arrays, Ordered, Before
  <2>4. Slices'
    <3>1. Filled(array, evict')
      BY <1>2, <2>2 DEF Filled
    <3>2. evict'.out < evict'.at /\ evict'.at <= evict'.len + 1
      BY <1>2, <1>4, <2>2
    <3>3. QED
      BY <1>1, <1>2, <2>1, <2>2, <3>1, <3>2 DEF Slices
  <2>5. Kept'
    <3> SUFFICES ASSUME NEW q \in firm
                 PROVE  Reachable(q)' /\ Held(q)'
      BY <1>1 DEF Kept
    <3>1. Reachable(q)' /\ Reachable(q) /\ Held(q)
      BY <1>1 DEF IInv, Kept, Reachable
    <3>2. PICK i \in 1 .. evict.len : array[k][i] = q /\ (i <= evict.out \/ evict.at <= i)
      BY <3>1 DEF Held
    <3>3. i # evict.at
      BY <1>7, <3>1, <3>2 DEF p
    <3>4. i <= evict.out \/ evict.at + 1 <= i
      BY <1>2, <3>2, <3>3
    <3>5. QED
      BY <2>1, <2>2, <3>1, <3>2, <3>4 DEF Held
  <2>6. Served'
    <3>2. evict' # Nobody
      BY <2>2, PeersAssumption
    <3>3. Base = evict /\ Base' = evict'
      BY <1>1, <3>2 DEF Base
    <3>4. Cells(Base)' = Cells(Base)
      BY <2>1, <2>2, <3>3 DEF Cells
    <3>5. QED
      BY <1>1, <2>1, <3>4 DEF IInv, Served, Dialled
  <2>7. QED
    BY <1>5, <2>3, <2>4, <2>5, <2>6 DEF IInv
<1>8. QED
  BY <1>6, <1>7

\* The filtered list is the beginning of the one that was filtered.
LEMMA StepEvictEnd ==
  ASSUME IInv, EvictEnd
  PROVE  IInv'
<1>1. /\ evict # Nobody /\ evict.at > evict.len
      /\ boot' = [of |-> evict.of, len |-> evict.out] /\ evict' = Nobody /\ firm' = {}
      /\ UNCHANGED <<up, peers, array, dial, post, crossed>>
  BY DEF EvictEnd, world
<1>2. /\ evict \in [of : Nat, len : Nat, at : Nat, out : Nat] /\ Filled(array, evict)
      /\ evict.out < evict.at /\ evict.at <= evict.len + 1
      /\ boot \in [of : Nat, len : Nat]
  BY <1>1 DEF IInv, Slices
<1>3. evict.out <= evict.len /\ boot'.of = evict.of /\ boot'.len = evict.out
  BY <1>1, <1>2
<1>4. \A i \in 1 .. evict.out : i \in 1 .. evict.len
  BY <1>2, <1>3
<1>5. Typed' /\ Arrays'
  BY <1>1 DEF IInv, Typed, Arrays
<1>6. Slices'
  <2>1. Len(array[evict.of]) \in Nat
    BY <1>2 DEF IInv, Arrays, Filled
  <2>2. Filled(array, boot')
    BY <1>2, <1>3, <1>4, <2>1 DEF Filled
  <2>3. QED
    BY <1>1, <1>2, <2>2 DEF IInv, Slices
<1>7. Ordered'
  <2> SUFFICES ASSUME post # Nobody, post.of # 0
               PROVE  Before(boot', post)
    BY <1>1 DEF Ordered
  <2>1. Before(evict, boot) /\ Before(boot, post) /\ post.of \in Nat /\ post.len \in Nat
    BY <1>1 DEF IInv, Ordered, Slices
  <2>2. QED
    BY <1>2, <1>3, <2>1 DEF Before
<1>8. Kept'
  BY <1>1 DEF Kept
<1>9. Served'
  <2>1. Cells(boot)' \subseteq Cells(evict)
    BY <1>1, <1>3, <1>4 DEF Cells
  <2>2. QED
    BY <1>1, <2>1 DEF IInv, Served, Base, Dialled
<1>10. QED
  BY <1>5, <1>6, <1>7, <1>8, <1>9 DEF IInv

-----------------------------------------------------------------------------
(* POST /peers. *)

\* What a request looks at is the list (POST /peers).
LEMMA StepPostLook ==
  ASSUME IInv, NEW p \in Peer, PostLook(p)
  PROVE  IInv'
<1>1. /\ post = Nobody
      /\ post' \in {[addr |-> p, of |-> 0, len |-> 0], Nobody,
                    [addr |-> p, of |-> boot.of, len |-> boot.len]}
      /\ UNCHANGED <<up, peers, array, boot, dial, evict, firm, crossed>>
  BY DEF PostLook, LockFree, history
<1>2. boot \in [of : Nat, len : Nat] /\ Filled(array, boot)
  BY DEF IInv, Slices
<1>3. Typed' /\ Arrays' /\ Kept' /\ Served'
  <2>1. Typed' /\ Arrays'
    BY <1>1 DEF IInv, Typed, Arrays
  <2>2. Kept'
    BY <1>1 DEF IInv, Kept, Held, Reachable
  <2>3. Served'
    BY <1>1 DEF IInv, Served, Base, Cells, Dialled
  <2>4. QED
    BY <2>1, <2>2, <2>3
<1>4. CASE post' = Nobody
  BY <1>1, <1>3, <1>4 DEF IInv, Slices, Ordered, Filled, Before
<1>5. CASE post' = [addr |-> p, of |-> 0, len |-> 0]
  BY <1>1, <1>3, <1>5 DEF IInv, Slices, Ordered, Filled, Before
<1>6. CASE post' = [addr |-> p, of |-> boot.of, len |-> boot.len]
  <2>1. /\ post' \in [addr : Peer, of : Nat, len : Nat]
        /\ post'.of = boot.of /\ post'.len = boot.len
    BY <1>2, <1>6
  <2>2. Filled(array, post') /\ Before(boot, post')
    BY <1>2, <2>1 DEF Filled, Before
  <2>3. QED
    BY <1>1, <1>3, <2>1, <2>2 DEF IInv, Slices, Ordered, Filled, Before
<1>7. QED
  BY <1>1, <1>4, <1>5, <1>6

\* Whatever the request appends to, no cell of the eviction is touched.
LEMMA StepPostAppend ==
  ASSUME IInv, PostAppend
  PROVE  IInv'
<1>1. PICK k \in Nat, n \in Nat, p \in Peer :
        /\ post # Nobody /\ post.of = k /\ post.len = n /\ post.addr = p /\ k # 0
        /\ Filled(array, post)
  BY DEF IInv, Slices, PostAppend, Stuck
<1>2. /\ k \in DOMAIN array /\ n \in 0 .. Len(array[k])
      /\ \A i \in 1 .. n : array[k][i] \in Peer
  BY <1>1 DEF Filled
<1>3. /\ \A s \in DOMAIN array : Len(array[s]) \in Nat
      /\ DOMAIN array = 1 .. Len(array) /\ Len(array) \in Nat /\ 1 \in DOMAIN array
  BY DEF IInv, Arrays
<1>4. /\ boot \in [of : Nat, len : Nat] /\ Filled(array, boot)
      /\ boot.of \in Nat /\ boot.len \in Nat /\ Before(boot, post)
      /\ evict # Nobody =>
           /\ evict \in [of : Nat, len : Nat, at : Nat, out : Nat] /\ Filled(array, evict)
           /\ evict.of \in DOMAIN array /\ evict.of \in Nat /\ evict.len \in Nat
           /\ Before(evict, boot)
  BY <1>1 DEF IInv, Slices, Ordered, Filled
<1>5. /\ UNCHANGED <<up, peers, evict, firm>> /\ post' = Nobody
      /\ crossed' = (crossed \/ boot # [of |-> k, len |-> n])
      /\ dial' = WithGoroutine(p)
  BY <1>1 DEF PostAppend, world
<1>6. /\ DOMAIN dial' = DOMAIN dial \cup {p}
      /\ \A g \in DOMAIN dial' : dial'[g] = IF g \in DOMAIN dial THEN dial[g]
                                            ELSE [at |-> 1, call |-> Nobody]
  BY <1>5 DEF WithGoroutine
<1>7. Typed'
  <2>1. DOMAIN dial' \subseteq Peer \cup {"startup"}
    BY <1>6 DEF IInv, Typed
  <2>2. \A g \in DOMAIN dial' :
          /\ dial'[g] = [at |-> dial'[g].at, call |-> dial'[g].call] /\ dial'[g].at \in 1 .. Size
          /\ dial'[g].call # Nobody => dial'[g].call \in [addr : Peer, ok : BOOLEAN]
    BY <1>6, Start DEF IInv, Typed
  <2>3. crossed' \in BOOLEAN
    BY <1>5 DEF IInv, Typed
  <2>4. QED
    BY <1>5, <2>1, <2>2, <2>3 DEF IInv, Typed
<1>8. p \in Dialled'
  BY <1>6, Start DEF Dialled
\* Where the request writes, and what it leaves alone.
<1>9. PICK m \in Nat :
        /\ boot' = [of |-> m, len |-> n + 1]
        /\ m \in DOMAIN array' /\ n + 1 \in 0 .. Len(array'[m])
        /\ array'[m][n + 1] = p /\ \A i \in 1 .. n : array'[m][i] = array[k][i]
        /\ Arrays' /\ Grows(array, array')
        /\ k < m \/ m = k
        /\ \A s \in DOMAIN array : \A i \in 1 .. Len(array[s]) :
             s # k \/ i # n + 1 => array'[s][i] = array[s][i]
        /\ m # 1 => array'[1] = array[1]
  <2>1. CASE n = Len(array[k])
    <3> DEFINE m == Len(array) + 1
    <3>1. /\ array' = Append(array, Grown(array[k], p))
          /\ boot' = [of |-> m, len |-> n + 1]
      BY <1>1, <2>1 DEF PostAppend, Full
    <3>2. Arrays
      BY DEF IInv
    <3>3. Arrays' /\ Grows(array, array')
      BY <1>1, <1>2, <3>1, <3>2, Copied
    <3>4. m \in DOMAIN array' /\ m \notin DOMAIN array /\ n + 1 \in 0 .. Len(array'[m])
      BY <1>1, <1>2, <2>1, <3>1, <3>2, Copied
    <3>5. array'[m][n + 1] = p /\ \A i \in 1 .. n : array'[m][i] = array[k][i]
      BY <1>1, <1>2, <2>1, <3>1, <3>2, Copied
    <3>6. \A j \in DOMAIN array : array'[j] = array[j]
      BY <1>1, <1>2, <2>1, <3>1, <3>2, Copied
    <3>7. m \in Nat /\ k < m
      BY <1>2, <1>3
    <3> HIDE DEF m
    <3>8. QED
      BY <1>3, <3>1, <3>3, <3>4, <3>5, <3>6, <3>7
  <2>2. CASE n # Len(array[k])
    <3>1. /\ array' = [array EXCEPT ![k][n + 1] = p]
          /\ boot' = [of |-> k, len |-> n + 1]
      BY <1>1, <2>2 DEF PostAppend, Full
    <3>2. PICK j \in 1 .. Len(array[k]) : j = n + 1
      BY <1>2, <1>3, <2>2
    <3>3. array' = [array EXCEPT ![k] = [array[k] EXCEPT ![j] = p]]
      BY <3>1, <3>2
    <3>4. Arrays
      BY DEF IInv
    <3>5. Arrays' /\ Grows(array, array')
      BY <1>1, <1>2, <3>2, <3>3, <3>4, Written
    <3>6. DOMAIN array' = DOMAIN array
      BY <1>1, <1>2, <3>2, <3>3, <3>4, Written
    <3>7. array'[k][j] = p
      BY <1>1, <1>2, <3>2, <3>3, <3>4, Written
    <3>8. \A s \in DOMAIN array : \A i \in 1 .. Len(array[s]) :
            s # k \/ i # j => array'[s][i] = array[s][i]
      BY <1>1, <1>2, <3>2, <3>3, <3>4, Written
    <3>9. k # 1 => array'[1] = array[1]
      BY <1>3, <3>3
    <3>10. n + 1 \in 0 .. Len(array'[k])
      BY <1>2, <3>2, <3>5 DEF Grows
    <3>11. \A i \in 1 .. n : i \in 1 .. Len(array[k]) /\ i # j
      BY <1>2, <1>3, <3>2
    <3>12. \A i \in 1 .. n : array'[k][i] = array[k][i]
      BY <1>2, <3>8, <3>11
    <3>13. QED
      BY <1>1, <1>2, <3>1, <3>2, <3>5, <3>6, <3>7, <3>8, <3>9, <3>10, <3>12
  <2>3. QED
    BY <2>1, <2>2
<1>10. boot'.of = m /\ boot'.len = n + 1
  BY <1>9
<1>11. Slices'
  <2>1. \A i \in 1 .. n + 1 : i \in 1 .. n \/ i = n + 1
    BY <1>1
  <2>2. \A i \in 1 .. n + 1 : array'[m][i] \in Peer
    BY <1>2, <1>9, <2>1
  <2>3. Filled(array', boot')
    BY <1>9, <1>10, <2>2 DEF Filled
  <2>4. evict # Nobody => Filled(array', evict)
    BY <1>3, <1>4, <1>9, StaysFilled
  <2>5. QED
    BY <1>1, <1>5, <1>9, <2>3, <2>4 DEF IInv, Slices
\* What the eviction still needs is in older cells.
<1>12. evict # Nobody =>
         /\ Before(evict, boot')
         /\ evict.of <= k /\ (evict.of = k => evict.len <= n)
  <2>1. evict # Nobody => evict.of <= k /\ (evict.of = k => evict.len <= n)
    BY <1>1, <1>4 DEF Before
  <2>2. QED
    BY <1>1, <1>4, <1>9, <1>10, <2>1 DEF Before
<1>13. Ordered'
  BY <1>5, <1>12 DEF Ordered, Before
<1>14. evict # Nobody =>
         \A i \in 1 .. evict.len : array'[evict.of][i] = array[evict.of][i]
  <2> SUFFICES ASSUME evict # Nobody, NEW i \in 1 .. evict.len
               PROVE  array'[evict.of][i] = array[evict.of][i]
    OBVIOUS
  <2>1. evict.of \in DOMAIN array /\ i \in 1 .. Len(array[evict.of])
    BY <1>3, <1>4 DEF Filled
  <2>2. evict.of # k \/ i # n + 1
    BY <1>1, <1>4, <1>12
  <2>3. QED
    BY <1>9, <2>1, <2>2
<1>15. Kept'
  BY <1>5, <1>14 DEF IInv, Kept, Held, Reachable
<1>16. Served'
  <2> SUFFICES ASSUME ~crossed'
               PROVE  Cells(Base)' \subseteq Dialled'
    BY DEF Served
  <2>1. ~crossed /\ boot.of = k /\ boot.len = n
    <3>1. ~crossed /\ boot = [of |-> k, len |-> n]
      BY <1>5, Zenon
    <3>2. QED
      BY <3>1
  <2>2. m # 1 => Dialled \subseteq Dialled'
    BY <1>6, <1>9 DEF Dialled
  <2>3. m = 1 => \A i \in 1 .. Len(array'[1]) : array'[1][i] \in Dialled'
    BY <1>9, FirstIsDialled
  <2>4. CASE evict = Nobody
    <3> SUFFICES ASSUME NEW i \in 1 .. n + 1
                 PROVE  array'[m][i] \in Dialled'
      BY <1>5, <1>10, <2>4 DEF Base, Cells
    <3>1. CASE m = 1
      <4>1. i \in 1 .. Len(array'[1])
        BY <1>1, <1>9, <3>1 DEF Arrays
      <4>2. QED
        BY <2>3, <3>1, <4>1
    <3>2. CASE m # 1
      <4>1. i = n + 1 \/ i \in 1 .. n
        BY <1>1
      <4>2. \A j \in 1 .. n : array[k][j] \in Dialled
        BY <2>1, <2>4 DEF IInv, Served, Base, Cells
      <4>3. QED
        BY <1>8, <1>9, <2>2, <3>2, <4>1, <4>2
    <3>3. QED
      BY <3>1, <3>2
  <2>5. CASE evict # Nobody
    <3> SUFFICES ASSUME NEW i \in 1 .. evict.len
                 PROVE  array'[evict.of][i] \in Dialled'
      BY <1>5, <2>5 DEF Base, Cells
    <3>1. array[evict.of][i] \in Dialled
      BY <2>1, <2>5 DEF IInv, Served, Base, Cells
    <3>2. CASE m # 1
      BY <1>14, <2>2, <2>5, <3>1, <3>2
    <3>3. CASE m = 1
      <4>1. evict.of = 1
        BY <1>1, <1>3, <1>4, <1>9, <1>12, <2>5, <3>3
      <4>2. i \in 1 .. Len(array'[1])
        BY <1>3, <1>4, <1>9, <2>5, <4>1 DEF Filled, Grows
      <4>3. QED
        BY <2>3, <3>3, <4>1, <4>2
    <3>4. QED
      BY <3>2, <3>3
  <2>6. QED
    BY <2>4, <2>5
<1>17. QED
  BY <1>7, <1>9, <1>11, <1>13, <1>15, <1>16 DEF IInv

-----------------------------------------------------------------------------

\* A step that changes nothing.
LEMMA StepStutter ==
  ASSUME IInv, UNCHANGED vars
  PROVE  IInv'
<1>1. UNCHANGED <<up, peers, array, boot, dial, evict, post, firm, crossed>>
  BY DEF vars, world, history
<1>2. Typed'
  BY <1>1 DEF IInv, Typed
<1>3. QED
  BY <1>1, <1>2, Quiet DEF Reachable

\* The slices in use stay apart and filled, the eviction keeps what it must keep, and
\* the list stays dialled, for every order of dials, evictions and requests.
THEOREM TableInvariance == Spec => []IInv
<1>1. IInv /\ [Next]_vars => IInv'
  <2> SUFFICES ASSUME IInv, [Next]_vars
               PROVE  IInv'
    OBVIOUS
  <2>1. ASSUME NEW g \in DOMAIN dial, PassOver(g) \/ Dial(g) \/ TouchReachable(g)
        PROVE  IInv'
    BY <2>1, StepPassOver, StepDial, StepTouchReachable
  <2>2. ASSUME NEW p \in Peer,
               Expire(p) \/ TouchPeer(p) \/ PostLook(p) \/ GoesAway(p) \/ ComesBack(p)
        PROVE  IInv'
    BY <2>2, StepExpire, StepTouchPeer, StepPostLook, StepWorld
  <2>3. CASE EvictStart \/ EvictNext \/ EvictEnd
    BY <2>3, StepEvictStart, StepEvictNext, StepEvictEnd
  <2>4. CASE PostAppend
    BY <2>4, StepPostAppend
  <2>5. CASE UNCHANGED vars
    BY <2>5, StepStutter
  <2>6. QED
    BY <2>1, <2>2, <2>3, <2>4, <2>5 DEF Next
<1>2. QED
  BY <1>1, InitInv, PTL DEF Spec

\* m.bootstrapPeers never reaches beyond its array or to a cell that append left empty.
THEOREM TableTyped == Spec => []TypeOK
<1>1. IInv => TypeOK
  <2> SUFFICES ASSUME IInv PROVE TypeOK
    OBVIOUS
  <2>1. \A k \in DOMAIN array : array[k] \in Seq(Peer \cup {Nobody})
    BY DEF IInv, Arrays
  <2>2. boot.of \in DOMAIN array /\ boot.len \in 0 .. Len(array[boot.of])
    BY DEF IInv, Slices, Filled
  <2>3. Nobody \notin Listed
    BY Start DEF IInv, Slices, Filled, Listed, Cells
  <2>4. evict # Nobody => evict.out < evict.at /\ evict.at <= evict.len + 1
    BY DEF IInv, Slices
  <2>5. QED
    BY <2>1, <2>2, <2>3, <2>4 DEF IInv, Typed, Arrays, TypeOK
<1>2. QED
  BY <1>1, TableInvariance, PTL

\* Whom gossip is sent to, ConnectToPeers dials, as long as no request brings back a
\* list that an eviction has replaced.
THEOREM ListedAlwaysDialled == Spec => []ListedIsDialled
<1>1. IInv => ListedIsDialled
  BY DEF IInv, Served, Base, Listed, ListedIsDialled
<1>2. QED
  BY <1>1, TableInvariance, PTL

\* discoveryEvictDeadLoop drops no peer that was listed and reachable all through its
\* pass, whatever is appended meanwhile and to whichever array.
THEOREM ReachableStays == Spec => KeptWhileReachable
<1>1. IInv /\ [Next]_vars => [evict # Nobody /\ evict' = Nobody => firm \subseteq Listed']_vars
  <2> SUFFICES ASSUME IInv, [Next]_vars, evict # Nobody, evict' = Nobody, NEW p \in firm
               PROVE  p \in Listed'
    OBVIOUS
  <2>1. EvictEnd
    <3>1. ~EvictNext
      <4>1. evict \in [of : Nat, len : Nat, at : Nat, out : Nat]
        BY DEF IInv, Slices
      <4>2. EvictNext => evict' \in [of : Nat, len : Nat, at : Nat, out : Nat]
        <5> SUFFICES ASSUME EvictNext
                     PROVE  evict' \in [of : Nat, len : Nat, at : Nat, out : Nat]
          OBVIOUS
        <5>1. \/ evict' = [evict EXCEPT !.at = @ + 1, !.out = @ + 1]
              \/ evict' = [evict EXCEPT !.at = @ + 1]
          BY DEF EvictNext
        <5>2. evict.at + 1 \in Nat /\ evict.out + 1 \in Nat
          BY <4>1
        <5>3. \/ evict' = [of |-> evict.of, len |-> evict.len,
                          at |-> evict.at + 1, out |-> evict.out + 1]
              \/ evict' = [of |-> evict.of, len |-> evict.len,
                          at |-> evict.at + 1, out |-> evict.out]
          BY <4>1, <5>1
        <5>4. QED
          BY <4>1, <5>2, <5>3
      <4>3. QED
        BY <4>2, PeersAssumption
    <3>2. EvictEnd \/ EvictNext
      BY DEF Next, vars, world, history, PassOver, Dial, TouchReachable, Expire, TouchPeer,
             PostLook, GoesAway, ComesBack, EvictStart, PostAppend
    <3>3. QED
      BY <3>1, <3>2
  <2>2. /\ evict.at > evict.len /\ array' = array
        /\ boot' = [of |-> evict.of, len |-> evict.out]
        /\ evict \in [of : Nat, len : Nat, at : Nat, out : Nat]
    BY <2>1 DEF EvictEnd, IInv, Slices
  <2>3. PICK i \in 1 .. evict.len :
          array[evict.of][i] = p /\ (i <= evict.out \/ evict.at <= i)
    BY DEF IInv, Kept, Held
  <2>4. i \in 1 .. evict.out
    BY <2>2, <2>3
  <2>5. QED
    BY <2>2, <2>3, <2>4 DEF Listed, Cells
<1>2. QED
  BY <1>1, TableInvariance, PTL DEF Spec, KeptWhileReachable
====
