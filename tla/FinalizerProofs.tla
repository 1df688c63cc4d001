---------------------------- MODULE FinalizerProofs ----------------------------
(***************************************************************************)
(* Proofs about Finalizer, for every set of nodes, validators, heights and *)
(* hashes.                                                                 *)
(*                                                                         *)
(* Agreement is quorum intersection: two sets of more than two thirds of   *)
(* the validators share more than the faulty ones, and an honest validator *)
(* signs one hash per height.  The invariant remembers the quorum behind   *)
(* every finalized block, because the tallies are lost in a restart.       *)
(* NoReorg needs that no write of the file fails: the file then is the     *)
(* state, and a restart changes nothing that EnforceNoReorg looks at.      *)
(***************************************************************************)
EXTENDS Finalizer, FiniteSetTheorems, TLAPS

SignedBy(u, h, x) == [validator |-> u, height |-> h, hash |-> x] \in cast

OneVoteEach ==
  \A u \in Honest : \A h \in Height : \A x, y \in Hash :
    SignedBy(u, h, x) /\ SignedBy(u, h, y) => x = y

TalliesSigned ==
  \A n \in Node : \A h \in Height : \A x \in Hash : \A u \in votes[n][h][x] : SignedBy(u, h, x)

Backed(f) ==
  \E Q \in SUBSET Validator :
    /\ Cardinality(Q) >= Threshold
    /\ \A u \in Q : SignedBy(u, f.height, f.hash)

Final == [height : Height, hash : Hash]

Typed ==
  /\ cast \subseteq Vote(Validator \cup Faulty)
  /\ votes \in [Node -> [Height -> [Hash -> SUBSET Validator]]]
  /\ final \in [Node -> SUBSET Final]
  /\ state \in [Node -> Final \cup {Zero}]
  /\ disk \in [Node -> Final \cup {Zero, Torn}]

QInv ==
  /\ Typed
  /\ OneVoteEach
  /\ TalliesSigned
  /\ \A n \in Node : \A f \in final[n] : Backed(f)

-----------------------------------------------------------------------------

\* Two quorums share an honest validator.
LEMMA QuorumIntersection ==
  ASSUME NEW P \in SUBSET Validator, NEW Q \in SUBSET Validator,
         Cardinality(P) >= Threshold, Cardinality(Q) >= Threshold
  PROVE  P \cap Q \cap Honest # {}
<1> DEFINE N == Cardinality(Validator)
           Bad == Validator \cap Faulty
<1>1. /\ IsFiniteSet(Validator) /\ IsFiniteSet(P) /\ IsFiniteSet(Q) /\ IsFiniteSet(Bad)
      /\ IsFiniteSet(P \cup Q) /\ IsFiniteSet(P \cap Q)
  BY FinalizerAssumption, FS_Subset, P \cup Q \subseteq Validator, P \cap Q \subseteq Validator,
     Bad \subseteq Validator
<1>2. /\ N \in Nat /\ Cardinality(P) \in Nat /\ Cardinality(Q) \in Nat
      /\ Cardinality(Bad) \in Nat /\ Cardinality(P \cup Q) \in Nat
      /\ Cardinality(P \cap Q) \in Nat
  BY <1>1, FS_CardinalityType
<1>3. Cardinality(P \cup Q) = Cardinality(P) + Cardinality(Q) - Cardinality(P \cap Q)
  BY <1>1, FS_Union
<1>4. Cardinality(P \cup Q) <= N
  BY FinalizerAssumption, FS_Subset, P \cup Q \subseteq Validator
<1>5. 3 * Threshold > 2 * N
  BY <1>2 DEF Threshold
<1>6. Threshold \in Int
  BY <1>2 DEF Threshold
<1>7. 3 * Cardinality(Bad) < N
  BY FinalizerAssumption
<1> HIDE DEF N
<1>8. Cardinality(P \cap Q) > Cardinality(Bad)
  BY <1>2, <1>3, <1>4, <1>5, <1>6, <1>7
<1>9. CASE P \cap Q \subseteq Bad
  <2>1. Cardinality(P \cap Q) <= Cardinality(Bad)
    BY <1>1, <1>9, FS_Subset
  <2>2. QED
    BY <1>2, <1>8, <2>1
<1>10. CASE ~(P \cap Q \subseteq Bad)
  BY <1>10 DEF Honest
<1>11. QED
  BY <1>9, <1>10

\* Before any honest vote the only signatures are those of the faulty voters.
LEMMA InitQ == Init => QInv
<1> SUFFICES ASSUME Init
             PROVE  QInv
  OBVIOUS
<1>1. Typed
  BY DEF Init, Typed, NoVotes, Vote
<1>2. OneVoteEach
  BY DEF Init, OneVoteEach, SignedBy, Honest, Vote
<1>3. TalliesSigned
  BY DEF Init, TalliesSigned, NoVotes
<1>4. QED
  BY <1>1, <1>2, <1>3 DEF Init, QInv

\* A new vote takes no signature back, and the validator had none at that height.
LEMMA CastQ == ASSUME QInv, NEW v \in Vote(Honest), Cast(v) PROVE QInv'
<1>1. cast' = cast \cup {v} /\ UNCHANGED <<votes, state, disk, final>>
  BY DEF Cast
<1>2. Typed'
  BY <1>1 DEF QInv, Typed, Vote, Honest
<1>3. OneVoteEach'
  <2> SUFFICES ASSUME NEW u \in Honest, NEW h \in Height, NEW x \in Hash, NEW y \in Hash,
                      SignedBy(u, h, x)', SignedBy(u, h, y)'
               PROVE  x = y
    BY DEF OneVoteEach
  <2>1. \A w \in cast : w.validator = v.validator => w.height # v.height
    BY DEF Cast
  <2>2. QED
    BY <1>1, <2>1 DEF QInv, OneVoteEach, SignedBy, Vote
<1>4. \A u, h, x : SignedBy(u, h, x) => SignedBy(u, h, x)'
  BY <1>1 DEF SignedBy
<1>5. TalliesSigned'
  BY <1>1, <1>4 DEF QInv, TalliesSigned
<1>6. (\A n \in Node : \A f \in final[n] : Backed(f))'
  BY <1>1, <1>4 DEF QInv, Backed
<1>7. QED
  BY <1>2, <1>3, <1>5, <1>6 DEF QInv

\* A vote is counted: the quorum that finalizes is in the tally.
LEMMA AddVoteQ == ASSUME QInv, NEW n \in Node, NEW v \in cast, AddVote(n, v) PROVE QInv'
<1> DEFINE h == v.height
           x == v.hash
           counted == votes[n][h][x] \cup {v.validator}
           new == [height |-> h, hash |-> x]
<1>1. /\ h \in Height /\ x \in Hash /\ v.validator \in Validator
      /\ v = [validator |-> v.validator, height |-> h, hash |-> x]
  BY DEF QInv, Typed, Vote, AddVote, IsValidator
<1>2. votes' = [votes EXCEPT ![n][h][x] = counted] /\ cast' = cast
  BY DEF AddVote
<1>3. counted \in SUBSET Validator
  BY <1>1 DEF QInv, Typed
<1>4. \A u \in counted : SignedBy(u, h, x)
  BY <1>1 DEF QInv, TalliesSigned, SignedBy
<1>5. new \in Final
  BY <1>1 DEF Final
<1>6. Typed'
  <2>1. votes' \in [Node -> [Height -> [Hash -> SUBSET Validator]]]
    BY <1>1, <1>2, <1>3 DEF QInv, Typed
  <2>2. CASE /\ state' = [state EXCEPT ![n] = new]
             /\ final' = [final EXCEPT ![n] = @ \cup {new}]
             /\ PersistState(n, new)
    <3> HIDE DEF new
    <3>1. /\ state' \in [Node -> Final \cup {Zero}]
          /\ final' \in [Node -> SUBSET Final]
      BY <1>5, <2>2 DEF QInv, Typed
    <3>2. disk' \in [Node -> Final \cup {Zero, Torn}]
      BY <1>5, <2>2 DEF QInv, Typed, PersistState
    <3>3. QED
      BY <1>2, <2>1, <3>1, <3>2 DEF QInv, Typed
  <2>3. CASE UNCHANGED <<state, final, disk>>
    BY <1>2, <2>1, <2>3 DEF QInv, Typed
  <2>4. QED
    BY <2>2, <2>3 DEF AddVote
<1>7. OneVoteEach'
  BY <1>2 DEF QInv, OneVoteEach, SignedBy
<1>8. TalliesSigned'
  <2> SUFFICES ASSUME NEW m \in Node, NEW h2 \in Height, NEW x2 \in Hash,
                      NEW u \in votes'[m][h2][x2]
               PROVE  SignedBy(u, h2, x2)'
    BY DEF TalliesSigned
  <2>1. SignedBy(u, h2, x2)
    <3>1. CASE m = n /\ h2 = h /\ x2 = x
      BY <3>1, <1>1, <1>2, <1>4 DEF QInv, Typed
    <3>2. CASE ~(m = n /\ h2 = h /\ x2 = x)
      <4>1. votes'[m][h2][x2] = votes[m][h2][x2]
        BY <3>2, <1>1, <1>2 DEF QInv, Typed
      <4>2. QED
        BY <4>1 DEF QInv, TalliesSigned
    <3>3. QED
      BY <3>1, <3>2
  <2>2. QED
    BY <1>2, <2>1 DEF SignedBy
<1>9. (\A m \in Node : \A f \in final[m] : Backed(f))'
  <2> SUFFICES ASSUME NEW m \in Node, NEW f \in final'[m]
               PROVE  Backed(f)'
    OBVIOUS
  <2>1. CASE f \in final[m]
    BY <1>2, <2>1 DEF QInv, Backed, SignedBy
  <2>2. CASE f \notin final[m]
    <3>1. f = new /\ Cardinality(counted) >= Threshold
      <4>1. \/ /\ final' = [final EXCEPT ![n] = @ \cup {new}]
               /\ Cardinality(counted) >= Threshold
            \/ final' = final
        BY DEF AddVote
      <4> HIDE DEF new, counted
      <4>2. QED
        BY <2>2, <4>1 DEF QInv, Typed
    <3>2. f.height = h /\ f.hash = x
      BY <3>1
    <3> HIDE DEF counted, h, x
    <3>3. QED
      BY <1>2, <1>3, <1>4, <3>1, <3>2 DEF Backed, SignedBy
  <2>3. QED
    BY <2>1, <2>2
<1>10. QED
  BY <1>6, <1>7, <1>8, <1>9 DEF QInv

\* A restart forgets the tallies and may lose the state; signatures stay.
LEMMA RestartQ == ASSUME QInv, NEW n \in Node, Restart(n) PROVE QInv'
<1>1. UNCHANGED <<cast, disk, final>> /\ votes' = [votes EXCEPT ![n] = NoVotes]
  BY DEF Restart
<1>2. NoVotes \in [Height -> [Hash -> SUBSET Validator]]
  BY DEF NoVotes
<1>3. Typed'
  BY <1>1, <1>2 DEF QInv, Typed, Restart, Load
<1>4. OneVoteEach'
  BY <1>1 DEF QInv, OneVoteEach, SignedBy
<1>5. TalliesSigned'
  BY <1>1 DEF QInv, Typed, TalliesSigned, SignedBy, NoVotes
<1>6. (\A m \in Node : \A f \in final[m] : Backed(f))'
  BY <1>1 DEF QInv, Backed, SignedBy
<1>7. QED
  BY <1>3, <1>4, <1>5, <1>6 DEF QInv

\* Behind every finalized block there is a quorum of signatures, at any time.
THEOREM QuorumInvariance == Spec => []QInv
<1>1. Init => QInv
  BY InitQ
<1>2. QInv /\ [Next]_vars => QInv'
  <2> SUFFICES ASSUME QInv, [Next]_vars
               PROVE  QInv'
    OBVIOUS
  <2>1. CASE Next
    BY <2>1, CastQ, AddVoteQ, RestartQ DEF Next
  <2>2. CASE UNCHANGED vars
    BY <2>2 DEF QInv, Typed, OneVoteEach, TalliesSigned, Backed, SignedBy, vars
  <2>3. QED
    BY <2>1, <2>2
<1>3. QED
  BY <1>1, <1>2, PTL DEF Spec

\* AddVote counts validators only, whoever signs, and a state that a restart reads back
\* is one that was finalized or none.
THEOREM Typing == Spec => []TypeOK
<1>1. ASSUME NEW s \in Final \cup {Zero}
      PROVE  s \in [height : Nat, hash : Hash \cup {NoHash}]
  <2>1. Height \subseteq Nat
    BY FinalizerAssumption
  <2>2. CASE s \in Final
    BY <2>1, <2>2 DEF Final
  <2>3. CASE s = Zero
    BY <2>3 DEF Zero
  <2>4. QED
    BY <2>2, <2>3
<1>2. QInv => TypeOK
  <2> SUFFICES ASSUME QInv PROVE TypeOK
    OBVIOUS
  <2>1. state \in [Node -> [height : Nat, hash : Hash \cup {NoHash}]]
    BY <1>1 DEF QInv, Typed
  <2>2. QED
    BY <2>1 DEF QInv, Typed, TypeOK, Final
<1>3. QED
  BY <1>2, QuorumInvariance, PTL

\* No two nodes, and no node before and after a restart, finalize different blocks
\* at a height, for any validator set less than a third of which is faulty.
THEOREM Safety == Spec => []Agreement
<1>1. QInv => Agreement
  <2> SUFFICES ASSUME QInv, NEW m \in Node, NEW n \in Node,
                      NEW f \in final[m], NEW g \in final[n], f.height = g.height
               PROVE  f.hash = g.hash
    BY DEF Agreement
  <2>1. f \in Final /\ g \in Final
    BY DEF QInv, Typed
  <2>2. PICK P \in SUBSET Validator : /\ Cardinality(P) >= Threshold
                                      /\ \A u \in P : SignedBy(u, f.height, f.hash)
    BY DEF QInv, Backed
  <2>3. PICK Q \in SUBSET Validator : /\ Cardinality(Q) >= Threshold
                                      /\ \A u \in Q : SignedBy(u, g.height, g.hash)
    BY DEF QInv, Backed
  <2>4. PICK u \in Honest : u \in P /\ u \in Q
    BY <2>2, <2>3, QuorumIntersection
  <2>5. f.height \in Height /\ f.hash \in Hash /\ g.hash \in Hash
    BY <2>1 DEF Final
  <2>6. QED
    BY <2>2, <2>3, <2>4, <2>5 DEF QInv, OneVoteEach
<1>2. QED
  BY <1>1, QuorumInvariance, PTL

-----------------------------------------------------------------------------
\* What a node finalized is at or below its state, and the file is the state.
Kept ==
  /\ disk = state
  /\ \A n \in Node : \A f \in final[n] :
       /\ f.height <= state[n].height
       /\ f.height = state[n].height => f.hash = state[n].hash

\* That is so until a write fails.
DiskInv == faults \in Nat /\ (faults = 0 => Kept)

\* Heights are natural numbers, those of finalized blocks positive.
LEMMA FinalHeights ==
  ASSUME QInv, NEW n \in Node, NEW f \in final[n]
  PROVE  f.height \in Nat \ {0}
<1>1. f \in Final
  BY DEF QInv, Typed
<1>2. f.height \in Height
  BY <1>1 DEF Final
<1>3. QED
  BY <1>2, FinalizerAssumption

\* The state of a node is Zero or a finalized block.
LEMMA StateHeights ==
  ASSUME QInv, NEW n \in Node
  PROVE  state[n].height \in Nat
<1>1. state[n] \in Final \/ state[n] = Zero
  BY DEF QInv, Typed
<1>2. CASE state[n] \in Final
  <2>1. state[n].height \in Height
    BY <1>2 DEF Final
  <2>2. QED
    BY <2>1, FinalizerAssumption
<1>3. CASE state[n] = Zero
  BY <1>3 DEF Zero
<1>4. QED
  BY <1>1, <1>2, <1>3

\* A state is never mistaken for a file that does not decode.
LEMMA FileIsState ==
  ASSUME QInv, NEW n \in Node
  PROVE  state[n] # Torn
<1>1. state[n] \in Final \/ state[n] = Zero
  BY DEF QInv, Typed
<1>2. Final \subseteq [height : Nat, hash : Hash \cup {NoHash}]
  BY FinalizerAssumption DEF Final
<1>3. Zero \in [height : Nat, hash : Hash \cup {NoHash}]
  BY DEF Zero
<1>4. QED
  BY <1>1, <1>2, <1>3, FinalizerAssumption

\* Finalizing moves state and file up together.
LEMMA AddVoteD ==
  ASSUME QInv, Kept, NEW n \in Node, NEW v \in cast, AddVote(n, v),
         UNCHANGED faults, faults = 0
  PROVE  Kept'
<1> DEFINE new == [height |-> v.height, hash |-> v.hash]
<1>1. \A m \in Node : state[m].height \in Nat
  BY StateHeights
<1>2. v.height \in Nat
  BY FinalizerAssumption DEF QInv, Typed, Vote
<1>3. CASE /\ state' = [state EXCEPT ![n] = new] /\ v.height > state[n].height
           /\ final' = [final EXCEPT ![n] = @ \cup {new}]
           /\ PersistState(n, new)
  <2>1. disk' = [disk EXCEPT ![n] = new]
    BY <1>3 DEF PersistState
  <2>2. disk' = state'
    BY <1>3, <2>1 DEF Kept
  <2>3. ASSUME NEW m \in Node, NEW f \in final'[m]
        PROVE  /\ f.height <= state'[m].height
               /\ f.height = state'[m].height => f.hash = state'[m].hash
    <3>1. CASE m # n
      BY <1>3, <3>1, <2>3 DEF QInv, Typed, Kept
    <3>2. CASE m = n
      <4>1. state'[m] = new /\ final'[m] = final[n] \cup {new}
        BY <1>3, <3>2 DEF QInv, Typed
      <4>2. CASE f = new
        BY <4>1, <4>2, <1>2
      <4>3. CASE f \in final[n]
        <5>1. f.height <= state[n].height /\ f.height \in Nat
          BY <4>3, FinalHeights DEF Kept
        <5>2. QED
          BY <4>1, <5>1, <1>1, <1>2, <1>3
      <4>4. QED
        BY <4>1, <4>2, <4>3, <2>3
    <3>3. QED
      BY <3>1, <3>2
  <2>4. QED
    BY <2>1, <2>2, <2>3 DEF Kept
<1>4. CASE UNCHANGED <<state, final, disk, faults>>
  BY <1>4 DEF Kept
<1>5. QED
  BY <1>3, <1>4 DEF AddVote, Advances

\* As long as no write of a state file fails, no node ever allows another block at a height
\* that it has finalized, however often it is restarted.
THEOREM ReorgProtection == Spec => []NoReorg
<1>1. Init => DiskInv
  BY DEF Init, DiskInv, Kept
<1>2. QInv /\ DiskInv /\ [Next]_vars => DiskInv'
  <2> SUFFICES ASSUME QInv, DiskInv, [Next]_vars
               PROVE  DiskInv'
    OBVIOUS
  <2>1. ASSUME NEW v \in Vote(Honest), Cast(v)
        PROVE  DiskInv'
    BY <2>1 DEF DiskInv, Kept, Cast
  <2>2. ASSUME NEW n \in Node, NEW v \in cast, AddVote(n, v)
        PROVE  DiskInv'
    <3>1. UNCHANGED faults \/ faults' = faults + 1
      BY <2>2 DEF AddVote, PersistState
    <3>2. CASE faults' = 0
      <4>1. UNCHANGED faults /\ faults = 0
        BY <3>1, <3>2 DEF DiskInv
      <4>2. QED
        BY <2>2, <4>1, AddVoteD DEF DiskInv
    <3>3. CASE faults' # 0
      BY <3>1, <3>3 DEF DiskInv
    <3>4. QED
      BY <3>2, <3>3
  <2>3. ASSUME NEW n \in Node, Restart(n)
        PROVE  DiskInv'
    <3>1. faults = 0 => state' = state
      <4>1. state' = [state EXCEPT ![n] = IF disk[n] = Torn THEN Zero ELSE disk[n]]
        BY <2>3 DEF Restart, Load
      <4>2. faults = 0 => disk[n] = state[n] /\ state[n] # Torn
        BY FileIsState DEF DiskInv, Kept
      <4>3. QED
        BY <4>1, <4>2 DEF QInv, Typed
    <3>2. QED
      BY <2>3, <3>1 DEF DiskInv, Kept, Restart
  <2>4. CASE UNCHANGED vars
    BY <2>4 DEF DiskInv, Kept, vars
  <2>5. QED
    BY <2>1, <2>2, <2>3, <2>4 DEF Next
<1>3. QInv /\ DiskInv => NoReorg
  <2> SUFFICES ASSUME QInv, DiskInv, faults = 0, NEW n \in Node, NEW f \in final[n],
                      NEW x \in Hash, Allows(n, f.height, x)
               PROVE  x = f.hash
    BY DEF NoReorg
  <2>1. f.height \in Nat \ {0} /\ state[n].height \in Nat
    BY FinalHeights, StateHeights
  <2>2. f.height <= state[n].height /\ (f.height = state[n].height => f.hash = state[n].hash)
    BY DEF DiskInv, Kept
  <2>3. QED
    BY <2>1, <2>2 DEF Allows
<1>4. QED
  BY <1>1, <1>2, <1>3, QuorumInvariance, PTL DEF Spec
=============================================================================
