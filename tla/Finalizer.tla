------------------------------- MODULE Finalizer -------------------------------
(***************************************************************************)
(* The vote-counting finalizer of src/internal/consensus (finalizer.go):   *)
(* every node counts the validators' votes for a block, finalizes a height *)
(* at more than two thirds of them and keeps the last finalized height and *)
(* hash in a file.  The package is complete but not wired into the daemon; *)
(* the model takes the callers from README_FINALIZATION.md: votes arrive   *)
(* over the mesh, in any order, more than once or not at all.              *)
(***************************************************************************)
EXTENDS Integers, FiniteSets

CONSTANTS
  Node,
  Validator,   \* the validator set that every node was started with
  Faulty,      \* the voters that may sign anything: validators or outsiders
  Hash, Height,
  NoHash, Torn,
  MaxFaults, MaxRestarts   \* bounds of the exploration

Honest == Validator \ Faulty

\* Fewer than a third of the validators are faulty.
ASSUME FinalizerAssumption ==
  /\ IsFiniteSet(Validator)
  /\ 3 * Cardinality(Validator \cap Faulty) < Cardinality(Validator)
  /\ Height \subseteq Nat \ {0}
  /\ NoHash \notin Hash
  /\ Torn \notin [height : Nat, hash : Hash \cup {NoHash}]
  /\ MaxFaults \in Nat /\ MaxRestarts \in Nat

VARIABLES
  cast,      \* the votes that were signed
  votes,     \* f.votes of each node: height -> hash -> validators
  state,     \* f.state of each node
  disk,      \* finality_state.json of each node
  final,     \* history: what each node has finalized
  faults, restarts

vars == <<cast, votes, state, disk, final, faults, restarts>>

Vote(Who) == [validator : Who, height : Height, hash : Hash]
Zero == [height |-> 0, hash |-> NoHash]
NoVotes == [h \in Height |-> [x \in Hash |-> {}]]

Init ==
  /\ cast = Vote(Faulty)
  /\ votes = [n \in Node |-> NoVotes]
  /\ state = [n \in Node |-> Zero]
  /\ disk = [n \in Node |-> Zero]
  /\ final = [n \in Node |-> {}]
  /\ faults = 0 /\ restarts = 0

\* An honest validator signs one vote per height (SignVote leaves that to its
\* caller, and the tally below does not look at rounds).
Cast(v) ==
  /\ v.validator \in Honest
  /\ \A w \in cast : w.validator = v.validator => w.height # v.height
  /\ cast' = cast \cup {v}
  /\ UNCHANGED <<votes, state, disk, final, faults, restarts>>

\* Slip: two thirds are enough.
TwoThirds == (2 * Cardinality(Validator)) \div 3

Threshold == (2 * Cardinality(Validator)) \div 3 + 1

\* Slip: anybody may vote.
Anybody(v) == TRUE

IsValidator(v) == v.validator \in Validator

\* Slip: any quorum replaces the state.
AnyHeight(n, h) == TRUE

Advances(n, h) == h > state[n].height

\* The error of persist() is ignored: the file is written, or left alone, or
\* truncated and not written again (os.WriteFile).
PersistState(n, new) ==
  \/ disk' = [disk EXCEPT ![n] = new] /\ UNCHANGED faults
  \/ /\ faults < MaxFaults /\ faults' = faults + 1
     /\ \E d \in {disk[n], Torn} : disk' = [disk EXCEPT ![n] = d]

AddVote(n, v) ==
  LET counted == votes[n][v.height][v.hash] \cup {v.validator}
      new == [height |-> v.height, hash |-> v.hash]
  IN /\ IsValidator(v)
     /\ votes' = [votes EXCEPT ![n][v.height][v.hash] = counted]
     /\ IF /\ Cardinality(counted) >= Threshold
           /\ Advances(n, v.height)
        THEN /\ state' = [state EXCEPT ![n] = new]
             /\ final' = [final EXCEPT ![n] = @ \cup {new}]
             /\ PersistState(n, new)
        ELSE UNCHANGED <<state, final, disk, faults>>
     /\ UNCHANGED <<cast, restarts>>

\* Slip: the file is not read.
Forget(n) == state' = [state EXCEPT ![n] = Zero]

\* A file that does not decode is an error, which NewFinalizer ignores.
Load(n) == state' = [state EXCEPT ![n] = IF disk[n] = Torn THEN Zero ELSE disk[n]]

Restart(n) ==
  /\ restarts < MaxRestarts /\ restarts' = restarts + 1
  /\ Load(n)
  /\ votes' = [votes EXCEPT ![n] = NoVotes]
  /\ UNCHANGED <<cast, disk, final, faults>>

Next ==
  \/ \E v \in Vote(Honest) : Cast(v)
  \/ \E n \in Node, v \in cast : AddVote(n, v)
  \/ \E n \in Node : Restart(n)

Spec == Init /\ [][Next]_vars

-----------------------------------------------------------------------------
(* Properties. *)

\* Only validators are counted (the gate of AddVote), each once for a block.
TypeOK ==
  /\ cast \subseteq Vote(Validator \cup Faulty)
  /\ votes \in [Node -> [Height -> [Hash -> SUBSET Validator]]]
  /\ state \in [Node -> [height : Nat, hash : Hash \cup {NoHash}]]
  /\ final \in [Node -> SUBSET [height : Height, hash : Hash]]

\* Two nodes, or one node before and after a restart that lost its file, never
\* finalize different blocks at a height, whatever the faulty voters sign and
\* whichever votes reach whom ("Threshold: > 2/3 of validator set",
\* README_FINALIZATION.md:7).
Agreement ==
  \A m, n \in Node : \A f \in final[m], g \in final[n] :
    f.height = g.height => f.hash = g.hash

\* EnforceNoReorg(h, x) returns nil.
Allows(n, h, x) ==
  \/ state[n].height = 0
  \/ h > state[n].height
  \/ h = state[n].height /\ x = state[n].hash

\* A node that has finalized a block allows no other block at its height, before
\* or after a restart ("blocks at/below finalized height cannot be replaced",
\* README_FINALIZATION.md:9), as long as no write of a state file has failed.
NoReorg ==
  faults = 0 =>
    \A n \in Node : \A f \in final[n] : \A x \in Hash :
      Allows(n, f.height, x) => x = f.hash
=============================================================================
