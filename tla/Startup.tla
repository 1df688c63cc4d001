-------------------------------- MODULE Startup --------------------------------
(***************************************************************************)
(* A start of the daemon: StartMeshDaemon of daemon_bridge.go with         *)
(* LoadSnapshotFromDisk (chain_snapshot.go) and loadFromDisk               *)
(* (chain_persist.go), and the HTTP surface, which is open before either   *)
(* of them and whose POST /chain/apply and /chain/propose go to the same   *)
(* chain.                                                                  *)
(*                                                                         *)
(* ChainNode has the writing of one block file and replay without a        *)
(* snapshot; here a file is whole or it does not decode, and a block is    *)
(* its height.  A posted block comes between two replayed files: replay    *)
(* does not take c.mu, and what two goroutines inside applyBlockLocked do  *)
(* to one map is left out.                                                 *)
(***************************************************************************)
EXTENDS Naturals

CONSTANTS
  None, Unreadable,     \* no snapshot.json, one that does not decode or verify
  BestEffort,     \* BLACKCHAIN_ALLOW_CORRUPT_RECOVERY is set
  MaxHeight, MaxPosts, MaxCrashes, MaxRot, MaxRestores  \* bounds

ASSUME StartupAssumption ==
  /\ None \notin Nat /\ Unreadable \notin Nat /\ None # Unreadable /\ BestEffort \in BOOLEAN
  /\ MaxHeight \in Nat /\ MaxPosts \in Nat /\ MaxCrashes \in Nat
  /\ MaxRot \in Nat /\ MaxRestores \in Nat

VARIABLES
  phase,    \* startupPhase: "down", "replay_snapshot", "above", "replay_blocks", "ready", "halted"
  files,    \* heights of the block files that decode
  bad,      \* heights of those that do not
  snapshot, \* snapshot.json: its height, None or Unreadable
  height,   \* c.height
  base,     \* the height of the loaded snapshot: no block up to it is in c.blocks
  list,     \* the files a replay loop has still to read
  damaged,  \* history: this start has found a file that does not decode on the disk
  decayed,  \* history: the heights of all files that have decayed
  posted,   \* history: the heights of the blocks posted while the node started
  lost,     \* history: the heights of whole files that replay has put in quarantine
  used

disk == <<files, bad, snapshot>>
chain == <<height, base>>
history == <<damaged, decayed, posted, lost>>
vars == <<phase, disk, chain, list, history, used>>

Use(what, bound) == used[what] < bound /\ used' = [used EXCEPT ![what] = @ + 1]

Init ==
  /\ phase = "down" /\ files = {} /\ bad = {} /\ snapshot = None
  /\ height = 0 /\ base = 0 /\ list = {}
  /\ damaged = FALSE /\ decayed = {} /\ posted = {} /\ lost = {}
  /\ used = [posts |-> 0, crashes |-> 0, rots |-> 0, restores |-> 0]

-----------------------------------------------------------------------------
(* StartMeshDaemon. *)

Starting == phase \in {"replay_snapshot", "above", "replay_blocks"}

Start ==
  /\ phase \in {"down", "halted"}
  /\ phase' = "replay_snapshot"
  /\ height' = 0 /\ base' = 0 /\ list' = {}
  /\ damaged' = (bad # {} \/ snapshot = Unreadable)
  /\ UNCHANGED <<disk, decayed, posted, lost, used>>

ListBlocks == phase' = "replay_blocks" /\ list' = files \cup bad

NoSnapshot ==
  /\ phase = "replay_snapshot" /\ snapshot = None
  /\ ListBlocks
  /\ UNCHANGED <<disk, chain, history, used>>

BadSnapshot ==
  /\ phase = "replay_snapshot" /\ snapshot = Unreadable
  /\ snapshot' = None /\ phase' = "halted"
  /\ UNCHANGED <<files, bad, chain, list, history, used>>

LoadSnapshot ==
  /\ phase = "replay_snapshot" /\ snapshot \in Nat
  /\ height' = snapshot /\ base' = snapshot
  /\ phase' = "above" /\ list' = {h \in files \cup bad : h > snapshot}
  /\ UNCHANGED <<disk, history, used>>

\* Slip: the files are not sorted.
AnyOrder(h) == h \in list

\* The files are read in the order of their heights.
NextFile(h) == h \in list /\ \A l \in list : h <= l
LastFile(h) == \A l \in list : l <= h

ReplayBlock(h) ==
  /\ phase \in {"above", "replay_blocks"} /\ NextFile(h)
  /\ h \in files /\ h = height + 1
  /\ height' = h /\ list' = list \ {h}
  /\ UNCHANGED <<phase, disk, base, history, used>>

\* A block that is not the next one is taken for a corrupt file.  With BestEffort the
\* last one ends the loop without an error.
RefuseBlock(h) ==
  /\ phase \in {"above", "replay_blocks"} /\ NextFile(h)
  /\ h \in files /\ h # height + 1
  /\ files' = files \ {h} /\ lost' = lost \cup {h}
  /\ IF BestEffort /\ LastFile(h)
     THEN IF phase = "above"
          THEN phase' = "replay_blocks" /\ list' = files' \cup bad
          ELSE phase' = "ready" /\ list' = {}
     ELSE phase' = "halted" /\ list' = {}
  /\ UNCHANGED <<bad, snapshot, chain, damaged, decayed, posted, used>>

\* Slips: the start goes on after a quarantine; the file stays where it is.
GoOn(h) ==
  /\ phase \in {"above", "replay_blocks"} /\ NextFile(h) /\ h \in bad
  /\ bad' = bad \ {h} /\ list' = list \ {h}
  /\ UNCHANGED <<phase, files, snapshot, chain, history, used>>
LeaveFile(h) ==
  /\ phase \in {"above", "replay_blocks"} /\ NextFile(h) /\ h \in bad
  /\ phase' = "halted" /\ list' = {}
  /\ UNCHANGED <<disk, chain, history, used>>

BadFile(h) ==
  /\ phase \in {"above", "replay_blocks"} /\ NextFile(h)
  /\ h \in bad /\ bad' = bad \ {h}
  /\ IF BestEffort /\ LastFile(h)
     THEN list' = {} /\ UNCHANGED phase
     ELSE list' = {} /\ phase' = "halted"
  /\ UNCHANGED <<files, snapshot, chain, history, used>>

\* loadFromDisk starts again with the lowest file.
ReplayBlocks ==
  /\ phase = "above" /\ list = {}
  /\ ListBlocks
  /\ UNCHANGED <<disk, chain, history, used>>

Ready ==
  /\ phase = "replay_blocks" /\ list = {}
  /\ phase' = "ready"
  /\ UNCHANGED <<disk, chain, list, history, used>>

-----------------------------------------------------------------------------
(* Blocks that come in: the next one is written and joins the chain. *)

Extend ==
  /\ height < MaxHeight
  /\ height' = height + 1
  /\ files' = files \cup {height'} /\ bad' = bad \ {height'}
  /\ UNCHANGED <<phase, snapshot, base, list, damaged, decayed, lost>>

\* By gossip, sync or the proposer, which begin when the node is ready.
Apply == phase = "ready" /\ Extend /\ UNCHANGED <<posted, used>>

\* POST /chain/apply or /chain/propose while the node starts.
Post == Starting /\ Extend /\ posted' = posted \cup {height'} /\ Use("posts", MaxPosts)

-----------------------------------------------------------------------------
(* The outside. *)

Down ==
  /\ phase' = "down" /\ height' = 0 /\ base' = 0 /\ list' = {}
  /\ UNCHANGED <<disk, history>>

Stop == phase = "ready" /\ Down /\ UNCHANGED used
Crash == Starting /\ Down /\ Use("crashes", MaxCrashes)

\* A file decays; Rot(0) is the snapshot's.
Rot(h) ==
  /\ phase = "down" /\ Use("rots", MaxRot)
  /\ \/ /\ h \in files
        /\ files' = files \ {h} /\ bad' = bad \cup {h} /\ decayed' = decayed \cup {h}
        /\ UNCHANGED snapshot
     \/ /\ h = 0 /\ snapshot \in Nat
        /\ snapshot' = Unreadable
        /\ UNCHANGED <<files, bad, decayed>>
  /\ UNCHANGED <<phase, chain, list, damaged, posted, lost>>

\* The operator puts a snapshot of a known-good state into the data directory.
Restore(h) ==
  /\ phase \in {"down", "halted"} /\ Use("restores", MaxRestores)
  /\ snapshot' = h
  /\ UNCHANGED <<phase, files, bad, chain, list, history>>

Replay ==
  \/ NoSnapshot \/ BadSnapshot \/ LoadSnapshot \/ ReplayBlocks \/ Ready
  \/ \E h \in 1 .. MaxHeight : ReplayBlock(h) \/ RefuseBlock(h) \/ BadFile(h)

Next ==
  \/ Start \/ Replay \/ Apply \/ Post \/ Stop \/ Crash
  \/ \E h \in 0 .. MaxHeight : Rot(h)
  \/ \E h \in 1 .. MaxHeight : Restore(h)

Spec == Init /\ [][Next]_vars

\* The unit that install.sh writes restarts a daemon that has failed, and replay does
\* not stop by itself.
FairSpec == Spec /\ WF_vars(Start \/ Replay)

-----------------------------------------------------------------------------
(* Properties. *)

\* The files above the snapshot are exactly the chain that a node serves once it is
\* ready, and no file it found when it started failed to decode: neither replay passes
\* one over, and no posted block hides it ("Corrupt persisted block or snapshot files
\* do not silently pass startup", LAUNCH_CANDIDATE_RUNBOOK.md:13).
ReadyIsWhole ==
  phase = "ready" => ~damaged /\ bad = {} /\ files = base + 1 .. height

\* Replay puts a whole block file in quarantine only if a file below it has decayed, a
\* block not above it was posted while the node started, or a snapshot was restored,
\* after which loadFromDisk reads files the snapshot has already passed.
GoodFilesKept ==
  \A h \in lost : \/ \E d \in decayed : d < h
                  \/ \E p \in posted : p <= h
                  \/ used.restores > 0

\* A node that is restarted is ready again, whatever has decayed, been posted or been
\* restored: every halt takes one file out of the way.
ComesUp == (phase = "down") ~> (phase = "ready")
=============================================================================
