------------------------------- MODULE ChainNode -------------------------------
(***************************************************************************)
(* The block store of one daemon: ProductionChain of                       *)
(* src/internal/mesh/chain_core.go with its files (chain_persist.go), the  *)
(* process that owns it, and the wall clock it reads.                      *)
(*                                                                         *)
(* Every call on the chain runs under ProductionChain.mu, so calls do not  *)
(* interleave; what interleaves with them is the outside: a write to the   *)
(* disk can fail or the machine can die between any two system calls of    *)
(* writeFileAtomicDurable.  A call is therefore one step, except that the  *)
(* write of a block is cut at its system calls: "step" says how far the    *)
(* block "job" has got, and everything else waits until "step" is "free".  *)
(*                                                                         *)
(* Blocks are the elements of the constant Block.  calcBlockHash covers    *)
(* every field the model keeps, so a block stands for its own hash, and    *)
(* Prev[b] is the block b names in PrevHash.  Whether the transactions of  *)
(* b fit the accounts is decided by the ancestors of b, hence by b:        *)
(* Verdict[b] is what applyBlockLocked finds, see the assumption below.    *)
(***************************************************************************)
EXTENDS Integers, Sequences, FiniteSets

CONSTANTS
  Block,          \* the blocks that can exist
  Height, Prev, Time, Producer, Verdict,  \* their fields, functions on Block
  Genesis,        \* the PrevHash of a block of height 1 (the empty string)
  NoBlock,        \* no write under way
  Self,           \* the validator id of this node
  FinalityDepth,  \* finalityDepth = 2
  BufferDistance, \* maxProposalBufferDistance = 2
  FutureSkew,     \* maxProposalFutureSkew, in units of the clock
  BestEffort,     \* BLACKCHAIN_ALLOW_CORRUPT_RECOVERY is set
  OperatorRestarts, \* a halted node is started again (Restart=always, or by hand)
  FaultCallers,   \* the callers of applyBlockLocked whose writes may fail
  MaxTime, MaxCrashes, MaxFaults, MaxRot  \* bounds of the exploration

Callers == {"handler", "drain", "replay"}

\* "ok": the block applies on its parent.  "badRoot": refused before it is
\* persisted (duplicate tx, reward or balances_root mismatch).  "badTx": refused
\* only by the account checks that follow persistBlockLocked.
ASSUME BlockAssumption ==
  /\ Height \in [Block -> Int]
  /\ Prev \in [Block -> Block \cup {Genesis}]
  /\ Time \in [Block -> Int]
  /\ DOMAIN Producer = Block
  /\ Verdict \in [Block -> {"ok", "badRoot", "badTx"}]
  /\ Genesis \notin Block
  /\ NoBlock \notin Block

ASSUME ParameterAssumption ==
  /\ FinalityDepth \in Nat
  /\ BufferDistance \in Nat
  /\ FutureSkew \in Nat
  /\ BestEffort \in BOOLEAN
  /\ OperatorRestarts \in BOOLEAN
  /\ FaultCallers \subseteq Callers
  /\ MaxTime \in Nat /\ MaxCrashes \in Nat /\ MaxFaults \in Nat /\ MaxRot \in Nat

VARIABLES
  mode,     \* "serving", "down", "recovering", "replaying" or "halted"
  step,     \* progress of the call that holds ProductionChain.mu
  job,      \* the block being written by persistBlockLocked
  caller,   \* who called applyBlockLocked with job
  blocks,   \* c.blocks, c.height and c.tip: the chain, by height
  pending,  \* c.pending: the buffered blocks
  finalizedHeight,
  files,    \* block files that decode, as a restart would find them
  rotten,   \* heights of the block files that do not decode
  tmp,      \* complete <height>.json.tmp files
  torn,     \* heights of the .tmp files that do not decode
  now,      \* the wall clock
  served,   \* history: the chain this node has served last
  crashes, faults, rots  \* how much of each bound is used

memory == <<blocks, pending, finalizedHeight>>
disk == <<files, rotten, tmp, torn>>
call == <<step, job, caller>>
budget == <<crashes, faults, rots>>
vars == <<mode, call, memory, disk, now, served, budget>>

height == Len(blocks)
Tip == IF blocks = <<>> THEN Genesis ELSE blocks[height]
FilesAt(h) == {f \in files : Height[f] = h}
Exists(h) == h \in rotten \/ FilesAt(h) # {}
PendingAt(h) == {p \in pending : Height[p] = h}

Init ==
  /\ mode = "down" /\ step = "free" /\ job = NoBlock /\ caller = "handler"
  /\ blocks = <<>> /\ pending = {} /\ finalizedHeight = 0
  /\ files = {} /\ rotten = {} /\ tmp = {} /\ torn = {}
  /\ now = 0 /\ served = <<>>
  /\ crashes = 0 /\ faults = 0 /\ rots = 0

-----------------------------------------------------------------------------
(* applyBlockLocked: the checks before the write, the write, the commit. *)

\* A slip for the mutation runs: any block above the tip counts as its successor.
AboveTip(b) == Height[b] > height

IsSuccessor(b) == Height[b] = height + 1

ApplyChecks(b) ==
  /\ IsSuccessor(b)
  /\ Prev[b] = Tip
  /\ Verdict[b] # "badRoot"

StartApply(b, who) == step' = "open" /\ job' = b /\ caller' = who

\* Where the call goes when applyBlockLocked has returned in serving mode.
Return(s) == step' = s /\ job' = NoBlock /\ UNCHANGED caller

\* Slip: the block file itself is opened for writing, not a .tmp beside it.
OpenInPlace ==
  /\ step = "open"
  /\ step' = "torn"
  /\ torn' = torn \cup {Height[job]}
  /\ tmp' = {t \in tmp : Height[t] # Height[job]}
  /\ files' = {f \in files : Height[f] # Height[job]}
  /\ UNCHANGED <<mode, job, caller, memory, rotten, now, served, budget>>

\* os.OpenFile with O_TRUNC: the old content of the .tmp is gone.
OpenTmp ==
  /\ step = "open"
  /\ step' = "torn"
  /\ torn' = torn \cup {Height[job]}
  /\ tmp' = {t \in tmp : Height[t] # Height[job]}
  /\ UNCHANGED <<mode, job, caller, memory, files, rotten, now, served, budget>>

\* Write, Sync and Close have succeeded.
WriteTmp ==
  /\ step = "torn"
  /\ step' = "full"
  /\ torn' = torn \ {Height[job]}
  /\ tmp' = tmp \cup {job}
  /\ UNCHANGED <<mode, job, caller, memory, files, rotten, now, served, budget>>

\* Slip: the rename is forgotten.
LeaveTmp == UNCHANGED disk

RenameTmp ==
  /\ files' = {f \in files : Height[f] # Height[job]} \cup {job}
  /\ rotten' = rotten \ {Height[job]}
  /\ tmp' = tmp \ {job}
  /\ UNCHANGED torn

\* Slips: the target is not kept above zero; it is one block too high.
FinalityUnclamped(h) == finalizedHeight' = h - FinalityDepth
FinalityTooHigh(h) ==
  finalizedHeight' = IF h + 1 - FinalityDepth > finalizedHeight
                     THEN h + 1 - FinalityDepth ELSE finalizedHeight

\* advanceFinalityLocked, for the height the chain has just reached.
AdvanceFinality(h) ==
  finalizedHeight' = IF h - FinalityDepth > finalizedHeight
                     THEN h - FinalityDepth ELSE finalizedHeight

\* The file is renamed and the directory synced, the transactions apply: the
\* block joins the chain.  A handler or the drain loop goes on draining.
Commit ==
  /\ step = "full" /\ Verdict[job] = "ok"
  /\ RenameTmp
  /\ blocks' = Append(blocks, job)
  /\ AdvanceFinality(height + 1)
  /\ Return(IF caller = "replay" THEN "free" ELSE "drain")
  /\ served' = IF caller = "replay" THEN served ELSE blocks'
  /\ UNCHANGED <<mode, pending, now, budget>>

IsLastFile(h) == \A f \in files : Height[f] <= h /\ \A r \in rotten : r <= h

\* What loadFromDisk does with an error of applyBlockLocked: the file goes to
\* quarantine and startup stops, or, for the last file and with BestEffort,
\* replay ends there and the node serves what it has.
QuarantineBlock(b) ==
  IF BestEffort /\ IsLastFile(Height[b])
  THEN mode' = "serving" /\ served' = blocks
  ELSE mode' = "halted" /\ UNCHANGED served

\* The account checks refuse a block that is already persisted.
Refuse ==
  /\ step = "full" /\ Verdict[job] = "badTx"
  /\ IF caller = "replay"
     THEN /\ files' = files \ {job} /\ tmp' = tmp \ {job}
          /\ QuarantineBlock(job)
          /\ UNCHANGED <<rotten, torn>>
     ELSE RenameTmp /\ UNCHANGED <<mode, served>>
  /\ Return(IF caller = "drain" THEN "drain" ELSE "free")
  /\ UNCHANGED <<memory, now, budget>>

\* What a failed system call leaves: a failed rename leaves the .tmp behind, a
\* failed directory sync leaves it open which of the two names survives.
FaultedDisk ==
  \/ UNCHANGED disk
  \/ step = "full" /\ RenameTmp

\* A system call of the write fails.  In replay the error is taken for
\* corruption: the file that was being replayed goes to quarantine.
Fault ==
  /\ step \in {"open", "torn", "full"}
  /\ faults < MaxFaults /\ caller \in FaultCallers
  /\ IF caller = "replay"
     THEN /\ files' = files \ {job}
          /\ tmp' \in {tmp, tmp \ {job}}
          /\ QuarantineBlock(job)
          /\ UNCHANGED <<rotten, torn>>
     ELSE FaultedDisk /\ UNCHANGED <<mode, served>>
  /\ Return(IF caller = "drain" THEN "drain" ELSE "free")
  /\ faults' = faults + 1
  /\ UNCHANGED <<memory, now, crashes, rots>>

-----------------------------------------------------------------------------
(* applyBlockOrBufferLocked, drainPendingLocked and proposeBlock. *)

Fresh(b) == Height[b] > height

\* Slips: the skew is not checked; a block may be as old as its parent.
AnyTime(b) == TRUE
NotOlder(b) == blocks # <<>> => Time[b] >= Time[blocks[height]]

NotFuture(b) == Time[b] <= now + FutureSkew
Newer(b) == blocks # <<>> => Time[b] > Time[blocks[height]]

\* The successor of the tip is applied, the one after it is buffered; every
\* other outcome is an error and leaves the chain as it is.
ApplyOrBuffer(b) ==
  /\ mode = "serving" /\ step = "free"
  /\ Fresh(b) /\ NotFuture(b)
  /\ \/ /\ IsSuccessor(b) /\ Newer(b) /\ ApplyChecks(b)
        /\ StartApply(b, "handler")
        /\ UNCHANGED pending
     \/ /\ Height[b] \in height + 2 .. height + BufferDistance
        /\ PendingAt(Height[b]) = {}
        /\ pending' = pending \cup {b}
        /\ UNCHANGED call
  /\ UNCHANGED <<mode, blocks, finalizedHeight, disk, now, served, budget>>

\* A block arrives by gossip, by sync or by POST /chain/apply.
Deliver(b) == ApplyOrBuffer(b)

\* proposalSafetyCheckLocked, then a block of our own on the tip.
ProposalSafe ==
  /\ PendingAt(height + 1) = {}
  /\ \A p \in pending : Height[p] > height => Producer[p] = Self

Propose(b) ==
  /\ ProposalSafe
  /\ Producer[b] = Self /\ Verdict[b] = "ok"
  /\ IsSuccessor(b) /\ Prev[b] = Tip /\ Time[b] = now
  /\ ApplyOrBuffer(b)

\* Slip: a stale successor ends the loop instead of being dropped.
DrainUntilStale ==
  /\ step = "drain"
  /\ \/ /\ \A b \in PendingAt(height + 1) : ~(Newer(b) /\ ApplyChecks(b))
        /\ step' = "free"
        /\ UNCHANGED <<job, caller, pending>>
     \/ \E b \in PendingAt(height + 1) :
          /\ Newer(b) /\ ApplyChecks(b)
          /\ pending' = pending \ {b}
          /\ StartApply(b, "drain")
  /\ UNCHANGED <<mode, blocks, finalizedHeight, disk, now, served, budget>>

\* One turn of the loop of drainPendingLocked.
Drain ==
  /\ step = "drain"
  /\ \/ /\ PendingAt(height + 1) = {}
        /\ step' = "free"
        /\ UNCHANGED <<job, caller, pending>>
     \/ \E b \in PendingAt(height + 1) :
          /\ pending' = pending \ {b}
          /\ IF Newer(b) /\ ApplyChecks(b)
             THEN StartApply(b, "drain")
             ELSE UNCHANGED call
  /\ UNCHANGED <<mode, blocks, finalizedHeight, disk, now, served, budget>>

-----------------------------------------------------------------------------
(* The process: stop, crash, restart, recoverInterruptedBlockWrites and    *)
(* loadFromDisk.                                                           *)

LoseMemory == blocks' = <<>> /\ pending' = {} /\ finalizedHeight' = 0

Stop ==
  /\ mode = "serving" /\ step = "free"
  /\ mode' = "down" /\ LoseMemory
  /\ UNCHANGED <<call, disk, now, served, budget>>

\* What the disk holds after a power cut: a .tmp whose name or content was not
\* synced may be absent, torn or whole, and a rename that was not synced may
\* have happened or not.
CrashedDisk ==
  \/ UNCHANGED disk
  \/ /\ step = "torn" /\ torn' = torn \ {Height[job]}
     /\ tmp' \in {tmp, tmp \cup {job}}
     /\ UNCHANGED <<files, rotten>>
  \/ /\ step = "full" /\ tmp' = tmp \ {job}
     /\ UNCHANGED <<files, rotten, torn>>
  \/ /\ step = "full" /\ RenameTmp

Crash ==
  /\ mode \notin {"down", "halted"} /\ crashes < MaxCrashes
  /\ CrashedDisk
  /\ mode' = "down" /\ LoseMemory
  /\ step' = "free" /\ job' = NoBlock /\ UNCHANGED caller
  /\ crashes' = crashes + 1
  /\ UNCHANGED <<now, served, faults, rots>>

\* The daemon is started by its supervisor, or by the operator when it halted.
Restart ==
  /\ \/ mode = "down"
     \/ mode = "halted" /\ OperatorRestarts
  /\ mode' = "recovering" /\ LoseMemory
  /\ UNCHANGED <<call, disk, now, served, budget>>

\* Slip: a torn .tmp halts startup but stays where it is.
KeepTornTmp ==
  /\ mode = "recovering"
  /\ \/ \E h \in torn :
          /\ torn' = IF Exists(h) THEN torn \ {h} ELSE torn
          /\ mode' = IF Exists(h) THEN mode ELSE "halted"
          /\ UNCHANGED <<files, tmp>>
     \/ \E t \in tmp :
          /\ tmp' = tmp \ {t}
          /\ files' = IF Exists(Height[t]) THEN files ELSE files \cup {t}
          /\ UNCHANGED <<mode, torn>>
  /\ UNCHANGED <<call, memory, rotten, now, served, budget>>

\* recoverInterruptedBlockWrites, one .tmp file: redundant, promoted or corrupt.
RecoverTmp ==
  /\ mode = "recovering"
  /\ \/ \E h \in torn :
          /\ torn' = torn \ {h}
          /\ mode' = IF Exists(h) THEN mode ELSE "halted"
          /\ UNCHANGED <<files, tmp>>
     \/ \E t \in tmp :
          /\ tmp' = tmp \ {t}
          /\ files' = IF Exists(Height[t]) THEN files ELSE files \cup {t}
          /\ UNCHANGED <<mode, torn>>
  /\ UNCHANGED <<call, memory, rotten, now, served, budget>>

StartReplay ==
  /\ mode = "recovering" /\ tmp = {} /\ torn = {}
  /\ mode' = "replaying"
  /\ UNCHANGED <<call, memory, disk, now, served, budget>>

\* h is the height of the next file in the sorted list of loadFromDisk.
IsNextFile(h) ==
  /\ h > height
  /\ \A f \in files : Height[f] > height => Height[f] >= h
  /\ \A r \in rotten : r > height => r >= h

ReplayRotten(h) ==
  /\ mode = "replaying" /\ step = "free" /\ IsNextFile(h)
  /\ rotten' = rotten \ {h}
  /\ mode' = IF BestEffort /\ IsLastFile(h) THEN mode ELSE "halted"
  /\ UNCHANGED <<call, memory, files, tmp, torn, now, served, budget>>

ReplayFile(b) ==
  /\ mode = "replaying" /\ step = "free" /\ IsNextFile(Height[b])
  /\ IF ApplyChecks(b)
     THEN StartApply(b, "replay") /\ UNCHANGED <<mode, files, served>>
     ELSE files' = files \ {b} /\ QuarantineBlock(b) /\ UNCHANGED call
  /\ UNCHANGED <<memory, rotten, tmp, torn, now, budget>>

FinishReplay ==
  /\ mode = "replaying" /\ step = "free"
  /\ \A f \in files : Height[f] <= height
  /\ \A r \in rotten : r <= height
  /\ mode' = "serving" /\ served' = blocks
  /\ UNCHANGED <<call, memory, disk, now, budget>>

-----------------------------------------------------------------------------
(* The environment: the clock, and a file that decays while it is not read. *)

Tick ==
  /\ now < MaxTime /\ now' = now + 1
  /\ UNCHANGED <<mode, call, memory, disk, served, budget>>

Rot(b) ==
  /\ mode = "down" /\ rots < MaxRot
  /\ files' = files \ {b} /\ rotten' = rotten \cup {Height[b]}
  /\ rots' = rots + 1
  /\ UNCHANGED <<mode, call, memory, tmp, torn, now, served, crashes, faults>>

Startup ==
  \/ Restart \/ RecoverTmp \/ StartReplay \/ FinishReplay
  \/ \E h \in rotten : ReplayRotten(h)
  \/ \E b \in files : ReplayFile(b)

Apply == OpenTmp \/ WriteTmp \/ Commit \/ Refuse

Next ==
  \/ \E b \in Block : Deliver(b)
  \/ \E b \in Block : Propose(b)
  \/ Apply \/ Drain \/ Fault
  \/ Stop \/ Crash \/ Startup
  \/ Tick \/ \E b \in files : Rot(b)

\* The supervisor restarts the daemon (Restart= in the unit that install.sh
\* writes), and the code between two system calls does not stop by itself.
Fairness == WF_vars(Startup) /\ WF_vars(Apply) /\ WF_vars(Drain)

Spec == Init /\ [][Next]_vars
FairSpec == Spec /\ Fairness

-----------------------------------------------------------------------------
(* Properties. *)

\* Every variable has the type of the code: the chain and the buffer hold
\* blocks, the .tmp files and the undecodable files are known by their heights.
TypeOK ==
  /\ mode \in {"serving", "down", "recovering", "replaying", "halted"}
  /\ step \in {"free", "open", "torn", "full", "drain"}
  /\ job \in Block \cup {NoBlock}
  /\ caller \in Callers
  /\ blocks \in Seq(Block) /\ served \in Seq(Block)
  /\ pending \in SUBSET Block
  /\ finalizedHeight \in Nat
  /\ files \in SUBSET Block /\ tmp \in SUBSET Block
  /\ rotten \in SUBSET Int /\ torn \in SUBSET Int
  /\ now \in Nat /\ crashes \in Nat /\ faults \in Nat /\ rots \in Nat

\* Neither the drain loop nor replay looks at the time order the way a handler
\* does, yet on every chain a node holds, at any moment of a call or of replay,
\* each block names its parent and is younger than it (the "stale timestamp" and
\* "bad prevhash" errors of chain_core.go).
ChainSound ==
  /\ \A h \in 1 .. height :
       /\ Height[blocks[h]] = h
       /\ Verdict[blocks[h]] = "ok"
       /\ Prev[blocks[h]] = IF h = 1 THEN Genesis ELSE blocks[h - 1]
  /\ \A h \in 2 .. height : Time[blocks[h]] > Time[blocks[h - 1]]

\* Between two calls the buffer holds at most one block per height, and none the
\* chain has reached or could take at once: the drain loop leaves nothing behind,
\* so "successor already buffered" (chain_core.go:687) never stops the proposer.
BufferAhead ==
  (mode = "serving" /\ step = "free") =>
    /\ \A p \in pending : Height[p] \in height + 2 .. height + BufferDistance
    /\ \A p, q \in pending : Height[p] = Height[q] => p = q

\* Whatever the node has served is on the disk under its final name, alone at its
\* height, whenever the node may die: persistBlockLocked comes before the commit.
ServedIsDurable ==
  /\ \A h \in 1 .. Len(served) : FilesAt(h) = {served[h]}
  /\ rotten = {}

\* The disk is never more than one block ahead of what was served, so that a
\* restart cannot bring up blocks that no call has accepted one by one.
OneFileAhead ==
  /\ \A f \in files \cup tmp : Height[f] \in 1 .. Len(served) + 1
  /\ \A h \in torn : h \in 1 .. Len(served) + 1

\* No block the node holds, in memory or on disk, is further ahead of its clock
\* than the skew a handler tolerates, so a proposer that builds on it waits at most
\* that long before its own time is younger than its parent's.
NotAheadOfClock ==
  \A b \in pending \cup files \cup tmp : Time[b] <= now + FutureSkew

\* The finalized height is FinalityDepth below the chain, in replay as in serving:
\* a restarted node finalizes exactly what it had finalized before.
FinalityLag ==
  mode \in {"serving", "replaying"} =>
    finalizedHeight = IF height > FinalityDepth THEN height - FinalityDepth ELSE 0

\* The store is a durable log to its readers: no crash, and no failed write of a
\* serving node, ever takes back or replaces a block that was served.
Log == INSTANCE DurableLog WITH log <- served, up <- (mode = "serving")
LogSpec == Log!Spec

\* Once crashes stop, a node that is down serves again: recovery, replay and the
\* restarts after a halt end, each halt having removed a file.
ComesBack == (mode = "down") ~> (mode = "serving")

\* A node whose files did not decay, whose writes did not fail and that was never
\* cut off in a write starts up again ("Startup succeeds with snapshot replay and
\* block replay completing", LAUNCH_CANDIDATE_RUNBOOK.md:12).
StartupSucceeds == mode # "halted"
=============================================================================
