---------------------------- MODULE ChainNodeProofs ----------------------------
(***************************************************************************)
(* What ChainNode promises for every set of blocks, every bound and every  *)
(* schedule of crashes.  IInv holds whatever fails; DInv, the durability   *)
(* of what was served, needs files that do not decay and replays whose     *)
(* writes do not fail.                                                     *)
(***************************************************************************)
EXTENDS ChainNode, TLAPS

\* A block is younger than the parent it names.
Younger(b) == Prev[b] = Genesis \/ Time[b] > Time[Prev[b]]

\* While a block is being written it still is the successor of the tip, because
\* the lock of the chain is held since the checks.
JobOK ==
  IF step \in {"open", "torn", "full"}
  THEN /\ job \in Block /\ ApplyChecks(job) /\ Younger(job)
       /\ Time[job] <= now + FutureSkew
       /\ mode = IF caller = "replay" THEN "replaying" ELSE "serving"
  ELSE /\ job = NoBlock
       /\ step = "drain" => mode = "serving"

\* Every block that can come back after a restart passed the time checks.
DiskOK ==
  \A b \in files \cup tmp : Younger(b) /\ Time[b] <= now + FutureSkew

MemoryOK ==
  /\ mode \in {"down", "recovering"} => blocks = <<>> /\ finalizedHeight = 0
  /\ mode # "serving" => pending = {}

\* The buffer, at any moment of a call: the drain loop may still find a successor,
\* a write that is under way cannot.
PendingOK ==
  mode = "serving" =>
    /\ \A p \in pending :
         /\ Height[p] \in height + 1 .. height + BufferDistance
         /\ step # "drain" => Height[p] # height + 1
         /\ Time[p] <= now + FutureSkew
    /\ \A p, q \in pending : Height[p] = Height[q] => p = q

IInv ==
  /\ TypeOK /\ JobOK /\ DiskOK /\ MemoryOK /\ PendingOK /\ FinalityLag
  /\ ChainSound

-----------------------------------------------------------------------------
(* IInv is inductive. *)

\* The invariant holds before the first start.
LEMMA IInvInit == Init => IInv
  BY BlockAssumption, ParameterAssumption
  DEF Init, IInv, TypeOK, JobOK, DiskOK, MemoryOK, PendingOK, FinalityLag, ChainSound,
      Callers, height

\* Truncating the .tmp file preserves the invariant.
LEMMA StepOpenTmp ==
  ASSUME IInv, OpenTmp
  PROVE  IInv'
  <1> USE BlockAssumption, ParameterAssumption DEF IInv, vars, memory, disk, call, budget
  <1>1. TypeOK'
    <2>1. Height[job] \in Int
      BY DEF OpenTmp, JobOK
    <2>2. torn' \in SUBSET Int /\ tmp' \in SUBSET Block /\ step' = "torn"
      BY <2>1 DEF OpenTmp, TypeOK
    <2> HIDE BlockAssumption, ParameterAssumption DEF IInv
    <2>3. TypeOK
      BY DEF IInv
    <2>4. QED
      BY <2>2, <2>3 DEF OpenTmp, TypeOK
  <1>2. JobOK'
    BY DEF OpenTmp, JobOK, ApplyChecks, IsSuccessor, Tip, height
  <1>3. DiskOK'
    BY DEF OpenTmp, DiskOK
  <1>4. MemoryOK'
    BY DEF OpenTmp, MemoryOK
  <1>5. PendingOK'
    BY DEF OpenTmp, PendingOK, height
  <1>6. FinalityLag'
    BY DEF OpenTmp, FinalityLag, height
  <1>7. ChainSound'
    BY DEF OpenTmp, ChainSound, height
  <1>8. QED
    BY <1>1, <1>2, <1>3, <1>4, <1>5, <1>6, <1>7

\* Filling the .tmp file preserves the invariant.
LEMMA StepWriteTmp ==
  ASSUME IInv, WriteTmp
  PROVE  IInv'
  <1> USE BlockAssumption, ParameterAssumption DEF IInv, vars, memory, disk, call, budget
  <1>1. TypeOK'
    BY DEF WriteTmp, TypeOK, JobOK
  <1>2. JobOK'
    BY DEF WriteTmp, JobOK, ApplyChecks, IsSuccessor, Tip, height
  <1>3. DiskOK'
    BY DEF WriteTmp, JobOK, DiskOK
  <1>4. MemoryOK'
    BY DEF WriteTmp, MemoryOK
  <1>5. PendingOK'
    BY DEF WriteTmp, PendingOK, height
  <1>6. FinalityLag'
    BY DEF WriteTmp, FinalityLag, height
  <1>7. ChainSound'
    BY DEF WriteTmp, ChainSound, height
  <1>8. QED
    BY <1>1, <1>2, <1>3, <1>4, <1>5, <1>6, <1>7

\* The rename and the commit of a block preserves the invariant.
LEMMA StepCommit ==
  ASSUME IInv, Commit
  PROVE  IInv'
  <1> USE BlockAssumption, ParameterAssumption DEF IInv, vars, memory, disk, call, budget
  <1>1. TypeOK'
    <2>1. job \in Block /\ blocks' \in Seq(Block) /\ served' \in Seq(Block)
      BY DEF Commit, JobOK, TypeOK
    <2>2. finalizedHeight' \in Nat
      <3>1. height + 1 \in Nat
        BY DEF height
      <3>2. QED
        BY <3>1 DEF Commit, AdvanceFinality, TypeOK
    <2>3. files' \in SUBSET Block /\ tmp' \in SUBSET Block /\ rotten' \in SUBSET Int
      BY <2>1 DEF Commit, RenameTmp, TypeOK
    <2>4. QED
      BY <2>1, <2>2, <2>3 DEF Commit, RenameTmp, Return, TypeOK
  <1>2. JobOK'
    BY DEF Commit, Return, JobOK
  <1>3. DiskOK'
    BY DEF Commit, RenameTmp, JobOK, DiskOK
  <1>4. MemoryOK'
    BY DEF Commit, JobOK, MemoryOK
  <1>5. PendingOK'
    BY DEF Commit, RenameTmp, AdvanceFinality, Return, JobOK, PendingOK, height
  <1>6. FinalityLag'
    BY DEF Commit, AdvanceFinality, FinalityLag, height
  <1>7. ChainSound'
    <2>1. job \in Block /\ ApplyChecks(job) /\ Younger(job) /\ blocks \in Seq(Block)
      BY DEF Commit, JobOK, TypeOK
    <2>2. blocks' = Append(blocks, job) /\ Len(blocks') = height + 1 /\ height \in Nat
      BY <2>1 DEF Commit, height
    <2>3. \A h \in 1 .. height : blocks'[h] = blocks[h]
      BY <2>1, <2>2
    <2>4. blocks'[height + 1] = job
      BY <2>1, <2>2
    <2>5. \A h \in 1 .. height + 1 :
            /\ Height[blocks'[h]] = h
            /\ Verdict[blocks'[h]] = "ok"
            /\ Prev[blocks'[h]] = IF h = 1 THEN Genesis ELSE blocks'[h - 1]
      <3>1. CASE height = 0
        BY <2>1, <2>4, <3>1 DEF Commit, ApplyChecks, IsSuccessor, Tip, height
      <3>2. ASSUME height > 0 PROVE Prev[job] = blocks'[height]
        BY <2>1, <2>2, <2>3, <3>2 DEF ApplyChecks, Tip
      <3>3. CASE height > 0
        BY <2>1, <2>2, <2>3, <2>4, <3>2, <3>3, SMTT(60)
        DEF Commit, ApplyChecks, IsSuccessor, ChainSound
      <3>4. QED
        BY <2>2, <3>1, <3>3
    <2>6. \A h \in 2 .. height + 1 : Time[blocks'[h]] > Time[blocks'[h - 1]]
      <3>1. ASSUME height >= 1 PROVE Time[job] > Time[blocks'[height]]
        <4>1. Prev[job] = blocks[height] /\ blocks[height] \in Block
          BY <2>1, <2>2, <3>1 DEF ApplyChecks, Tip
        <4>2. QED
          BY <2>1, <2>2, <2>3, <3>1, <4>1 DEF Younger
      <3>2. QED
        BY <2>2, <2>3, <2>4, <3>1 DEF ChainSound
    <2>7. QED
      BY <2>2, <2>5, <2>6 DEF ChainSound, height
  <1>8. QED
    BY <1>1, <1>2, <1>3, <1>4, <1>5, <1>6, <1>7

\* The refusal of a block that is already persisted preserves the invariant.
LEMMA StepRefuse ==
  ASSUME IInv, Refuse
  PROVE  IInv'
  <1> USE BlockAssumption, ParameterAssumption DEF IInv, vars, memory, disk, call, budget
  <1>1. TypeOK'
    BY DEF Refuse, RenameTmp, QuarantineBlock, Return, TypeOK, JobOK
  <1>2. JobOK'
    BY DEF Refuse, Return, JobOK
  <1>3. DiskOK'
    <2>1. \A b \in files' \cup tmp' : b \in files \cup tmp \cup {job}
      BY DEF Refuse, RenameTmp
    <2>2. QED
      BY <2>1 DEF Refuse, DiskOK, JobOK
  <1>4. MemoryOK'
    BY DEF Refuse, QuarantineBlock, JobOK, MemoryOK
  <1>5. PendingOK'
    BY DEF Refuse, MemoryOK, PendingOK, height
  <1>6. FinalityLag'
    BY DEF Refuse, JobOK, FinalityLag, height
  <1>7. ChainSound'
    BY DEF Refuse, ChainSound, height
  <1>8. QED
    BY <1>1, <1>2, <1>3, <1>4, <1>5, <1>6, <1>7

\* A failed system call preserves the invariant.
LEMMA StepFault ==
  ASSUME IInv, Fault
  PROVE  IInv'
  <1> USE BlockAssumption, ParameterAssumption DEF IInv, vars, memory, disk, call, budget
  <1>1. TypeOK'
    <2>1. job \in Block
      BY DEF Fault, JobOK
    <2>2. files' \in SUBSET Block /\ tmp' \in SUBSET Block
      BY <2>1 DEF Fault, FaultedDisk, RenameTmp, TypeOK
    <2>3. rotten' \in SUBSET Int /\ torn' \in SUBSET Int
      BY DEF Fault, FaultedDisk, RenameTmp, TypeOK
    <2>4. mode' \in {"replaying", "serving", "halted"} /\ served' \in Seq(Block)
      BY DEF Fault, QuarantineBlock, TypeOK, JobOK
    <2>5. QED
      BY <2>2, <2>3, <2>4 DEF Fault, Return, TypeOK
  <1>2. JobOK'
    BY DEF Fault, Return, JobOK
  <1>3. DiskOK'
    BY DEF Fault, FaultedDisk, RenameTmp, JobOK, DiskOK
  <1>4. MemoryOK'
    BY DEF Fault, QuarantineBlock, JobOK, MemoryOK
  <1>5. PendingOK'
    BY DEF Fault, MemoryOK, PendingOK, height
  <1>6. FinalityLag'
    BY DEF Fault, JobOK, FinalityLag, height
  <1>7. ChainSound'
    BY DEF Fault, ChainSound, height
  <1>8. QED
    BY <1>1, <1>2, <1>3, <1>4, <1>5, <1>6, <1>7

\* A block that arrives or is proposed preserves the invariant.
LEMMA StepDeliver ==
  ASSUME IInv, NEW b \in Block, ApplyOrBuffer(b)
  PROVE  IInv'
  <1> USE BlockAssumption, ParameterAssumption DEF IInv, vars, memory, disk, call, budget
  <1>1. TypeOK'
    <2>1. pending' \in SUBSET Block
      BY DEF ApplyOrBuffer, TypeOK
    <2>2. step' \in {"free", "open"} /\ job' \in Block \cup {NoBlock} /\ caller' \in Callers
      BY DEF ApplyOrBuffer, StartApply, TypeOK, Callers
    <2>3. QED
      BY <2>1, <2>2 DEF ApplyOrBuffer, TypeOK
  <1>2. JobOK'
    BY
    DEF ApplyOrBuffer, IsSuccessor, StartApply, Fresh, NotFuture, JobOK, ApplyChecks, Tip,
        Younger, Newer, height
  <1>3. DiskOK'
    BY DEF ApplyOrBuffer, DiskOK
  <1>4. MemoryOK'
    BY DEF ApplyOrBuffer, MemoryOK
  <1>5. PendingOK'
    BY DEF ApplyOrBuffer, Fresh, NotFuture, PendingAt, PendingOK, height
  <1>6. FinalityLag'
    BY DEF ApplyOrBuffer, FinalityLag, height
  <1>7. ChainSound'
    BY DEF ApplyOrBuffer, IsSuccessor, ChainSound, height
  <1>8. QED
    BY <1>1, <1>2, <1>3, <1>4, <1>5, <1>6, <1>7

\* A turn of drainPendingLocked preserves the invariant.
LEMMA StepDrain ==
  ASSUME IInv, Drain
  PROVE  IInv'
  <1> USE BlockAssumption, ParameterAssumption DEF IInv, vars, memory, disk, call, budget
  <1>1. TypeOK'
    <2>1. pending' \in SUBSET Block
      BY DEF Drain, TypeOK
    <2>2. step' \in {"free", "open", "drain"} /\ job' \in Block \cup {NoBlock} /\ caller' \in Callers
      BY DEF Drain, PendingAt, StartApply, TypeOK, Callers
    <2>3. QED
      BY <2>1, <2>2 DEF Drain, TypeOK
  <1>2. JobOK'
    <2>1. CASE UNCHANGED <<job, caller, pending>> /\ step' = "free"
      BY <2>1 DEF Drain, JobOK
    <2>2. ASSUME NEW b \in PendingAt(height + 1), Newer(b), ApplyChecks(b), StartApply(b, "drain")
          PROVE  JobOK'
      <3>1. b \in Block /\ b \in pending
        BY <2>2 DEF PendingAt, TypeOK
      <3>2. Younger(b)
        BY <2>2, <3>1 DEF Newer, ApplyChecks, Tip, Younger
      <3>3. Time[b] <= now + FutureSkew
        BY <3>1 DEF PendingOK, Drain, JobOK
      <3>4. QED
        BY <2>2, <3>1, <3>2, <3>3
        DEF Drain, JobOK, StartApply, ApplyChecks, IsSuccessor, Tip, height
    <2>3. CASE UNCHANGED call
      BY <2>3 DEF Drain, JobOK
    <2>4. QED
      BY <2>1, <2>2, <2>3 DEF Drain
  <1>3. DiskOK'
    BY DEF Drain, DiskOK
  <1>4. MemoryOK'
    BY DEF Drain, MemoryOK
  <1>5. PendingOK'
    BY DEF Drain, PendingAt, PendingOK, height
  <1>6. FinalityLag'
    BY DEF Drain, FinalityLag, height
  <1>7. ChainSound'
    BY DEF Drain, ChainSound, height
  <1>8. QED
    BY <1>1, <1>2, <1>3, <1>4, <1>5, <1>6, <1>7

\* An orderly stop preserves the invariant.
LEMMA StepStop ==
  ASSUME IInv, Stop
  PROVE  IInv'
  <1> USE BlockAssumption, ParameterAssumption DEF IInv, vars, memory, disk, call, budget
  <1>1. TypeOK'
    BY DEF Stop, LoseMemory, TypeOK
  <1>2. JobOK'
    BY DEF Stop, JobOK
  <1>3. DiskOK'
    BY DEF Stop, DiskOK
  <1>4. MemoryOK'
    BY DEF Stop, LoseMemory, MemoryOK
  <1>5. PendingOK'
    BY DEF Stop, PendingOK
  <1>6. FinalityLag'
    BY DEF Stop, FinalityLag
  <1>7. ChainSound'
    BY DEF Stop, LoseMemory, ChainSound, height
  <1>8. QED
    BY <1>1, <1>2, <1>3, <1>4, <1>5, <1>6, <1>7

\* A crash, with any write cut short, preserves the invariant.
LEMMA StepCrash ==
  ASSUME IInv, Crash
  PROVE  IInv'
  <1> USE BlockAssumption, ParameterAssumption DEF IInv, vars, memory, disk, call, budget
  <1>1. TypeOK'
    <2>1. job \in Block \/ step \notin {"open", "torn", "full"}
      BY DEF JobOK
    <2>2. files' \in SUBSET Block /\ tmp' \in SUBSET Block
      BY <2>1 DEF Crash, CrashedDisk, RenameTmp, TypeOK
    <2>3. rotten' \in SUBSET Int /\ torn' \in SUBSET Int
      BY DEF Crash, CrashedDisk, RenameTmp, TypeOK
    <2>4. QED
      BY <2>2, <2>3 DEF Crash, LoseMemory, TypeOK
  <1>2. JobOK'
    BY DEF Crash, JobOK
  <1>3. DiskOK'
    BY DEF Crash, CrashedDisk, RenameTmp, JobOK, DiskOK
  <1>4. MemoryOK'
    BY DEF Crash, LoseMemory, MemoryOK
  <1>5. PendingOK'
    BY DEF Crash, PendingOK
  <1>6. FinalityLag'
    BY DEF Crash, FinalityLag
  <1>7. ChainSound'
    BY DEF Crash, LoseMemory, ChainSound, height
  <1>8. QED
    BY <1>1, <1>2, <1>3, <1>4, <1>5, <1>6, <1>7

\* A start of the daemon preserves the invariant.
LEMMA StepRestart ==
  ASSUME IInv, Restart
  PROVE  IInv'
  <1> USE BlockAssumption, ParameterAssumption DEF IInv, vars, memory, disk, call, budget
  <1>1. TypeOK'
    BY DEF Restart, LoseMemory, TypeOK
  <1>2. JobOK'
    BY DEF Restart, JobOK
  <1>3. DiskOK'
    BY DEF Restart, DiskOK
  <1>4. MemoryOK'
    BY DEF Restart, LoseMemory, MemoryOK
  <1>5. PendingOK'
    BY DEF Restart, PendingOK
  <1>6. FinalityLag'
    BY DEF Restart, FinalityLag
  <1>7. ChainSound'
    BY DEF Restart, LoseMemory, ChainSound, height
  <1>8. QED
    BY <1>1, <1>2, <1>3, <1>4, <1>5, <1>6, <1>7

\* The recovery of one .tmp file preserves the invariant.
LEMMA StepRecoverTmp ==
  ASSUME IInv, RecoverTmp
  PROVE  IInv'
  <1> USE BlockAssumption, ParameterAssumption DEF IInv, vars, memory, disk, call, budget
  <1>1. TypeOK'
    BY DEF RecoverTmp, TypeOK
  <1>2. JobOK'
    BY DEF RecoverTmp, JobOK
  <1>3. DiskOK'
    BY DEF RecoverTmp, DiskOK
  <1>4. MemoryOK'
    BY DEF RecoverTmp, MemoryOK
  <1>5. PendingOK'
    BY DEF RecoverTmp, PendingOK
  <1>6. FinalityLag'
    BY DEF RecoverTmp, FinalityLag
  <1>7. ChainSound'
    BY DEF RecoverTmp, ChainSound, height
  <1>8. QED
    BY <1>1, <1>2, <1>3, <1>4, <1>5, <1>6, <1>7

\* The start of replay preserves the invariant.
LEMMA StepStartReplay ==
  ASSUME IInv, StartReplay
  PROVE  IInv'
  <1> USE BlockAssumption, ParameterAssumption DEF IInv, vars, memory, disk, call, budget
  <1>1. TypeOK'
    BY DEF StartReplay, TypeOK
  <1>2. JobOK'
    BY DEF StartReplay, JobOK
  <1>3. DiskOK'
    BY DEF StartReplay, DiskOK
  <1>4. MemoryOK'
    BY DEF StartReplay, MemoryOK
  <1>5. PendingOK'
    BY DEF StartReplay, PendingOK
  <1>6. FinalityLag'
    BY DEF StartReplay, MemoryOK, FinalityLag, height
  <1>7. ChainSound'
    BY DEF StartReplay, ChainSound, height
  <1>8. QED
    BY <1>1, <1>2, <1>3, <1>4, <1>5, <1>6, <1>7

\* Replay of a file that does not decode preserves the invariant.
LEMMA StepReplayRotten ==
  ASSUME IInv, NEW b \in rotten, ReplayRotten(b)
  PROVE  IInv'
  <1> USE BlockAssumption, ParameterAssumption DEF IInv, vars, memory, disk, call, budget
  <1>1. TypeOK'
    BY DEF ReplayRotten, TypeOK
  <1>2. JobOK'
    BY DEF ReplayRotten, JobOK
  <1>3. DiskOK'
    BY DEF ReplayRotten, DiskOK
  <1>4. MemoryOK'
    BY DEF ReplayRotten, MemoryOK
  <1>5. PendingOK'
    BY DEF ReplayRotten, PendingOK
  <1>6. FinalityLag'
    BY DEF ReplayRotten, FinalityLag, height
  <1>7. ChainSound'
    BY DEF ReplayRotten, ChainSound, height
  <1>8. QED
    BY <1>1, <1>2, <1>3, <1>4, <1>5, <1>6, <1>7

\* Replay of one block file preserves the invariant.
LEMMA StepReplayFile ==
  ASSUME IInv, NEW b \in files, ReplayFile(b)
  PROVE  IInv'
  <1> USE BlockAssumption, ParameterAssumption DEF IInv, vars, memory, disk, call, budget
  <1>1. TypeOK'
    <2>1. mode' \in {"replaying", "serving", "halted"} /\ served' \in Seq(Block)
      BY DEF ReplayFile, QuarantineBlock, TypeOK
    <2>2. step' \in {"free", "open"} /\ job' \in Block \cup {NoBlock} /\ caller' \in Callers
      BY DEF ReplayFile, StartApply, TypeOK, Callers
    <2>3. files' \in SUBSET Block
      BY DEF ReplayFile, TypeOK
    <2>4. QED
      BY <2>1, <2>2, <2>3 DEF ReplayFile, TypeOK
  <1>2. JobOK'
    BY
    DEF ReplayFile, StartApply, TypeOK, JobOK, DiskOK, ApplyChecks, IsSuccessor, Tip, height
  <1>3. DiskOK'
    BY DEF ReplayFile, DiskOK
  <1>4. MemoryOK'
    BY DEF ReplayFile, QuarantineBlock, MemoryOK
  <1>5. PendingOK'
    BY DEF ReplayFile, MemoryOK, PendingOK
  <1>6. FinalityLag'
    BY DEF ReplayFile, FinalityLag, height
  <1>7. ChainSound'
    BY DEF ReplayFile, ChainSound, height
  <1>8. QED
    BY <1>1, <1>2, <1>3, <1>4, <1>5, <1>6, <1>7

\* The end of replay preserves the invariant.
LEMMA StepFinishReplay ==
  ASSUME IInv, FinishReplay
  PROVE  IInv'
  <1> USE BlockAssumption, ParameterAssumption DEF IInv, vars, memory, disk, call, budget
  <1>1. TypeOK'
    BY DEF FinishReplay, TypeOK
  <1>2. JobOK'
    BY DEF FinishReplay, JobOK
  <1>3. DiskOK'
    BY DEF FinishReplay, DiskOK
  <1>4. MemoryOK'
    BY DEF FinishReplay, MemoryOK
  <1>5. PendingOK'
    BY DEF FinishReplay, MemoryOK, PendingOK
  <1>6. FinalityLag'
    BY DEF FinishReplay, FinalityLag, height
  <1>7. ChainSound'
    BY DEF FinishReplay, ChainSound, height
  <1>8. QED
    BY <1>1, <1>2, <1>3, <1>4, <1>5, <1>6, <1>7

\* The clock preserves the invariant.
LEMMA StepTick ==
  ASSUME IInv, Tick
  PROVE  IInv'
  <1> USE BlockAssumption, ParameterAssumption DEF IInv, vars, memory, disk, call, budget
  <1>1. TypeOK'
    BY DEF Tick, TypeOK
  <1>2. JobOK'
    BY DEF Tick, TypeOK, JobOK, ApplyChecks, IsSuccessor, Tip, height
  <1>3. DiskOK'
    BY DEF Tick, TypeOK, DiskOK
  <1>4. MemoryOK'
    BY DEF Tick, MemoryOK
  <1>5. PendingOK'
    BY DEF Tick, TypeOK, PendingOK, height
  <1>6. FinalityLag'
    BY DEF Tick, FinalityLag, height
  <1>7. ChainSound'
    BY DEF Tick, ChainSound, height
  <1>8. QED
    BY <1>1, <1>2, <1>3, <1>4, <1>5, <1>6, <1>7

\* The decay of a file preserves the invariant.
LEMMA StepRot ==
  ASSUME IInv, NEW b \in files, Rot(b)
  PROVE  IInv'
  <1> USE BlockAssumption, ParameterAssumption DEF IInv, vars, memory, disk, call, budget
  <1>1. TypeOK'
    <2>1. Height[b] \in Int
      BY DEF TypeOK
    <2>2. rotten' \in SUBSET Int /\ files' \in SUBSET Block
      BY <2>1 DEF Rot, TypeOK
    <2>3. QED
      BY <2>2 DEF Rot, TypeOK
  <1>2. JobOK'
    BY DEF Rot, JobOK
  <1>3. DiskOK'
    BY DEF Rot, DiskOK
  <1>4. MemoryOK'
    BY DEF Rot, MemoryOK
  <1>5. PendingOK'
    BY DEF Rot, PendingOK
  <1>6. FinalityLag'
    BY DEF Rot, FinalityLag
  <1>7. ChainSound'
    BY DEF Rot, ChainSound, height
  <1>8. QED
    BY <1>1, <1>2, <1>3, <1>4, <1>5, <1>6, <1>7

\* A stuttering step preserves the invariant.
LEMMA StepStutter == IInv /\ UNCHANGED vars => IInv'
  BY DEF IInv, vars, memory, disk, call, budget, TypeOK, JobOK, DiskOK, MemoryOK,
         PendingOK, FinalityLag, ChainSound, ApplyChecks, IsSuccessor, Tip, Younger, height

\* Every step preserves the invariant.
LEMMA IInvNext == IInv /\ [Next]_vars => IInv'
  <1> SUFFICES ASSUME IInv, [Next]_vars PROVE IInv'
    OBVIOUS
  <1>1. ASSUME NEW b \in Block, ApplyOrBuffer(b) PROVE IInv'
    BY <1>1, StepDeliver
  <1>2. CASE Apply
    BY <1>2, StepOpenTmp, StepWriteTmp, StepCommit, StepRefuse DEF Apply
  <1>3. CASE Drain \/ Fault \/ Stop \/ Crash
    BY <1>3, StepDrain, StepFault, StepStop, StepCrash
  <1>4. CASE Startup
    <2>1. CASE Restart \/ RecoverTmp \/ StartReplay \/ FinishReplay
      BY <2>1, StepRestart, StepRecoverTmp, StepStartReplay, StepFinishReplay
    <2>2. ASSUME NEW h \in rotten, ReplayRotten(h) PROVE IInv'
      BY <2>2, StepReplayRotten
    <2>3. ASSUME NEW b \in files, ReplayFile(b) PROVE IInv'
      BY <2>3, StepReplayFile
    <2>4. QED
      BY <1>4, <2>1, <2>2, <2>3 DEF Startup
  <1>5. CASE Tick
    BY <1>5, StepTick
  <1>6. ASSUME NEW b \in files, Rot(b) PROVE IInv'
    BY <1>6, StepRot
  <1>7. CASE UNCHANGED vars
    BY <1>7, StepStutter
  <1>8. QED
    BY <1>1, <1>2, <1>3, <1>4, <1>5, <1>6, <1>7 DEF Next, Deliver, Propose

\* The invariant of the block store holds whatever crashes, fails or decays.
THEOREM Invariance == Spec => []IInv
  <1>1. QED
    BY IInvInit, IInvNext, PTL DEF Spec

\* For every set of blocks, bound and fault: the chain a node holds is linked by
\* hashes and strictly younger block by block, in replay as in serving, even when
\* files decay and writes fail (applyBlockLocked, drainPendingLocked, loadFromDisk).
THEOREM Soundness == Spec => []ChainSound
  BY Invariance, PTL DEF IInv

\* The variables keep their types.
THEOREM Typing == Spec => []TypeOK
  BY Invariance, PTL DEF IInv

\* The drain loop leaves no block in the buffer that the chain could take.
THEOREM BufferIsAhead == Spec => []BufferAhead
  <1>1. IInv => BufferAhead
    BY BlockAssumption, ParameterAssumption DEF IInv, PendingOK, BufferAhead, height
  <1>2. QED
    BY <1>1, Invariance, PTL

\* A restarted node finalizes exactly what it had finalized before.
THEOREM Finality == Spec => []FinalityLag
  BY Invariance, PTL DEF IInv

\* No stored block is further ahead of the clock than the tolerated skew.
THEOREM ClockSkew == Spec => []NotAheadOfClock
  <1>1. IInv => NotAheadOfClock
    BY DEF IInv, PendingOK, DiskOK, MemoryOK, NotAheadOfClock
  <1>2. QED
    BY <1>1, Invariance, PTL

-----------------------------------------------------------------------------
(* Durability: what was served is on the disk. *)

\* Served blocks form a chain, whole on the disk.
ServedOK ==
  \A h \in 1 .. Len(served) :
    /\ served[h] \in files
    /\ Height[served[h]] = h
    /\ Verdict[served[h]] = "ok"
    /\ Prev[served[h]] = IF h = 1 THEN Genesis ELSE served[h - 1]

OneFilePerHeight == \A f, g \in files : Height[f] = Height[g] => f = g

\* Replay walks along the files; it can only end one block beyond what was served.
ReplayOK ==
  /\ mode = "serving" => blocks = served
  /\ mode = "replaying" =>
       /\ height <= Len(served) + 1
       /\ \A h \in 1 .. height : blocks[h] \in files
  /\ job # NoBlock /\ caller = "replay" => job \in files

DInv ==
  /\ rotten = {}
  /\ ServedOK /\ OneFilePerHeight /\ OneFileAhead /\ ReplayOK

\* Two sequences with the same length and elements are equal.
LEMMA SameSeq ==
  ASSUME NEW S, NEW s \in Seq(S), NEW t \in Seq(S), Len(s) = Len(t),
         \A i \in 1 .. Len(s) : s[i] = t[i]
  PROVE  s = t
  OBVIOUS

\* A sequence that is one longer and agrees with the shorter one extends it.
LEMMA OneLonger ==
  ASSUME NEW S, NEW s \in Seq(S), NEW t \in Seq(S), Len(s) = Len(t) + 1,
         \A i \in 1 .. Len(t) : s[i] = t[i]
  PROVE  s = Append(t, s[Len(s)]) /\ s[Len(s)] \in S
  <1>1. s[Len(s)] \in S
    OBVIOUS
  <1>2. Append(t, s[Len(s)]) \in Seq(S) /\ Len(Append(t, s[Len(s)])) = Len(s)
    BY <1>1
  <1>3. \A i \in 1 .. Len(s) : s[i] = Append(t, s[Len(s)])[i]
    BY <1>1
  <1>4. QED
    BY <1>1, <1>2, <1>3, SameSeq

\* As far as it goes, the chain that replay rebuilds is the one that was served.
LEMMA ReplayFollows ==
  ASSUME IInv, DInv, mode = "replaying", NEW h \in 1 .. height, h <= Len(served)
  PROVE  blocks[h] = served[h]
  BY DEF IInv, DInv, ChainSound, ServedOK, OneFilePerHeight, ReplayOK

\* The block being written is the next one of the served chain, or the one after.
LEMMA JobIsNext ==
  ASSUME IInv, DInv, step \in {"open", "torn", "full"}
  PROVE  /\ Height[job] = height + 1 /\ height \in Nat /\ job \in Block
         /\ height <= Len(served)
         /\ height < Len(served) => job = served[height + 1] /\ mode = "replaying"
         /\ mode # "replaying" => mode = "serving" /\ caller # "replay"
  <1> USE DEF IInv, DInv, JobOK, TypeOK, ApplyChecks, IsSuccessor, height
  <1>1. CASE mode = "serving"
    BY <1>1 DEF ReplayOK
  <1>2. CASE mode = "replaying"
    <2>1. job \in files /\ Height[job] = height + 1
      BY <1>2, BlockAssumption DEF ReplayOK
    <2>2. height + 1 <= Len(served) + 1
      BY <2>1 DEF OneFileAhead
    <2>3. height < Len(served) => job = served[height + 1]
      BY <2>1 DEF ServedOK, OneFilePerHeight
    <2>4. QED
      BY <1>2, <2>1, <2>2, <2>3, BlockAssumption
  <1>3. QED
    BY <1>1, <1>2

\* The rename loses nothing that was served and adds at most the block written.
LEMMA RenameKeeps ==
  ASSUME IInv, DInv, step = "full", RenameTmp
  PROVE  /\ files' \subseteq files \cup {job} /\ tmp' \subseteq tmp /\ torn' = torn
         /\ job \in files' /\ rotten' = {}
         /\ \A h \in 1 .. Len(served) : served[h] \in files'
         /\ \A f, g \in files' : Height[f] = Height[g] => f = g
         /\ mode \in {"serving", "replaying"} => \A h \in 1 .. height : blocks[h] \in files'
  <1>1. \A h \in 1 .. Len(served) : served[h] \in files'
    BY JobIsNext DEF RenameTmp, DInv, ServedOK
  <1>2. mode = "replaying" => \A h \in 1 .. height : blocks[h] \in files'
    BY JobIsNext DEF RenameTmp, DInv, ReplayOK, IInv, ChainSound
  <1>3. mode = "serving" => \A h \in 1 .. height : blocks[h] \in files'
    BY <1>1 DEF DInv, ReplayOK, height
  <1>4. QED
    BY <1>1, <1>2, <1>3 DEF RenameTmp, DInv, OneFilePerHeight

\* Replay gives up a file only beyond the chain that was served.
LEMMA ServedAtEnd ==
  ASSUME IInv, DInv, mode = "replaying", height = Len(served)
  PROVE  blocks = served
  BY ReplayFollows, SameSeq DEF IInv, TypeOK, height

\* A file that replay refuses is beyond the chain that was served.
LEMMA RefusedFileIsAhead ==
  ASSUME IInv, DInv, mode = "replaying", NEW b \in files, IsNextFile(Height[b]), ~ApplyChecks(b)
  PROVE  blocks = served /\ Height[b] = Len(served) + 1
  <1>0. \A h \in 1 .. height : h <= Len(served) => blocks[h] = served[h]
    BY ReplayFollows
  <1>9. Len(served) \in Nat
    BY DEF IInv, TypeOK
  <1> USE BlockAssumption DEF IInv, DInv, TypeOK, height
  <1>1. Height[b] > height /\ Height[b] <= Len(served) + 1 /\ Height[b] \in Int
    BY DEF IsNextFile, OneFileAhead
  <1>2. CASE height < Len(served)
    <2>1. served[height + 1] \in files /\ Height[served[height + 1]] = height + 1
      BY <1>2 DEF ServedOK
    <2>2. Height[b] = height + 1 /\ b = served[height + 1]
      <3>1. height + 1 > height /\ height \in Nat
        OBVIOUS
      <3>2. height + 1 >= Height[b]
        BY <2>1, <3>1 DEF IsNextFile
      <3>3. Height[b] = height + 1
        BY <1>1, <3>1, <3>2
      <3>4. QED
        BY <2>1, <3>3 DEF OneFilePerHeight
    <2>3. Prev[b] = Tip
      <3>1. height + 1 \in 1 .. Len(served) /\ height \in Nat
        BY <1>2
      <3>2. Prev[b] = IF height + 1 = 1 THEN Genesis ELSE served[(height + 1) - 1]
        BY <2>2, <3>1 DEF ServedOK
      <3>3. CASE height = 0
        BY <3>2, <3>3 DEF Tip
      <3>4. CASE height > 0
        <4>1. blocks[height] = served[height]
          <5> HIDE BlockAssumption DEF IInv, DInv, TypeOK, height
          <5>1. height \in 1 .. height /\ height <= Len(served)
            BY <1>2, <3>1, <3>4, <1>9
          <5>2. QED
            BY <1>0, <5>1
        <4>2. blocks # <<>> /\ (height + 1) - 1 = height /\ height + 1 # 1
          BY <3>1, <3>4
        <4>3. QED
          BY <3>2, <4>1, <4>2 DEF Tip
      <3>5. QED
        BY <3>1, <3>3, <3>4
    <2>4. Verdict[b] = "ok"
      BY <2>2, <1>2 DEF ServedOK
    <2>5. QED
      BY <2>2, <2>3, <2>4 DEF ApplyChecks, IsSuccessor
  <1>3. CASE height >= Len(served)
    <2>1. height = Len(served)
      BY <1>1, <1>3
    <2>2. QED
      BY <1>1, <2>1, ServedAtEnd
  <1>4. QED
    BY <1>2, <1>3

\* What replay has rebuilt when it reaches the end of the files.
LEMMA ReplayedAll ==
  ASSUME IInv, DInv, FinishReplay
  PROVE  \/ blocks = served
         \/ \E b \in Block : blocks = Append(served, b)
  <1> USE DEF IInv, DInv, TypeOK, height
  <1>1. height >= Len(served)
    <2> SUFFICES ASSUME height < Len(served) PROVE FALSE
      OBVIOUS
    <2>1. served[height + 1] \in files /\ Height[served[height + 1]] = height + 1
      BY DEF ServedOK
    <2>2. QED
      BY <2>1 DEF FinishReplay
  <1>2. height <= Len(served) + 1
    BY DEF ReplayOK, FinishReplay
  <1>3. CASE height = Len(served)
    BY <1>3, ServedAtEnd DEF FinishReplay
  <1>4. CASE height = Len(served) + 1
    BY <1>4, ReplayFollows, OneLonger DEF FinishReplay
  <1>5. QED
    BY <1>1, <1>2, <1>3, <1>4

\* The files a crash or a failed write leaves behind.
LEMMA CrashLeaves ==
  ASSUME CrashedDisk
  PROVE  \A f \in files' \cup tmp' : f \in files \cup tmp \/ (f = job /\ step \in {"torn", "full"})
  <1>1. CASE UNCHANGED disk
    BY <1>1 DEF disk
  <1>2. CASE step = "torn" /\ files' = files /\ tmp' \in {tmp, tmp \cup {job}}
    BY <1>2
  <1>3. CASE step = "full" /\ tmp' = tmp \ {job} /\ files' = files
    BY <1>3
  <1>4. CASE step = "full" /\ RenameTmp
    BY <1>4 DEF RenameTmp
  <1>5. QED
    BY <1>1, <1>2, <1>3, <1>4 DEF CrashedDisk

\* A failed write leaves the block files alone or has renamed already.
LEMMA FaultLeaves == FaultedDisk => UNCHANGED files \/ (step = "full" /\ RenameTmp)
  BY DEF FaultedDisk, disk

\* Truncating the .tmp file preserves durability and is a step of the log.
LEMMA KeepOpenTmp ==
  ASSUME IInv, DInv, OpenTmp
  PROVE  DInv' /\ [Log!Next]_(Log!logVars)
  <1> USE BlockAssumption, ParameterAssumption DEF IInv, DInv, vars, memory, disk, call, budget
  <1>1. (rotten = {})'
    BY DEF OpenTmp
  <1>2. ServedOK'
    BY DEF OpenTmp, ServedOK
  <1>3. OneFilePerHeight'
    BY DEF OpenTmp, OneFilePerHeight
  <1>4. OneFileAhead'
    BY DEF OpenTmp, JobOK, OneFileAhead, ReplayOK, ApplyChecks, IsSuccessor, height
  <1>5. ReplayOK'
    BY DEF OpenTmp, ReplayOK, height
  <1>6. [Log!Next]_(Log!logVars)
    BY DEF OpenTmp, Log!logVars
  <1>8. QED
    BY <1>1, <1>2, <1>3, <1>4, <1>5, <1>6

\* Filling the .tmp file preserves durability and is a step of the log.
LEMMA KeepWriteTmp ==
  ASSUME IInv, DInv, WriteTmp
  PROVE  DInv' /\ [Log!Next]_(Log!logVars)
  <1> USE BlockAssumption, ParameterAssumption DEF IInv, DInv, vars, memory, disk, call, budget
  <1>1. (rotten = {})'
    BY DEF WriteTmp
  <1>2. ServedOK'
    BY DEF WriteTmp, ServedOK
  <1>3. OneFilePerHeight'
    BY DEF WriteTmp, OneFilePerHeight
  <1>4. OneFileAhead'
    BY DEF WriteTmp, JobOK, OneFileAhead, ReplayOK, ApplyChecks, IsSuccessor, height
  <1>5. ReplayOK'
    BY DEF WriteTmp, ReplayOK, height
  <1>6. [Log!Next]_(Log!logVars)
    BY DEF WriteTmp, Log!logVars
  <1>8. QED
    BY <1>1, <1>2, <1>3, <1>4, <1>5, <1>6

\* The rename and the commit of a block preserves durability and is a step of the log.
LEMMA KeepCommit ==
  ASSUME IInv, DInv, Commit
  PROVE  DInv' /\ [Log!Next]_(Log!logVars)
  <1> USE BlockAssumption, ParameterAssumption DEF IInv, DInv, vars, memory, disk, call, budget
  <1>1. (rotten = {})'
    BY DEF Commit, RenameTmp
  <1>2. ServedOK'
    <2>1. CASE caller = "replay"
      BY <2>1, RenameKeeps DEF Commit, ServedOK
    <2>2. CASE caller # "replay"
      <3>1. mode = "serving" /\ blocks = served /\ served' = Append(served, job) /\ job \in Block
        BY <2>2, JobIsNext DEF Commit, ReplayOK, JobOK
      <3>2. Len(served') = Len(served) + 1 /\ Len(served) \in Nat
        BY <3>1
      <3>3. \A h \in 1 .. Len(served) : served'[h] = served[h]
        BY <3>1
      <3>4. served'[Len(served) + 1] = job
        BY <3>1
      <3>5. \A h \in 1 .. Len(served') : served'[h] \in files'
        BY <3>2, <3>3, <3>4, RenameKeeps DEF Commit
      <3>6. ChainSound'
        BY StepCommit
      <3>7. served' = blocks'
        BY <2>2 DEF Commit
      <3>8. QED
        BY <3>5, <3>6, <3>7 DEF ServedOK, ChainSound, height
    <2>3. QED
      BY <2>1, <2>2
  <1>3. OneFilePerHeight'
    BY DEF Commit, RenameTmp, OneFilePerHeight
  <1>4. OneFileAhead'
    BY
    DEF Commit, RenameTmp, JobOK, OneFileAhead, ReplayOK, ApplyChecks, IsSuccessor, height
  <1>5. ReplayOK'
    <2>1. job' = NoBlock /\ mode' = mode /\ (mode = "serving" <=> caller # "replay")
      BY JobIsNext DEF Commit, Return, JobOK
    <2>2. mode = "serving" => blocks' = served'
      BY <2>1 DEF Commit
    <2>3. ASSUME mode = "replaying"
          PROVE  height' <= Len(served') + 1 /\ \A h \in 1 .. height' : blocks'[h] \in files'
      <3>1. served' = served /\ height <= Len(served)
        BY <2>1, <2>3, JobIsNext DEF Commit
      <3>2. job \in Block /\ blocks' = Append(blocks, job) /\ height' = height + 1 /\ height \in Nat
        BY JobIsNext DEF Commit, height
      <3>3. \A h \in 1 .. height : blocks'[h] = blocks[h] /\ blocks[h] \in files'
        BY <2>3, <3>2, RenameKeeps DEF Commit, height
      <3>4. blocks'[height + 1] = job /\ job \in files'
        BY <3>2, RenameKeeps DEF Commit, height
      <3>5. \A h \in 1 .. height' : blocks'[h] \in files'
        <4>1. \A h \in 1 .. height + 1 : h \in 1 .. height \/ h = height + 1
          BY <3>2
        <4>2. QED
          BY <4>1, <3>2, <3>3, <3>4
      <3>6. height' <= Len(served') + 1
        BY <3>1, <3>2
      <3>7. QED
        BY <3>5, <3>6
    <2>4. QED
      BY <2>1, <2>2, <2>3 DEF ReplayOK
  <1>6. [Log!Next]_(Log!logVars)
    BY DEF Commit, JobOK, ReplayOK, Log!Next, Log!logVars, Log!Write, Log!Grow
  <1>8. QED
    BY <1>1, <1>2, <1>3, <1>4, <1>5, <1>6

\* The refusal of a block that is already persisted preserves durability and is a step of the log.
LEMMA KeepRefuse ==
  ASSUME IInv, DInv, Refuse
  PROVE  DInv' /\ [Log!Next]_(Log!logVars)
  <1> USE BlockAssumption, ParameterAssumption DEF IInv, DInv, vars, memory, disk, call, budget
  <1>0. caller = "replay" => blocks = served /\ Height[job] = Len(served) + 1
    <2> SUFFICES ASSUME caller = "replay" PROVE blocks = served /\ Height[job] = Len(served) + 1
      OBVIOUS
    <2>1. mode = "replaying"
      BY DEF Refuse, JobOK
    <2>2. height >= Len(served)
      <3>1. height < Len(served) => Verdict[job] = "ok"
        <4> SUFFICES ASSUME height < Len(served) PROVE Verdict[job] = "ok"
          OBVIOUS
        <4>1. job = served[height + 1] /\ height + 1 \in 1 .. Len(served)
          BY JobIsNext DEF Refuse
        <4>2. QED
          BY <4>1 DEF ServedOK
      <3>2. QED
        BY <3>1, JobIsNext DEF Refuse
    <2>3. height = Len(served)
      BY <2>2, JobIsNext DEF Refuse
    <2>4. QED
      BY <2>1, <2>3, ServedAtEnd, JobIsNext DEF Refuse
  <1>1. (rotten = {})'
    BY DEF Refuse, RenameTmp
  <1>2. ServedOK'
    <2>1. CASE caller = "replay"
      <3>1. served' = served /\ job \in Block /\ Height[job] = Len(served) + 1
        BY <2>1, <1>0, JobIsNext DEF Refuse, QuarantineBlock
      <3>2. \A h \in 1 .. Len(served) : served[h] \in files'
        BY <2>1, <3>1 DEF Refuse, ServedOK
      <3>3. QED
        BY <3>1, <3>2 DEF ServedOK
    <2>2. CASE caller # "replay"
      <3>1. step = "full" /\ RenameTmp /\ served' = served
        BY <2>2 DEF Refuse
      <3>2. \A h \in 1 .. Len(served) : served[h] \in files'
        BY <3>1, RenameKeeps
      <3>3. ServedOK
        BY DEF DInv
      <3>4. QED
        BY <3>1, <3>2, <3>3, Zenon DEF ServedOK
    <2>3. QED
      BY <2>1, <2>2
  <1>3. OneFilePerHeight'
    BY DEF Refuse, RenameTmp, OneFilePerHeight
  <1>4. OneFileAhead'
    <2>1. served' = served /\ torn' = torn
      BY <1>0 DEF Refuse, QuarantineBlock, RenameTmp
    <2>2. \A f \in files' \cup tmp' : f \in files \cup tmp \cup {job}
      BY DEF Refuse, RenameTmp
    <2>3. Height[job] \in 1 .. Len(served) + 1
      BY JobIsNext DEF Refuse
    <2>4. QED
      BY <2>1, <2>2, <2>3 DEF OneFileAhead
  <1>5. ReplayOK'
    BY DEF Refuse, QuarantineBlock, Return, JobOK, ReplayOK
  <1>6. [Log!Next]_(Log!logVars)
    <2>1. CASE caller = "replay"
      BY <2>1, <1>0 DEF Refuse, QuarantineBlock, JobOK, Log!Next, Log!logVars, Log!Recover
    <2>2. CASE caller # "replay"
      BY <2>2 DEF Refuse, Log!logVars
    <2>3. QED
      BY <2>1, <2>2
  <1>8. QED
    BY <1>1, <1>2, <1>3, <1>4, <1>5, <1>6

\* A failed system call preserves durability and is a step of the log.
LEMMA KeepFault ==
  ASSUME IInv, DInv, "replay" \notin FaultCallers, Fault
  PROVE  DInv' /\ [Log!Next]_(Log!logVars)
  <1> USE BlockAssumption, ParameterAssumption DEF IInv, DInv, vars, memory, disk, call, budget
  <1>1. (rotten = {})'
    BY DEF Fault, FaultedDisk, RenameTmp
  <1>2. ServedOK'
    <2>1. caller # "replay" /\ served' = served /\ (UNCHANGED files \/ (step = "full" /\ RenameTmp))
      <3>1. caller # "replay"
        BY DEF Fault
      <3>2. served' = served /\ FaultedDisk
        BY <3>1 DEF Fault
      <3>3. QED
        BY <3>1, <3>2, FaultLeaves
    <2>2. CASE UNCHANGED files
      BY <2>1, <2>2 DEF ServedOK
    <2>3. CASE step = "full" /\ RenameTmp
      BY <2>1, <2>3, RenameKeeps DEF ServedOK
    <2>4. QED
      BY <2>1, <2>2, <2>3
  <1>3. OneFilePerHeight'
    BY DEF Fault, FaultedDisk, RenameTmp, OneFilePerHeight
  <1>4. OneFileAhead'
    <2>1. served' = served /\ torn' = torn
      BY DEF Fault, FaultedDisk, RenameTmp
    <2>2. \A f \in files' \cup tmp' : f \in files \cup tmp \cup {job}
      BY DEF Fault, FaultedDisk, RenameTmp
    <2>3. Height[job] \in 1 .. Len(served) + 1
      BY JobIsNext DEF Fault
    <2>4. QED
      BY <2>1, <2>2, <2>3 DEF OneFileAhead
  <1>5. ReplayOK'
    BY DEF Fault, Return, JobOK, ReplayOK
  <1>6. [Log!Next]_(Log!logVars)
    BY DEF Fault, Log!logVars
  <1>8. QED
    BY <1>1, <1>2, <1>3, <1>4, <1>5, <1>6

\* A block that arrives or is proposed preserves durability and is a step of the log.
LEMMA KeepDeliver ==
  ASSUME IInv, DInv, NEW b \in Block, ApplyOrBuffer(b)
  PROVE  DInv' /\ [Log!Next]_(Log!logVars)
  <1> USE BlockAssumption, ParameterAssumption DEF IInv, DInv, vars, memory, disk, call, budget
  <1>1. (rotten = {})'
    BY DEF ApplyOrBuffer
  <1>2. ServedOK'
    BY DEF ApplyOrBuffer, IsSuccessor, ServedOK
  <1>3. OneFilePerHeight'
    BY DEF ApplyOrBuffer, OneFilePerHeight
  <1>4. OneFileAhead'
    BY DEF ApplyOrBuffer, IsSuccessor, OneFileAhead
  <1>5. ReplayOK'
    BY DEF ApplyOrBuffer, IsSuccessor, StartApply, ReplayOK
  <1>6. [Log!Next]_(Log!logVars)
    BY DEF ApplyOrBuffer, Log!logVars
  <1>8. QED
    BY <1>1, <1>2, <1>3, <1>4, <1>5, <1>6

\* A turn of drainPendingLocked preserves durability and is a step of the log.
LEMMA KeepDrain ==
  ASSUME IInv, DInv, Drain
  PROVE  DInv' /\ [Log!Next]_(Log!logVars)
  <1> USE BlockAssumption, ParameterAssumption DEF IInv, DInv, vars, memory, disk, call, budget
  <1>1. (rotten = {})'
    BY DEF Drain
  <1>2. ServedOK'
    BY DEF Drain, ServedOK
  <1>3. OneFilePerHeight'
    BY DEF Drain, OneFilePerHeight
  <1>4. OneFileAhead'
    BY DEF Drain, OneFileAhead
  <1>5. ReplayOK'
    BY DEF Drain, StartApply, ReplayOK, height
  <1>6. [Log!Next]_(Log!logVars)
    BY DEF Drain, Log!logVars
  <1>8. QED
    BY <1>1, <1>2, <1>3, <1>4, <1>5, <1>6

\* An orderly stop preserves durability and is a step of the log.
LEMMA KeepStop ==
  ASSUME IInv, DInv, Stop
  PROVE  DInv' /\ [Log!Next]_(Log!logVars)
  <1> USE BlockAssumption, ParameterAssumption DEF IInv, DInv, vars, memory, disk, call, budget
  <1>1. (rotten = {})'
    BY DEF Stop
  <1>2. ServedOK'
    BY DEF Stop, ServedOK
  <1>3. OneFilePerHeight'
    BY DEF Stop, OneFilePerHeight
  <1>4. OneFileAhead'
    BY DEF Stop, OneFileAhead
  <1>5. ReplayOK'
    BY DEF Stop, ReplayOK
  <1>6. [Log!Next]_(Log!logVars)
    BY DEF Stop, Log!Next, Log!Fail
  <1>8. QED
    BY <1>1, <1>2, <1>3, <1>4, <1>5, <1>6

\* A crash, with any write cut short, preserves durability and is a step of the log.
LEMMA KeepCrash ==
  ASSUME IInv, DInv, Crash
  PROVE  DInv' /\ [Log!Next]_(Log!logVars)
  <1> USE BlockAssumption, ParameterAssumption DEF IInv, DInv, vars, memory, disk, call, budget
  <1>1. (rotten = {})'
    BY DEF Crash, CrashedDisk, RenameTmp
  <1>2. ServedOK'
    <2>1. CASE UNCHANGED files
      BY <2>1 DEF Crash, ServedOK
    <2>2. CASE step = "full" /\ RenameTmp
      BY <2>2, RenameKeeps DEF Crash, ServedOK
    <2>3. QED
      BY <2>1, <2>2 DEF Crash, CrashedDisk
  <1>3. OneFilePerHeight'
    BY DEF Crash, CrashedDisk, RenameTmp, OneFilePerHeight
  <1>4. OneFileAhead'
    <2>1. served' = served /\ torn' \subseteq torn
      BY DEF Crash, CrashedDisk, RenameTmp
    <2>2. \A f \in files' \cup tmp' : f \in files \cup tmp \/ (f = job /\ step \in {"torn", "full"})
      BY CrashLeaves DEF Crash
    <2>3. step \in {"torn", "full"} => Height[job] \in 1 .. Len(served) + 1
      BY JobIsNext
    <2>4. QED
      BY <2>1, <2>2, <2>3 DEF OneFileAhead
  <1>5. ReplayOK'
    BY DEF Crash, ReplayOK
  <1>6. [Log!Next]_(Log!logVars)
    BY DEF Crash, Log!Next, Log!logVars, Log!Fail
  <1>8. QED
    BY <1>1, <1>2, <1>3, <1>4, <1>5, <1>6

\* A start of the daemon preserves durability and is a step of the log.
LEMMA KeepRestart ==
  ASSUME IInv, DInv, Restart
  PROVE  DInv' /\ [Log!Next]_(Log!logVars)
  <1> USE BlockAssumption, ParameterAssumption DEF IInv, DInv, vars, memory, disk, call, budget
  <1>1. (rotten = {})'
    BY DEF Restart
  <1>2. ServedOK'
    BY DEF Restart, ServedOK
  <1>3. OneFilePerHeight'
    BY DEF Restart, OneFilePerHeight
  <1>4. OneFileAhead'
    BY DEF Restart, OneFileAhead
  <1>5. ReplayOK'
    BY DEF Restart, ReplayOK
  <1>6. [Log!Next]_(Log!logVars)
    BY DEF Restart, Log!logVars
  <1>8. QED
    BY <1>1, <1>2, <1>3, <1>4, <1>5, <1>6

\* The recovery of one .tmp file preserves durability and is a step of the log.
LEMMA KeepRecoverTmp ==
  ASSUME IInv, DInv, RecoverTmp
  PROVE  DInv' /\ [Log!Next]_(Log!logVars)
  <1> USE BlockAssumption, ParameterAssumption DEF IInv, DInv, vars, memory, disk, call, budget
  <1>1. (rotten = {})'
    BY DEF RecoverTmp
  <1>2. ServedOK'
    BY DEF RecoverTmp, ServedOK
  <1>3. OneFilePerHeight'
    BY DEF RecoverTmp, Exists, FilesAt, OneFilePerHeight
  <1>4. OneFileAhead'
    BY DEF RecoverTmp, OneFileAhead
  <1>5. ReplayOK'
    BY DEF RecoverTmp, ReplayOK
  <1>6. [Log!Next]_(Log!logVars)
    BY DEF RecoverTmp, Log!logVars
  <1>8. QED
    BY <1>1, <1>2, <1>3, <1>4, <1>5, <1>6

\* The start of replay preserves durability and is a step of the log.
LEMMA KeepStartReplay ==
  ASSUME IInv, DInv, StartReplay
  PROVE  DInv' /\ [Log!Next]_(Log!logVars)
  <1> USE BlockAssumption, ParameterAssumption DEF IInv, DInv, vars, memory, disk, call, budget
  <1>1. (rotten = {})'
    BY DEF StartReplay
  <1>2. ServedOK'
    BY DEF StartReplay, ServedOK
  <1>3. OneFilePerHeight'
    BY DEF StartReplay, OneFilePerHeight
  <1>4. OneFileAhead'
    BY DEF StartReplay, OneFileAhead
  <1>5. ReplayOK'
    BY DEF StartReplay, MemoryOK, ReplayOK, height
  <1>6. [Log!Next]_(Log!logVars)
    BY DEF StartReplay, Log!logVars
  <1>8. QED
    BY <1>1, <1>2, <1>3, <1>4, <1>5, <1>6

\* Replay of a file that does not decode preserves durability and is a step of the log.
LEMMA KeepReplayRotten ==
  ASSUME IInv, DInv, NEW b \in rotten, ReplayRotten(b)
  PROVE  DInv' /\ [Log!Next]_(Log!logVars)
  <1> USE BlockAssumption, ParameterAssumption DEF IInv, DInv, vars, memory, disk, call, budget
  <1>1. (rotten = {})'
    OBVIOUS
  <1>2. ServedOK'
    OBVIOUS
  <1>3. OneFilePerHeight'
    OBVIOUS
  <1>4. OneFileAhead'
    OBVIOUS
  <1>5. ReplayOK'
    OBVIOUS
  <1>6. [Log!Next]_(Log!logVars)
    OBVIOUS
  <1>8. QED
    BY <1>1, <1>2, <1>3, <1>4, <1>5, <1>6

\* Replay of one block file preserves durability and is a step of the log.
LEMMA KeepReplayFile ==
  ASSUME IInv, DInv, NEW b \in files, ReplayFile(b)
  PROVE  DInv' /\ [Log!Next]_(Log!logVars)
  <1> USE BlockAssumption, ParameterAssumption DEF IInv, DInv, vars, memory, disk, call, budget
  <1>0. ~ApplyChecks(b) => blocks = served /\ Height[b] = Len(served) + 1
    BY RefusedFileIsAhead DEF ReplayFile
  <1>1. (rotten = {})'
    BY DEF ReplayFile
  <1>2. ServedOK'
    <2>1. served' = served
      BY <1>0 DEF ReplayFile, QuarantineBlock
    <2>2. \A h \in 1 .. Len(served) : served[h] \in files'
      BY <1>0 DEF ReplayFile, ServedOK
    <2>3. QED
      BY <2>1, <2>2 DEF ServedOK
  <1>3. OneFilePerHeight'
    BY DEF ReplayFile, OneFilePerHeight
  <1>4. OneFileAhead'
    <2>1. served' = served /\ files' \subseteq files
      BY <1>0 DEF ReplayFile, QuarantineBlock
    <2>2. QED
      BY <2>1 DEF ReplayFile, OneFileAhead
  <1>5. ReplayOK'
    <2>1. CASE ApplyChecks(b)
      BY <2>1 DEF ReplayFile, StartApply, ReplayOK, height
    <2>2. CASE ~ApplyChecks(b)
      <3>1. files' = files \ {b} /\ blocks' = blocks /\ job' = job /\ job = NoBlock
        BY <2>2 DEF ReplayFile, JobOK
      <3>2. (mode' = "serving" /\ served' = blocks) \/ mode' = "halted"
        BY <2>2 DEF ReplayFile, QuarantineBlock
      <3>3. QED
        BY <3>1, <3>2 DEF ReplayOK
    <2>3. QED
      BY <2>1, <2>2
  <1>6. [Log!Next]_(Log!logVars)
    <2>1. CASE ApplyChecks(b)
      BY <2>1 DEF ReplayFile, Log!logVars
    <2>2. CASE ~ApplyChecks(b)
      BY <2>2, <1>0 DEF ReplayFile, QuarantineBlock, Log!Next, Log!logVars, Log!Recover
    <2>3. QED
      BY <2>1, <2>2
  <1>8. QED
    BY <1>1, <1>2, <1>3, <1>4, <1>5, <1>6

\* The end of replay preserves durability and is a step of the log.
LEMMA KeepFinishReplay ==
  ASSUME IInv, DInv, FinishReplay
  PROVE  DInv' /\ [Log!Next]_(Log!logVars)
  <1> USE BlockAssumption, ParameterAssumption DEF IInv, DInv, vars, memory, disk, call, budget
  <1>1. (rotten = {})'
    BY DEF FinishReplay
  <1>2. ServedOK'
    <2>1. served' = blocks /\ files' = files
      BY DEF FinishReplay
    <2>2. \A h \in 1 .. Len(blocks) : blocks[h] \in files
      BY DEF FinishReplay, ReplayOK, height
    <2>3. QED
      BY <2>1, <2>2 DEF ServedOK, ChainSound, height
  <1>3. OneFilePerHeight'
    BY DEF FinishReplay, OneFilePerHeight
  <1>4. OneFileAhead'
    <2>1. Len(served') >= Len(served) /\ Len(served') \in Nat /\ Len(served) \in Nat
      BY ReplayedAll DEF FinishReplay
    <2>2. QED
      BY <2>1 DEF FinishReplay, OneFileAhead
  <1>5. ReplayOK'
    BY DEF FinishReplay, ReplayOK
  <1>6. [Log!Next]_(Log!logVars)
    BY ReplayedAll DEF FinishReplay, Log!Next, Log!Recover, Log!Grow
  <1>8. QED
    BY <1>1, <1>2, <1>3, <1>4, <1>5, <1>6

\* The clock preserves durability and is a step of the log.
LEMMA KeepTick ==
  ASSUME IInv, DInv, Tick
  PROVE  DInv' /\ [Log!Next]_(Log!logVars)
  <1> USE BlockAssumption, ParameterAssumption DEF IInv, DInv, vars, memory, disk, call, budget
  <1>1. (rotten = {})'
    BY DEF Tick
  <1>2. ServedOK'
    BY DEF Tick, ServedOK
  <1>3. OneFilePerHeight'
    BY DEF Tick, OneFilePerHeight
  <1>4. OneFileAhead'
    BY DEF Tick, OneFileAhead
  <1>5. ReplayOK'
    BY DEF Tick, ReplayOK, height
  <1>6. [Log!Next]_(Log!logVars)
    BY DEF Tick, Log!logVars
  <1>8. QED
    BY <1>1, <1>2, <1>3, <1>4, <1>5, <1>6

-----------------------------------------------------------------------------
(* The store is a durable log. *)

\* Neither decay nor a write that fails in replay: DurabilityAssumption of the
\* theorems below, and what the run chain_crash assumes.
NoLoss == MaxRot = 0 /\ "replay" \notin FaultCallers

\* The durability invariant holds before the first start.
LEMMA DInvInit == Init => DInv
  BY BlockAssumption, ParameterAssumption
  DEF Init, DInv, ServedOK, OneFilePerHeight, OneFileAhead, ReplayOK, height

\* A stuttering step preserves durability and is a step of the log.
LEMMA KeepStutter == DInv /\ UNCHANGED vars => DInv' /\ [Log!Next]_(Log!logVars)
  BY DEF DInv, vars, memory, disk, call, budget, ServedOK, OneFilePerHeight, OneFileAhead,
         ReplayOK, height, Log!logVars

\* Every step preserves durability and is a step of the durable log.
LEMMA DInvNext ==
  ASSUME NoLoss, IInv, DInv, [Next]_vars
  PROVE  DInv' /\ [Log!Next]_(Log!logVars)
  <1> DEFINE Goal == DInv' /\ [Log!Next]_(Log!logVars)
  <1>1. ASSUME NEW b \in Block, ApplyOrBuffer(b) PROVE Goal
    BY <1>1, KeepDeliver
  <1>2. CASE Apply
    BY <1>2, KeepOpenTmp, KeepWriteTmp, KeepCommit, KeepRefuse DEF Apply
  <1>3. CASE Drain \/ Stop \/ Crash
    BY <1>3, KeepDrain, KeepStop, KeepCrash
  <1>4. CASE Fault
    BY <1>4, KeepFault DEF NoLoss
  <1>5. CASE Startup
    <2>1. CASE Restart \/ RecoverTmp \/ StartReplay \/ FinishReplay
      BY <2>1, KeepRestart, KeepRecoverTmp, KeepStartReplay, KeepFinishReplay
    <2>2. ASSUME NEW h \in rotten, ReplayRotten(h) PROVE Goal
      BY <2>2, KeepReplayRotten
    <2>3. ASSUME NEW b \in files, ReplayFile(b) PROVE Goal
      BY <2>3, KeepReplayFile
    <2>4. QED
      BY <1>5, <2>1, <2>2, <2>3 DEF Startup
  <1>6. CASE Tick
    BY <1>6, KeepTick
  <1>7. ASSUME NEW b \in files, Rot(b) PROVE Goal
    BY <1>7 DEF Rot, NoLoss, IInv, TypeOK
  <1>8. CASE UNCHANGED vars
    BY <1>8, KeepStutter
  <1>9. QED
    BY <1>1, <1>2, <1>3, <1>4, <1>5, <1>6, <1>7, <1>8 DEF Next, Deliver, Propose

\* Whatever a node has served stays on its disk, alone at its height, through every
\* crash and every failed write of a serving node (writeFileAtomicDurable,
\* recoverInterruptedBlockWrites).
THEOREM Durability == NoLoss /\ Spec => []ServedIsDurable
  <1>1. Init => DInv
    BY DInvInit
  <1>2. NoLoss /\ IInv /\ DInv /\ [Next]_vars => DInv'
    BY DInvNext
  <1>3. IInv /\ DInv => ServedIsDurable
    BY DEF DInv, ServedOK, OneFilePerHeight, ServedIsDurable, FilesAt
  <1>4. QED
    <2>1. ASSUME NoLoss PROVE Spec => []ServedIsDurable
      <3>1. IInv /\ DInv /\ [Next]_vars => DInv'
        BY <1>2, <2>1
      <3>2. QED
        BY <1>1, <1>3, <3>1, Invariance, PTL DEF Spec
    <2>2. QED
      BY <2>1

\* Block files never reach past the block that applyBlockLocked is writing, so that a
\* start after a crash finds at most one file that was not yet served.
THEOREM FileAhead == NoLoss /\ Spec => []OneFileAhead
  <1>1. Init => DInv
    BY DInvInit
  <1>2. NoLoss /\ IInv /\ DInv /\ [Next]_vars => DInv'
    BY DInvNext
  <1>3. DInv => OneFileAhead
    BY DEF DInv
  <1>4. ASSUME NoLoss PROVE Spec => []OneFileAhead
    <2>1. IInv /\ DInv /\ [Next]_vars => DInv'
      BY <1>2, <1>4
    <2>2. QED
      BY <1>1, <1>3, <2>1, Invariance, PTL DEF Spec
  <1>5. QED
    BY <1>4

\* The store implements the durable log: no crash, and no failed write of a serving
\* node, takes back or replaces a block that was served.
THEOREM Implements == NoLoss /\ Spec => LogSpec
  <1>1. Init => DInv /\ Log!Init
    BY DInvInit DEF Init, Log!Init
  <1>2. ASSUME NoLoss PROVE Spec => LogSpec
    <2>1. IInv /\ DInv /\ [Next]_vars => DInv' /\ [Log!Next]_(Log!logVars)
      BY <1>2, DInvNext
    <2>2. QED
      BY <1>1, <2>1, Invariance, PTL DEF Spec, LogSpec, Log!Spec
  <1>3. QED
    BY <1>2
=============================================================================
