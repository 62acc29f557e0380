---------------------------- MODULE JournalProofs ----------------------------
(***************************************************************************)
(* TLAPS proofs about Journal: its types; its two main safety properties   *)
(* AlwaysRecoverable and NeverRollsBack, from the inductive invariant of   *)
(* JournalInvariant; that the handle in RAM mirrors the flash and no       *)
(* AES-CCM nonce protects two records; and that the journal implements the *)
(* durable cell its callers rely on.                                       *)
(***************************************************************************)
EXTENDS JournalInvariant, TLAPS

USE JournalConstants DEF Slots, NoSlot

-----------------------------------------------------------------------------
(* Slot images and generations *)

\* The generation and value read back from a typed slot image are typed.
LEMMA GenerationType ==
  ASSUME NEW x \in Images
  PROVE  LastGen(x) \in Generations /\ LastVal(x) \in Values \cup {NoValue}
<1>1. CASE x.frames = <<>>
  BY <1>1 DEF Images, LastGen, LastVal
<1>2. CASE x.frames # <<>>
  <2>1. x.frames \in Seq(Frames) /\ Len(x.frames) \in 1 .. Len(x.frames)
    BY <1>2 DEF Images
  <2>2. x.frames[Len(x.frames)] \in Frames
    BY <2>1
  <2> QED BY <1>2, <2>2 DEF LastGen, LastVal, Frames
<1> QED BY <1>1, <1>2

\* An erased slot is a slot image.
LEMMA BlankType == Blank \in Images /\ ZeroGen \in Generations
BY DEF Blank, Images, ZeroGen, Generations

\* What the recovery scan selects is a slot, with a typed generation and value.
LEMMA ScanType ==
  ASSUME TypeOK
  PROVE  /\ AnySelected => TheSelected \in Slots
         /\ ScanGen \in Generations
         /\ ScanVal \in Values \cup {NoValue}
         /\ ~AnySelected => ScanGen = ZeroGen
<1>1. AnySelected => TheSelected \in Slots
  BY DEF AnySelected, TheSelected
<1>2. AnySelected => slot[TheSelected] \in Images
  BY <1>1 DEF TypeOK
<1> QED BY <1>1, <1>2, GenerationType, BlankType DEF ScanGen, ScanVal

\* next_generation stays within the anchor and sequence capacities.
LEMMA NextGenerationType ==
  ASSUME NEW g \in Generations, NEW d \in {"Ordinary", "Anchored"}, CanAdvance(g, d)
  PROVE  NextGeneration(g, d) \in Generations
BY DEF NextGeneration, CanAdvance, Bump, Generations

\* A programmed snapshot is a slot image.
LEMMA SnapshotType ==
  ASSUME NEW o \in Ops
  PROVE  SnapshotImage(o) \in Images
BY BlankType DEF SnapshotImage, Images, Ops, Blank

\* A slot image stays one when an append frame is published in it.
LEMMA PublishType ==
  ASSUME NEW x \in Images, NEW o \in Ops, o.val \in Values
  PROVE  PublishFrame(x, o) \in Images
<1>1. FrameOf(o) \in Frames
  BY DEF FrameOf, Frames, Ops
<1>2. Append(x.frames, FrameOf(o)) \in Seq(Frames)
  BY <1>1 DEF Images
<1> QED BY <1>2 DEF PublishFrame, Images

\* Whatever an interrupted flash mutation leaves is a slot image.
LEMMA LeftoverType ==
  ASSUME NEW x \in Images, op \in Ops, pc # "idle" => op.val \in Values, pc \in Steps,
         pc # "idle", NEW y \in Leftover(x, pc)
  PROVE  y \in Images
<1>1. CASE pc = "erase"
  <2>1. y \in PartialErase(x)
    BY <1>1 DEF Leftover
  <2>2. [Blank EXCEPT !.rec = "torn"] \in Images
    BY BlankType DEF Images
  <2>3. [x EXCEPT !.rec = "torn"] \in Images
    BY DEF Images
  <2> QED BY <2>1, <2>2, <2>3, BlankType DEF PartialErase
<1>2. CASE pc = "program"
  BY <1>2, SnapshotType DEF Leftover, Images
<1>3. CASE pc \in {"marker", "intent", "complete", "frame"}
  BY <1>3 DEF Leftover, Images
<1>4. CASE pc = "frameMarker"
  BY <1>4, PublishType DEF Leftover
<1>5. CASE pc \in {"anchor", "frameAnchor"}
  BY <1>5 DEF Leftover
<1> QED BY <1>1, <1>2, <1>3, <1>4, <1>5 DEF Steps
-----------------------------------------------------------------------------
(* Type correctness *)

Typed == TypeOK /\ OpInv

\* Factory-empty flash is typed.
LEMMA InitTyped == Init => Typed
<1> SUFFICES ASSUME Init PROVE Typed
  OBVIOUS
<1>1. NoOp \in Ops
  BY BlankType DEF NoOp, Ops
<1>2. slot \in [Slots -> Images]
  BY BlankType DEF Init
<1>3. known \in [gen : Generations, val : Values \cup {NoValue}] /\ sealed \subseteq Seals
  BY BlankType DEF Init
<1>4. gen \in Generations /\ pc \in Steps /\ damaged \in BOOLEAN /\ op \in Ops
  BY <1>1, BlankType DEF Init, Steps
<1>5. TypeOK
  BY <1>2, <1>3, <1>4 DEF Init, TypeOK
<1>6. OpInv
  BY DEF Init, OpInv, FrameSteps
<1> QED BY <1>5, <1>6 DEF Typed

\* Recovery, complete or failed, preserves types.
LEMMA RecoveryTyped ==
  ASSUME Typed, Recover \/ RecoverUnreconciled \/ RecoverFails
  PROVE  Typed'
<1> USE DEF Typed
<1>0. TypeOK /\ OpInv
  OBVIOUS
<1>1. /\ AnySelected => TheSelected \in Slots /\ slot[TheSelected] \in Images
      /\ ScanGen \in Generations /\ ScanVal \in Values \cup {NoValue}
      /\ ~AnySelected => ScanGen = ZeroGen
  BY <1>0, ScanType DEF TypeOK
<1>2. \A x \in Images : ScanOffset(x) \in 0 .. FrameCap + 1 /\ x.attempt \in 0 .. NonceCap
  BY DEF ScanOffset, Images
<1>3. CASE Recover
  BY <1>0, <1>1, <1>2, <1>3 DEF Recover, TypeOK, OpInv, FrameSteps, Generations
<1>4. CASE RecoverUnreconciled
  <2>1. AnySelected /\ ScanGen.a \in 0 .. MonoCap
    BY <1>0, <1>1, <1>4 DEF RecoverUnreconciled, Generations, TypeOK, ZeroGen
  <2>2. TypeOK'
    BY <1>0, <1>1, <1>2, <1>4, <2>1 DEF RecoverUnreconciled, TypeOK, handleVars
  <2>3. OpInv'
    BY <1>0, <1>4 DEF RecoverUnreconciled, OpInv, FrameSteps
  <2> QED BY <2>2, <2>3
<1>5. CASE RecoverFails
  BY <1>0, <1>5 DEF RecoverFails, TypeOK, OpInv, FrameSteps, flashVars
<1> QED BY <1>3, <1>4, <1>5

\* The record a commit is about to write is typed.
LEMMA StartCommitTyped ==
  ASSUME TypeOK, NEW v \in Values, NEW d \in {"Ordinary", "Anchored"},
         NEW n \in 1 .. NonceCap, StartCommit(v, d, n)
  PROVE  /\ op' \in Ops /\ op'.val \in Values /\ op'.attempt = n
         /\ AppendEnabled => op'.gen.a # 0
         /\ pc' \in {"erase", "intent"}
         /\ pc' = "intent" => active \in Slots
<1>1. NextGeneration(gen, d) \in Generations
  BY NextGenerationType DEF TypeOK, StartCommit
<1>2. NextSlot \in Slots
  BY DEF NextSlot, SlotAfter, TypeOK
<1>3. AppendEnabled => NextGeneration(gen, d).a # 0
  BY DEF NextGeneration, StartCommit, CanAdvance
<1> QED BY <1>1, <1>2, <1>3 DEF StartCommit, Ops, TypeOK

\* Starting a commit or reserving a nonce preserves types.
LEMMA BeginTyped ==
  ASSUME Typed,
         \/ \E v \in Values, d \in Durability : BeginCommit(v, d)
         \/ \E v \in Values : CommitReserved(v)
         \/ SealFails \/ ReserveIdentity \/ RejectReserved
  PROVE  Typed'
<1>0. TypeOK /\ OpInv
  BY DEF Typed
<1>1. ASSUME NEW v \in Values, NEW d \in Durability, BeginCommit(v, d)
      PROVE  Typed'
  <2>1. d \in {"Ordinary", "Anchored"} /\ nonces + 1 \in 1 .. NonceCap
    BY <1>0, <1>1 DEF Durability, BeginCommit, TypeOK
  <2>2. StartCommit(v, d, nonces + 1)
    BY <1>1 DEF BeginCommit
  <2>3. /\ op' \in Ops /\ op'.val \in Values /\ op'.attempt = nonces + 1
        /\ AppendEnabled => op'.gen.a # 0
        /\ pc' \in {"erase", "intent"}
        /\ pc' = "intent" => active \in Slots
    BY <1>0, <2>1, <2>2, StartCommitTyped
  <2>4. OpInv'
    BY <1>0, <1>1, <2>1, <2>2, <2>3 DEF OpInv, BeginCommit, StartCommit, FrameSteps
  <2>5. TypeOK'
    BY <1>0, <1>1, <2>1, <2>2, <2>3 DEF TypeOK, BeginCommit, StartCommit, Steps
  <2> QED BY <2>4, <2>5 DEF Typed
<1>2. ASSUME NEW v \in Values, CommitReserved(v)
      PROVE  Typed'
  <2>1. identity \in 1 .. NonceCap /\ identity = nonces
    BY <1>0, <1>2 DEF CommitReserved, TypeOK
  <2>2. StartCommit(v, "Anchored", identity)
    BY <1>2 DEF CommitReserved
  <2>3. /\ op' \in Ops /\ op'.val \in Values /\ op'.attempt = identity
        /\ AppendEnabled => op'.gen.a # 0
        /\ pc' \in {"erase", "intent"}
        /\ pc' = "intent" => active \in Slots
    BY <1>0, <2>1, <2>2, StartCommitTyped
  <2>4. OpInv'
    BY <1>0, <1>2, <2>1, <2>2, <2>3 DEF OpInv, CommitReserved, StartCommit, FrameSteps
  <2>5. TypeOK'
    BY <1>0, <1>2, <2>1, <2>2, <2>3 DEF TypeOK, CommitReserved, StartCommit, Steps
  <2> QED BY <2>4, <2>5 DEF Typed
<1>3. CASE SealFails \/ ReserveIdentity
  BY <1>0, <1>3 DEF Typed, TypeOK, OpInv, SealFails, ReserveIdentity, handleVars, FrameSteps
<1>4. CASE RejectReserved
  BY <1>0, <1>4 DEF Typed, TypeOK, OpInv, RejectReserved, handleVars, flashVars, FrameSteps
<1> QED BY <1>1, <1>2, <1>3, <1>4

\* Programming a marker word in a slot keeps a typed flash.
LEMMA MarkTyped ==
  ASSUME slot \in [Slots -> Images], NEW s \in Slots
  PROVE  /\ [slot EXCEPT ![s].started = TRUE] \in [Slots -> Images]
         /\ [slot EXCEPT ![s].complete = TRUE] \in [Slots -> Images]
         /\ [slot EXCEPT ![s].committed = TRUE] \in [Slots -> Images]
         /\ [slot EXCEPT ![s].tail = "torn"] \in [Slots -> Images]
         /\ [slot EXCEPT ![s].rec = "torn"] \in [Slots -> Images]
<1>1. [slot[s] EXCEPT !.started = TRUE] \in Images
  BY DEF Images
<1>2. [slot[s] EXCEPT !.complete = TRUE] \in Images
  BY DEF Images
<1>3. [slot[s] EXCEPT !.committed = TRUE] \in Images
  BY DEF Images
<1>4. [slot[s] EXCEPT !.tail = "torn"] \in Images
  BY DEF Images
<1>5. [slot[s] EXCEPT !.rec = "torn"] \in Images
  BY DEF Images
<1> QED BY <1>1, <1>2, <1>3, <1>4, <1>5

\* The nonce of the record in flight is a typed history entry.
LEMMA SealType ==
  ASSUME op \in Ops
  PROVE  SealOf(op) \in Seals
BY DEF SealOf, Seals, Ops

\* An acknowledged record leaves a typed handle and history.
LEMMA AcknowledgeTyped ==
  ASSUME op \in Ops, Acknowledge
  PROVE  /\ op' \in Ops /\ pc' = "idle" /\ mode' = "ready"
         /\ known' \in [gen : Generations, val : Values \cup {NoValue}]
BY BlankType DEF Acknowledge, NoOp, Ops

\* Moving the handle to the new snapshot preserves types.
LEMMA FinishTyped ==
  ASSUME TypeOK, OpInv, FinishSlots, nonces' = nonces, pc # "idle"
  PROVE  /\ op' \in Ops /\ gen' \in Generations /\ active' \in Slots
         /\ baseAttempt' \in 0 .. NonceCap /\ offset' \in 0 .. FrameCap + 1
         /\ known' \in [gen : Generations, val : Values \cup {NoValue}]
         /\ mode' \in {"poisoned", "ready", "closed"} /\ pc' \in Steps
         /\ OpInv'
<1>1. CASE op.dur = "Anchored"
  BY <1>1 DEF FinishSlots, TypeOK, OpInv, Ops, Steps, FrameSteps
<1>2. CASE op.dur # "Anchored"
  <2>1. Acknowledge
    BY <1>2 DEF FinishSlots
  <2> QED BY <2>1, AcknowledgeTyped DEF FinishSlots, TypeOK, OpInv, Ops, Steps, FrameSteps
<1> QED BY <1>1, <1>2

\* Every flash mutation of commit_owned_with_nonce preserves types.
LEMMA SnapshotStepsTyped ==
  ASSUME Typed, WriteIntent \/ EraseTarget \/ ProgramRecord \/ WriteCommitMarker
                \/ WriteReclaimComplete \/ AdvanceAnchor
  PROVE  Typed'
<1>0. TypeOK /\ OpInv /\ op.slot \in Slots /\ op.gen \in Generations /\ op \in Ops
  BY DEF Typed, TypeOK, Ops
<1>1. CASE WriteIntent
  <2>1. slot' \in [Slots -> Images]
    BY <1>0, <1>1, MarkTyped DEF WriteIntent, OpInv, TypeOK
  <2>2. TypeOK'
    BY <1>0, <1>1, <2>1 DEF WriteIntent, TypeOK, handleVars, Steps
  <2>3. OpInv'
    BY <1>0, <1>1 DEF WriteIntent, OpInv, handleVars, FrameSteps
  <2> QED BY <2>2, <2>3 DEF Typed
<1>2. CASE EraseTarget
  <2>1. slot' \in [Slots -> Images]
    BY <1>0, <1>2, BlankType DEF EraseTarget, TypeOK
  <2>2. TypeOK'
    BY <1>0, <1>2, <2>1 DEF EraseTarget, TypeOK, handleVars, Steps
  <2>3. OpInv'
    BY <1>0, <1>2 DEF EraseTarget, OpInv, handleVars, FrameSteps
  <2> QED BY <2>2, <2>3 DEF Typed
<1>3. CASE ProgramRecord
  <2>1. slot' \in [Slots -> Images]
    BY <1>0, <1>3, SnapshotType DEF ProgramRecord, TypeOK
  <2>2. sealed' \subseteq Seals
    BY <1>0, <1>3, SealType DEF ProgramRecord, TypeOK
  <2>3. TypeOK'
    BY <1>0, <1>3, <2>1, <2>2 DEF ProgramRecord, TypeOK, handleVars, Steps
  <2>4. OpInv'
    BY <1>0, <1>3 DEF ProgramRecord, OpInv, handleVars, FrameSteps
  <2> QED BY <2>3, <2>4 DEF Typed
<1>4. CASE WriteCommitMarker
  <2>1. slot' \in [Slots -> Images]
    BY <1>0, <1>4, MarkTyped DEF WriteCommitMarker, TypeOK
  <2>2. CASE active # NoSlot
    <3>1. TypeOK'
      BY <1>0, <1>4, <2>1, <2>2 DEF WriteCommitMarker, TypeOK, handleVars, Steps
    <3>2. OpInv'
      BY <1>0, <1>4, <2>2 DEF WriteCommitMarker, OpInv, handleVars, FrameSteps, TypeOK
    <3> QED BY <3>1, <3>2 DEF Typed
  <2>3. CASE active = NoSlot
    <3>1. FinishSlots /\ nonces' = nonces /\ pc # "idle"
      BY <1>4, <2>3 DEF WriteCommitMarker
    <3>2. TypeOK' /\ OpInv'
      BY <1>0, <1>4, <2>1, <3>1, FinishTyped DEF WriteCommitMarker, TypeOK
    <3> QED BY <3>2 DEF Typed
  <2> QED BY <2>2, <2>3
<1>5. CASE WriteReclaimComplete
  <2>1. slot' \in [Slots -> Images]
    BY <1>0, <1>5, MarkTyped DEF WriteReclaimComplete, TypeOK, OpInv
  <2>2. FinishSlots /\ nonces' = nonces /\ pc # "idle"
    BY <1>5 DEF WriteReclaimComplete
  <2>3. TypeOK' /\ OpInv'
    BY <1>0, <1>5, <2>1, <2>2, FinishTyped DEF WriteReclaimComplete, TypeOK
  <2> QED BY <2>3 DEF Typed
<1>6. CASE AdvanceAnchor
  <2>1. Acknowledge
    BY <1>6 DEF AdvanceAnchor
  <2>2. op.gen.a \in 0 .. MonoCap
    BY <1>0 DEF Generations
  <2>3. TypeOK'
    BY <1>0, <1>6, <2>1, <2>2, AcknowledgeTyped DEF AdvanceAnchor, TypeOK, Steps
  <2>4. OpInv'
    BY <1>0, <1>6, <2>1, AcknowledgeTyped DEF AdvanceAnchor, OpInv, FrameSteps
  <2> QED BY <2>3, <2>4 DEF Typed
<1> QED BY <1>1, <1>2, <1>3, <1>4, <1>5, <1>6

\* Every flash mutation of an append preserves types.
LEMMA AppendStepsTyped ==
  ASSUME Typed,
         \/ \E v \in Values, d \in Durability : BeginAppend(v, d)
         \/ ProgramFrame \/ WriteFrameMarker \/ AdvanceFrameAnchor
  PROVE  Typed'
<1>0. TypeOK /\ OpInv /\ op.slot \in Slots /\ op.gen \in Generations /\ op \in Ops
  BY DEF Typed, TypeOK, Ops
<1>1. ASSUME NEW v \in Values, NEW d \in Durability, BeginAppend(v, d)
      PROVE  Typed'
  <2>1. d \in {"Ordinary", "Anchored"} /\ active \in Slots
    BY <1>0, <1>1 DEF Durability, BeginAppend, TypeOK
  <2>2. NextGeneration(gen, d) \in Generations
    BY <1>0, <1>1, <2>1, NextGenerationType DEF BeginAppend, TypeOK
  <2>3. /\ op' \in Ops /\ op'.val \in Values /\ op'.at \in 1 .. FrameCap
        /\ op'.attempt = baseAttempt /\ (AppendEnabled => op'.gen.a # 0)
    BY <1>0, <1>1, <2>1, <2>2 DEF BeginAppend, Ops, TypeOK, NextGeneration, CanAdvance
  <2>4. TypeOK'
    BY <1>0, <1>1, <2>1, <2>3 DEF BeginAppend, TypeOK, Steps, flashVars
  <2>5. OpInv'
    BY <1>0, <1>1, <2>1, <2>3 DEF BeginAppend, OpInv, FrameSteps, TypeOK, flashVars
  <2> QED BY <2>4, <2>5 DEF Typed
<1>2. CASE ProgramFrame
  <2>1. slot' \in [Slots -> Images]
    BY <1>0, <1>2, MarkTyped DEF ProgramFrame, TypeOK
  <2>2. sealed' \subseteq Seals
    BY <1>0, <1>2, SealType DEF ProgramFrame, TypeOK
  <2>3. TypeOK'
    BY <1>0, <1>2, <2>1, <2>2 DEF ProgramFrame, TypeOK, handleVars, Steps
  <2>4. OpInv'
    BY <1>0, <1>2 DEF ProgramFrame, OpInv, handleVars, FrameSteps
  <2> QED BY <2>3, <2>4 DEF Typed
<1>3. CASE WriteFrameMarker
  <2>1. slot' \in [Slots -> Images]
    BY <1>0, <1>3, PublishType DEF WriteFrameMarker, TypeOK, OpInv
  <2>2. op.at + 1 \in 0 .. FrameCap + 1
    BY <1>0, <1>3 DEF WriteFrameMarker, OpInv, FrameSteps
  <2>3. CASE op.dur = "Anchored"
    <3>1. TypeOK'
      BY <1>0, <1>3, <2>1, <2>3 DEF WriteFrameMarker, TypeOK, Steps
    <3>2. OpInv'
      BY <1>0, <1>3, <2>3 DEF WriteFrameMarker, OpInv, FrameSteps
    <3> QED BY <3>1, <3>2 DEF Typed
  <2>4. CASE op.dur # "Anchored"
    <3>1. Acknowledge /\ AdoptFrame
      BY <1>3, <2>4 DEF WriteFrameMarker
    <3>2. TypeOK'
      BY <1>0, <1>3, <2>1, <2>2, <3>1, AcknowledgeTyped
         DEF WriteFrameMarker, TypeOK, Steps, AdoptFrame
    <3>3. OpInv'
      BY <1>0, <1>3, <3>1, AcknowledgeTyped DEF OpInv, FrameSteps
    <3> QED BY <3>2, <3>3 DEF Typed
  <2> QED BY <2>3, <2>4
<1>4. CASE AdvanceFrameAnchor
  <2>1. Acknowledge /\ AdoptFrame
    BY <1>4 DEF AdvanceFrameAnchor
  <2>2. op.gen.a \in 0 .. MonoCap /\ op.at + 1 \in 0 .. FrameCap + 1
    BY <1>0, <1>4 DEF Generations, AdvanceFrameAnchor, OpInv, FrameSteps
  <2>3. TypeOK'
    BY <1>0, <1>4, <2>1, <2>2, AcknowledgeTyped
       DEF AdvanceFrameAnchor, TypeOK, Steps, AdoptFrame
  <2>4. OpInv'
    BY <1>0, <1>4, <2>1, AcknowledgeTyped DEF OpInv, FrameSteps
  <2> QED BY <2>3, <2>4 DEF Typed
<1> QED BY <1>1, <1>2, <1>3, <1>4

\* Power cuts, flash errors and decay preserve types.
LEMMA FaultsTyped ==
  ASSUME Typed, Interrupt \/ PowerOff \/ \E s \in Slots : Damage(s)
  PROVE  Typed'
<1>0. TypeOK /\ OpInv /\ op \in Ops /\ op.slot \in Slots /\ op.gen.a \in 0 .. MonoCap
  BY DEF Typed, TypeOK, Ops, Generations
<1>1. CASE Interrupt
  <2>1. Touched(pc) \in Slots
    BY <1>0, <1>1 DEF Touched, OpInv
  <2>2. slot' \in [Slots -> Images] /\ sealed' \subseteq Seals
    <3>1. PICK x \in Leftover(slot[Touched(pc)], pc) :
               /\ slot' = [slot EXCEPT ![Touched(pc)] = x]
               /\ sealed' = IF pc \in {"program", "frame"} /\ x # slot[Touched(pc)]
                            THEN sealed \cup {SealOf(op)} ELSE sealed
      BY <1>1 DEF Interrupt
    <3>2. x \in Images
      BY <1>0, <1>1, <2>1, LeftoverType DEF Interrupt, TypeOK, OpInv
    <3> QED BY <1>0, <2>1, <3>1, <3>2, SealType DEF TypeOK
  <2>3. op' \in Ops /\ pc' \in Steps /\ pc' = "idle" /\ mono' \in 0 .. MonoCap
    BY <1>0, <1>1, BlankType DEF Interrupt, NoOp, Ops, Steps, TypeOK
  <2>4. /\ mode' \in {"closed", "poisoned"} /\ gen' \in Generations
        /\ active' \in Slots \cup {NoSlot} /\ baseAttempt' \in 0 .. NonceCap
        /\ offset' \in 0 .. FrameCap + 1 /\ identity' \in 0 .. NonceCap
    BY <1>0, <1>1, BlankType DEF Interrupt, Poisoned, Closed, TypeOK
  <2>5. TypeOK'
    BY <1>0, <1>1, <2>2, <2>3, <2>4 DEF TypeOK, Interrupt
  <2>6. OpInv'
    BY <2>3 DEF OpInv, FrameSteps
  <2> QED BY <2>5, <2>6 DEF Typed
<1>2. CASE PowerOff
  BY <1>0, <1>2, BlankType DEF PowerOff, Closed, Typed, TypeOK, OpInv, FrameSteps, flashVars
<1>3. ASSUME NEW s \in Slots, Damage(s)
      PROVE  Typed'
  <2>1. slot' \in [Slots -> Images]
    BY <1>0, <1>3, MarkTyped DEF Damage, TypeOK
  <2>2. TypeOK'
    BY <1>0, <1>3, <2>1 DEF Damage, TypeOK, handleVars
  <2>3. OpInv'
    BY <1>0, <1>3 DEF Damage, OpInv, handleVars, FrameSteps
  <2> QED BY <2>2, <2>3 DEF Typed
<1> QED BY <1>1, <1>2, <1>3

\* The type invariant with OpInv is inductive.
LEMMA TypedInductive == Typed /\ [Next]_vars => Typed'
<1> SUFFICES ASSUME Typed, [Next]_vars PROVE Typed'
  OBVIOUS
<1>1. CASE UNCHANGED vars
  BY <1>1 DEF vars, Typed, TypeOK, OpInv, FrameSteps
<1>2. CASE Next
  BY <1>2, RecoveryTyped, BeginTyped, SnapshotStepsTyped, AppendStepsTyped, FaultsTyped
     DEF Next
<1> QED BY <1>1, <1>2

\* Every reachable state of the journal is well typed: in particular the anchor,
\* the sequence and the nonce counter never pass their capacity and an append
\* offset never leaves the slot, for any geometry.
THEOREM JournalTypeCorrect == Spec => []TypeOK
<1>1. Init => Typed
  BY InitTyped
<1>2. Typed /\ [Next]_vars => Typed'
  BY TypedInductive
<1>3. Typed => TypeOK
  BY DEF Typed
<1> QED BY <1>1, <1>2, <1>3, PTL DEF Spec

-----------------------------------------------------------------------------
(* The anchor *)

\* The anchor part of the invariant holds of factory-empty flash.
LEMMA AnchorInit == Init => AnchorInv
BY DEF Init, AnchorInv, SnapshotSteps, ZeroGen

\* Acknowledging the record in flight preserves the anchor part.
LEMMA AcknowledgeAnchor ==
  ASSUME Typed, AnchorInv, Acknowledge, gen' = op.gen, mono' = op.gen.a
  PROVE  AnchorInv'
BY DEF AnchorInv, Acknowledge, SnapshotSteps, Typed, TypeOK, Ops, Generations

\* Moving the handle to the new snapshot preserves the anchor part.
LEMMA FinishAnchor ==
  ASSUME Typed, AnchorInv, FinishSlots, pc # "idle", mono' = mono
  PROVE  AnchorInv'
<1>0. op.gen \in Generations /\ op.dur \in {"Ordinary", "Anchored"}
      /\ known.gen \in Generations
  BY DEF Typed, TypeOK, Ops
<1>1. CASE op.dur = "Anchored"
  BY <1>1, <1>0 DEF FinishSlots, AnchorInv, SnapshotSteps
<1>2. CASE op.dur # "Anchored"
  <2>1. op.gen.a = known.gen.a
    BY <1>0, <1>2 DEF AnchorInv, NextGeneration, Bump, Generations
  <2>2. Acknowledge /\ gen' = op.gen
    BY <1>2 DEF FinishSlots
  <2> QED BY <2>1, <2>2, AcknowledgeAnchor DEF AnchorInv
<1> QED BY <1>1, <1>2

\* Every step preserves the anchor part of the invariant.
LEMMA AnchorInductive ==
  ASSUME Typed, AnchorInv, Next
  PROVE  AnchorInv'
<1>0. /\ mono \in 0 .. MonoCap /\ gen \in Generations /\ known.gen \in Generations
      /\ op.gen \in Generations /\ op.dur \in {"Ordinary", "Anchored"}
      /\ ScanGen \in Generations
  BY ScanType DEF Typed, TypeOK, Ops
<1>1. CASE Recover
  BY <1>0, <1>1 DEF Recover, Recoverable, Reconcilable, AnchorInv, SnapshotSteps, Generations
<1>2. CASE RecoverUnreconciled
  BY <1>0, <1>2 DEF RecoverUnreconciled, AnchorInv, SnapshotSteps, Generations, handleVars
<1>3. CASE RecoverFails \/ RejectReserved \/ SealFails \/ ReserveIdentity
  BY <1>3 DEF RecoverFails, RejectReserved, SealFails, ReserveIdentity,
     AnchorInv, SnapshotSteps, handleVars, flashVars
<1>4. ASSUME NEW v \in Values, NEW d \in {"Ordinary", "Anchored"}, NEW n \in 1 .. NonceCap,
             StartCommit(v, d, n)
      PROVE  AnchorInv'
  BY <1>4 DEF StartCommit, AnchorInv, SnapshotSteps
<1>5. ASSUME NEW v \in Values, NEW d \in Durability, BeginCommit(v, d)
      PROVE  AnchorInv'
  BY <1>4, <1>5 DEF BeginCommit, Durability, Typed, TypeOK
<1>6. ASSUME NEW v \in Values, CommitReserved(v)
      PROVE  AnchorInv'
  BY <1>4, <1>6 DEF CommitReserved, Typed, TypeOK
<1>7. CASE WriteIntent \/ EraseTarget \/ ProgramRecord \/ ProgramFrame
  BY <1>7 DEF WriteIntent, EraseTarget, ProgramRecord, ProgramFrame,
     AnchorInv, SnapshotSteps, handleVars
<1>8. CASE WriteCommitMarker
  <2>1. CASE active # NoSlot
    BY <1>8, <2>1 DEF WriteCommitMarker, AnchorInv, SnapshotSteps, handleVars
  <2>2. CASE active = NoSlot
    BY <1>8, <2>2, FinishAnchor DEF WriteCommitMarker
  <2> QED BY <2>1, <2>2
<1>9. CASE WriteReclaimComplete
  BY <1>9, FinishAnchor DEF WriteReclaimComplete
<1>10. CASE AdvanceAnchor
  BY <1>10, <1>0 DEF AdvanceAnchor, AnchorInv, Acknowledge, SnapshotSteps, NextGeneration,
     Bump, Generations
<1>11. ASSUME NEW v \in Values, NEW d \in Durability, BeginAppend(v, d)
       PROVE  AnchorInv'
  BY <1>11 DEF BeginAppend, AnchorInv, SnapshotSteps, flashVars
<1>12. CASE WriteFrameMarker
  <2>1. CASE op.dur = "Anchored"
    BY <1>12, <2>1 DEF WriteFrameMarker, AnchorInv, SnapshotSteps
  <2>2. CASE op.dur # "Anchored"
    <3>1. Acknowledge /\ gen' = op.gen /\ mono' = mono
      BY <1>12, <2>2 DEF WriteFrameMarker, AdoptFrame
    <3>2. op.gen.a = mono
      BY <1>0, <1>12, <2>2 DEF WriteFrameMarker, AnchorInv, NextGeneration, Bump, Generations
    <3> QED BY <3>1, <3>2, AcknowledgeAnchor
  <2> QED BY <2>1, <2>2
<1>13. CASE AdvanceFrameAnchor
  <2>1. Acknowledge /\ gen' = op.gen /\ mono' = op.gen.a
    BY <1>13 DEF AdvanceFrameAnchor, AdoptFrame
  <2> QED BY <2>1, AcknowledgeAnchor
<1>14. CASE Interrupt
  <2>1. mono' >= mono /\ mono' \in Nat
    BY <1>14, <1>0 DEF Interrupt, AnchorInv, NextGeneration, Bump, Generations
  <2> QED BY <1>0, <1>14, <2>1
       DEF Interrupt, Poisoned, Closed, AnchorInv, SnapshotSteps, Generations
<1>15. CASE PowerOff
  BY <1>15 DEF PowerOff, Closed, AnchorInv, SnapshotSteps, flashVars
<1>16. ASSUME NEW s \in Slots, Damage(s)
       PROVE  AnchorInv'
  BY <1>16 DEF Damage, AnchorInv, SnapshotSteps, handleVars
<1> QED BY <1>1, <1>2, <1>3, <1>5, <1>6, <1>7, <1>8, <1>9, <1>10, <1>11, <1>12,
           <1>13, <1>14, <1>15, <1>16 DEF Next

-----------------------------------------------------------------------------
(* Nonces and the slot being rewritten *)

\* A selected record is readable, and its nonce was reserved.
LEMMA SelectedAttempt ==
  ASSUME Typed, AnySelected
  PROVE  /\ TheSelected \in Slots /\ Selected(TheSelected) /\ Valid(TheSelected)
         /\ slot[TheSelected].attempt \in 1 .. nonces
<1>1. TheSelected \in Slots /\ Selected(TheSelected)
  BY DEF AnySelected, TheSelected
<1>2. slot[TheSelected].attempt \in 0 .. NonceCap
  BY <1>1 DEF Typed, TypeOK, Images
<1> QED BY <1>1, <1>2 DEF Selected, Valid, ValidImage, Typed, TypeOK

\* Nonce and target bookkeeping hold of factory-empty flash.
LEMMA BookkeepingInit == Init => AttemptInv /\ TargetInv
BY DEF Init, AttemptInv, TargetInv, Blank, FrameSteps

\* No step puts a nonce beyond the reservation counter into flash or RAM.
LEMMA AttemptInductive ==
  ASSUME Typed, AttemptInv, Next
  PROVE  AttemptInv'
<1> USE DEF FrameSteps
<1>0. /\ nonces \in 0 .. NonceCap /\ op.attempt \in 0 .. NonceCap /\ op.slot \in Slots
      /\ slot \in [Slots -> Images] /\ \A s \in Slots : slot[s].attempt \in 0 .. NonceCap
      /\ baseAttempt \in 0 .. NonceCap /\ identity \in 0 .. NonceCap
      /\ pc \in {"intent", "complete"} => active \in Slots
  BY DEF Typed, TypeOK, Ops, Images, OpInv
<1>1. CASE Recover \/ RecoverUnreconciled \/ RecoverFails
  <2>1. AnySelected => slot[TheSelected].attempt \in 1 .. nonces /\ TheSelected \in Slots
    BY SelectedAttempt
  <2>2. RecoverUnreconciled => AnySelected
    BY ScanType DEF RecoverUnreconciled, Typed, TypeOK, ZeroGen
  <2> QED BY <1>0, <1>1, <2>1, <2>2
       DEF Recover, RecoverUnreconciled, RecoverFails, AttemptInv, handleVars, flashVars
<1>2. CASE SealFails \/ ReserveIdentity \/ RejectReserved
  BY <1>0, <1>2
     DEF SealFails, ReserveIdentity, RejectReserved, AttemptInv, handleVars, flashVars
<1>3. ASSUME NEW v \in Values, NEW d \in Durability, BeginCommit(v, d)
      PROVE  AttemptInv'
  BY <1>0, <1>3 DEF BeginCommit, StartCommit, AttemptInv
<1>4. ASSUME NEW v \in Values, CommitReserved(v)
      PROVE  AttemptInv'
  BY <1>0, <1>4 DEF CommitReserved, StartCommit, AttemptInv
<1>5. CASE WriteIntent \/ EraseTarget \/ ProgramRecord \/ ProgramFrame
  <2>1. \A s \in Slots : slot'[s].attempt <= nonces
    <3>1. CASE WriteIntent
      BY <1>0, <3>1 DEF WriteIntent, AttemptInv, Images
    <3>2. CASE EraseTarget
      BY <1>0, <3>2 DEF EraseTarget, AttemptInv, Blank
    <3>3. CASE ProgramRecord
      BY <1>0, <3>3 DEF ProgramRecord, AttemptInv, SnapshotImage, Blank
    <3>4. CASE ProgramFrame
      BY <1>0, <3>4 DEF ProgramFrame, AttemptInv, Images
    <3> QED BY <1>5, <3>1, <3>2, <3>3, <3>4
  <2> QED BY <1>0, <1>5, <2>1 DEF WriteIntent, EraseTarget, ProgramRecord, ProgramFrame,
             AttemptInv, handleVars
<1>6. CASE WriteCommitMarker
  <2>1. \A s \in Slots : slot'[s].attempt <= nonces
    BY <1>0, <1>6 DEF WriteCommitMarker, AttemptInv, Images
  <2> QED BY <1>0, <1>6, <2>1
       DEF WriteCommitMarker, AttemptInv, FinishSlots, Acknowledge, handleVars
<1>7. CASE WriteReclaimComplete
  <2>1. \A s \in Slots : slot'[s].attempt <= nonces
    BY <1>0, <1>7 DEF WriteReclaimComplete, AttemptInv, Images
  <2> QED BY <1>0, <1>7, <2>1 DEF WriteReclaimComplete, AttemptInv, FinishSlots, Acknowledge
<1>8. CASE AdvanceAnchor \/ AdvanceFrameAnchor
  BY <1>0, <1>8 DEF AdvanceAnchor, AdvanceFrameAnchor, AttemptInv, Acknowledge
<1>9. ASSUME NEW v \in Values, NEW d \in Durability, BeginAppend(v, d)
      PROVE  AttemptInv'
  BY <1>0, <1>9 DEF BeginAppend, AttemptInv, flashVars
<1>10. CASE WriteFrameMarker
  <2>1. \A s \in Slots : slot'[s].attempt <= nonces
    BY <1>0, <1>10 DEF WriteFrameMarker, AttemptInv, Images, PublishFrame
  <2> QED BY <1>0, <1>10, <2>1 DEF WriteFrameMarker, AttemptInv, AdoptFrame, Acknowledge
<1>11. CASE Interrupt
  <2>1. \A s \in Slots : slot'[s].attempt <= nonces
    <3>1. Touched(pc) \in Slots
      BY <1>0 DEF Touched
    <3>2. PICK x \in Leftover(slot[Touched(pc)], pc) : slot' = [slot EXCEPT ![Touched(pc)] = x]
      BY <1>11 DEF Interrupt
    <3>3. x.attempt <= nonces
      <4>1. slot[Touched(pc)] \in Images /\ slot[Touched(pc)].attempt <= nonces
        BY <1>0, <3>1 DEF AttemptInv
      <4>2. CASE pc = "erase"
        <5>1. x \in PartialErase(slot[Touched(pc)])
          BY <3>2, <4>2 DEF Leftover
        <5>2. Blank.attempt = 0 /\ [Blank EXCEPT !.rec = "torn"].attempt = 0
          BY DEF Blank
        <5>3. [slot[Touched(pc)] EXCEPT !.rec = "torn"].attempt = slot[Touched(pc)].attempt
          BY <4>1 DEF Images
        <5>4. x \in {slot[Touched(pc)], Blank, [Blank EXCEPT !.rec = "torn"],
                     [slot[Touched(pc)] EXCEPT !.rec = "torn"]}
          BY <5>1, Zenon DEF PartialErase
        <5>5. x.attempt \in {0, slot[Touched(pc)].attempt}
          BY <5>2, <5>3, <5>4, Zenon
        <5> QED BY <1>0, <4>1, <5>5
      <4>3. CASE pc = "program"
        <5>1. x \in {slot[Touched(pc)], [slot[Touched(pc)] EXCEPT !.rec = "torn"],
                     SnapshotImage(op)}
          BY <3>2, <4>3 DEF Leftover
        <5>2. [slot[Touched(pc)] EXCEPT !.rec = "torn"].attempt = slot[Touched(pc)].attempt
          BY <4>1 DEF Images
        <5>3. SnapshotImage(op).attempt = op.attempt /\ op.attempt <= nonces
          BY <1>0, <4>3 DEF SnapshotImage, AttemptInv
        <5> QED BY <4>1, <5>1, <5>2, <5>3
      <4>4. CASE pc = "frameMarker"
        BY <1>0, <3>2, <4>1, <4>4 DEF Leftover, PublishFrame, Images
      <4>5. CASE pc \in {"marker", "intent", "complete", "frame"}
        BY <1>0, <3>2, <4>1, <4>5 DEF Leftover, Images
      <4>6. CASE pc \in {"anchor", "frameAnchor"}
        BY <3>2, <4>1, <4>6 DEF Leftover
      <4> QED BY <1>11, <4>2, <4>3, <4>4, <4>5, <4>6 DEF Interrupt, Typed, TypeOK, Steps
    <3> QED BY <1>0, <3>1, <3>2, <3>3 DEF AttemptInv
  <2> QED BY <1>0, <1>11, <2>1 DEF Interrupt, Poisoned, Closed, AttemptInv
<1>12. CASE PowerOff
  BY <1>0, <1>12 DEF PowerOff, Closed, AttemptInv, flashVars
<1>13. ASSUME NEW s \in Slots, Damage(s)
       PROVE  AttemptInv'
  BY <1>0, <1>13 DEF Damage, AttemptInv, handleVars, Images
<1> QED BY <1>1, <1>2, <1>3, <1>4, <1>5, <1>6, <1>7, <1>8, <1>9, <1>10, <1>11,
           <1>12, <1>13 DEF Next

\* The slot being rewritten is erased before it is programmed, and whole before it is marked.
LEMMA TargetInductive ==
  ASSUME Typed, AnchorInv, TargetInv, Next
  PROVE  TargetInv'
<1>0. op.slot \in Slots /\ slot \in [Slots -> Images]
  BY DEF Typed, TypeOK, Ops
<1>1. CASE EraseTarget \/ ProgramRecord
  BY <1>0, <1>1 DEF EraseTarget, ProgramRecord, TargetInv
<1>2. CASE pc' \notin {"program", "marker"}
  BY <1>2 DEF TargetInv
<1>3. CASE Recover \/ RecoverUnreconciled \/ RecoverFails \/ SealFails \/ ReserveIdentity
           \/ RejectReserved \/ PowerOff \/ Interrupt \/ \E s \in Slots : Damage(s)
  <2>1. pc' = "idle"
    BY <1>3 DEF Recover, RecoverUnreconciled, RecoverFails, SealFails, ReserveIdentity,
       RejectReserved, PowerOff, Interrupt, Damage, handleVars, AnchorInv
  <2> QED BY <1>2, <2>1
<1>4. CASE \/ \E v \in Values, d \in Durability : BeginCommit(v, d)
           \/ \E v \in Values : CommitReserved(v)
           \/ \E v \in Values, d \in Durability : BeginAppend(v, d)
  BY <1>2, <1>4 DEF BeginCommit, StartCommit, CommitReserved, BeginAppend
<1>5. CASE WriteIntent \/ WriteCommitMarker \/ WriteReclaimComplete \/ AdvanceAnchor
           \/ ProgramFrame \/ WriteFrameMarker \/ AdvanceFrameAnchor
  BY <1>2, <1>5 DEF WriteIntent, WriteCommitMarker, WriteReclaimComplete, AdvanceAnchor,
     ProgramFrame, WriteFrameMarker, AdvanceFrameAnchor, FinishSlots, Acknowledge
<1> QED BY <1>1, <1>3, <1>4, <1>5 DEF Next

-----------------------------------------------------------------------------
(* What each flash mutation does to the image it touches *)

\* Recovery reads two images alike when only their reclaim and tail words differ.
LEMMA SameReading ==
  ASSUME NEW x \in Images, NEW y \in Images, NEW n \in Nat,
         x.rec = y.rec, x.gen = y.gen, x.attempt = y.attempt, x.val = y.val,
         x.committed = y.committed, x.frames = y.frames
  PROVE  /\ ReplayOK(x) <=> ReplayOK(y)
         /\ LastGen(x) = LastGen(y) /\ LastVal(x) = LastVal(y)
         /\ ValidImage(x, n) /\ (y.complete => y.started) => ValidImage(y, n)
<1>1. ReplayOK(x) <=> ReplayOK(y)
  BY DEF ReplayOK, GenBefore
<1>2. LastGen(x) = LastGen(y) /\ LastVal(x) = LastVal(y)
  BY DEF LastGen, LastVal
<1> QED BY <1>1, <1>2 DEF ValidImage

\* The reclaim intent changes nothing recovery reads of the record itself.
LEMMA IntentImage ==
  ASSUME NEW x \in Images, NEW n \in Nat
  PROVE  LET y == [x EXCEPT !.started = TRUE] IN
         /\ ValidImage(x, n) => ValidImage(y, n)
         /\ LastGen(y) = LastGen(x) /\ LastVal(y) = LastVal(x)
         /\ y.started /\ y.complete = x.complete /\ y.attempt = x.attempt
<1> DEFINE y == [x EXCEPT !.started = TRUE]
<1>1. /\ y \in Images /\ x.rec = y.rec /\ x.gen = y.gen /\ x.attempt = y.attempt
      /\ x.val = y.val /\ x.committed = y.committed /\ x.frames = y.frames
      /\ y.started /\ y.complete = x.complete
  BY DEF Images
<1> HIDE DEF y
<1>2. /\ ValidImage(x, n) => ValidImage(y, n)
      /\ LastGen(y) = LastGen(x) /\ LastVal(y) = LastVal(x)
      /\ y.started /\ y.complete = x.complete /\ y.attempt = x.attempt
  BY <1>1, SameReading
<1> QED BY <1>2 DEF y

\* Reclaim completion changes nothing recovery reads of a record with an intent.
LEMMA CompleteImage ==
  ASSUME NEW x \in Images, NEW n \in Nat, x.started
  PROVE  LET y == [x EXCEPT !.complete = TRUE] IN
         /\ ValidImage(x, n) <=> ValidImage(y, n)
         /\ LastGen(y) = LastGen(x) /\ y.committed = x.committed
<1> DEFINE y == [x EXCEPT !.complete = TRUE]
<1>1. /\ y \in Images /\ x.rec = y.rec /\ x.gen = y.gen /\ x.attempt = y.attempt
      /\ x.val = y.val /\ x.committed = y.committed /\ x.frames = y.frames
      /\ y.started
  BY DEF Images
<1> HIDE DEF y
<1>2. /\ ValidImage(x, n) <=> ValidImage(y, n)
      /\ LastGen(y) = LastGen(x) /\ y.committed = x.committed
  BY <1>1, SameReading
<1> QED BY <1>2 DEF y

\* A partly programmed append frame does not change what replay reads.
LEMMA TornTailImage ==
  ASSUME NEW x \in Images, NEW n \in Nat
  PROVE  LET y == [x EXCEPT !.tail = "torn"] IN
         /\ ValidImage(x, n) => ValidImage(y, n)
         /\ LastGen(y) = LastGen(x) /\ LastVal(y) = LastVal(x)
         /\ y.started = x.started /\ y.complete = x.complete /\ y.attempt = x.attempt
<1> DEFINE y == [x EXCEPT !.tail = "torn"]
<1>1. /\ y \in Images /\ x.rec = y.rec /\ x.gen = y.gen /\ x.attempt = y.attempt
      /\ x.val = y.val /\ x.committed = y.committed /\ x.frames = y.frames
      /\ y.started = x.started /\ y.complete = x.complete
  BY DEF Images
<1> HIDE DEF y
<1>2. /\ ValidImage(x, n) => ValidImage(y, n)
      /\ LastGen(y) = LastGen(x) /\ LastVal(y) = LastVal(x)
      /\ y.started = x.started /\ y.complete = x.complete /\ y.attempt = x.attempt
  BY <1>1, SameReading DEF ValidImage
<1> QED BY <1>2 DEF y

\* The commit marker turns a programmed snapshot into a readable record.
LEMMA CommittedSnapshot ==
  ASSUME NEW o \in Ops, NEW n \in Nat, o.attempt \in 1 .. n, o.gen.q # 0,
         AppendEnabled => o.gen.a # 0
  PROVE  LET y == [SnapshotImage(o) EXCEPT !.committed = TRUE] IN
         /\ ValidImage(y, n) /\ LastGen(y) = o.gen /\ LastVal(y) = o.val
         /\ ~y.started /\ ~y.complete /\ y.attempt = o.attempt
<1> DEFINE y == [SnapshotImage(o) EXCEPT !.committed = TRUE]
<1>1. /\ y.committed /\ y.rec = "whole" /\ y.attempt = o.attempt /\ y.gen = o.gen
      /\ y.val = o.val /\ ~y.started /\ ~y.complete /\ y.frames = <<>>
  BY DEF SnapshotImage
<1> HIDE DEF y
<1>2. ReplayOK(y)
  BY <1>1 DEF ReplayOK
<1>3. ValidImage(y, n) /\ LastGen(y) = o.gen /\ LastVal(y) = o.val
  BY <1>1, <1>2 DEF ValidImage, LastGen, LastVal
<1> QED BY <1>1, <1>3 DEF y

\* The frame marker extends a readable record by exactly the frame in flight.
LEMMA PublishedFrame ==
  ASSUME NEW x \in Images, NEW o \in Ops, NEW n \in Nat, o.val \in Values,
         ValidImage(x, n), Extends(LastGen(x), FrameOf(o), x.attempt)
  PROVE  LET y == PublishFrame(x, o) IN
         /\ ValidImage(y, n) /\ LastGen(y) = o.gen /\ LastVal(y) = o.val
         /\ y.started = x.started /\ y.complete = x.complete /\ y.attempt = x.attempt
<1> DEFINE y == PublishFrame(x, o)
<1> DEFINE f == FrameOf(o)
<1>1. /\ y.rec = x.rec /\ y.gen = x.gen /\ y.attempt = x.attempt /\ y.val = x.val
      /\ y.committed = x.committed /\ y.frames = Append(x.frames, f)
      /\ y.started = x.started /\ y.complete = x.complete
  BY DEF PublishFrame, Images
<1>2. f.gen = o.gen /\ f.val = o.val /\ f \in Frames
  BY DEF FrameOf, Frames, Ops
<1> HIDE DEF y, f
<1>3. /\ x.frames \in Seq(Frames) /\ Len(y.frames) = Len(x.frames) + 1
      /\ y.frames[Len(x.frames) + 1] = f
      /\ \A i \in 1 .. Len(x.frames) : y.frames[i] = x.frames[i]
      /\ y.frames # <<>>
  BY <1>1, <1>2 DEF Images
<1>4. LastGen(y) = o.gen /\ LastVal(y) = o.val
  BY <1>2, <1>3 DEF LastGen, LastVal
<1>5. ReplayOK(y)
  <2> SUFFICES ASSUME NEW i \in 1 .. Len(y.frames)
               PROVE  Extends(GenBefore(y, i), y.frames[i], y.attempt)
    BY DEF ReplayOK
  <2>1. CASE i \in 1 .. Len(x.frames)
    <3>1. GenBefore(y, i) = GenBefore(x, i) /\ y.frames[i] = x.frames[i]
      BY <1>1, <1>3, <2>1 DEF GenBefore
    <3>2. Extends(GenBefore(x, i), x.frames[i], x.attempt)
      BY <2>1 DEF ValidImage, ReplayOK
    <3> QED BY <1>1, <3>1, <3>2
  <2>2. CASE i = Len(x.frames) + 1
    <3>1. GenBefore(y, i) = LastGen(x)
      BY <1>1, <1>3, <2>2 DEF GenBefore, LastGen
    <3> QED BY <1>1, <1>3, <2>2, <3>1 DEF f
  <2> QED BY <1>3, <2>1, <2>2
<1>6. ValidImage(y, n)
  BY <1>1, <1>5 DEF ValidImage
<1> QED BY <1>1, <1>4, <1>6 DEF y

-----------------------------------------------------------------------------
(* What each flash mutation does to the newest record *)

\* The comparison of packed generations is a strict order on the generations.
LEMMA GenOrder ==
  /\ \A g \in Generations : ~GenLess(g, g)
  /\ \A g, h, k \in Generations : GenLess(g, h) /\ ~GenLess(k, h) => GenLess(g, k)
  /\ \A g, h, k \in Generations : GenLess(g, h) /\ GenLess(h, k) => GenLess(g, k)
  /\ \A g, h \in Generations : GenLess(g, h) => ~GenLess(h, g)
BY DEF GenLess, Generations

\* The ring successor of a slot is another slot.
LEMMA SuccessorSlot ==
  ASSUME NEW c \in Slots
  PROVE  SlotAfter(c) \in Slots /\ SlotAfter(c) # c
BY DEF SlotAfter

\* Recovery selects exactly the newest record.
LEMMA SelectsNewest ==
  ASSUME Typed, NEW c \in Slots, NewestIs(c)
  PROVE  /\ AnySelected /\ TheSelected = c /\ ScanOK
         /\ ScanGen = LastGen(slot[c]) /\ ScanVal = LastVal(slot[c])
<1>0. \A s \in Slots : LastGen(slot[s]) \in Generations
  BY GenerationType DEF Typed, TypeOK
<1>1. Selected(c)
  BY <1>0, GenOrder DEF Selected, NewestIs
<1>2. \A s \in Slots : Selected(s) => s = c
  BY <1>0, GenOrder DEF Selected, NewestIs
<1>3. AnySelected /\ TheSelected = c
  BY <1>1, <1>2 DEF AnySelected, TheSelected
<1>4. ScanOK
  BY <1>1, <1>3 DEF ScanOK, NewestIs
<1> QED BY <1>3, <1>4 DEF ScanGen, ScanVal

\* More reservations change no reading of the flash.
LEMMA ReadingStable ==
  ASSUME Typed, AttemptInv, slot' = slot, nonces' \in Nat, nonces' >= nonces,
         NEW c \in Slots
  PROVE  /\ \A s \in Slots : Valid(s)' <=> Valid(s)
         /\ NewestIs(c) => NewestIs(c)'
<1>1. \A s \in Slots : Valid(s)' <=> Valid(s)
  BY DEF Valid, ValidImage, AttemptInv, Typed, TypeOK, Images
<1> QED BY <1>1 DEF NewestIs, Corrupt

\* The target slot is rewritten without becoming readable.
LEMMA TargetRewritten ==
  ASSUME Typed, NEW c \in Slots, NewestIs(c), NEW s \in Slots, s = SlotAfter(c), NEW x,
         slot' = [slot EXCEPT ![s] = x], nonces' = nonces,
         ~ValidImage(x, nonces), slot[c].started
  PROVE  NewestIs(c)' /\ slot'[c] = slot[c]
<1>1. s # c /\ slot'[s] = x /\ \A t \in Slots : t # s => slot'[t] = slot[t]
  BY SuccessorSlot DEF Typed, TypeOK
<1>2. ~Valid(s)' /\ \A t \in Slots : t # s => (Valid(t)' <=> Valid(t))
  BY <1>1 DEF Valid
<1> QED BY <1>1, <1>2 DEF NewestIs, Corrupt

\* The newest record itself is extended.
LEMMA NewestExtended ==
  ASSUME Typed, NEW c \in Slots, NewestIs(c), NEW x,
         slot' = [slot EXCEPT ![c] = x], nonces' = nonces,
         LastGen(x) \in Generations, ValidImage(x, nonces),
         ~GenLess(LastGen(x), LastGen(slot[c])),
         ~x.complete, slot[c].started => x.started
  PROVE  NewestIs(c)' /\ slot'[c] = x
<1>0. \A t \in Slots : LastGen(slot[t]) \in Generations
  BY GenerationType DEF Typed, TypeOK
<1>1. slot'[c] = x /\ \A t \in Slots : t # c => slot'[t] = slot[t]
  BY DEF Typed, TypeOK
<1>2. Valid(c)' /\ \A t \in Slots : t # c => (Valid(t)' <=> Valid(t))
  BY <1>1 DEF Valid
<1>3. \A t \in Slots : t # c /\ Valid(t)' => GenLess(LastGen(slot'[t]), LastGen(x))
  BY <1>0, <1>1, <1>2, GenOrder DEF NewestIs
<1>4. \A t \in Slots : Corrupt(t)' => t = SlotAfter(c) /\ x.started
  BY <1>1, <1>2 DEF NewestIs, Corrupt
<1> QED BY <1>1, <1>2, <1>3, <1>4 DEF NewestIs

\* A newer record is published in another slot.
LEMMA NewestMoves ==
  ASSUME Typed, NEW s \in Slots, NEW x,
         slot' = [slot EXCEPT ![s] = x], nonces' = nonces,
         ValidImage(x, nonces), ~x.complete,
         \A t \in Slots : t # s /\ Valid(t) => GenLess(LastGen(slot[t]), LastGen(x)),
         \A t \in Slots : t # s => ~Corrupt(t)
  PROVE  NewestIs(s)' /\ slot'[s] = x /\ \A t \in Slots : ~Corrupt(t)'
<1>1. slot'[s] = x /\ \A t \in Slots : t # s => slot'[t] = slot[t]
  BY DEF Typed, TypeOK
<1>2. Valid(s)' /\ \A t \in Slots : t # s => (Valid(t)' <=> Valid(t))
  BY <1>1 DEF Valid
<1>3. \A t \in Slots : ~Corrupt(t)'
  BY <1>1, <1>2 DEF Corrupt
<1> QED BY <1>1, <1>2, <1>3 DEF NewestIs

\* The record that was replaced is closed.
LEMMA OldRecordClosed ==
  ASSUME Typed, NEW c \in Slots, NewestIs(c), NEW s \in Slots, s # c, NEW x,
         slot' = [slot EXCEPT ![s] = x], nonces' = nonces,
         ValidImage(x, nonces) <=> ValidImage(slot[s], nonces),
         LastGen(x) = LastGen(slot[s]), x.committed = slot[s].committed
  PROVE  /\ NewestIs(c)' /\ slot'[c] = slot[c]
         /\ \A t \in Slots : Corrupt(t)' <=> Corrupt(t)
<1>1. slot'[s] = x /\ \A t \in Slots : t # s => slot'[t] = slot[t]
  BY DEF Typed, TypeOK
<1>2. \A t \in Slots : Valid(t)' <=> Valid(t)
  BY <1>1 DEF Valid
<1>3. \A t \in Slots : Corrupt(t)' <=> Corrupt(t)
  BY <1>1, <1>2 DEF Corrupt
<1> QED BY <1>1, <1>2, <1>3 DEF NewestIs

-----------------------------------------------------------------------------
(* Preservation of StoredInv *)

FullInv == Typed /\ AnchorInv /\ AttemptInv /\ TargetInv /\ StoredInv

\* When nothing was ever committed, recovery selects nothing.
LEMMA NothingSelected ==
  ASSUME Typed, NothingStored
  PROVE  /\ ~AnySelected /\ ScanGen = ZeroGen /\ ScanVal = NoValue
         /\ \A s \in Slots : ~Valid(s) /\ ~Corrupt(s)
<1>1. \A s \in Slots : ~Valid(s) /\ ~Corrupt(s)
  BY DEF NothingStored, Valid, ValidImage, Corrupt
<1>2. ~AnySelected
  BY <1>1 DEF AnySelected, Selected
<1> QED BY <1>1, <1>2 DEF ScanGen, ScanVal

\* Steps that touch no slot.
QuietStep ==
  \/ Recover \/ RecoverUnreconciled \/ RecoverFails
  \/ \E v \in Values, d \in Durability : BeginCommit(v, d)
  \/ SealFails \/ ReserveIdentity \/ RejectReserved
  \/ \E v \in Values : CommitReserved(v)
  \/ AdvanceAnchor
  \/ \E v \in Values, d \in Durability : BeginAppend(v, d)
  \/ AdvanceFrameAnchor \/ PowerOff

\* A step that is not a slot mutation leaves every slot alone.
LEMMA QuietFlash ==
  ASSUME Typed, QuietStep
  PROVE  slot' = slot /\ nonces' \in Nat /\ nonces' >= nonces /\ damaged' = damaged
BY DEF QuietStep, Recover, RecoverUnreconciled, RecoverFails, BeginCommit, StartCommit,
   SealFails, ReserveIdentity, RejectReserved, CommitReserved, AdvanceAnchor,
   BeginAppend, AdvanceFrameAnchor, PowerOff, flashVars, handleVars, Typed, TypeOK,
   Acknowledge

\* Such a step stores nothing.
LEMMA QuietNothing ==
  ASSUME FullInv, NothingStored, QuietStep
  PROVE  NothingStored'
<1> USE DEF FullInv
<1>1. slot' = slot /\ mono \in Nat
  BY QuietFlash DEF Typed, TypeOK
<1>2. ~AnySelected /\ ScanGen = ZeroGen /\ ScanVal = NoValue
  BY NothingSelected
<1>3. CASE Recover
  BY <1>1, <1>2, <1>3 DEF Recover, NothingStored, ZeroGen
<1>4. CASE RecoverUnreconciled
  BY <1>1, <1>2, <1>4 DEF RecoverUnreconciled, ZeroGen
<1>5. CASE RecoverFails \/ SealFails \/ ReserveIdentity \/ RejectReserved \/ PowerOff
  BY <1>1, <1>5 DEF RecoverFails, SealFails, ReserveIdentity, RejectReserved, PowerOff,
     Closed, NothingStored, flashVars, handleVars
<1>6. CASE \/ \E v \in Values, d \in Durability : BeginCommit(v, d)
           \/ \E v \in Values : CommitReserved(v)
  BY <1>1, <1>6 DEF BeginCommit, CommitReserved, StartCommit, NothingStored
<1>7. ASSUME NEW v \in Values, NEW d \in Durability, BeginAppend(v, d)
      PROVE  NothingStored'
  BY <1>7 DEF BeginAppend, NothingStored
<1>8. CASE AdvanceAnchor \/ AdvanceFrameAnchor
  BY <1>8 DEF AdvanceAnchor, AdvanceFrameAnchor, NothingStored
<1> QED BY <1>3, <1>4, <1>5, <1>6, <1>7, <1>8 DEF QuietStep

\* Such a step keeps the newest record and what the handle says of it.
LEMMA QuietSafe ==
  ASSUME FullInv, NEW c \in Slots, Safe(c), QuietStep
  PROVE  Safe(c)'
<1> USE DEF FullInv, SnapshotSteps
<1>0. /\ slot' = slot /\ NewestIs(c)' /\ NewestIs(c) /\ CoversKnown(c) /\ HandleInv(c)
      /\ \A t \in Slots : Corrupt(t)' <=> Corrupt(t)
  BY QuietFlash, ReadingStable DEF Safe, Corrupt
<1>1. /\ TheSelected = c /\ ScanGen = LastGen(slot[c]) /\ ScanVal = LastVal(slot[c])
      /\ AnySelected
  BY SelectsNewest, <1>0
<1>2. /\ LastGen(slot[c]) \in Generations /\ mono \in Nat /\ known.gen \in Generations
      /\ op.gen \in Generations
  BY GenerationType DEF Typed, TypeOK, Ops
<1>3. CASE Recover
  <2>1. pc = "idle" /\ pc' = "idle" /\ mono' = LastGen(slot[c]).a
        /\ known' = [gen |-> LastGen(slot[c]), val |-> LastVal(slot[c])]
        /\ active' = c /\ baseAttempt' = slot[c].attempt
    BY <1>1, <1>3 DEF Recover
  <2>2. CoversKnown(c)'
    BY <1>0, <1>2, <2>1, GenOrder DEF CoversKnown
  <2>3. HandleInv(c)'
    BY <1>0, <2>1 DEF HandleInv
  <2> QED BY <1>0, <2>2, <2>3 DEF Safe
<1>4. CASE RecoverUnreconciled
  <2>1. CoversKnown(c)'
    BY <1>0, <1>1, <1>2, <1>4 DEF RecoverUnreconciled, CoversKnown, Generations
  <2>2. HandleInv(c)'
    BY <1>0, <1>4 DEF RecoverUnreconciled, HandleInv, handleVars
  <2> QED BY <1>0, <2>1, <2>2 DEF Safe
<1>5. CASE RecoverFails \/ SealFails \/ ReserveIdentity \/ RejectReserved \/ PowerOff
  <2>1. CoversKnown(c)'
    BY <1>0, <1>5 DEF RecoverFails, SealFails, ReserveIdentity, RejectReserved, PowerOff,
       CoversKnown, flashVars
  <2>2. HandleInv(c)'
    BY <1>0, <1>5 DEF RecoverFails, SealFails, ReserveIdentity, RejectReserved, PowerOff,
       Closed, HandleInv, flashVars, handleVars
  <2> QED BY <1>0, <2>1, <2>2 DEF Safe
<1>6. ASSUME NEW v \in Values, NEW d, NEW n, StartCommit(v, d, n)
      PROVE  Safe(c)'
  <2>1. active = c /\ LastGen(slot[c]) = known.gen /\ active # NoSlot
    BY <1>0, <1>6 DEF StartCommit, HandleInv
  <2>2. op'.slot = SlotAfter(c) /\ pc' = "intent" /\ mode' = "poisoned"
        /\ UNCHANGED <<active, known, mono>>
    BY <1>6, <2>1 DEF StartCommit, NextSlot
  <2>3. CoversKnown(c)'
    BY <1>0, <2>2 DEF CoversKnown
  <2>4. HandleInv(c)'
    BY <1>0, <2>1, <2>2 DEF HandleInv
  <2> QED BY <1>0, <2>3, <2>4 DEF Safe
<1>7. CASE \/ \E v \in Values, d \in Durability : BeginCommit(v, d)
           \/ \E v \in Values : CommitReserved(v)
  BY <1>6, <1>7 DEF BeginCommit, CommitReserved
<1>8. ASSUME NEW v \in Values, NEW d \in Durability, BeginAppend(v, d)
      PROVE  Safe(c)'
  <2>1. active = c /\ LastGen(slot[c]) = known.gen /\ baseAttempt = slot[c].attempt
    BY <1>0, <1>8 DEF BeginAppend, HandleInv
  <2>2. CoversKnown(c)'
    BY <1>0, <1>8 DEF BeginAppend, CoversKnown, flashVars
  <2>3. HandleInv(c)'
    BY <1>0, <1>8, <2>1 DEF BeginAppend, HandleInv, flashVars
  <2> QED BY <1>0, <2>2, <2>3 DEF Safe
<1>9. CASE AdvanceAnchor \/ AdvanceFrameAnchor
  <2>1. /\ active = c /\ baseAttempt = slot[c].attempt
        /\ LastGen(slot[c]) = op.gen /\ LastVal(slot[c]) = op.val
    BY <1>0, <1>9 DEF AdvanceAnchor, AdvanceFrameAnchor, HandleInv
  <2>2. /\ mono' = op.gen.a /\ known' = [gen |-> op.gen, val |-> op.val]
        /\ pc' = "idle" /\ UNCHANGED <<active, baseAttempt>>
    BY <1>9 DEF AdvanceAnchor, AdvanceFrameAnchor, Acknowledge
  <2>3. CoversKnown(c)'
    BY <1>0, <1>2, <2>1, <2>2, GenOrder DEF CoversKnown
  <2>4. HandleInv(c)'
    BY <1>0, <2>1, <2>2 DEF HandleInv
  <2> QED BY <1>0, <2>3, <2>4 DEF Safe
<1> QED BY <1>3, <1>4, <1>5, <1>7, <1>8, <1>9 DEF QuietStep

\* The record in flight is exactly one generation above what the caller knows.
LEMMA InFlightGeneration ==
  ASSUME Typed, AnchorInv, pc # "idle"
  PROVE  /\ op.gen.a \in {mono, mono + 1} /\ op.gen.q = known.gen.q + 1 /\ op.gen.q # 0
         /\ GenLess(known.gen, op.gen) /\ op.gen # known.gen
         /\ op.gen.a \in {known.gen.a, known.gen.a + 1}
<1>1. /\ op.gen \in Generations /\ known.gen \in Generations
      /\ op.dur \in {"Ordinary", "Anchored"} /\ mono \in Nat
  BY DEF Typed, TypeOK, Ops
<1> QED BY <1>1 DEF AnchorInv, NextGeneration, Bump, GenLess, Generations

\* The slot being rewritten holds no readable record and is not the newest one.
LEMMA NobodyInTarget ==
  ASSUME FullInv, NEW c \in Slots, Safe(c), pc \in {"program", "marker"}
  PROVE  /\ op.slot \in Slots /\ op.slot = SlotAfter(c) /\ op.slot # c
         /\ ~slot[op.slot].committed /\ slot[c].started
         /\ \A t \in Slots : ~Corrupt(t)
<1>1. op.slot \in Slots /\ op.slot = SlotAfter(c) /\ op.slot # c /\ slot[c].started
  BY SuccessorSlot DEF Safe, HandleInv, SnapshotSteps
<1>2. ~slot[op.slot].committed
  BY DEF FullInv, TargetInv, Blank, SnapshotImage
<1> QED BY <1>1, <1>2 DEF Safe, NewestIs, Corrupt

\* The commit marker publishes the new snapshot.
LEMMA MarkerPublishes ==
  ASSUME FullInv, pc = "marker", NothingStored \/ \E c \in Slots : Safe(c),
         NEW s \in Slots, s = op.slot,
         slot' = [slot EXCEPT ![op.slot].committed = TRUE], nonces' = nonces
  PROVE  /\ NewestIs(s)' /\ \A t \in Slots : ~Corrupt(t)'
         /\ LastGen(slot'[s]) = op.gen /\ LastVal(slot'[s]) = op.val
         /\ slot'[s].attempt = op.attempt
<1> DEFINE y == [SnapshotImage(op) EXCEPT !.committed = TRUE]
<1>0. Typed /\ op \in Ops /\ op.slot \in Slots /\ nonces \in Nat /\ op.gen \in Generations
  BY DEF FullInv, Typed, TypeOK, Ops
<1>1. slot' = [slot EXCEPT ![s] = y]
  BY DEF FullInv, TargetInv
<1>2. op.attempt \in 1 .. nonces /\ op.gen.q # 0 /\ (AppendEnabled => op.gen.a # 0)
  BY InFlightGeneration DEF FullInv, AttemptInv, Typed, OpInv
<1>3. /\ ValidImage(y, nonces) /\ LastGen(y) = op.gen /\ LastVal(y) = op.val
      /\ ~y.started /\ ~y.complete /\ y.attempt = op.attempt
  BY <1>0, <1>2, CommittedSnapshot
<1>4. /\ \A t \in Slots : t # s /\ Valid(t) => GenLess(LastGen(slot[t]), op.gen)
      /\ \A t \in Slots : t # s => ~Corrupt(t)
  <2>1. CASE NothingStored
    BY <2>1, NothingSelected DEF FullInv
  <2>2. ASSUME NEW c \in Slots, Safe(c)
        PROVE  <1>4!1 /\ <1>4!2
    <3>1. LastGen(slot[c]) = known.gen
      BY <2>2 DEF Safe, HandleInv, SnapshotSteps
    <3>2. GenLess(known.gen, op.gen)
      BY InFlightGeneration DEF FullInv
    <3>3. \A t \in Slots : LastGen(slot[t]) \in Generations
      BY GenerationType DEF FullInv, Typed, TypeOK
    <3>4. \A t \in Slots : t # c /\ Valid(t) => GenLess(LastGen(slot[t]), LastGen(slot[c]))
      BY <2>2 DEF Safe, NewestIs
    <3> QED BY <1>0, <2>2, <3>1, <3>2, <3>3, <3>4, GenOrder, NobodyInTarget
  <2> QED BY <2>1, <2>2
<1> HIDE DEF y
<1>5. \A t \in Slots : t # s /\ Valid(t) => GenLess(LastGen(slot[t]), LastGen(y))
  BY <1>3, <1>4
<1>6. NewestIs(s)' /\ slot'[s] = y /\ \A t \in Slots : ~Corrupt(t)'
  <2>1. \A t \in Slots : t # s => ~Corrupt(t)
    BY <1>4
  <2>2. Typed /\ ValidImage(y, nonces) /\ ~y.complete
    BY <1>0, <1>3
  <2> QED BY <1>1, <1>5, <2>1, <2>2, NewestMoves
<1> QED BY <1>3, <1>6

\* The frame marker publishes an append record behind the newest snapshot.
LEMMA FramePublishes ==
  ASSUME FullInv, pc = "frameMarker", NEW c \in Slots, Safe(c),
         slot' = [slot EXCEPT ![op.slot] = PublishFrame(@, op)], nonces' = nonces
  PROVE  /\ op.slot = c /\ NewestIs(c)'
         /\ LastGen(slot'[c]) = op.gen /\ LastVal(slot'[c]) = op.val
         /\ slot'[c].attempt = slot[c].attempt
<1> DEFINE y == PublishFrame(slot[c], op)
<1>0. /\ Typed /\ op \in Ops /\ nonces \in Nat /\ op.gen \in Generations
      /\ op.val \in Values /\ slot[c] \in Images
  BY DEF FullInv, Typed, TypeOK, Ops, OpInv
<1>1. op.slot = c /\ op.attempt = slot[c].attempt /\ LastGen(slot[c]) = known.gen
  BY DEF Safe, HandleInv
<1>2. slot' = [slot EXCEPT ![c] = y]
  BY <1>1
<1>3. ValidImage(slot[c], nonces) /\ ~slot[c].complete
  BY DEF Safe, NewestIs, Valid
<1>4. Extends(LastGen(slot[c]), FrameOf(op), slot[c].attempt)
  BY <1>1, InFlightGeneration DEF Extends, FrameOf, FullInv
<1>5. /\ ValidImage(y, nonces) /\ LastGen(y) = op.gen /\ LastVal(y) = op.val
      /\ y.started = slot[c].started /\ y.complete = slot[c].complete
      /\ y.attempt = slot[c].attempt
  BY <1>0, <1>3, <1>4, PublishedFrame
<1>6. ~GenLess(op.gen, LastGen(slot[c]))
  BY <1>0, <1>1, InFlightGeneration, GenOrder DEF FullInv, Typed, TypeOK
<1> HIDE DEF y
<1>7. NewestIs(c)' /\ slot'[c] = y
  BY <1>0, <1>2, <1>3, <1>5, <1>6, NewestExtended DEF Safe
<1> QED BY <1>1, <1>5, <1>7

\* Once the new snapshot is the newest record, moving the handle to it is safe.
LEMMA FinishSafe ==
  ASSUME FullInv, pc # "idle", NEW s \in Slots, s = op.slot, FinishSlots, mono' = mono,
         NewestIs(s)', \A t \in Slots : ~Corrupt(t)',
         LastGen(slot'[s]) = op.gen, LastVal(slot'[s]) = op.val,
         slot'[s].attempt = op.attempt
  PROVE  Safe(s)'
<1>0. op.gen \in Generations /\ known.gen \in Generations /\ op.dur \in {"Ordinary", "Anchored"}
  BY DEF FullInv, Typed, TypeOK, Ops
<1>1. /\ op.gen.a \in {mono, mono + 1} /\ GenLess(known.gen, op.gen) /\ op.gen # known.gen
  BY InFlightGeneration DEF FullInv
<1>2. active' = s /\ baseAttempt' = op.attempt
  BY DEF FinishSlots
<1>3. CASE op.dur = "Anchored"
  <2>1. pc' = "anchor" /\ UNCHANGED <<mode, op, known>> /\ mode # "ready"
    BY <1>3 DEF FinishSlots, FullInv, AnchorInv
  <2>2. CoversKnown(s)'
    BY <1>0, <1>1, <2>1, GenOrder DEF CoversKnown
  <2>3. HandleInv(s)'
    BY <1>2, <2>1 DEF HandleInv, SnapshotSteps
  <2> QED BY <2>2, <2>3 DEF Safe
<1>4. CASE op.dur # "Anchored"
  <2>1. pc' = "idle" /\ known' = [gen |-> op.gen, val |-> op.val]
    BY <1>4 DEF FinishSlots, Acknowledge
  <2>2. CoversKnown(s)'
    BY <1>0, <1>1, <2>1, GenOrder DEF CoversKnown
  <2>3. HandleInv(s)'
    BY <1>2, <2>1 DEF HandleInv, SnapshotSteps
  <2> QED BY <2>2, <2>3 DEF Safe
<1> QED BY <1>3, <1>4

\* Every slot mutation leaves some newest record that covers what the caller knows.
LEMMA SlotStepSafe ==
  ASSUME FullInv, NEW c \in Slots, Safe(c),
         WriteIntent \/ EraseTarget \/ ProgramRecord \/ WriteCommitMarker
         \/ WriteReclaimComplete \/ ProgramFrame \/ WriteFrameMarker
  PROVE  \E d \in Slots : Safe(d)'
<1> USE DEF SnapshotSteps
<1>0. /\ Typed /\ NewestIs(c) /\ CoversKnown(c) /\ HandleInv(c) /\ slot[c] \in Images
      /\ nonces \in Nat /\ op.slot \in Slots /\ op.gen \in Generations
      /\ known.gen \in Generations /\ LastGen(slot[c]) \in Generations
      /\ slot \in [Slots -> Images]
  BY GenerationType DEF FullInv, Typed, TypeOK, Ops, Safe
<1>1. CASE WriteIntent
  <2> DEFINE y == [slot[c] EXCEPT !.started = TRUE]
  <2>1. active = c /\ LastGen(slot[c]) = known.gen /\ op.slot = SlotAfter(c)
    BY <1>0, <1>1 DEF WriteIntent, HandleInv
  <2>2. /\ slot' = [slot EXCEPT ![c] = y] /\ pc' = "erase"
        /\ UNCHANGED <<mono, nonces, known, mode, active, baseAttempt, op>>
    BY <1>1, <2>1 DEF WriteIntent, handleVars
  <2>3. /\ ValidImage(y, nonces) /\ LastGen(y) = LastGen(slot[c])
        /\ LastVal(y) = LastVal(slot[c]) /\ y.started /\ ~y.complete
        /\ y.attempt = slot[c].attempt
    BY <1>0, IntentImage DEF NewestIs, Valid
  <2> HIDE DEF y
  <2>4. NewestIs(c)' /\ slot'[c] = y
    BY <1>0, <2>2, <2>3, GenOrder, NewestExtended
  <2>5. CoversKnown(c)'
    BY <1>0, <2>2, <2>3, <2>4 DEF CoversKnown
  <2>6. HandleInv(c)'
    BY <1>0, <1>1, <2>1, <2>2, <2>3, <2>4 DEF HandleInv, WriteIntent
  <2> QED BY <2>4, <2>5, <2>6 DEF Safe
<1>2. CASE EraseTarget
  <2>1. op.slot = SlotAfter(c) /\ slot[c].started /\ active = c /\ LastGen(slot[c]) = known.gen
    BY <1>0, <1>2 DEF EraseTarget, HandleInv
  <2>2. ~ValidImage(Blank, nonces)
    BY DEF ValidImage, Blank
  <2>3. /\ slot' = [slot EXCEPT ![op.slot] = Blank] /\ pc' = "program"
        /\ UNCHANGED <<mono, nonces, known, mode, active, baseAttempt, op>>
    BY <1>2 DEF EraseTarget, handleVars
  <2>4. NewestIs(c)' /\ slot'[c] = slot[c]
    BY <1>0, <2>1, <2>2, <2>3, TargetRewritten
  <2>5. CoversKnown(c)'
    BY <1>0, <2>3, <2>4 DEF CoversKnown
  <2>6. HandleInv(c)'
    BY <1>0, <1>2, <2>1, <2>3, <2>4 DEF HandleInv, EraseTarget
  <2> QED BY <2>4, <2>5, <2>6 DEF Safe
<1>3. CASE ProgramRecord
  <2>1. op.slot = SlotAfter(c) /\ slot[c].started /\ active = c /\ LastGen(slot[c]) = known.gen
    BY <1>0, <1>3 DEF ProgramRecord, HandleInv
  <2>2. ~ValidImage(SnapshotImage(op), nonces)
    BY DEF ValidImage, SnapshotImage
  <2>3. /\ slot' = [slot EXCEPT ![op.slot] = SnapshotImage(op)] /\ pc' = "marker"
        /\ UNCHANGED <<mono, nonces, known, mode, active, baseAttempt, op>>
    BY <1>3 DEF ProgramRecord, handleVars
  <2>4. NewestIs(c)' /\ slot'[c] = slot[c]
    BY <1>0, <2>1, <2>2, <2>3, TargetRewritten
  <2>5. CoversKnown(c)'
    BY <1>0, <2>3, <2>4 DEF CoversKnown
  <2>6. HandleInv(c)'
    BY <1>0, <1>3, <2>1, <2>3, <2>4 DEF HandleInv, ProgramRecord
  <2> QED BY <2>4, <2>5, <2>6 DEF Safe
<1>4. CASE WriteCommitMarker
  <2>0. PICK s \in Slots : s = op.slot
    BY <1>0
  <2>1. active = c /\ op.slot = SlotAfter(c) /\ slot[c].started /\ s # c
    BY <1>0, <1>4, <2>0, SuccessorSlot DEF WriteCommitMarker, HandleInv
  <2>2. /\ slot' = [slot EXCEPT ![op.slot].committed = TRUE] /\ pc' = "complete"
        /\ UNCHANGED <<mono, nonces, known, mode, active, op>> /\ pc = "marker"
    BY <1>4, <2>1 DEF WriteCommitMarker, handleVars
  <2>3. /\ NewestIs(s)' /\ \A t \in Slots : ~Corrupt(t)'
        /\ LastGen(slot'[s]) = op.gen /\ LastVal(slot'[s]) = op.val
        /\ slot'[s].attempt = op.attempt
    BY <2>0, <2>2, MarkerPublishes
  <2>4. slot'[c] = slot[c] /\ mode # "ready"
    BY <1>0, <2>0, <2>1, <2>2 DEF FullInv, AnchorInv
  <2>5. CoversKnown(s)'
    BY <1>0, <2>2, <2>3, InFlightGeneration, GenOrder DEF CoversKnown, FullInv
  <2>6. HandleInv(s)'
    BY <2>0, <2>1, <2>2, <2>3, <2>4 DEF HandleInv
  <2> QED BY <2>3, <2>5, <2>6 DEF Safe
<1>5. CASE WriteReclaimComplete
  <2> DEFINE y == [slot[active] EXCEPT !.complete = TRUE]
  <2>1. /\ op.slot = c /\ active # c /\ slot[active].started /\ op.attempt = slot[c].attempt
        /\ LastGen(slot[c]) = op.gen /\ LastVal(slot[c]) = op.val
        /\ \A t \in Slots : ~Corrupt(t)
    BY <1>0, <1>5 DEF WriteReclaimComplete, HandleInv
  <2>2. active \in Slots /\ slot[active] \in Images
    BY <1>0, <1>5 DEF WriteReclaimComplete, Typed, OpInv
  <2>3. slot' = [slot EXCEPT ![active] = y] /\ nonces' = nonces /\ mono' = mono
    BY <1>5 DEF WriteReclaimComplete
  <2>4. /\ ValidImage(y, nonces) <=> ValidImage(slot[active], nonces)
        /\ LastGen(y) = LastGen(slot[active]) /\ y.committed = slot[active].committed
    BY <1>0, <2>1, <2>2, CompleteImage
  <2> HIDE DEF y
  <2>5. /\ NewestIs(c)' /\ slot'[c] = slot[c]
        /\ \A t \in Slots : Corrupt(t)' <=> Corrupt(t)
    BY <1>0, <2>1, <2>2, <2>3, <2>4, OldRecordClosed
  <2>6. FinishSlots /\ pc # "idle"
    BY <1>5 DEF WriteReclaimComplete
  <2>7. Safe(c)'
    BY <2>1, <2>3, <2>5, <2>6, FinishSafe
  <2> QED BY <2>7
<1>6. CASE ProgramFrame
  <2> DEFINE y == [slot[c] EXCEPT !.tail = "torn"]
  <2>1. /\ op.slot = c /\ op.attempt = slot[c].attempt /\ active = c
        /\ LastGen(slot[c]) = known.gen /\ baseAttempt = slot[c].attempt
    BY <1>0, <1>6 DEF ProgramFrame, HandleInv
  <2>2. /\ slot' = [slot EXCEPT ![c] = y] /\ pc' = "frameMarker"
        /\ UNCHANGED <<mono, nonces, known, mode, active, baseAttempt, op>>
    BY <1>6, <2>1 DEF ProgramFrame, handleVars
  <2>3. /\ ValidImage(y, nonces) /\ LastGen(y) = LastGen(slot[c])
        /\ LastVal(y) = LastVal(slot[c]) /\ y.started = slot[c].started /\ ~y.complete
        /\ y.attempt = slot[c].attempt
    BY <1>0, TornTailImage DEF NewestIs, Valid
  <2> HIDE DEF y
  <2>4. NewestIs(c)' /\ slot'[c] = y
    BY <1>0, <2>2, <2>3, GenOrder, NewestExtended
  <2>5. CoversKnown(c)'
    BY <1>0, <2>2, <2>3, <2>4 DEF CoversKnown
  <2>6. HandleInv(c)'
    BY <1>0, <1>6, <2>1, <2>2, <2>3, <2>4 DEF HandleInv, ProgramFrame
  <2> QED BY <2>4, <2>5, <2>6 DEF Safe
<1>7. CASE WriteFrameMarker
  <2>1. /\ op.slot = c /\ NewestIs(c)'
        /\ LastGen(slot'[c]) = op.gen /\ LastVal(slot'[c]) = op.val
        /\ slot'[c].attempt = slot[c].attempt
    BY <1>7, FramePublishes DEF WriteFrameMarker
  <2>2. active = c /\ baseAttempt = slot[c].attempt /\ mode # "ready" /\ pc = "frameMarker"
    BY <1>0, <1>7 DEF WriteFrameMarker, HandleInv, FullInv, AnchorInv
  <2>3. /\ op.gen.a \in {mono, mono + 1} /\ GenLess(known.gen, op.gen) /\ op.gen # known.gen
    BY <2>2, InFlightGeneration DEF FullInv
  <2>4. CASE op.dur = "Anchored"
    <3>1. /\ pc' = "frameAnchor"
          /\ UNCHANGED <<mode, active, baseAttempt, mono, op, known>>
      BY <1>7, <2>4 DEF WriteFrameMarker
    <3>2. CoversKnown(c)'
      BY <1>0, <2>1, <2>3, <3>1, GenOrder DEF CoversKnown
    <3>3. HandleInv(c)'
      BY <2>1, <2>2, <3>1 DEF HandleInv
    <3> QED BY <2>1, <3>2, <3>3 DEF Safe
  <2>5. CASE op.dur # "Anchored"
    <3>1. /\ pc' = "idle" /\ known' = [gen |-> op.gen, val |-> op.val]
          /\ UNCHANGED <<active, baseAttempt, mono>>
      BY <1>7, <2>5 DEF WriteFrameMarker, Acknowledge
    <3>2. CoversKnown(c)'
      BY <1>0, <2>1, <2>3, <3>1, GenOrder DEF CoversKnown
    <3>3. HandleInv(c)'
      BY <2>1, <2>2, <3>1 DEF HandleInv
    <3> QED BY <2>1, <3>2, <3>3 DEF Safe
  <2> QED BY <2>4, <2>5
<1> QED BY <1>1, <1>2, <1>3, <1>4, <1>5, <1>6, <1>7

\* The first commit keeps the flash empty until its marker, and safe after it.
LEMMA SlotStepNothing ==
  ASSUME FullInv, NothingStored,
         WriteIntent \/ EraseTarget \/ ProgramRecord \/ WriteCommitMarker
         \/ WriteReclaimComplete \/ ProgramFrame \/ WriteFrameMarker
  PROVE  NothingStored' \/ \E d \in Slots : Safe(d)'
<1>0. slot \in [Slots -> Images] /\ op.slot \in Slots
  BY DEF FullInv, Typed, TypeOK, Ops
<1>1. CASE WriteIntent \/ WriteReclaimComplete \/ ProgramFrame \/ WriteFrameMarker
  BY <1>1 DEF WriteIntent, WriteReclaimComplete, ProgramFrame, WriteFrameMarker, NothingStored
<1>2. CASE EraseTarget
  <2>1. \A s \in Slots : ~slot'[s].committed
    BY <1>0, <1>2 DEF EraseTarget, NothingStored, Blank
  <2> QED BY <1>2, <2>1 DEF EraseTarget, NothingStored, handleVars
<1>3. CASE ProgramRecord
  <2>1. \A s \in Slots : ~slot'[s].committed
    BY <1>0, <1>3 DEF ProgramRecord, NothingStored, SnapshotImage
  <2> QED BY <1>3, <2>1 DEF ProgramRecord, NothingStored, handleVars
<1>4. CASE WriteCommitMarker
  <2>0. PICK s \in Slots : s = op.slot
    BY <1>0
  <2>1. active = NoSlot /\ pc = "marker" /\ pc # "idle"
    BY <1>4 DEF WriteCommitMarker, NothingStored
  <2>2. /\ slot' = [slot EXCEPT ![op.slot].committed = TRUE] /\ nonces' = nonces
        /\ mono' = mono /\ FinishSlots
    BY <1>4, <2>1 DEF WriteCommitMarker
  <2>3. /\ NewestIs(s)' /\ \A t \in Slots : ~Corrupt(t)'
        /\ LastGen(slot'[s]) = op.gen /\ LastVal(slot'[s]) = op.val
        /\ slot'[s].attempt = op.attempt
    BY <2>0, <2>1, <2>2, MarkerPublishes
  <2>4. Safe(s)'
    BY <2>0, <2>1, <2>2, <2>3, FinishSafe
  <2> QED BY <2>4
<1> QED BY <1>1, <1>2, <1>3, <1>4

\* A handle that is not ready, with nothing in flight, claims nothing.
LEMMA StoppedHandle ==
  ASSUME NEW c \in Slots, pc' = "idle", mode' # "ready"
  PROVE  HandleInv(c)'
BY DEF HandleInv, SnapshotSteps

\* A power cut or flash error in the middle of any mutation.
LEMMA InterruptStored ==
  ASSUME FullInv, NothingStored \/ \E c \in Slots : Safe(c), Interrupt
  PROVE  NothingStored' \/ \E d \in Slots : Safe(d)'
<1> USE DEF SnapshotSteps
<1>0. /\ Typed /\ slot \in [Slots -> Images] /\ op.slot \in Slots /\ nonces \in Nat /\ mono \in Nat
      /\ op.gen \in Generations /\ known.gen \in Generations /\ pc \in Steps
      /\ pc \in {"intent", "complete"} => active \in Slots
      /\ \A s \in Slots : LastGen(slot[s]) \in Generations
  BY GenerationType DEF FullInv, Typed, TypeOK, Ops, OpInv
<1>1. /\ pc # "idle" /\ pc' = "idle" /\ mode' # "ready" /\ nonces' = nonces /\ known' = known
      /\ mono' \in {mono} \cup (IF pc \in {"anchor", "frameAnchor"} THEN {op.gen.a} ELSE {})
  BY DEF Interrupt, Poisoned, Closed
<1>2. Touched(pc) \in Slots
  BY <1>0 DEF Touched
<1>3. PICK x \in Leftover(slot[Touched(pc)], pc) : slot' = [slot EXCEPT ![Touched(pc)] = x]
  BY DEF Interrupt
<1>4. /\ op.gen.a \in {mono, mono + 1} /\ GenLess(known.gen, op.gen) /\ op.gen # known.gen
  BY <1>1, InFlightGeneration DEF FullInv
<1>5. CASE slot' = slot
  <2>1. CASE NothingStored
    <3>1. pc \notin {"anchor", "frameAnchor"}
      BY <2>1 DEF NothingStored
    <3> QED BY <1>1, <1>5, <2>1, <3>1 DEF NothingStored
  <2>2. ASSUME NEW c \in Slots, Safe(c)
        PROVE  Safe(c)'
    <3>1. NewestIs(c)'
      BY <1>0, <1>1, <1>5, <2>2, ReadingStable DEF FullInv, Safe
    <3>2. pc \in {"anchor", "frameAnchor"} => LastGen(slot[c]) = op.gen
      BY <2>2 DEF Safe, HandleInv
    <3>3. CoversKnown(c)'
      BY <1>0, <1>1, <1>4, <1>5, <2>2, <3>2 DEF Safe, CoversKnown
    <3> QED BY <1>1, <3>1, <3>3, StoppedHandle DEF Safe
  <2> QED BY <2>1, <2>2
<1>6. CASE x # slot[Touched(pc)] /\ pc \in {"erase", "program"}
  <2>1. Touched(pc) = op.slot /\ mono' = mono
    BY <1>1, <1>6 DEF Touched
  <2>2. ~ValidImage(x, nonces) /\ (pc = "program" => ~x.committed)
    <3>1. CASE pc = "erase"
      <4>1. x \in PartialErase(slot[op.slot])
        BY <1>3, <2>1, <3>1 DEF Leftover
      <4>2. x \in {Blank, [Blank EXCEPT !.rec = "torn"], [slot[op.slot] EXCEPT !.rec = "torn"]}
        BY <1>6, <2>1, <4>1, Zenon DEF PartialErase
      <4>3. x.rec # "whole"
        <5>1. Blank.rec # "whole" /\ [Blank EXCEPT !.rec = "torn"].rec # "whole"
          BY DEF Blank
        <5>2. [slot[op.slot] EXCEPT !.rec = "torn"].rec # "whole"
          BY <1>0 DEF Images
        <5> QED BY <4>2, <5>1, <5>2
      <4> QED BY <3>1, <4>3 DEF ValidImage
    <3>2. CASE pc = "program"
      <4>1. slot[op.slot] = Blank
        BY <3>2 DEF FullInv, TargetInv
      <4>2. x \in {[Blank EXCEPT !.rec = "torn"], SnapshotImage(op)}
        BY <1>3, <1>6, <2>1, <3>2, <4>1 DEF Leftover
      <4>3. ~x.committed
        BY <4>2 DEF Blank, SnapshotImage
      <4> QED BY <4>3 DEF ValidImage
    <3> QED BY <1>6, <3>1, <3>2
  <2>3. CASE NothingStored
    <3>1. ~x.committed
      <4>1. CASE pc = "program"
        BY <2>2, <4>1
      <4>2. CASE pc = "erase"
        <5>1. x \in PartialErase(slot[op.slot])
          BY <1>3, <2>1, <4>2 DEF Leftover
        <5>2. x \in {slot[op.slot], Blank, [Blank EXCEPT !.rec = "torn"],
                     [slot[op.slot] EXCEPT !.rec = "torn"]}
          BY <5>1, Zenon DEF PartialErase
        <5>3. ~Blank.committed /\ ~[Blank EXCEPT !.rec = "torn"].committed
          BY DEF Blank
        <5>4. ~slot[op.slot].committed /\ ~[slot[op.slot] EXCEPT !.rec = "torn"].committed
          BY <1>0, <2>3 DEF NothingStored, Images
        <5> QED BY <5>2, <5>3, <5>4
      <4> QED BY <1>6, <4>1, <4>2
    <3>2. \A s \in Slots : ~slot'[s].committed
      BY <1>0, <1>3, <2>1, <2>3, <3>1 DEF NothingStored
    <3> QED BY <1>1, <2>1, <2>3, <3>2 DEF NothingStored
  <2>4. ASSUME NEW c \in Slots, Safe(c)
        PROVE  Safe(c)'
    <3>1. op.slot = SlotAfter(c) /\ slot[c].started
      BY <1>6, <2>4 DEF Safe, HandleInv
    <3>2. NewestIs(c)' /\ slot'[c] = slot[c]
      BY <1>0, <1>1, <1>3, <2>1, <2>2, <2>4, <3>1, TargetRewritten DEF Safe
    <3>3. CoversKnown(c)'
      BY <1>1, <2>1, <2>4, <3>2 DEF Safe, CoversKnown
    <3> QED BY <1>1, <3>2, <3>3, StoppedHandle DEF Safe
  <2> QED BY <2>3, <2>4
<1>7. CASE x # slot[Touched(pc)] /\ pc = "marker"
  <2>0. PICK s \in Slots : s = op.slot
    BY <1>0
  <2>1. slot' = [slot EXCEPT ![op.slot].committed = TRUE] /\ mono' = mono
    BY <1>1, <1>3, <1>7 DEF Touched, Leftover
  <2>2. /\ NewestIs(s)' /\ LastGen(slot'[s]) = op.gen /\ LastVal(slot'[s]) = op.val
    BY <1>1, <1>7, <2>0, <2>1, MarkerPublishes
  <2>3. CoversKnown(s)'
    BY <1>0, <1>1, <1>4, <2>1, <2>2, GenOrder DEF CoversKnown
  <2> QED BY <1>1, <2>2, <2>3, StoppedHandle DEF Safe
<1>8. CASE x # slot[Touched(pc)] /\ pc \in {"intent", "complete", "frame", "frameMarker"}
  <2>1. PICK c \in Slots : Safe(c)
    BY <1>8 DEF NothingStored
  <2>2. mono' = mono
    BY <1>1, <1>8
  <2>3. /\ NewestIs(c) /\ CoversKnown(c) /\ HandleInv(c) /\ slot[c] \in Images
        /\ ValidImage(slot[c], nonces) /\ ~slot[c].complete
    BY <1>0, <2>1 DEF Safe, NewestIs, Valid
  <2>4. CASE pc = "intent"
    <3> DEFINE y == [slot[c] EXCEPT !.started = TRUE]
    <3>1. active = c
      BY <2>3, <2>4 DEF HandleInv
    <3>2. slot' = [slot EXCEPT ![c] = y]
      BY <1>3, <1>8, <2>4, <3>1 DEF Touched, Leftover
    <3>3. /\ ValidImage(y, nonces) /\ LastGen(y) = LastGen(slot[c])
          /\ LastVal(y) = LastVal(slot[c]) /\ y.started /\ ~y.complete
      BY <1>0, <2>3, IntentImage
    <3> HIDE DEF y
    <3>4. NewestIs(c)' /\ slot'[c] = y
      BY <1>0, <1>1, <2>3, <3>2, <3>3, GenOrder, NewestExtended
    <3>5. CoversKnown(c)'
      BY <1>1, <2>2, <2>3, <3>3, <3>4 DEF CoversKnown
    <3> QED BY <1>1, <3>4, <3>5, StoppedHandle DEF Safe
  <2>5. CASE pc = "complete"
    <3> DEFINE y == [slot[active] EXCEPT !.complete = TRUE]
    <3>1. active # c /\ slot[active].started /\ active \in Slots /\ slot[active] \in Images
      BY <1>0, <2>3, <2>5 DEF HandleInv
    <3>2. slot' = [slot EXCEPT ![active] = y]
      BY <1>3, <1>8, <2>5 DEF Touched, Leftover
    <3>3. /\ ValidImage(y, nonces) <=> ValidImage(slot[active], nonces)
          /\ LastGen(y) = LastGen(slot[active]) /\ y.committed = slot[active].committed
      BY <1>0, <3>1, CompleteImage
    <3> HIDE DEF y
    <3>4. NewestIs(c)' /\ slot'[c] = slot[c]
      BY <1>0, <1>1, <2>3, <3>1, <3>2, <3>3, OldRecordClosed
    <3>5. CoversKnown(c)'
      BY <1>1, <2>2, <2>3, <3>4 DEF CoversKnown
    <3> QED BY <1>1, <3>4, <3>5, StoppedHandle DEF Safe
  <2>6. CASE pc = "frame"
    <3> DEFINE y == [slot[c] EXCEPT !.tail = "torn"]
    <3>1. op.slot = c
      BY <2>3, <2>6 DEF HandleInv
    <3>2. slot' = [slot EXCEPT ![c] = y]
      BY <1>3, <1>8, <2>6, <3>1 DEF Touched, Leftover
    <3>3. /\ ValidImage(y, nonces) /\ LastGen(y) = LastGen(slot[c])
          /\ LastVal(y) = LastVal(slot[c]) /\ y.started = slot[c].started /\ ~y.complete
      BY <1>0, <2>3, TornTailImage
    <3> HIDE DEF y
    <3>4. NewestIs(c)' /\ slot'[c] = y
      BY <1>0, <1>1, <2>3, <3>2, <3>3, GenOrder, NewestExtended
    <3>5. CoversKnown(c)'
      BY <1>1, <2>2, <2>3, <3>3, <3>4 DEF CoversKnown
    <3> QED BY <1>1, <3>4, <3>5, StoppedHandle DEF Safe
  <2>7. CASE pc = "frameMarker"
    <3>1. op.slot = c /\ slot' = [slot EXCEPT ![op.slot] = PublishFrame(@, op)]
      BY <1>3, <1>8, <2>3, <2>7 DEF Touched, Leftover, HandleInv
    <3>2. NewestIs(c)' /\ LastGen(slot'[c]) = op.gen /\ LastVal(slot'[c]) = op.val
      BY <1>1, <2>1, <2>7, <3>1, FramePublishes
    <3>3. CoversKnown(c)'
      BY <1>0, <1>1, <1>4, <2>2, <3>2, GenOrder DEF CoversKnown
    <3> QED BY <1>1, <3>2, <3>3, StoppedHandle DEF Safe
  <2> QED BY <1>8, <2>4, <2>5, <2>6, <2>7
<1>9. CASE x = slot[Touched(pc)] \/ pc \in {"anchor", "frameAnchor"}
  <2>1. x = slot[Touched(pc)]
    BY <1>3, <1>9 DEF Leftover
  <2>2. slot' = slot
    BY <1>0, <1>2, <1>3, <2>1
  <2> QED BY <1>5, <2>2
<1> QED BY <1>0, <1>1, <1>6, <1>7, <1>8, <1>9 DEF Steps

-----------------------------------------------------------------------------
(* The theorems *)

\* The whole invariant holds of factory-empty flash.
LEMMA InvariantInit == Init => FullInv
<1> SUFFICES ASSUME Init PROVE FullInv
  OBVIOUS
<1>1. NothingStored
  BY DEF Init, NothingStored, Blank
<1> QED BY <1>1, InitTyped, AnchorInit, BookkeepingInit DEF FullInv, StoredInv

\* The whole invariant is inductive.
LEMMA InvariantInductive == FullInv /\ [Next]_vars => FullInv'
<1> SUFFICES ASSUME FullInv, [Next]_vars PROVE FullInv'
  OBVIOUS
<1>1. CASE Next
  <2>1. Typed' /\ AnchorInv' /\ AttemptInv' /\ TargetInv'
    BY <1>1, TypedInductive, AnchorInductive, AttemptInductive, TargetInductive DEF FullInv
  <2>2. CASE \E s \in Slots : Damage(s)
    BY <2>1, <2>2 DEF Damage, StoredInv, FullInv
  <2>3. CASE damaged /\ ~\E s \in Slots : Damage(s)
    <3>1. damaged'
      BY <1>1, <2>3 DEF Next, Recover, RecoverUnreconciled, RecoverFails, BeginCommit,
         StartCommit, SealFails, ReserveIdentity, RejectReserved, CommitReserved,
         WriteIntent, EraseTarget, ProgramRecord, WriteCommitMarker, WriteReclaimComplete,
         AdvanceAnchor, BeginAppend, ProgramFrame, WriteFrameMarker, AdvanceFrameAnchor,
         Interrupt, PowerOff
    <3> QED BY <2>1, <3>1 DEF FullInv, StoredInv
  <2>4. CASE ~damaged /\ ~\E s \in Slots : Damage(s)
    <3>1. NothingStored \/ \E c \in Slots : Safe(c)
      BY <2>4 DEF FullInv, StoredInv
    <3>2. CASE QuietStep
      BY <2>1, <3>1, <3>2, QuietNothing, QuietSafe DEF FullInv, StoredInv
    <3>3. CASE WriteIntent \/ EraseTarget \/ ProgramRecord \/ WriteCommitMarker
               \/ WriteReclaimComplete \/ ProgramFrame \/ WriteFrameMarker
      <4>1. NothingStored' \/ \E c \in Slots : Safe(c)'
        BY <3>1, <3>3, SlotStepSafe, SlotStepNothing
      <4> QED BY <2>1, <4>1 DEF FullInv, StoredInv
    <3>4. CASE Interrupt
      <4>1. NothingStored' \/ \E c \in Slots : Safe(c)'
        BY <3>1, <3>4, InterruptStored
      <4> QED BY <2>1, <4>1 DEF FullInv, StoredInv
    <3> QED BY <1>1, <2>4, <3>2, <3>3, <3>4 DEF Next, QuietStep
  <2> QED BY <2>2, <2>3, <2>4
<1>2. CASE UNCHANGED vars
  <2>1. Typed'
    BY <1>2, TypedInductive DEF FullInv
  <2>2. AnchorInv' /\ AttemptInv' /\ TargetInv'
    BY <1>2 DEF vars, FullInv, AnchorInv, AttemptInv, TargetInv
  <2>3. StoredInv'
    BY <1>2 DEF vars, FullInv, StoredInv, NothingStored, Safe, NewestIs, CoversKnown,
       HandleInv, Valid, Corrupt
  <2> QED BY <2>1, <2>2, <2>3 DEF FullInv
<1> QED BY <1>1, <1>2

\* The inductive invariant of the journal holds in every reachable state.
THEOREM JournalInvariantHolds == Spec => []JournalInv
<1>1. FullInv => JournalInv
  BY DEF FullInv, Typed, JournalInv
<1> QED BY <1>1, InvariantInit, InvariantInductive, PTL DEF Spec

\* The invariant implies that flash is recoverable at this very instant.
LEMMA InvariantRecoverable == FullInv => AlwaysRecoverable
<1> SUFFICES ASSUME FullInv, ~damaged, known.gen # ZeroGen
             PROVE  Recoverable /\ ~GenLess(ScanGen, known.gen)
  BY DEF AlwaysRecoverable
<1>1. PICK c \in Slots : Safe(c)
  BY DEF FullInv, StoredInv, NothingStored
<1>2. ScanOK /\ ScanGen = LastGen(slot[c])
  BY <1>1, SelectsNewest DEF FullInv, Safe
<1> QED BY <1>1, <1>2 DEF Safe, CoversKnown, Recoverable, Reconcilable

\* For every number of slots, counter capacity and mode: once something was
\* acknowledged, a power cut at any flash mutation leaves flash that recovery
\* accepts, and what it loads is not older than what the caller knows.
THEOREM JournalAlwaysRecoverable == Spec => []AlwaysRecoverable
BY InvariantInit, InvariantInductive, InvariantRecoverable, PTL DEF Spec

\* No single step takes back what the caller knows to be durable.
LEMMA StepNeverRollsBack ==
  ASSUME FullInv, FullInv', Next
  PROVE  /\ known'.gen.a >= known.gen.a
         /\ ~damaged' => /\ ~GenLess(known'.gen, known.gen)
                         /\ known'.gen = known.gen => known'.val = known.val
<1>0. /\ known.gen \in Generations /\ op.gen \in Generations /\ mono \in Nat
      /\ ScanGen \in Generations
  BY ScanType DEF FullInv, Typed, TypeOK, Ops
<1>1. CASE Recover
  <2>1. known' = [gen |-> ScanGen, val |-> ScanVal] /\ ScanGen.a \in {mono, mono + 1}
    BY <1>1 DEF Recover, Recoverable, Reconcilable
  <2>2. known.gen.a <= mono
    BY DEF FullInv, AnchorInv
  <2>3. known'.gen.a >= known.gen.a
    BY <1>0, <2>1, <2>2 DEF Generations
  <2>4. ASSUME ~damaged'
        PROVE  /\ ~GenLess(known'.gen, known.gen)
               /\ known'.gen = known.gen => known'.val = known.val
    <3>1. NothingStored \/ \E c \in Slots : Safe(c)
      BY <1>1, <2>4 DEF Recover, FullInv, StoredInv
    <3>2. CASE NothingStored
      BY <1>0, <2>1, <3>2, NothingSelected, GenOrder DEF FullInv, NothingStored
    <3>3. ASSUME NEW c \in Slots, Safe(c)
          PROVE  /\ ~GenLess(known'.gen, known.gen)
                 /\ known'.gen = known.gen => known'.val = known.val
      <4>1. ScanGen = LastGen(slot[c]) /\ ScanVal = LastVal(slot[c])
        BY <3>3, SelectsNewest DEF Safe, FullInv
      <4> QED BY <2>1, <3>3, <4>1 DEF Safe, CoversKnown
    <3> QED BY <3>1, <3>2, <3>3
  <2> QED BY <2>3, <2>4
<1>2. CASE known' = [gen |-> op.gen, val |-> op.val] /\ pc # "idle"
  <2>1. /\ op.gen.a \in {known.gen.a, known.gen.a + 1} /\ GenLess(known.gen, op.gen)
        /\ op.gen # known.gen
    BY <1>2, InFlightGeneration DEF FullInv
  <2> QED BY <1>0, <1>2, <2>1, GenOrder DEF Generations
<1>3. CASE known' = known
  BY <1>0, <1>3, GenOrder DEF Generations
<1>4. Recover \/ (known' = [gen |-> op.gen, val |-> op.val] /\ pc # "idle") \/ known' = known
  <2>1. CASE WriteCommitMarker \/ WriteReclaimComplete \/ AdvanceAnchor
             \/ WriteFrameMarker \/ AdvanceFrameAnchor
    BY <2>1 DEF WriteCommitMarker, WriteReclaimComplete, AdvanceAnchor, WriteFrameMarker,
       AdvanceFrameAnchor, FinishSlots, Acknowledge
  <2>2. CASE \/ RecoverUnreconciled \/ RecoverFails \/ SealFails \/ ReserveIdentity
             \/ RejectReserved \/ WriteIntent \/ EraseTarget \/ ProgramRecord
             \/ ProgramFrame \/ Interrupt \/ PowerOff \/ \E s \in Slots : Damage(s)
    BY <2>2 DEF RecoverUnreconciled, RecoverFails, SealFails, ReserveIdentity,
       RejectReserved, WriteIntent, EraseTarget, ProgramRecord, ProgramFrame, Interrupt,
       PowerOff, Damage
  <2>3. CASE \/ \E v \in Values, d \in Durability : BeginCommit(v, d)
             \/ \E v \in Values : CommitReserved(v)
             \/ \E v \in Values, d \in Durability : BeginAppend(v, d)
    BY <2>3 DEF BeginCommit, CommitReserved, BeginAppend, StartCommit
  <2> QED BY <2>1, <2>2, <2>3 DEF Next
<1> QED BY <1>1, <1>2, <1>3, <1>4

\* For every instance: no step (commit, append, error, power cut, recovery)
\* replaces what the caller knows to be durable by something older, and even
\* a decaying record cannot lower the acknowledged security anchor.
THEOREM JournalNeverRollsBack == Spec => NeverRollsBack
<1>1. FullInv /\ FullInv' /\ [Next]_vars =>
        [ /\ known'.gen.a >= known.gen.a
          /\ ~damaged' => /\ ~GenLess(known'.gen, known.gen)
                          /\ known'.gen = known.gen => known'.val = known.val ]_vars
  BY StepNeverRollsBack
<1> QED BY <1>1, InvariantInit, InvariantInductive, PTL DEF Spec, NeverRollsBack

-----------------------------------------------------------------------------
(* The two invariants *)

\* The offset n of a handle is the one that a scan of image x would find.
OffsetAt(x, n) == ScanOffset(x) = IF n <= FrameCap THEN n ELSE 0

\* A snapshot whose commit marker was just written.
FreshSnapshot(o) == [SnapshotImage(o) EXCEPT !.committed = TRUE]

\* How the handle and the operation in flight point into flash; true even of
\* decaying flash, since no slot changes behind a usable handle.
LinkInv ==
  /\ pc \in SnapshotSteps \cup {"complete"} => op.slot = NextSlot /\ op.at = 0
  /\ pc \in FrameSteps \cup {"anchor"} => active \in Slots /\ op.slot = active
  /\ pc = "complete" => slot[op.slot] = FreshSnapshot(op)

\* What the handle knows of its slot.
MirrorInv ==
  /\ mode = "ready" /\ active = NoSlot => \A s \in Slots : slot[s] = Blank
  /\ (mode = "ready" /\ active # NoSlot) \/ pc \in FrameSteps \cup {"anchor"} =>
       baseAttempt = slot[active].attempt
  /\ pc \in FrameSteps => op.attempt = baseAttempt
  /\ AppendEnabled =>
       /\ (mode = "ready" /\ active # NoSlot) \/ pc = "anchor" => OffsetAt(slot[active], offset)
       /\ pc = "frame" => OffsetAt(slot[active], op.at)
       /\ pc = "frameMarker" => /\ Len(slot[active].frames) + 1 = op.at
                                /\ ~slot[active].started
       /\ pc = "frameAnchor" => OffsetAt(slot[active], op.at + 1)
  /\ pc = "frame" => slot[active].tail = "clean" /\ op.at = Len(slot[active].frames) + 1
  /\ pc = "frameMarker" => slot[active].tail = "torn"

\* Append offsets of slot image x that hold any programmed word.
Used(x) == Len(x.frames) + (IF x.tail = "torn" THEN 1 ELSE 0)

\* A nonce belongs to one slot, and its append offsets are spent in order.
FlashSeals ==
  /\ \A x \in sealed : x.attempt \in 1 .. nonces
  /\ \A s, t \in Slots : s # t /\ slot[s].attempt = slot[t].attempt => slot[s].attempt = 0
  /\ \A s \in Slots : \A x \in sealed : x.attempt = slot[s].attempt => x.at <= Used(slot[s])

\* A nonce reserved as an identity protects nothing yet.
IdentityUnused ==
  identity # 0 => /\ \A x \in sealed : x.attempt # identity
                  /\ \A s \in Slots : slot[s].attempt # identity
                  /\ baseAttempt # identity
                  /\ pc # "idle" => op.attempt # identity

\* Neither does the nonce of a snapshot that is not programmed yet.
NonceUnused ==
  pc \in {"intent", "erase", "program"} =>
    /\ \A x \in sealed : x.attempt # op.attempt
    /\ \A s \in Slots : slot[s].attempt # op.attempt

SealInv == FlashSeals /\ IdentityUnused /\ NonceUnused /\ NoncesNeverRepeat

-----------------------------------------------------------------------------
(* The handle's place in flash *)

\* The slot being rewritten is not the active one.
LEMMA TargetIsOther ==
  ASSUME TypeOK, active \in Slots
  PROVE  NextSlot \in Slots /\ NextSlot # active
BY JournalConstants, SuccessorSlot DEF NextSlot, NoSlot, Slots

\* A step that leaves nothing in flight keeps the links.
LEMMA IdleLink ==
  ASSUME pc' = "idle"
  PROVE  LinkInv'
BY DEF LinkInv, SnapshotSteps, FrameSteps

\* Moving the handle to the new snapshot keeps the links.
LEMMA FinishLink ==
  ASSUME op.slot \in Slots, FinishSlots
  PROVE  LinkInv'
<1>1. CASE op.dur = "Anchored"
  BY <1>1 DEF FinishSlots, LinkInv, SnapshotSteps, FrameSteps
<1>2. CASE op.dur # "Anchored"
  BY <1>2, IdleLink DEF FinishSlots, Acknowledge
<1> QED BY <1>1, <1>2

\* No step makes the handle or the record in flight point elsewhere.
LEMMA LinkInductive ==
  ASSUME FullInv, LinkInv, Next
  PROVE  LinkInv'
<1> USE DEF SnapshotSteps, FrameSteps
<1>0. /\ op.slot \in Slots /\ slot \in [Slots -> Images] /\ active \in Slots \cup {NoSlot}
      /\ op \in Ops
  BY DEF FullInv, Typed, TypeOK, Ops
<1>1. CASE \/ Recover \/ RecoverUnreconciled \/ RecoverFails \/ SealFails \/ ReserveIdentity
           \/ RejectReserved \/ AdvanceAnchor \/ AdvanceFrameAnchor \/ Interrupt \/ PowerOff
           \/ \E s \in Slots : Damage(s)
  <2>1. pc' = "idle"
    BY <1>1 DEF Recover, RecoverUnreconciled, RecoverFails, SealFails, ReserveIdentity,
       RejectReserved, AdvanceAnchor, AdvanceFrameAnchor, Interrupt, PowerOff, Damage,
       Acknowledge, FullInv, AnchorInv
  <2> QED BY <2>1, IdleLink
<1>2. ASSUME NEW v \in Values, NEW d, NEW n, StartCommit(v, d, n)
      PROVE  LinkInv'
  BY <1>2 DEF StartCommit, LinkInv, NextSlot
<1>3. CASE WriteIntent \/ EraseTarget \/ ProgramRecord
  BY <1>3 DEF WriteIntent, EraseTarget, ProgramRecord, LinkInv, NextSlot, handleVars
<1>4. CASE WriteCommitMarker
  <2>1. CASE active # NoSlot
    <3>1. slot[op.slot] = SnapshotImage(op) /\ pc' = "complete" /\ op' = op
      BY <1>4, <2>1 DEF WriteCommitMarker, FullInv, TargetInv
    <3>2. slot'[op.slot] = FreshSnapshot(op)
      BY <1>0, <1>4, <3>1 DEF WriteCommitMarker, FreshSnapshot
    <3>3. FreshSnapshot(op)' = FreshSnapshot(op)
      BY <3>1 DEF FreshSnapshot, SnapshotImage
    <3> QED BY <1>4, <2>1, <3>1, <3>2, <3>3 DEF WriteCommitMarker, LinkInv, NextSlot, handleVars
  <2>2. CASE active = NoSlot
    BY <1>0, <1>4, <2>2, FinishLink DEF WriteCommitMarker
  <2> QED BY <2>1, <2>2
<1>5. CASE WriteReclaimComplete
  BY <1>0, <1>5, FinishLink DEF WriteReclaimComplete
<1>6. ASSUME NEW v \in Values, NEW d \in Durability, BeginAppend(v, d)
      PROVE  LinkInv'
  BY <1>0, <1>6 DEF BeginAppend, LinkInv
<1>7. CASE ProgramFrame
  BY <1>7 DEF ProgramFrame, LinkInv, handleVars
<1>8. CASE WriteFrameMarker
  BY <1>8 DEF WriteFrameMarker, LinkInv, AdoptFrame, Acknowledge
<1> QED BY <1>1, <1>2, <1>3, <1>4, <1>5, <1>6, <1>7, <1>8 DEF Next, BeginCommit, CommitReserved

-----------------------------------------------------------------------------
(* What the handle knows of its slot *)

\* A fresh snapshot: its nonce, and the first append offset behind it.
LEMMA FreshOffset ==
  ASSUME NEW o \in Ops
  PROVE  /\ FreshSnapshot(o).attempt = o.attempt
         /\ AppendEnabled => OffsetAt(FreshSnapshot(o), 1)
         /\ Used(FreshSnapshot(o)) = 0
<1>1. /\ FreshSnapshot(o).attempt = o.attempt /\ FreshSnapshot(o).frames = <<>>
      /\ ~FreshSnapshot(o).started /\ FreshSnapshot(o).tail = "clean"
  BY DEF FreshSnapshot, SnapshotImage
<1> HIDE DEF FreshSnapshot
<1>2. Len(FreshSnapshot(o).frames) = 0
  BY <1>1
<1> QED BY <1>1, <1>2, JournalConstants DEF OffsetAt, ScanOffset, Used

\* Publishing the frame at the next offset moves that offset by one.
LEMMA PublishedOffset ==
  ASSUME NEW x \in Images, NEW o \in Ops, o.val \in Values, AppendEnabled, ~x.started,
         Len(x.frames) + 1 = o.at
  PROVE  /\ OffsetAt(PublishFrame(x, o), o.at + 1)
         /\ PublishFrame(x, o).attempt = x.attempt
<1> DEFINE y == PublishFrame(x, o)
<1>1. FrameOf(o) \in Frames /\ x.frames \in Seq(Frames) /\ o.at \in Nat
  BY JournalConstants DEF FrameOf, Frames, Ops, Images
<1>2. /\ y.frames = Append(x.frames, FrameOf(o)) /\ ~y.started /\ y.tail = "clean"
      /\ y.attempt = x.attempt
  BY DEF PublishFrame, Images
<1>3. Len(y.frames) = o.at
  BY <1>1, <1>2
<1> HIDE DEF y
<1>4. OffsetAt(y, o.at + 1)
  BY <1>1, <1>2, <1>3, JournalConstants DEF OffsetAt, ScanOffset
<1> QED BY <1>2, <1>4 DEF y

\* What a scan reports as the append offset is itself the offset.
LEMMA ScannedOffset ==
  ASSUME NEW x \in Images
  PROVE  ScanOffset(x) \in 0 .. FrameCap /\ OffsetAt(x, ScanOffset(x))
<1>1. Len(x.frames) \in Nat
  BY DEF Images
<1>2. ScanOffset(x) \in 0 .. FrameCap
  BY <1>1, JournalConstants DEF ScanOffset
<1> QED BY <1>2, JournalConstants DEF OffsetAt

\* A handle that is not ready, with nothing in flight, knows nothing.
LEMMA StoppedMirror ==
  ASSUME pc' = "idle", mode' # "ready"
  PROVE  MirrorInv'
BY DEF MirrorInv, FrameSteps

\* The handle on a slot it was just told about.
LEMMA FreshMirror ==
  ASSUME pc' \in {"idle", "anchor"}, active' \in Slots,
         baseAttempt' = slot'[active'].attempt,
         AppendEnabled => OffsetAt(slot'[active'], offset')
  PROVE  MirrorInv'
<1>1. active' # NoSlot
  BY JournalConstants DEF Slots, NoSlot
<1>2. pc' \notin FrameSteps
  BY DEF FrameSteps
<1>3. NoSlot' = NoSlot /\ Slots' = Slots
  BY DEF NoSlot, Slots
<1>4. AppendEnabled => OffsetAt(slot[active], offset)'
  BY DEF OffsetAt, ScanOffset
<1> QED BY <1>1, <1>2, <1>4 DEF MirrorInv

\* Moving the handle to the snapshot it has just written.
LEMMA FinishMirror ==
  ASSUME TypeOK, FinishSlots, slot'[op.slot] = FreshSnapshot(op)
  PROVE  MirrorInv'
<1>0. op \in Ops /\ op.slot \in Slots
  BY DEF TypeOK, Ops
<1>1. /\ pc' \in {"idle", "anchor"} /\ active' = op.slot /\ baseAttempt' = op.attempt
      /\ offset' = 1
  <2>1. CASE op.dur = "Anchored"
    BY <2>1 DEF FinishSlots
  <2>2. CASE op.dur # "Anchored"
    BY <2>2 DEF FinishSlots, Acknowledge
  <2> QED BY <2>1, <2>2 DEF FinishSlots
<1>2. /\ FreshSnapshot(op).attempt = op.attempt
      /\ AppendEnabled => OffsetAt(FreshSnapshot(op), 1)
  BY <1>0, FreshOffset
<1>3. /\ baseAttempt' = slot'[active'].attempt
      /\ AppendEnabled => OffsetAt(slot'[active'], offset')
  BY <1>1, <1>2
<1> QED BY <1>0, <1>1, <1>3, FreshMirror

\* Recovery loads the handle from the slot it selected.
LEMMA RecoverMirror ==
  ASSUME FullInv, Recover
  PROVE  MirrorInv'
<1>1. CASE AnySelected
  <2>1. TheSelected \in Slots /\ slot[TheSelected] \in Images
    BY <1>1, ScanType DEF FullInv, Typed, TypeOK
  <2>2. /\ active' = TheSelected /\ baseAttempt' = slot[TheSelected].attempt
        /\ offset' = ScanOffset(slot[TheSelected]) /\ slot' = slot /\ pc' = "idle"
    BY <1>1 DEF Recover
  <2>3. OffsetAt(slot'[active'], offset')
    BY <2>1, <2>2, ScannedOffset
  <2> QED BY <2>1, <2>2, <2>3, FreshMirror
<1>2. CASE ~AnySelected
  <2>1. active' = NoSlot /\ slot' = slot /\ pc' = "idle"
    BY <1>2 DEF Recover
  <2>2. \A s \in Slots : slot[s] = Blank
    BY <1>2 DEF Recover, Recoverable, ScanOK
  <2>3. NoSlot' = NoSlot /\ Slots' = Slots
    BY DEF NoSlot, Slots
  <2> QED BY <2>1, <2>2 DEF MirrorInv, FrameSteps
<1> QED BY <1>1, <1>2

\* An append starts at the offset the handle mirrors.
LEMMA AppendMirror ==
  ASSUME FullInv, MirrorInv, NEW v \in Values, NEW d \in Durability, BeginAppend(v, d)
  PROVE  MirrorInv'
<1>0. /\ active \in Slots /\ slot[active] \in Images /\ mode = "ready" /\ active # NoSlot
      /\ AppendEnabled /\ offset \in 1 .. FrameCap
  BY JournalConstants DEF BeginAppend, FullInv, Typed, TypeOK
<1>1. /\ slot' = slot /\ active' = active /\ baseAttempt' = baseAttempt /\ pc' = "frame"
      /\ op'.attempt = baseAttempt /\ op'.at = offset /\ mode' = "poisoned"
      /\ slot[active].tail = "clean"
  BY DEF BeginAppend, flashVars
<1>2. OffsetAt(slot[active], offset) /\ baseAttempt = slot[active].attempt
  BY <1>0 DEF MirrorInv
<1>3. Len(slot[active].frames) \in Nat
  BY <1>0 DEF Images
<1>4. offset = Len(slot[active].frames) + 1
  BY <1>0, <1>2, <1>3, JournalConstants DEF OffsetAt, ScanOffset
<1>5. OffsetAt(slot[active], op.at)'
  BY <1>1, <1>2 DEF OffsetAt, ScanOffset
<1> QED BY <1>1, <1>2, <1>4, <1>5 DEF MirrorInv, FrameSteps

\* The frame and its marker land where the handle expects them.
LEMMA FrameMirror ==
  ASSUME FullInv, LinkInv, MirrorInv, ProgramFrame \/ WriteFrameMarker
  PROVE  MirrorInv'
<1> USE DEF FrameSteps
<1>0. /\ active \in Slots /\ slot[active] \in Images /\ op.slot = active /\ active # NoSlot
      /\ slot \in [Slots -> Images] /\ op \in Ops /\ op.val \in Values /\ op.at \in 1 .. FrameCap
      /\ mode = "poisoned" /\ Len(slot[active].frames) \in Nat
  <2>1. pc \in {"frame", "frameMarker"}
    BY DEF ProgramFrame, WriteFrameMarker
  <2>2. active \in Slots /\ op.slot = active
    BY <2>1 DEF LinkInv
  <2>3. /\ slot \in [Slots -> Images] /\ op \in Ops /\ op.val \in Values
        /\ op.at \in 1 .. FrameCap /\ mode = "poisoned"
    BY <2>1 DEF FullInv, Typed, TypeOK, OpInv, AnchorInv
  <2>4. slot[active] \in Images /\ active # NoSlot
    BY <2>2, <2>3, JournalConstants DEF Slots, NoSlot
  <2>5. Len(slot[active].frames) \in Nat
    BY <2>4 DEF Images
  <2> QED BY <2>2, <2>3, <2>4, <2>5
<1>1. CASE ProgramFrame
  <2>1. /\ slot' = [slot EXCEPT ![active] = [slot[active] EXCEPT !.tail = "torn"]]
        /\ pc' = "frameMarker" /\ UNCHANGED <<mode, active, baseAttempt, op>>
    BY <1>0, <1>1 DEF ProgramFrame, handleVars
  <2>2. /\ slot'[active].attempt = slot[active].attempt /\ slot'[active].tail = "torn"
        /\ slot'[active].frames = slot[active].frames
        /\ slot'[active].started = slot[active].started
    BY <1>0, <2>1 DEF Images
  <2>3. baseAttempt = slot[active].attempt /\ op.attempt = baseAttempt
    BY <1>1 DEF ProgramFrame, MirrorInv
  <2>4. AppendEnabled => Len(slot[active].frames) + 1 = op.at /\ ~slot[active].started
    <3>1. AppendEnabled => OffsetAt(slot[active], op.at)
      BY <1>1 DEF ProgramFrame, MirrorInv
    <3> QED BY <1>0, <3>1, JournalConstants DEF OffsetAt, ScanOffset
  <2> QED BY <1>0, <2>1, <2>2, <2>3, <2>4 DEF MirrorInv
<1>2. CASE WriteFrameMarker
  <2> DEFINE y == PublishFrame(slot[active], op)
  <2>1. slot' = [slot EXCEPT ![active] = y] /\ active' = active /\ baseAttempt' = baseAttempt
    BY <1>0, <1>2 DEF WriteFrameMarker
  <2>2. slot'[active] = y /\ y.attempt = slot[active].attempt
    BY <1>0, <2>1 DEF PublishFrame, Images
  <2>3. baseAttempt = slot[active].attempt /\ op.attempt = baseAttempt
    BY <1>2 DEF WriteFrameMarker, MirrorInv
  <2>4. AppendEnabled => OffsetAt(y, op.at + 1)
    BY <1>0, <1>2, PublishedOffset DEF WriteFrameMarker, MirrorInv
  <2> HIDE DEF y
  <2>5. CASE op.dur = "Anchored"
    <3>1. pc' = "frameAnchor" /\ UNCHANGED <<mode, op>>
      BY <1>2, <2>5 DEF WriteFrameMarker
    <3>2. AppendEnabled => OffsetAt(slot[active], op.at + 1)'
      BY <2>1, <2>2, <2>4, <3>1 DEF OffsetAt, ScanOffset
    <3> QED BY <1>0, <2>1, <2>2, <2>3, <3>1, <3>2 DEF MirrorInv
  <2>6. CASE op.dur # "Anchored"
    <3>1. pc' = "idle" /\ offset' = op.at + 1
      BY <1>2, <2>6 DEF WriteFrameMarker, AdoptFrame, Acknowledge
    <3>2. AppendEnabled => OffsetAt(slot'[active'], offset')
      BY <2>1, <2>2, <2>4, <3>1
    <3> QED BY <1>0, <2>1, <2>2, <2>3, <3>1, <3>2, FreshMirror
  <2> QED BY <2>5, <2>6
<1> QED BY <1>1, <1>2

\* No step lets the handle drift from its slot.
LEMMA MirrorInductive ==
  ASSUME FullInv, LinkInv, MirrorInv, Next
  PROVE  MirrorInv'
<1> USE DEF FrameSteps
<1>0. /\ op.slot \in Slots /\ slot \in [Slots -> Images] /\ active \in Slots \cup {NoSlot}
      /\ op \in Ops /\ TypeOK
  BY DEF FullInv, Typed, TypeOK, Ops
<1>1. CASE RecoverUnreconciled \/ RecoverFails \/ Interrupt \/ PowerOff \/ \E s \in Slots : Damage(s)
  <2>1. pc' = "idle"
    BY <1>1 DEF RecoverUnreconciled, RecoverFails, Interrupt, PowerOff, Damage, FullInv, AnchorInv
  <2>2. mode' # "ready"
    BY <1>1 DEF RecoverUnreconciled, RecoverFails, Interrupt, PowerOff, Damage, Poisoned, Closed,
       handleVars
  <2> QED BY <2>1, <2>2, StoppedMirror
<1>2. CASE SealFails \/ ReserveIdentity \/ RejectReserved
  <2>1. UNCHANGED <<slot, mode, active, baseAttempt, offset, pc, op>>
    BY <1>2 DEF SealFails, ReserveIdentity, RejectReserved, handleVars, flashVars
  <2> QED BY <2>1 DEF MirrorInv, OffsetAt, ScanOffset
<1>3. ASSUME NEW v \in Values, NEW d, NEW n, StartCommit(v, d, n)
      PROVE  MirrorInv'
  BY <1>3 DEF StartCommit, MirrorInv
<1>4. CASE WriteIntent \/ EraseTarget \/ ProgramRecord
  <2>1. mode' # "ready" /\ pc' \in {"erase", "program", "marker"}
    BY <1>4 DEF WriteIntent, EraseTarget, ProgramRecord, handleVars, FullInv, AnchorInv
  <2> QED BY <2>1 DEF MirrorInv
<1>5. CASE WriteCommitMarker
  <2>1. CASE active # NoSlot
    <3>1. mode' # "ready" /\ pc' = "complete"
      BY <1>5, <2>1 DEF WriteCommitMarker, handleVars, FullInv, AnchorInv
    <3> QED BY <3>1 DEF MirrorInv
  <2>2. CASE active = NoSlot
    <3>1. slot[op.slot] = SnapshotImage(op)
      BY <1>5 DEF WriteCommitMarker, FullInv, TargetInv
    <3>2. slot'[op.slot] = FreshSnapshot(op)
      BY <1>0, <1>5, <3>1 DEF WriteCommitMarker, FreshSnapshot
    <3> QED BY <1>0, <1>5, <2>2, <3>2, FinishMirror DEF WriteCommitMarker
  <2> QED BY <2>1, <2>2
<1>6. CASE WriteReclaimComplete
  <2>1. active \in Slots
    BY <1>6 DEF WriteReclaimComplete, FullInv, Typed, OpInv
  <2>2. op.slot # active /\ slot[op.slot] = FreshSnapshot(op)
    BY <1>0, <1>6, <2>1, TargetIsOther DEF WriteReclaimComplete, LinkInv
  <2>3. slot'[op.slot] = FreshSnapshot(op)
    BY <1>0, <1>6, <2>2 DEF WriteReclaimComplete
  <2> QED BY <1>0, <1>6, <2>3, FinishMirror DEF WriteReclaimComplete
<1>7. CASE AdvanceAnchor
  <2>1. /\ UNCHANGED <<slot, active, baseAttempt, offset>> /\ pc' = "idle" /\ active \in Slots
        /\ baseAttempt = slot[active].attempt
        /\ AppendEnabled => OffsetAt(slot[active], offset)
    BY <1>7 DEF AdvanceAnchor, Acknowledge, MirrorInv, LinkInv
  <2> QED BY <2>1, FreshMirror
<1>8. CASE AdvanceFrameAnchor
  <2>1. /\ UNCHANGED <<slot, active, baseAttempt>> /\ pc' = "idle" /\ active \in Slots
        /\ baseAttempt = slot[active].attempt /\ offset' = op.at + 1
        /\ AppendEnabled => OffsetAt(slot[active], op.at + 1)
    BY <1>8 DEF AdvanceFrameAnchor, Acknowledge, AdoptFrame, MirrorInv, LinkInv
  <2> QED BY <2>1, FreshMirror
<1> QED BY <1>1, <1>2, <1>3, <1>4, <1>5, <1>6, <1>7, <1>8, RecoverMirror, AppendMirror,
           FrameMirror DEF Next, BeginCommit, CommitReserved

-----------------------------------------------------------------------------
(* Nonces *)

\* Types of the nonces and append offsets in flash, RAM and history.
LEMMA NonceTypes ==
  ASSUME FullInv
  PROVE  /\ \A s \in Slots : slot[s].attempt \in Nat /\ Used(slot[s]) \in Nat
         /\ \A x \in sealed : x.attempt \in Nat /\ x.at \in Nat
         /\ nonces \in Nat /\ op.attempt \in Nat /\ op.at \in Nat /\ op.slot \in Slots
         /\ slot \in [Slots -> Images] /\ identity \in Nat /\ baseAttempt \in Nat
         /\ pc \in {"intent", "complete"} => active \in Slots
<1>1. \A x \in Images : x.attempt \in Nat /\ Used(x) \in Nat
  BY JournalConstants DEF Images, Used
<1>2. slot \in [Slots -> Images] /\ sealed \subseteq Seals
  BY DEF FullInv, Typed, TypeOK
<1>3. \A x \in sealed : x.attempt \in Nat /\ x.at \in Nat
  BY <1>2, JournalConstants DEF Seals
<1>4. /\ nonces \in Nat /\ op.attempt \in Nat /\ op.at \in Nat /\ op.slot \in Slots
      /\ identity \in Nat /\ baseAttempt \in Nat
      /\ pc \in {"intent", "complete"} => active \in Slots
  BY JournalConstants DEF FullInv, Typed, TypeOK, Ops, OpInv
<1> QED BY <1>1, <1>2, <1>3, <1>4

\* A slot image that keeps its nonce and spent offsets, or loses the nonce.
LEMMA KeptSeals ==
  ASSUME FullInv, FlashSeals, NEW t \in Slots, NEW y,
         slot' = [slot EXCEPT ![t] = y], sealed' = sealed, nonces' = nonces,
         \/ y.attempt = 0
         \/ y.attempt = slot[t].attempt /\ Used(y) = Used(slot[t])
  PROVE  FlashSeals'
<1>1. slot'[t] = y /\ \A s \in Slots : s # t => slot'[s] = slot[s]
  BY NonceTypes
<1>2. \A x \in sealed : x.attempt \in 1 .. nonces
  BY DEF FlashSeals
<1>3. \A s, u \in Slots : s # u /\ slot'[s].attempt = slot'[u].attempt => slot'[s].attempt = 0
  BY <1>1 DEF FlashSeals
<1>4. \A s \in Slots : \A x \in sealed : x.attempt = slot'[s].attempt => x.at <= Used(slot'[s])
  <2>1. SUFFICES ASSUME NEW s \in Slots, NEW x \in sealed, x.attempt = slot'[s].attempt
                 PROVE  x.at <= Used(slot'[s])
    OBVIOUS
  <2>2. CASE s # t
    BY <1>1, <2>1, <2>2 DEF FlashSeals
  <2>3. CASE s = t
    <3>1. y.attempt # 0
      BY <1>1, <1>2, <2>1, <2>3, NonceTypes
    <3> QED BY <1>1, <2>1, <2>3, <3>1 DEF FlashSeals
  <2> QED BY <2>2, <2>3
<1> QED BY <1>2, <1>3, <1>4 DEF FlashSeals, Used

\* Flash that is only read keeps its seals.
LEMMA ReadSeals ==
  ASSUME FullInv, FlashSeals, slot' = slot, sealed' = sealed, nonces' \in Nat, nonces' >= nonces
  PROVE  FlashSeals'
<1>1. \A x \in sealed : x.attempt \in 1 .. nonces'
  BY NonceTypes DEF FlashSeals
<1> QED BY <1>1 DEF FlashSeals, Used

\* Programming a snapshot spends its unused nonce.
LEMMA SnapshotSeals ==
  ASSUME FullInv, LinkInv, SealInv, pc = "program", NEW y,
         slot' = [slot EXCEPT ![op.slot] = y], y.attempt \in {0, op.attempt}, Used(y) \in Nat,
         sealed' = sealed \cup {SealOf(op)}, nonces' = nonces
  PROVE  FlashSeals' /\ NoncesNeverRepeat'
<1>0. PICK t \in Slots : t = op.slot
  BY NonceTypes
<1>1. slot'[t] = y /\ \A s \in Slots : s # t => slot'[s] = slot[s]
  BY <1>0, NonceTypes
<1>2. /\ SealOf(op).attempt = op.attempt /\ SealOf(op).at = 0 /\ op.attempt \in 1 .. nonces
  BY DEF SealOf, LinkInv, SnapshotSteps, FullInv, AttemptInv
<1>3. /\ \A x \in sealed : x.attempt # op.attempt /\ x.attempt \in 1 .. nonces
      /\ \A s \in Slots : slot[s].attempt # op.attempt
  BY DEF SealInv, NonceUnused, FlashSeals
<1>4. \A x \in sealed' : x.attempt \in 1 .. nonces
  BY <1>2, <1>3
<1>5. \A s, u \in Slots : s # u /\ slot'[s].attempt = slot'[u].attempt => slot'[s].attempt = 0
  BY <1>1, <1>3 DEF SealInv, FlashSeals
<1>6. \A s \in Slots : \A x \in sealed' : x.attempt = slot'[s].attempt => x.at <= Used(slot'[s])
  <2>1. SUFFICES ASSUME NEW s \in Slots, NEW x \in sealed', x.attempt = slot'[s].attempt
                 PROVE  x.at <= Used(slot'[s])
    OBVIOUS
  <2>2. CASE s # t
    BY <1>1, <1>2, <1>3, <2>1, <2>2 DEF SealInv, FlashSeals
  <2>3. CASE s = t
    <3>1. x.attempt = op.attempt
      BY <1>1, <1>4, <2>1, <2>3
    <3>2. x.at = 0
      BY <1>2, <1>3, <3>1
    <3> QED BY <1>1, <2>3, <3>2
  <2> QED BY <2>2, <2>3
<1>7. \A x, z \in sealed' : x.attempt = z.attempt /\ x.at = z.at => x = z
  BY <1>2, <1>3 DEF SealInv, NoncesNeverRepeat
<1> QED BY <1>4, <1>5, <1>6, <1>7 DEF FlashSeals, NoncesNeverRepeat, Used

\* Programming a frame spends the next append offset of the slot's nonce.
LEMMA FrameSeals ==
  ASSUME FullInv, LinkInv, MirrorInv, SealInv, pc = "frame",
         slot' = [slot EXCEPT ![op.slot].tail = "torn"],
         sealed' = sealed \cup {SealOf(op)}, nonces' = nonces
  PROVE  FlashSeals' /\ NoncesNeverRepeat'
<1> DEFINE y == [slot[active] EXCEPT !.tail = "torn"]
<1>0. /\ active \in Slots /\ op.slot = active /\ slot[active] \in Images
      /\ op.attempt = slot[active].attempt /\ slot[active].tail = "clean"
      /\ op.at = Len(slot[active].frames) + 1 /\ Len(slot[active].frames) \in Nat
  <2>1. active \in Slots /\ op.slot = active
    BY DEF LinkInv, FrameSteps
  <2>2. slot[active] \in Images
    BY <2>1, NonceTypes
  <2>3. Len(slot[active].frames) \in Nat
    BY <2>2 DEF Images
  <2> QED BY <2>1, <2>2, <2>3 DEF MirrorInv, FrameSteps
<1>1. y.attempt = op.attempt /\ y.tail = "torn" /\ y.frames = slot[active].frames
  BY <1>0 DEF Images
<1>2. Used(slot[active]) = op.at - 1 /\ Used(y) = op.at
  BY <1>0, <1>1, NonceTypes DEF Used
<1>3. slot'[active] = y /\ \A s \in Slots : s # active => slot'[s] = slot[s]
  BY <1>0, NonceTypes
<1> HIDE DEF y
<1>4. SealOf(op).attempt = op.attempt /\ SealOf(op).at = op.at /\ op.attempt \in 1 .. nonces
  BY DEF SealOf, FullInv, AttemptInv
<1>5. \A x \in sealed' : x.attempt \in 1 .. nonces
  BY <1>4 DEF SealInv, FlashSeals
<1>6. \A s \in Slots : slot'[s].attempt = slot[s].attempt
  BY <1>0, <1>1, <1>3
<1>7. \A s, u \in Slots : s # u /\ slot'[s].attempt = slot'[u].attempt => slot'[s].attempt = 0
  BY <1>6 DEF SealInv, FlashSeals
<1>8. \A x \in sealed : x.attempt = op.attempt => x.at <= op.at - 1
  BY <1>0, <1>2 DEF SealInv, FlashSeals
<1>9. \A s \in Slots : \A x \in sealed' : x.attempt = slot'[s].attempt => x.at <= Used(slot'[s])
  <2>1. SUFFICES ASSUME NEW s \in Slots, NEW x \in sealed', x.attempt = slot'[s].attempt
                 PROVE  x.at <= Used(slot'[s])
    OBVIOUS
  <2>2. CASE s = active
    <3>1. x.attempt = op.attempt /\ Used(slot'[s]) = op.at
      BY <1>1, <1>2, <1>3, <2>1, <2>2
    <3>2. CASE x \in sealed
      BY <1>8, <3>1, <3>2, NonceTypes
    <3>3. CASE x = SealOf(op)
      BY <1>4, <3>1, <3>3, NonceTypes
    <3> QED BY <2>1, <3>2, <3>3
  <2>3. CASE s # active
    <3>1. x.attempt = slot[s].attempt /\ slot'[s] = slot[s]
      BY <1>6, <1>3, <2>1, <2>3
    <3>2. slot[s].attempt # op.attempt
      <4>1. op.attempt # 0
        BY <1>4, NonceTypes
      <4>2. slot[s].attempt = slot[active].attempt => slot[s].attempt = 0
        BY <1>0, <2>3 DEF SealInv, FlashSeals
      <4>3. op.attempt = slot[active].attempt
        BY <1>0
      <4> QED BY <4>1, <4>2, <4>3
    <3>3. x \in sealed
      BY <1>4, <2>1, <3>1, <3>2
    <3> QED BY <3>1, <3>3 DEF SealInv, FlashSeals
  <2> QED BY <2>2, <2>3
<1>10. \A x, z \in sealed' : x.attempt = z.attempt /\ x.at = z.at => x = z
  <2>1. \A x \in sealed : ~(x.attempt = op.attempt /\ x.at = op.at)
    BY <1>8, NonceTypes
  <2> QED BY <1>4, <2>1 DEF SealInv, NoncesNeverRepeat
<1> QED BY <1>5, <1>7, <1>9, <1>10 DEF FlashSeals, NoncesNeverRepeat, Used

\* A reservation held by the caller stays unused when flash and handle take only
\* nonces that are already in flash or in flight.
LEMMA IdentityKept ==
  ASSUME FullInv, IdentityUnused, identity' \in {0, identity},
         sealed' \subseteq sealed \/ (pc # "idle" /\ sealed' \subseteq sealed \cup {SealOf(op)}),
         \A s \in Slots : \/ slot'[s].attempt = 0
                          \/ \E t \in Slots : slot'[s].attempt = slot[t].attempt
                          \/ pc # "idle" /\ slot'[s].attempt = op.attempt,
         \/ baseAttempt' \in {0, baseAttempt}
         \/ \E t \in Slots : baseAttempt' = slot[t].attempt
         \/ pc # "idle" /\ baseAttempt' = op.attempt,
         \/ pc' = "idle"
         \/ pc # "idle" /\ op' = op
         \/ op'.attempt = baseAttempt
  PROVE  IdentityUnused'
<1> SUFFICES ASSUME identity' # 0
             PROVE  /\ \A x \in sealed' : x.attempt # identity
                    /\ \A s \in Slots : slot'[s].attempt # identity
                    /\ baseAttempt' # identity
                    /\ pc' # "idle" => op'.attempt # identity
  BY DEF IdentityUnused
<1>1. SealOf(op).attempt = op.attempt
  BY DEF SealOf
<1>2. /\ \A x \in sealed : x.attempt # identity
      /\ \A s \in Slots : slot[s].attempt # identity
      /\ baseAttempt # identity /\ identity # 0
      /\ pc # "idle" => op.attempt # identity
  BY DEF IdentityUnused
<1>3. \A x \in sealed' : x.attempt # identity
  BY <1>1, <1>2
<1>4. \A s \in Slots : slot'[s].attempt # identity
  BY <1>2
<1>5. baseAttempt' # identity
  BY <1>2
<1>6. pc' # "idle" => op'.attempt # identity
  BY <1>2
<1> QED BY <1>3, <1>4, <1>5, <1>6

\* A slot image loses no nonce and no spent offset when a marker or the record
\* state around it changes.
LEMMA MarksKeepUsed ==
  ASSUME NEW x \in Images
  PROVE  /\ [x EXCEPT !.started = TRUE].attempt = x.attempt
         /\ Used([x EXCEPT !.started = TRUE]) = Used(x)
         /\ [x EXCEPT !.complete = TRUE].attempt = x.attempt
         /\ Used([x EXCEPT !.complete = TRUE]) = Used(x)
         /\ [x EXCEPT !.committed = TRUE].attempt = x.attempt
         /\ Used([x EXCEPT !.committed = TRUE]) = Used(x)
         /\ [x EXCEPT !.rec = "torn"].attempt = x.attempt
         /\ Used([x EXCEPT !.rec = "torn"]) = Used(x)
<1>1. /\ [x EXCEPT !.started = TRUE].attempt = x.attempt
      /\ Used([x EXCEPT !.started = TRUE]) = Used(x)
  BY DEF Images, Used
<1>2. /\ [x EXCEPT !.complete = TRUE].attempt = x.attempt
      /\ Used([x EXCEPT !.complete = TRUE]) = Used(x)
  BY DEF Images, Used
<1>3. /\ [x EXCEPT !.committed = TRUE].attempt = x.attempt
      /\ Used([x EXCEPT !.committed = TRUE]) = Used(x)
  BY DEF Images, Used
<1>4. /\ [x EXCEPT !.rec = "torn"].attempt = x.attempt
      /\ Used([x EXCEPT !.rec = "torn"]) = Used(x)
  BY DEF Images, Used
<1> QED BY <1>1, <1>2, <1>3, <1>4

\* Publishing a torn frame spends no further offset.
LEMMA PublishKeepsUsed ==
  ASSUME NEW x \in Images, NEW o \in Ops, o.val \in Values, x.tail = "torn"
  PROVE  PublishFrame(x, o).attempt = x.attempt /\ Used(PublishFrame(x, o)) = Used(x)
<1> DEFINE y == PublishFrame(x, o)
<1>1. FrameOf(o) \in Frames /\ x.frames \in Seq(Frames)
  BY DEF FrameOf, Frames, Ops, Images
<1>2. y.frames = Append(x.frames, FrameOf(o)) /\ y.tail = "clean" /\ y.attempt = x.attempt
  BY DEF PublishFrame, Images
<1>3. Len(y.frames) = Len(x.frames) + 1 /\ Len(x.frames) \in Nat
  BY <1>1, <1>2
<1> HIDE DEF y
<1>4. Used(y) = Used(x)
  BY <1>2, <1>3 DEF Used
<1> QED BY <1>2, <1>4 DEF y

\* Erased flash holds no nonce.
LEMMA BlankUnused ==
  /\ Blank.attempt = 0 /\ Used(Blank) = 0
  /\ [Blank EXCEPT !.rec = "torn"].attempt = 0 /\ Used([Blank EXCEPT !.rec = "torn"]) = 0
BY DEF Blank, Used

\* What an interrupted mutation leaves, as far as nonces are concerned.
InterruptSeals ==
  \/ \E t \in Slots, y \in Images :
       /\ slot' = [slot EXCEPT ![t] = y] /\ sealed' = sealed
       /\ y.attempt = 0 \/ (y.attempt = slot[t].attempt /\ Used(y) = Used(slot[t]))
  \/ \E y \in Images :
       /\ pc = "program" /\ slot' = [slot EXCEPT ![op.slot] = y]
       /\ y.attempt \in {0, op.attempt} /\ Used(y) \in Nat
       /\ sealed' = sealed \cup {SealOf(op)}
  \/ /\ pc = "frame" /\ slot' = [slot EXCEPT ![op.slot].tail = "torn"]
     /\ sealed' = sealed \cup {SealOf(op)}

\* An interrupted mutation spends at most the nonce it was going to spend.
LEMMA InterruptedSeals ==
  ASSUME FullInv, LinkInv, MirrorInv, Interrupt
  PROVE  InterruptSeals
<1>0. /\ pc \in Steps /\ pc # "idle" /\ Touched(pc) \in Slots /\ op \in Ops /\ op.val \in Values
      /\ slot \in [Slots -> Images] /\ slot[Touched(pc)] \in Images /\ op.attempt \in Nat
      /\ op.slot \in Slots
  <2>1. pc \in Steps /\ pc # "idle" /\ op \in Ops /\ op.val \in Values
    BY DEF Interrupt, FullInv, Typed, TypeOK, OpInv
  <2>2. Touched(pc) \in Slots
    BY NonceTypes DEF Touched
  <2> QED BY <2>1, <2>2, NonceTypes
<1> DEFINE t == Touched(pc)
<1>1. PICK x \in Leftover(slot[t], pc) :
        /\ slot' = [slot EXCEPT ![t] = x]
        /\ sealed' = IF pc \in {"program", "frame"} /\ x # slot[t]
                     THEN sealed \cup {SealOf(op)} ELSE sealed
  BY DEF Interrupt
<1>2. x \in Images
  BY <1>0, <1>1, LeftoverType
<1>3. CASE x = slot[t]
  BY <1>0, <1>1, <1>2, <1>3 DEF InterruptSeals
<1>4. CASE pc = "erase"
  <2>1. x \in PartialErase(slot[t])
    BY <1>1, <1>4 DEF Leftover
  <2>2. x \in {slot[t], Blank, [Blank EXCEPT !.rec = "torn"], [slot[t] EXCEPT !.rec = "torn"]}
    BY <2>1, Zenon DEF PartialErase
  <2>3. x.attempt = 0 \/ (x.attempt = slot[t].attempt /\ Used(x) = Used(slot[t]))
    BY <1>0, <2>2, MarksKeepUsed, BlankUnused
  <2> QED BY <1>0, <1>1, <1>2, <1>4, <2>3 DEF InterruptSeals
<1>5. CASE pc = "program" /\ x # slot[t]
  <2>1. slot[t] = Blank /\ t = op.slot
    BY <1>5 DEF Touched, FullInv, TargetInv
  <2>2. x \in {[Blank EXCEPT !.rec = "torn"], SnapshotImage(op)}
    BY <1>1, <1>5, <2>1 DEF Leftover
  <2>3. SnapshotImage(op).attempt = op.attempt /\ Used(SnapshotImage(op)) = 0
    BY DEF SnapshotImage, Used
  <2>4. x.attempt \in {0, op.attempt} /\ Used(x) = 0
    <3>1. CASE x = SnapshotImage(op)
      BY <2>3, <3>1
    <3>2. CASE x = [Blank EXCEPT !.rec = "torn"]
      BY <3>2, BlankUnused
    <3> QED BY <2>2, <3>1, <3>2
  <2>5. Used(x) \in Nat
    BY <2>4
  <2>6. sealed' = sealed \cup {SealOf(op)} /\ slot' = [slot EXCEPT ![op.slot] = x]
    BY <1>1, <1>5, <2>1
  <2> QED BY <1>2, <1>5, <2>4, <2>5, <2>6 DEF InterruptSeals
<1>6. CASE pc \in {"marker", "intent", "complete"} /\ x # slot[t]
  <2>1. x \in {[slot[t] EXCEPT !.committed = TRUE], [slot[t] EXCEPT !.started = TRUE],
               [slot[t] EXCEPT !.complete = TRUE]}
    BY <1>1, <1>6 DEF Leftover
  <2>2. x.attempt = slot[t].attempt /\ Used(x) = Used(slot[t])
    BY <1>0, <2>1, MarksKeepUsed
  <2> QED BY <1>0, <1>1, <1>2, <1>6, <2>2 DEF InterruptSeals
<1>7. CASE pc = "frame" /\ x # slot[t]
  <2>1. x = [slot[t] EXCEPT !.tail = "torn"] /\ t = op.slot
    BY <1>1, <1>7 DEF Leftover, Touched
  <2> QED BY <1>1, <1>7, <2>1 DEF InterruptSeals
<1>8. CASE pc = "frameMarker" /\ x # slot[t]
  <2>1. x = PublishFrame(slot[t], op) /\ t = op.slot
    BY <1>1, <1>8 DEF Leftover, Touched
  <2>2. slot[t].tail = "torn"
    BY <1>8, <2>1 DEF MirrorInv, LinkInv, FrameSteps
  <2>3. x.attempt = slot[t].attempt /\ Used(x) = Used(slot[t])
    BY <1>0, <2>1, <2>2, PublishKeepsUsed
  <2> QED BY <1>0, <1>1, <1>2, <1>8, <2>3 DEF InterruptSeals
<1>9. CASE pc \in {"anchor", "frameAnchor"}
  <2>1. x = slot[t]
    BY <1>1, <1>9 DEF Leftover
  <2> QED BY <1>3, <2>1
<1> QED BY <1>0, <1>3, <1>4, <1>5, <1>6, <1>7, <1>8, <1>9 DEF Steps

\* The nonces a step may leave in a slot.
LEMMA SlotNonces ==
  ASSUME FullInv, NEW t \in Slots, NEW y, slot' = [slot EXCEPT ![t] = y],
         y.attempt \in {0, slot[t].attempt} \/ (pc # "idle" /\ y.attempt = op.attempt)
  PROVE  \A s \in Slots : \/ slot'[s].attempt = 0
                          \/ \E u \in Slots : slot'[s].attempt = slot[u].attempt
                          \/ pc # "idle" /\ slot'[s].attempt = op.attempt
BY NonceTypes

\* A step that touches no slot and begins no snapshot.
LEMMA QuietSeals ==
  ASSUME FullInv, SealInv, QuietStep,
         ~\E v \in Values, d \in Durability : BeginCommit(v, d),
         ~\E v \in Values : CommitReserved(v)
  PROVE  SealInv'
<1>1. /\ slot' = slot /\ sealed' = sealed /\ nonces' \in Nat /\ nonces' >= nonces
  BY QuietFlash DEF QuietStep, Recover, RecoverUnreconciled, RecoverFails, SealFails,
     ReserveIdentity, RejectReserved, AdvanceAnchor, BeginAppend, AdvanceFrameAnchor, PowerOff,
     FullInv, Typed
<1>2. FlashSeals' /\ NoncesNeverRepeat'
  BY <1>1, ReadSeals DEF SealInv, NoncesNeverRepeat
<1>3. NonceUnused'
  <2>1. pc' \in {"idle", "frame"}
    BY DEF QuietStep, Recover, RecoverUnreconciled, RecoverFails, SealFails, ReserveIdentity,
       RejectReserved, AdvanceAnchor, BeginAppend, AdvanceFrameAnchor, PowerOff, Acknowledge
  <2> QED BY <2>1 DEF NonceUnused
<1>4. IdentityUnused'
  <2>1. CASE ReserveIdentity
    <3>1. /\ identity' = nonces + 1 /\ baseAttempt' = baseAttempt /\ pc' = "idle"
      BY <2>1 DEF ReserveIdentity, handleVars
    <3>2. /\ \A x \in sealed : x.attempt <= nonces /\ x.attempt \in Nat
          /\ \A s \in Slots : slot[s].attempt <= nonces /\ slot[s].attempt \in Nat
          /\ baseAttempt <= nonces /\ baseAttempt \in Nat /\ nonces \in Nat
      BY NonceTypes DEF FullInv, AttemptInv, SealInv, FlashSeals
    <3> QED BY <1>1, <3>1, <3>2 DEF IdentityUnused
  <2>2. CASE ~ReserveIdentity
    <3>1. identity' \in {0, identity}
      BY <2>2 DEF QuietStep, Recover, RecoverUnreconciled, RecoverFails, SealFails,
         RejectReserved, AdvanceAnchor, BeginAppend, AdvanceFrameAnchor, PowerOff, Closed
    <3>2. AnySelected => TheSelected \in Slots
      BY ScanType DEF FullInv, Typed
    <3>3. RecoverUnreconciled => AnySelected
      BY ScanType DEF RecoverUnreconciled, FullInv, Typed, TypeOK, ZeroGen
    <3>4. \/ baseAttempt' \in {0, baseAttempt}
          \/ \E t \in Slots : baseAttempt' = slot[t].attempt
      BY <2>2, <3>2, <3>3 DEF QuietStep, Recover, RecoverUnreconciled, RecoverFails, SealFails,
         RejectReserved, AdvanceAnchor, BeginAppend, AdvanceFrameAnchor, PowerOff, Closed,
         handleVars
    <3>5. pc' = "idle" \/ op'.attempt = baseAttempt
      BY <2>2 DEF QuietStep, Recover, RecoverUnreconciled, RecoverFails, SealFails,
         RejectReserved, AdvanceAnchor, BeginAppend, AdvanceFrameAnchor, PowerOff, Acknowledge
    <3> QED BY <1>1, <3>1, <3>4, <3>5, IdentityKept DEF SealInv
  <2> QED BY <2>1, <2>2
<1> QED BY <1>2, <1>3, <1>4 DEF SealInv

\* Beginning a snapshot takes a nonce that protects nothing yet.
LEMMA BeginSeals ==
  ASSUME FullInv, SealInv, NEW v \in Values,
         (\E d \in Durability : BeginCommit(v, d)) \/ CommitReserved(v)
  PROVE  SealInv'
<1>1. /\ slot' = slot /\ sealed' = sealed /\ nonces' \in Nat /\ nonces' >= nonces
      /\ baseAttempt' = baseAttempt
  BY NonceTypes DEF BeginCommit, CommitReserved, StartCommit
<1>2. FlashSeals' /\ NoncesNeverRepeat'
  BY <1>1, ReadSeals DEF SealInv, NoncesNeverRepeat
<1>3. /\ \A x \in sealed : x.attempt <= nonces /\ x.attempt \in Nat
      /\ \A s \in Slots : slot[s].attempt <= nonces /\ slot[s].attempt \in Nat
      /\ nonces \in Nat /\ identity <= nonces /\ identity \in Nat
  BY NonceTypes DEF FullInv, AttemptInv, SealInv, FlashSeals
<1>4. CASE \E d \in Durability : BeginCommit(v, d)
  <2>1. op'.attempt = nonces + 1 /\ identity' = identity
    BY <1>4 DEF BeginCommit, StartCommit
  <2>2. NonceUnused'
    BY <1>1, <1>3, <2>1 DEF NonceUnused
  <2>3. IdentityUnused'
    BY <1>1, <1>3, <2>1 DEF SealInv, IdentityUnused
  <2> QED BY <1>2, <2>2, <2>3 DEF SealInv
<1>5. CASE CommitReserved(v)
  <2>1. op'.attempt = identity /\ identity' = 0 /\ identity # 0
    BY <1>5 DEF CommitReserved, StartCommit
  <2>2. NonceUnused'
    BY <1>1, <2>1 DEF SealInv, IdentityUnused, NonceUnused
  <2>3. IdentityUnused'
    BY <2>1 DEF IdentityUnused
  <2> QED BY <1>2, <2>2, <2>3 DEF SealInv
<1> QED BY <1>4, <1>5

\* Every slot mutation of a commit or an append.
LEMMA SlotStepSeals ==
  ASSUME FullInv, LinkInv, MirrorInv, SealInv,
         WriteIntent \/ EraseTarget \/ ProgramRecord \/ WriteCommitMarker
         \/ WriteReclaimComplete \/ ProgramFrame \/ WriteFrameMarker
  PROVE  SealInv'
<1>0. /\ pc # "idle" /\ nonces' = nonces /\ identity' = identity /\ op \in Ops /\ op.val \in Values
      /\ slot \in [Slots -> Images] /\ op.slot \in Slots
      /\ baseAttempt' \in {baseAttempt, op.attempt}
      /\ pc' = "idle" \/ op' = op
  <2>1. pc # "idle" /\ nonces' = nonces /\ identity' = identity
    BY DEF WriteIntent, EraseTarget, ProgramRecord, WriteCommitMarker,
       WriteReclaimComplete, ProgramFrame, WriteFrameMarker
  <2>2. op \in Ops /\ op.val \in Values
    BY <2>1 DEF FullInv, Typed, TypeOK, OpInv
  <2>3. baseAttempt' \in {baseAttempt, op.attempt}
    BY DEF WriteIntent, EraseTarget, ProgramRecord, WriteCommitMarker, FinishSlots,
       WriteReclaimComplete, ProgramFrame, WriteFrameMarker, handleVars
  <2>4. pc' = "idle" \/ op' = op
    BY DEF WriteIntent, EraseTarget, ProgramRecord, WriteCommitMarker, FinishSlots,
       WriteReclaimComplete, ProgramFrame, WriteFrameMarker, Acknowledge
  <2> QED BY <2>1, <2>2, <2>3, <2>4, NonceTypes
<1>1. ASSUME NEW t \in Slots, NEW y, slot' = [slot EXCEPT ![t] = y],
             y.attempt \in {0, slot[t].attempt, op.attempt},
             sealed' \subseteq sealed \cup {SealOf(op)}
      PROVE  IdentityUnused'
  <2>1. \A s \in Slots : \/ slot'[s].attempt = 0
                         \/ \E u \in Slots : slot'[s].attempt = slot[u].attempt
                         \/ pc # "idle" /\ slot'[s].attempt = op.attempt
    BY <1>0, <1>1, SlotNonces
  <2> QED BY <1>0, <1>1, <2>1, IdentityKept DEF SealInv
<1>2. ASSUME NEW t \in Slots, NEW y, slot' = [slot EXCEPT ![t] = y], sealed' = sealed,
             y.attempt = 0 \/ (y.attempt = slot[t].attempt /\ Used(y) = Used(slot[t]))
      PROVE  FlashSeals' /\ NoncesNeverRepeat' /\ IdentityUnused'
  <2>1. FlashSeals'
    BY <1>0, <1>2, KeptSeals DEF SealInv
  <2>2. IdentityUnused'
    BY <1>1, <1>2
  <2> QED BY <1>2, <2>1, <2>2 DEF SealInv, NoncesNeverRepeat
<1>3. CASE WriteIntent
  <2>1. /\ active \in Slots /\ slot' = [slot EXCEPT ![active] = [slot[active] EXCEPT !.started = TRUE]]
        /\ sealed' = sealed /\ pc' = "erase" /\ pc = "intent" /\ op' = op
    BY <1>3, NonceTypes DEF WriteIntent
  <2>2. slot[active] \in Images
    BY <1>0, <2>1
  <2>3. /\ [slot[active] EXCEPT !.started = TRUE].attempt = slot[active].attempt
        /\ Used([slot[active] EXCEPT !.started = TRUE]) = Used(slot[active])
    BY <2>2, MarksKeepUsed
  <2>4. FlashSeals' /\ NoncesNeverRepeat' /\ IdentityUnused'
    BY <1>2, <2>1, <2>3
  <2>5. \A s \in Slots : slot'[s].attempt = slot[s].attempt
    BY <1>0, <2>1, <2>3
  <2>6. NonceUnused'
    BY <2>1, <2>5 DEF SealInv, NonceUnused
  <2> QED BY <2>4, <2>6 DEF SealInv
<1>4. CASE EraseTarget
  <2>1. /\ slot' = [slot EXCEPT ![op.slot] = Blank] /\ op.attempt # 0
        /\ sealed' = sealed /\ pc' = "program" /\ pc = "erase" /\ op' = op
    BY <1>4, NonceTypes DEF EraseTarget, FullInv, AttemptInv
  <2>4. FlashSeals' /\ NoncesNeverRepeat' /\ IdentityUnused'
    BY <1>0, <1>2, <2>1, BlankUnused
  <2>6. NonceUnused'
    BY <1>0, <2>1, BlankUnused DEF SealInv, NonceUnused
  <2> QED BY <2>4, <2>6 DEF SealInv
<1>5. CASE ProgramRecord
  <2>1. /\ slot' = [slot EXCEPT ![op.slot] = SnapshotImage(op)]
        /\ sealed' = sealed \cup {SealOf(op)} /\ pc' = "marker" /\ pc = "program"
    BY <1>5 DEF ProgramRecord
  <2>2. SnapshotImage(op).attempt = op.attempt /\ Used(SnapshotImage(op)) = 0
    BY DEF SnapshotImage, Used
  <2>3. FlashSeals' /\ NoncesNeverRepeat'
    <3> DEFINE y == SnapshotImage(op)
    <3>1. /\ slot' = [slot EXCEPT ![op.slot] = y] /\ y.attempt \in {0, op.attempt}
          /\ Used(y) \in Nat
      BY <2>1, <2>2
    <3> HIDE DEF y
    <3> QED BY <1>0, <2>1, <3>1, SnapshotSeals
  <2>4. IdentityUnused'
    BY <1>0, <1>1, <2>1, <2>2
  <2>5. NonceUnused'
    BY <2>1 DEF NonceUnused
  <2> QED BY <2>3, <2>4, <2>5 DEF SealInv
<1>6. CASE WriteCommitMarker
  <2>1. /\ slot' = [slot EXCEPT ![op.slot] = [slot[op.slot] EXCEPT !.committed = TRUE]]
        /\ sealed' = sealed
    BY <1>6 DEF WriteCommitMarker
  <2>2. slot[op.slot] \in Images
    BY <1>0
  <2>3. /\ [slot[op.slot] EXCEPT !.committed = TRUE].attempt = slot[op.slot].attempt
        /\ Used([slot[op.slot] EXCEPT !.committed = TRUE]) = Used(slot[op.slot])
    BY <2>2, MarksKeepUsed
  <2>4. FlashSeals' /\ NoncesNeverRepeat' /\ IdentityUnused'
    BY <1>0, <1>2, <2>1, <2>3
  <2>5. pc' \in {"complete", "anchor", "idle"}
    BY <1>6 DEF WriteCommitMarker, FinishSlots, Acknowledge
  <2> QED BY <2>4, <2>5 DEF SealInv, NonceUnused
<1>7. CASE WriteReclaimComplete
  <2>1. /\ active \in Slots /\ slot' = [slot EXCEPT ![active] = [slot[active] EXCEPT !.complete = TRUE]]
        /\ sealed' = sealed
    BY <1>7, NonceTypes DEF WriteReclaimComplete
  <2>2. slot[active] \in Images
    BY <1>0, <2>1
  <2>3. /\ [slot[active] EXCEPT !.complete = TRUE].attempt = slot[active].attempt
        /\ Used([slot[active] EXCEPT !.complete = TRUE]) = Used(slot[active])
    BY <2>2, MarksKeepUsed
  <2>4. FlashSeals' /\ NoncesNeverRepeat' /\ IdentityUnused'
    BY <1>2, <2>1, <2>3
  <2>5. pc' \in {"anchor", "idle"}
    BY <1>7 DEF WriteReclaimComplete, FinishSlots, Acknowledge
  <2> QED BY <2>4, <2>5 DEF SealInv, NonceUnused
<1>8. CASE ProgramFrame
  <2>1. /\ slot' = [slot EXCEPT ![op.slot].tail = "torn"]
        /\ sealed' = sealed \cup {SealOf(op)} /\ pc' = "frameMarker" /\ pc = "frame"
    BY <1>8 DEF ProgramFrame
  <2>2. FlashSeals' /\ NoncesNeverRepeat'
    BY <1>0, <2>1, FrameSeals
  <2>3. [slot[op.slot] EXCEPT !.tail = "torn"].attempt = slot[op.slot].attempt
    BY <1>0 DEF Images
  <2>4. slot' = [slot EXCEPT ![op.slot] = [slot[op.slot] EXCEPT !.tail = "torn"]]
    BY <2>1
  <2>5. IdentityUnused'
    BY <1>0, <1>1, <2>1, <2>3, <2>4
  <2> QED BY <2>1, <2>2, <2>5 DEF SealInv, NonceUnused
<1>9. CASE WriteFrameMarker
  <2>1. /\ slot' = [slot EXCEPT ![op.slot] = PublishFrame(slot[op.slot], op)]
        /\ sealed' = sealed
    BY <1>9 DEF WriteFrameMarker
  <2>2. slot[op.slot] \in Images /\ slot[op.slot].tail = "torn"
    BY <1>0, <1>9 DEF WriteFrameMarker, MirrorInv, LinkInv, FrameSteps
  <2>3. /\ PublishFrame(slot[op.slot], op).attempt = slot[op.slot].attempt
        /\ Used(PublishFrame(slot[op.slot], op)) = Used(slot[op.slot])
    BY <1>0, <2>2, PublishKeepsUsed
  <2>4. FlashSeals' /\ NoncesNeverRepeat' /\ IdentityUnused'
    BY <1>0, <1>2, <2>1, <2>3
  <2>5. pc' \in {"frameAnchor", "idle"}
    BY <1>9 DEF WriteFrameMarker, Acknowledge
  <2> QED BY <2>4, <2>5 DEF SealInv, NonceUnused
<1> QED BY <1>3, <1>4, <1>5, <1>6, <1>7, <1>8, <1>9

\* A power cut or flash error spends at most the nonce in flight.
LEMMA InterruptSealsKept ==
  ASSUME FullInv, LinkInv, MirrorInv, SealInv, Interrupt
  PROVE  SealInv'
<1>0. /\ pc # "idle" /\ pc' = "idle" /\ nonces' = nonces /\ identity' \in {0, identity}
      /\ baseAttempt' \in {0, baseAttempt} /\ op.slot \in Slots
  BY NonceTypes DEF Interrupt, Poisoned, Closed
<1>1. NonceUnused'
  BY <1>0 DEF NonceUnused
<1>2. ASSUME NEW t \in Slots, NEW y, slot' = [slot EXCEPT ![t] = y],
             y.attempt \in {0, slot[t].attempt, op.attempt},
             sealed' \subseteq sealed \cup {SealOf(op)}
      PROVE  IdentityUnused'
  <2>1. \A s \in Slots : \/ slot'[s].attempt = 0
                         \/ \E u \in Slots : slot'[s].attempt = slot[u].attempt
                         \/ pc # "idle" /\ slot'[s].attempt = op.attempt
    BY <1>0, <1>2, SlotNonces
  <2> QED BY <1>0, <1>2, <2>1, IdentityKept DEF SealInv
<1>3. ASSUME NEW t \in Slots, NEW y \in Images, slot' = [slot EXCEPT ![t] = y], sealed' = sealed,
             y.attempt = 0 \/ (y.attempt = slot[t].attempt /\ Used(y) = Used(slot[t]))
      PROVE  FlashSeals' /\ NoncesNeverRepeat' /\ IdentityUnused'
  <2>1. FlashSeals'
    BY <1>0, <1>3, KeptSeals DEF SealInv
  <2>2. IdentityUnused'
    BY <1>2, <1>3
  <2> QED BY <1>3, <2>1, <2>2 DEF SealInv, NoncesNeverRepeat
<1>4. ASSUME NEW y \in Images, pc = "program", slot' = [slot EXCEPT ![op.slot] = y],
             y.attempt \in {0, op.attempt}, Used(y) \in Nat, sealed' = sealed \cup {SealOf(op)}
      PROVE  FlashSeals' /\ NoncesNeverRepeat' /\ IdentityUnused'
  <2>1. FlashSeals' /\ NoncesNeverRepeat'
    BY <1>0, <1>4, SnapshotSeals
  <2>2. IdentityUnused'
    BY <1>0, <1>2, <1>4
  <2> QED BY <2>1, <2>2
<1>5. ASSUME pc = "frame", slot' = [slot EXCEPT ![op.slot].tail = "torn"],
             sealed' = sealed \cup {SealOf(op)}
      PROVE  FlashSeals' /\ NoncesNeverRepeat' /\ IdentityUnused'
  <2>1. FlashSeals' /\ NoncesNeverRepeat'
    BY <1>0, <1>5, FrameSeals
  <2>2. slot[op.slot] \in Images
    BY <1>0, NonceTypes
  <2>3. /\ [slot[op.slot] EXCEPT !.tail = "torn"].attempt = slot[op.slot].attempt
        /\ slot' = [slot EXCEPT ![op.slot] = [slot[op.slot] EXCEPT !.tail = "torn"]]
    BY <1>5, <2>2 DEF Images
  <2>4. IdentityUnused'
    BY <1>0, <1>2, <1>5, <2>3
  <2> QED BY <2>1, <2>4
<1>6. InterruptSeals
  BY InterruptedSeals
<1> QED BY <1>1, <1>3, <1>4, <1>5, <1>6 DEF InterruptSeals, SealInv

\* A decaying record keeps its nonce.
LEMMA DamageSeals ==
  ASSUME FullInv, SealInv, NEW s \in Slots, Damage(s)
  PROVE  SealInv'
<1>1. /\ slot' = [slot EXCEPT ![s] = [slot[s] EXCEPT !.rec = "torn"]] /\ sealed' = sealed
      /\ UNCHANGED <<nonces, identity, pc, op, baseAttempt>> /\ slot[s] \in Images
  BY NonceTypes DEF Damage, handleVars
<1>2. /\ [slot[s] EXCEPT !.rec = "torn"].attempt = slot[s].attempt
      /\ Used([slot[s] EXCEPT !.rec = "torn"]) = Used(slot[s])
  BY <1>1, MarksKeepUsed
<1>3. FlashSeals'
  BY <1>1, <1>2, KeptSeals DEF SealInv
<1>4. \A t \in Slots : slot'[t].attempt = slot[t].attempt
  BY <1>1, <1>2, NonceTypes
<1> QED BY <1>1, <1>3, <1>4 DEF SealInv, IdentityUnused, NonceUnused, NoncesNeverRepeat

\* No step spends a nonce twice.
LEMMA SealInductive ==
  ASSUME FullInv, LinkInv, MirrorInv, SealInv, Next
  PROVE  SealInv'
<1>1. CASE QuietStep
  <2>1. CASE \E v \in Values : (\E d \in Durability : BeginCommit(v, d)) \/ CommitReserved(v)
    BY <2>1, BeginSeals
  <2>2. CASE ~\E v \in Values : (\E d \in Durability : BeginCommit(v, d)) \/ CommitReserved(v)
    BY <1>1, <2>2, QuietSeals
  <2> QED BY <2>1, <2>2
<1>2. CASE WriteIntent \/ EraseTarget \/ ProgramRecord \/ WriteCommitMarker
           \/ WriteReclaimComplete \/ ProgramFrame \/ WriteFrameMarker
  BY <1>2, SlotStepSeals
<1>3. CASE Interrupt
  BY <1>3, InterruptSealsKept
<1>4. CASE \E s \in Slots : Damage(s)
  BY <1>4, DamageSeals
<1> QED BY <1>1, <1>2, <1>3, <1>4 DEF Next, QuietStep

-----------------------------------------------------------------------------
(* The handle and the nonces: theorems *)

DetailInv == FullInv /\ LinkInv /\ MirrorInv /\ SealInv

\* All parts hold of factory-empty flash.
LEMMA DetailInit == Init => DetailInv
<1> SUFFICES ASSUME Init PROVE DetailInv
  OBVIOUS
<1>1. FullInv
  BY InvariantInit
<1>2. LinkInv /\ MirrorInv
  BY DEF Init, LinkInv, MirrorInv, SnapshotSteps, FrameSteps
<1>3. \A s \in Slots : slot[s].attempt = 0
  BY DEF Init, Blank
<1>4. SealInv
  BY <1>3 DEF Init, SealInv, FlashSeals, IdentityUnused, NonceUnused, NoncesNeverRepeat
<1> QED BY <1>1, <1>2, <1>4 DEF DetailInv

\* All parts together are inductive.
LEMMA DetailInductive == DetailInv /\ [Next]_vars => DetailInv'
<1> SUFFICES ASSUME DetailInv, [Next]_vars PROVE DetailInv'
  OBVIOUS
<1>1. FullInv'
  BY InvariantInductive DEF DetailInv
<1>2. CASE Next
  BY <1>1, <1>2, LinkInductive, MirrorInductive, SealInductive DEF DetailInv
<1>3. CASE UNCHANGED vars
  <2>1. LinkInv'
    BY <1>3 DEF vars, DetailInv, LinkInv, NextSlot, FreshSnapshot, SnapshotImage
  <2>2. MirrorInv'
    BY <1>3 DEF vars, DetailInv, MirrorInv, OffsetAt, ScanOffset
  <2>3. FlashSeals'
    BY <1>3 DEF vars, DetailInv, SealInv, FlashSeals, Used
  <2>4. IdentityUnused' /\ NonceUnused' /\ NoncesNeverRepeat'
    BY <1>3 DEF vars, DetailInv, SealInv, IdentityUnused, NonceUnused, NoncesNeverRepeat
  <2> QED BY <1>1, <2>1, <2>2, <2>3, <2>4 DEF DetailInv, SealInv
<1> QED BY <1>2, <1>3

\* For every geometry, mode and fault sequence, decaying records included: no
\* AES-CCM nonce (a reservation, and the append offset behind it) ever protects
\* two different records, whatever commit, append or identity reservation was
\* interrupted in between.
THEOREM JournalNoncesNeverRepeat == Spec => []NoncesNeverRepeat
<1>1. DetailInv => NoncesNeverRepeat
  BY DEF DetailInv, SealInv
<1> QED BY <1>1, DetailInit, DetailInductive, PTL DEF Spec

\* A usable handle is what a reboot would load.
LEMMA DetailMirrors == DetailInv => HandleMirrorsFlash
<1> SUFFICES ASSUME DetailInv, mode = "ready", ~damaged
             PROVE  /\ ScanOK /\ gen = ScanGen /\ mono = gen.a
                    /\ active = IF AnySelected THEN TheSelected ELSE NoSlot
                    /\ active # NoSlot =>
                         /\ baseAttempt = slot[active].attempt
                         /\ AppendEnabled =>
                              ScanOffset(slot[active]) = IF offset <= FrameCap THEN offset ELSE 0
  BY DEF HandleMirrorsFlash
<1>1. gen = known.gen /\ mono = gen.a /\ Typed
  BY DEF DetailInv, FullInv, AnchorInv
<1>2. active # NoSlot =>
        /\ baseAttempt = slot[active].attempt
        /\ AppendEnabled =>
             ScanOffset(slot[active]) = IF offset <= FrameCap THEN offset ELSE 0
  BY DEF DetailInv, MirrorInv, OffsetAt
<1>3. CASE NothingStored
  <2>1. active = NoSlot /\ known.gen = ZeroGen
    BY <1>3 DEF NothingStored
  <2>2. \A s \in Slots : slot[s] = Blank
    BY <2>1 DEF DetailInv, MirrorInv
  <2>3. ~AnySelected /\ ScanGen = ZeroGen /\ \A s \in Slots : ~Corrupt(s)
    BY <1>1, <1>3, NothingSelected
  <2> QED BY <1>1, <1>2, <2>1, <2>2, <2>3 DEF ScanOK
<1>4. ASSUME NEW c \in Slots, Safe(c)
      PROVE  /\ ScanOK /\ gen = ScanGen
             /\ active = IF AnySelected THEN TheSelected ELSE NoSlot
  <2>1. active = c /\ LastGen(slot[c]) = known.gen /\ NewestIs(c)
    BY <1>4 DEF Safe, HandleInv
  <2>2. AnySelected /\ TheSelected = c /\ ScanOK /\ ScanGen = LastGen(slot[c])
    BY <1>1, <2>1, SelectsNewest
  <2> QED BY <1>1, <2>1, <2>2
<1>5. NothingStored \/ \E c \in Slots : Safe(c)
  BY DEF DetailInv, FullInv, StoredInv
<1> QED BY <1>1, <1>2, <1>3, <1>4, <1>5

\* For every geometry and mode: while no record has decayed, a handle that
\* accepts commits agrees with the recovery scan on the generation, the active
\* slot, the epoch nonce and the next append offset, after any sequence of
\* commits, appends, errors, cuts and recoveries.
THEOREM JournalHandleMirrorsFlash == Spec => []HandleMirrorsFlash
BY DetailInit, DetailInductive, DetailMirrors, PTL DEF Spec

-----------------------------------------------------------------------------
(* The durable cell *)

\* What the flash stores, when slot c holds the newest record.
Reading(c) == [version |-> LastGen(slot[c]).q, value |-> LastVal(slot[c])]
EmptyCell == [version |-> 0, value |-> NoValue]

\* The durable cell is the newest record.
LEMMA NewestStored ==
  ASSUME Typed, NEW c \in Slots, NewestIs(c)
  PROVE  Stored = Reading(c)
BY SelectsNewest DEF Stored, Reading

\* It is so after a step as well.
LEMMA NewestStoredAfter ==
  ASSUME Typed', NEW c \in Slots, NewestIs(c)'
  PROVE  Stored' = [version |-> LastGen(slot'[c]).q, value |-> LastVal(slot'[c])]
<1>0. \A s \in Slots : LastGen(slot'[s]) \in Generations
  <2>1. \A s \in Slots : slot'[s] \in Images
    BY DEF Typed, TypeOK
  <2> QED BY <2>1, GenerationType
<1>1. Selected(c)'
  BY <1>0, GenOrder, JournalConstants DEF Selected, NewestIs, Slots
<1>2. \A s \in Slots : Selected(s)' => s = c
  BY <1>0, GenOrder DEF Selected, NewestIs
<1>3. AnySelected' /\ TheSelected' = c
  BY <1>1, <1>2 DEF AnySelected, TheSelected
<1> QED BY <1>3 DEF Stored, ScanGen, ScanVal

\* Flash without a commit marker stores nothing.
LEMMA NothingStoredYet ==
  ASSUME \A s \in Slots : ~slot[s].committed
  PROVE  Stored = EmptyCell
<1>1. ~AnySelected
  BY DEF AnySelected, Selected, Valid, ValidImage
<1> QED BY <1>1 DEF Stored, ScanGen, ScanVal, ZeroGen, EmptyCell

\* Nor does it after a step.
LEMMA NothingStoredAfter ==
  ASSUME \A s \in Slots : ~slot'[s].committed
  PROVE  Stored' = EmptyCell
<1>1. ~AnySelected'
  BY DEF AnySelected, Selected, Valid, ValidImage
<1> QED BY <1>1 DEF Stored, ScanGen, ScanVal, ZeroGen, EmptyCell

\* Something is stored, or nothing was ever committed.
Held == NothingStored \/ \E c \in Slots : Safe(c)

\* Flash that is only read keeps what it stores.
LEMMA ReadKeepsStored ==
  ASSUME FullInv, Typed', Held, slot' = slot, nonces' \in Nat, nonces' >= nonces
  PROVE  Stored' = Stored
<1>1. CASE NothingStored
  BY <1>1, NothingStoredYet, NothingStoredAfter DEF NothingStored
<1>2. ASSUME NEW c \in Slots, Safe(c)
      PROVE  Stored' = Stored
  <2>1. NewestIs(c) /\ NewestIs(c)'
    BY <1>2, ReadingStable DEF FullInv, Safe
  <2> QED BY <2>1, NewestStored, NewestStoredAfter DEF FullInv, Reading
<1> QED BY <1>1, <1>2 DEF Held

\* Erasing or programming the target keeps what the flash stores.
LEMMA TargetKeepsStored ==
  ASSUME FullInv, Typed', Held, pc \in {"erase", "program"}, NEW x,
         slot' = [slot EXCEPT ![op.slot] = x], nonces' = nonces, ~ValidImage(x, nonces),
         ~slot[op.slot].committed => ~x.committed
  PROVE  Stored' = Stored
<1>0. op.slot \in Slots /\ slot \in [Slots -> Images] /\ Typed
  BY NonceTypes DEF FullInv
<1>1. CASE NothingStored
  <2>1. \A s \in Slots : ~slot'[s].committed
    BY <1>0, <1>1 DEF NothingStored
  <2> QED BY <1>1, <2>1, NothingStoredYet, NothingStoredAfter DEF NothingStored
<1>2. ASSUME NEW c \in Slots, Safe(c)
      PROVE  Stored' = Stored
  <2>1. op.slot = SlotAfter(c) /\ slot[c].started /\ NewestIs(c)
    BY <1>2 DEF Safe, HandleInv, SnapshotSteps
  <2>2. NewestIs(c)' /\ slot'[c] = slot[c]
    BY <1>0, <2>1, TargetRewritten
  <2> QED BY <1>0, <2>1, <2>2, NewestStored, NewestStoredAfter DEF Reading
<1> QED BY <1>1, <1>2 DEF Held

\* Rewriting the newest record to one that reads the same keeps what is stored.
LEMMA SameNewestStored ==
  ASSUME FullInv, Typed', NEW c \in Slots, Safe(c), NEW y,
         slot' = [slot EXCEPT ![c] = y], nonces' = nonces, ValidImage(y, nonces),
         LastGen(y) = LastGen(slot[c]), LastVal(y) = LastVal(slot[c]), ~y.complete,
         slot[c].started => y.started
  PROVE  Stored' = Stored
<1>0. Typed /\ NewestIs(c) /\ LastGen(slot[c]) \in Generations
  BY GenerationType, NonceTypes DEF FullInv, Safe
<1>1. ~GenLess(LastGen(y), LastGen(slot[c]))
  BY <1>0, GenOrder
<1>2. NewestIs(c)' /\ slot'[c] = y
  BY <1>0, <1>1, NewestExtended
<1> QED BY <1>0, <1>2, NewestStored, NewestStoredAfter DEF Reading

\* The reclaim intent keeps what the flash stores.
LEMMA IntentKeepsStored ==
  ASSUME FullInv, Typed', Held, pc = "intent",
         slot' = [slot EXCEPT ![active].started = TRUE], nonces' = nonces
  PROVE  Stored' = Stored
<1>1. PICK c \in Slots : Safe(c)
  BY DEF Held, NothingStored
<1> DEFINE y == [slot[c] EXCEPT !.started = TRUE]
<1>2. active = c /\ ValidImage(slot[c], nonces) /\ ~slot[c].complete
  BY <1>1 DEF Safe, HandleInv, SnapshotSteps, NewestIs, Valid
<1>3. slot' = [slot EXCEPT ![c] = y] /\ slot[c] \in Images /\ nonces \in Nat
  BY <1>2, NonceTypes
<1>4. /\ ValidImage(y, nonces) /\ LastGen(y) = LastGen(slot[c])
      /\ LastVal(y) = LastVal(slot[c]) /\ y.started /\ ~y.complete
  BY <1>2, <1>3, IntentImage
<1> HIDE DEF y
<1> QED BY <1>1, <1>3, <1>4, SameNewestStored

\* So does a programmed frame whose marker is missing.
LEMMA FrameKeepsStored ==
  ASSUME FullInv, Typed', Held, pc = "frame",
         slot' = [slot EXCEPT ![op.slot].tail = "torn"], nonces' = nonces
  PROVE  Stored' = Stored
<1>1. PICK c \in Slots : Safe(c)
  BY DEF Held, NothingStored
<1> DEFINE y == [slot[c] EXCEPT !.tail = "torn"]
<1>2. op.slot = c /\ ValidImage(slot[c], nonces) /\ ~slot[c].complete
  BY <1>1 DEF Safe, HandleInv, NewestIs, Valid
<1>3. slot' = [slot EXCEPT ![c] = y] /\ slot[c] \in Images /\ nonces \in Nat
  BY <1>2, NonceTypes
<1>4. /\ ValidImage(y, nonces) /\ LastGen(y) = LastGen(slot[c])
      /\ LastVal(y) = LastVal(slot[c]) /\ y.started = slot[c].started /\ ~y.complete
  BY <1>2, <1>3, TornTailImage
<1> HIDE DEF y
<1> QED BY <1>1, <1>3, <1>4, SameNewestStored

\* And the mark that ends the replacement, on the record that was replaced.
LEMMA CompleteKeepsStored ==
  ASSUME FullInv, Typed', Held, pc = "complete",
         slot' = [slot EXCEPT ![active].complete = TRUE], nonces' = nonces
  PROVE  Stored' = Stored
<1>1. PICK c \in Slots : Safe(c)
  BY DEF Held, NothingStored
<1> DEFINE y == [slot[active] EXCEPT !.complete = TRUE]
<1>2. /\ active # c /\ slot[active].started /\ active \in Slots /\ slot[active] \in Images
      /\ NewestIs(c) /\ nonces \in Nat /\ Typed
  BY <1>1, NonceTypes DEF Safe, HandleInv, FullInv
<1>3. /\ ValidImage(y, nonces) <=> ValidImage(slot[active], nonces)
      /\ LastGen(y) = LastGen(slot[active]) /\ y.committed = slot[active].committed
  BY <1>2, CompleteImage
<1>4. slot' = [slot EXCEPT ![active] = y]
  OBVIOUS
<1> HIDE DEF y
<1>5. NewestIs(c)' /\ slot'[c] = slot[c]
  BY <1>2, <1>3, <1>4, OldRecordClosed
<1> QED BY <1>2, <1>5, NewestStored, NewestStoredAfter DEF Reading

\* What is stored while a record is being written is what the caller knows.
LEMMA StoredIsKnown ==
  ASSUME FullInv, Held, pc \in {"marker", "frameMarker"}
  PROVE  Stored.version = known.gen.q
<1>1. CASE NothingStored
  BY <1>1, NothingStoredYet DEF NothingStored, EmptyCell, ZeroGen
<1>2. ASSUME NEW c \in Slots, Safe(c)
      PROVE  Stored.version = known.gen.q
  <2>1. LastGen(slot[c]) = known.gen /\ NewestIs(c)
    BY <1>2 DEF Safe, HandleInv, SnapshotSteps
  <2> QED BY <2>1, NewestStored DEF FullInv, Reading
<1> QED BY <1>1, <1>2 DEF Held

\* The commit marker and the frame marker each publish the record in flight.
LEMMA MarkerStores ==
  ASSUME FullInv, Typed', Held, nonces' = nonces,
         \/ pc = "marker" /\ slot' = [slot EXCEPT ![op.slot].committed = TRUE]
         \/ pc = "frameMarker" /\ slot' = [slot EXCEPT ![op.slot] = PublishFrame(@, op)]
  PROVE  Stored' = [version |-> Stored.version + 1, value |-> op.val]
<1>1. Stored.version = known.gen.q /\ op.gen.q = known.gen.q + 1
  BY StoredIsKnown, InFlightGeneration DEF FullInv
<1>2. CASE pc = "marker"
  <2>0. PICK s \in Slots : s = op.slot
    BY NonceTypes
  <2>1. slot' = [slot EXCEPT ![op.slot].committed = TRUE]
    BY <1>2
  <2>2. NewestIs(s)' /\ LastGen(slot'[s]) = op.gen /\ LastVal(slot'[s]) = op.val
    BY <1>2, <2>0, <2>1, MarkerPublishes DEF Held
  <2> QED BY <1>1, <2>2, NewestStoredAfter
<1>3. CASE pc = "frameMarker"
  <2>1. slot' = [slot EXCEPT ![op.slot] = PublishFrame(@, op)]
    BY <1>3
  <2>2. PICK c \in Slots : Safe(c)
    BY <1>3 DEF Held, NothingStored
  <2>3. NewestIs(c)' /\ LastGen(slot'[c]) = op.gen /\ LastVal(slot'[c]) = op.val
    BY <1>3, <2>1, <2>2, FramePublishes
  <2> QED BY <1>1, <2>3, NewestStoredAfter
<1> QED BY <1>2, <1>3

\* A record in flight carries a value.
LEMMA InFlightValue ==
  ASSUME FullInv, pc # "idle"
  PROVE  op.val \in Values /\ op.val # NoValue
BY JournalConstants DEF FullInv, Typed, OpInv

\* A step that keeps what is stored, seen as a step of the cell: the record in
\* flight is carried on, announced or dropped.
LEMMA KeptIsCellStep ==
  ASSUME Stored' = Stored,
         \/ InFlight' = InFlight
         \/ InFlight = NoValue /\ InFlight' \in Values
         \/ InFlight # NoValue /\ InFlight' = NoValue
  PROVE  Cell!CellNext \/ UNCHANGED Cell!cellVars
<1>1. CASE InFlight' = InFlight
  BY <1>1 DEF Cell!cellVars
<1>2. CASE InFlight = NoValue /\ InFlight' \in Values
  BY <1>2 DEF Cell!CellNext, Cell!Announce
<1>3. CASE InFlight # NoValue /\ InFlight' = NoValue
  BY <1>3 DEF Cell!CellNext, Cell!Abandon
<1> QED BY <1>1, <1>2, <1>3

\* A step that stores the record in flight, seen as a step of the cell.
LEMMA StoreIsCellStep ==
  ASSUME FullInv, pc \in {"marker", "frameMarker"},
         Stored' = [version |-> Stored.version + 1, value |-> op.val],
         pc' \in {"complete", "anchor", "frameAnchor", "idle"}
  PROVE  Cell!CellNext
<1>1. InFlight = op.val /\ op.val # NoValue /\ InFlight' = NoValue
  BY InFlightValue DEF InFlight
<1> QED BY <1>1 DEF Cell!CellNext, Cell!Publish

\* Steps that touch no slot announce a record or change nothing.
LEMMA QuietIsCellStep ==
  ASSUME FullInv, Typed', Held, QuietStep
  PROVE  Cell!CellNext \/ UNCHANGED Cell!cellVars
<1>1. slot' = slot /\ nonces' \in Nat /\ nonces' >= nonces
  BY QuietFlash DEF FullInv
<1>2. Stored' = Stored
  BY <1>1, ReadKeepsStored
<1>3. CASE \/ \E v \in Values, d \in Durability : BeginCommit(v, d) \/ BeginAppend(v, d)
           \/ \E v \in Values : CommitReserved(v)
  <2>1. pc = "idle" /\ op'.val \in Values /\ pc' \in {"erase", "intent", "frame"}
    BY <1>3 DEF BeginCommit, CommitReserved, StartCommit, BeginAppend
  <2>2. InFlight = NoValue /\ InFlight' \in Values
    BY <2>1 DEF InFlight
  <2> QED BY <1>2, <2>2, KeptIsCellStep
<1>4. CASE ~(\/ \E v \in Values, d \in Durability : BeginCommit(v, d) \/ BeginAppend(v, d)
             \/ \E v \in Values : CommitReserved(v))
  <2>1. pc \in {"idle", "anchor", "frameAnchor"} /\ pc' = "idle"
    BY <1>4 DEF QuietStep, Recover, RecoverUnreconciled, RecoverFails, SealFails,
       ReserveIdentity, RejectReserved, AdvanceAnchor, AdvanceFrameAnchor, PowerOff, Acknowledge
  <2>2. InFlight' = InFlight
    BY <2>1 DEF InFlight
  <2> QED BY <1>2, <2>2, KeptIsCellStep
<1> QED BY <1>3, <1>4

\* Slot mutations keep what is stored, except the two that publish.
LEMMA SlotStepIsCellStep ==
  ASSUME FullInv, Typed', Held,
         WriteIntent \/ EraseTarget \/ ProgramRecord \/ WriteCommitMarker
         \/ WriteReclaimComplete \/ ProgramFrame \/ WriteFrameMarker
  PROVE  Cell!CellNext \/ UNCHANGED Cell!cellVars
<1>1. CASE WriteIntent
  <2>1. Stored' = Stored
    BY <1>1, IntentKeepsStored DEF WriteIntent
  <2>2. InFlight' = InFlight
    BY <1>1 DEF WriteIntent, InFlight
  <2> QED BY <2>1, <2>2, KeptIsCellStep
<1>2. CASE EraseTarget
  <2>1. ~ValidImage(Blank, nonces) /\ ~Blank.committed
    BY DEF ValidImage, Blank
  <2>2. Stored' = Stored
    BY <1>2, <2>1, TargetKeepsStored DEF EraseTarget
  <2>3. InFlight' = InFlight
    BY <1>2 DEF EraseTarget, InFlight
  <2> QED BY <2>2, <2>3, KeptIsCellStep
<1>3. CASE ProgramRecord
  <2> DEFINE y == SnapshotImage(op)
  <2>1. ~ValidImage(y, nonces) /\ ~y.committed
    BY DEF ValidImage, SnapshotImage
  <2>2. pc = "program" /\ nonces' = nonces /\ slot' = [slot EXCEPT ![op.slot] = y]
    BY <1>3 DEF ProgramRecord
  <2> HIDE DEF y
  <2>3. Stored' = Stored
    BY <2>1, <2>2, TargetKeepsStored
  <2>4. InFlight' = InFlight
    BY <1>3 DEF ProgramRecord, InFlight
  <2> QED BY <2>3, <2>4, KeptIsCellStep
<1>4. CASE WriteCommitMarker
  <2>1. Stored' = [version |-> Stored.version + 1, value |-> op.val]
    BY <1>4, MarkerStores DEF WriteCommitMarker
  <2>2. pc = "marker" /\ pc' \in {"complete", "anchor", "idle"}
    BY <1>4 DEF WriteCommitMarker, FinishSlots, Acknowledge
  <2> QED BY <2>1, <2>2, StoreIsCellStep
<1>5. CASE WriteReclaimComplete
  <2>1. Stored' = Stored
    BY <1>5, CompleteKeepsStored DEF WriteReclaimComplete
  <2>2. InFlight' = InFlight
    BY <1>5 DEF WriteReclaimComplete, FinishSlots, Acknowledge, InFlight
  <2> QED BY <2>1, <2>2, KeptIsCellStep
<1>6. CASE ProgramFrame
  <2>1. Stored' = Stored
    BY <1>6, FrameKeepsStored DEF ProgramFrame
  <2>2. InFlight' = InFlight
    BY <1>6 DEF ProgramFrame, InFlight
  <2> QED BY <2>1, <2>2, KeptIsCellStep
<1>7. CASE WriteFrameMarker
  <2>1. Stored' = [version |-> Stored.version + 1, value |-> op.val]
    BY <1>7, MarkerStores DEF WriteFrameMarker
  <2>2. pc = "frameMarker" /\ pc' \in {"frameAnchor", "idle"}
    BY <1>7 DEF WriteFrameMarker, Acknowledge
  <2> QED BY <2>1, <2>2, StoreIsCellStep
<1> QED BY <1>1, <1>2, <1>3, <1>4, <1>5, <1>6, <1>7

\* A power cut or flash error drops the record in flight or, when its marker
\* word was already programmed, publishes it.
LEMMA InterruptIsCellStep ==
  ASSUME FullInv, Typed', Held, Interrupt
  PROVE  Cell!CellNext \/ UNCHANGED Cell!cellVars
<1>0. /\ pc \in Steps /\ pc # "idle" /\ pc' = "idle" /\ nonces' = nonces /\ nonces \in Nat
      /\ Touched(pc) \in Slots /\ slot \in [Slots -> Images]
      /\ slot[Touched(pc)] \in Images
  <2>1. pc \in Steps /\ pc # "idle" /\ pc' = "idle" /\ nonces' = nonces
    BY DEF Interrupt, FullInv, Typed, TypeOK
  <2>2. Touched(pc) \in Slots
    BY NonceTypes DEF Touched
  <2> QED BY <2>1, <2>2, NonceTypes
<1>1. InFlight' = NoValue
  BY <1>0 DEF InFlight
<1>2. ASSUME Stored' = Stored
      PROVE  Cell!CellNext \/ UNCHANGED Cell!cellVars
  BY <1>1, <1>2, KeptIsCellStep
<1> DEFINE t == Touched(pc)
<1>3. PICK x \in Leftover(slot[t], pc) : slot' = [slot EXCEPT ![t] = x]
  BY DEF Interrupt
<1>4. CASE x = slot[t] \/ pc \in {"anchor", "frameAnchor"}
  <2>1. x = slot[t]
    BY <1>3, <1>4 DEF Leftover
  <2>2. slot' = slot
    BY <1>0, <1>3, <2>1
  <2>3. Stored' = Stored
    BY <1>0, <2>2, ReadKeepsStored
  <2> QED BY <1>2, <2>3
<1>5. CASE pc = "erase" /\ x # slot[t]
  <2>1. x \in PartialErase(slot[t]) /\ t = op.slot
    BY <1>3, <1>5 DEF Leftover, Touched
  <2>2. x \in {Blank, [Blank EXCEPT !.rec = "torn"], [slot[t] EXCEPT !.rec = "torn"]}
    BY <1>5, <2>1, Zenon DEF PartialErase
  <2>3. x.rec # "whole" /\ (~slot[t].committed => ~x.committed)
    <3>1. /\ Blank.rec # "whole" /\ [Blank EXCEPT !.rec = "torn"].rec # "whole"
          /\ ~Blank.committed /\ ~[Blank EXCEPT !.rec = "torn"].committed
      BY DEF Blank
    <3>2. /\ [slot[t] EXCEPT !.rec = "torn"].rec # "whole"
          /\ [slot[t] EXCEPT !.rec = "torn"].committed = slot[t].committed
      BY <1>0 DEF Images
    <3> QED BY <2>2, <3>1, <3>2
  <2>4. ~ValidImage(x, nonces)
    BY <2>3 DEF ValidImage
  <2>5. Stored' = Stored
    BY <1>0, <1>3, <1>5, <2>1, <2>3, <2>4, TargetKeepsStored
  <2> QED BY <1>2, <2>5
<1>6. CASE pc = "program" /\ x # slot[t]
  <2>1. slot[t] = Blank /\ t = op.slot
    BY <1>6 DEF Touched, FullInv, TargetInv
  <2>2. x \in {[Blank EXCEPT !.rec = "torn"], SnapshotImage(op)}
    BY <1>3, <1>6, <2>1 DEF Leftover
  <2>3. ~x.committed
    BY <2>2 DEF Blank, SnapshotImage
  <2>4. ~ValidImage(x, nonces)
    BY <2>3 DEF ValidImage
  <2>5. Stored' = Stored
    BY <1>0, <1>3, <1>6, <2>1, <2>3, <2>4, TargetKeepsStored
  <2> QED BY <1>2, <2>5
<1>7. CASE pc = "marker" /\ x # slot[t]
  <2>1. slot' = [slot EXCEPT ![op.slot].committed = TRUE]
    BY <1>3, <1>7 DEF Touched, Leftover
  <2>2. Stored' = [version |-> Stored.version + 1, value |-> op.val]
    BY <1>0, <1>7, <2>1, MarkerStores
  <2> QED BY <1>0, <1>7, <2>2, StoreIsCellStep
<1>8. CASE pc = "intent" /\ x # slot[t]
  <2>1. slot' = [slot EXCEPT ![active].started = TRUE]
    BY <1>3, <1>8 DEF Touched, Leftover
  <2>2. Stored' = Stored
    BY <1>0, <1>8, <2>1, IntentKeepsStored
  <2> QED BY <1>2, <2>2
<1>9. CASE pc = "complete" /\ x # slot[t]
  <2>1. slot' = [slot EXCEPT ![active].complete = TRUE]
    BY <1>3, <1>9 DEF Touched, Leftover
  <2>2. Stored' = Stored
    BY <1>0, <1>9, <2>1, CompleteKeepsStored
  <2> QED BY <1>2, <2>2
<1>10. CASE pc = "frame" /\ x # slot[t]
  <2>1. slot' = [slot EXCEPT ![op.slot].tail = "torn"]
    BY <1>3, <1>10 DEF Touched, Leftover
  <2>2. Stored' = Stored
    BY <1>0, <1>10, <2>1, FrameKeepsStored
  <2> QED BY <1>2, <2>2
<1>11. CASE pc = "frameMarker" /\ x # slot[t]
  <2>1. slot' = [slot EXCEPT ![op.slot] = PublishFrame(@, op)]
    BY <1>3, <1>11 DEF Touched, Leftover
  <2>2. Stored' = [version |-> Stored.version + 1, value |-> op.val]
    BY <1>0, <1>11, <2>1, MarkerStores
  <2> QED BY <1>0, <1>11, <2>2, StoreIsCellStep
<1> QED BY <1>0, <1>4, <1>5, <1>6, <1>7, <1>8, <1>9, <1>10, <1>11 DEF Steps

\* Every step of the journal over flash that does not decay is a step of the
\* durable cell or leaves it alone.
LEMMA StepIsCellStep ==
  ASSUME FullInv, Typed', ~damaged, ~DamageAllowed, Next
  PROVE  Cell!CellNext \/ UNCHANGED Cell!cellVars
<1>1. Held
  BY DEF FullInv, StoredInv, Held
<1>2. ~\E s \in Slots : Damage(s)
  BY DEF Damage
<1> QED BY <1>1, <1>2, QuietIsCellStep, SlotStepIsCellStep, InterruptIsCellStep
        DEF Next, QuietStep

\* Without decay, no record is ever damaged.
LEMMA StaysUndamaged ==
  ASSUME ~damaged, ~DamageAllowed, Next
  PROVE  ~damaged'
<1>1. ~\E s \in Slots : Damage(s)
  BY DEF Damage
<1> QED BY <1>1 DEF Next, Recover, RecoverUnreconciled, RecoverFails, BeginCommit, StartCommit,
     SealFails, ReserveIdentity, RejectReserved, CommitReserved, WriteIntent, EraseTarget,
     ProgramRecord, WriteCommitMarker, WriteReclaimComplete, AdvanceAnchor, BeginAppend,
     ProgramFrame, WriteFrameMarker, AdvanceFrameAnchor, Interrupt, PowerOff

\* For every geometry and mode, over flash that does not decay: the journal
\* implements the durable cell.  A power cut at any instant leaves either what
\* was stored before or the whole announced record; nothing else ever changes it.
THEOREM JournalImplementsDurableCell ==
  ASSUME ~DamageAllowed
  PROVE  Spec => ImplementsDurableCell
<1>1. Init => Cell!CellInit
  <2> SUFFICES ASSUME Init PROVE Cell!CellInit
    OBVIOUS
  <2>1. Stored = EmptyCell
    <3>1. \A s \in Slots : ~slot[s].committed
      BY DEF Init, Blank
    <3> QED BY <3>1, NothingStoredYet
  <2>2. InFlight = NoValue
    BY DEF Init, InFlight
  <2> QED BY <2>1, <2>2 DEF Cell!CellInit, Cell!Empty, EmptyCell
<1>2. Init => ~damaged
  BY DEF Init
<1>3. FullInv /\ ~damaged /\ [Next]_vars => (~damaged)' /\ [Cell!CellNext]_Cell!cellVars
  <2> SUFFICES ASSUME FullInv, ~damaged, [Next]_vars
               PROVE  ~damaged' /\ (Cell!CellNext \/ UNCHANGED Cell!cellVars)
    OBVIOUS
  <2>1. CASE Next
    <3>1. Typed'
      BY InvariantInductive DEF FullInv
    <3> QED BY <2>1, <3>1, StepIsCellStep, StaysUndamaged
  <2>2. CASE UNCHANGED vars
    <3>1. Stored' = Stored /\ InFlight' = InFlight
      BY <2>2 DEF vars, Stored, InFlight, ScanGen, ScanVal, AnySelected, TheSelected, Selected,
         Valid
    <3> QED BY <2>2, <3>1 DEF vars, Cell!cellVars
  <2> QED BY <2>1, <2>2
<1> QED BY <1>1, <1>2, <1>3, InvariantInit, InvariantInductive, PTL
        DEF Spec, ImplementsDurableCell, Cell!CellSpec
=============================================================================
