------------------------------ MODULE Journal ------------------------------
(***************************************************************************)
(* The authenticated rotating journal of crates/microcard-core/src/        *)
(* journal.rs and journal/append.rs over NOR flash: snapshot commits that  *)
(* rotate through the slots, append records behind a snapshot, the two     *)
(* one-way counters (security anchor and nonce reservations), the recovery *)
(* scan, and power cuts or flash errors at every flash mutation.           *)
(*                                                                         *)
(* One action is one flash mutation, because a power cut may fall between  *)
(* any two.  Bytes are abstracted to what recovery can tell apart: a slot  *)
(* image is erased, damaged ("torn") or whole, and a whole one carries its *)
(* header and payload.  AES-CCM is ideal: a damaged record never           *)
(* authenticates.                                                          *)
(***************************************************************************)
EXTENDS Integers, Sequences, FiniteSets

CONSTANTS
  NSlots,         \* Flash::slot_count: 3 for MC04, 2 for each JCVM journal
  AppendEnabled,  \* MJ09 (snapshot + appends) or MJ08 (snapshots only)
  Values,         \* plaintexts a caller may commit
  NoValue,        \* "no data": a factory-empty journal
  MonoCap,        \* Flash::monotonic_capacity
  NonceCap,       \* Flash::nonce_capacity
  SeqMax,         \* u32::MAX in the code, the width of the record sequence
  FrameCap,       \* append records that fit behind one snapshot
  DamageAllowed   \* may a committed record decay while power is off?

ASSUME JournalConstants ==
  /\ NSlots \in Nat /\ NSlots >= 2
  /\ AppendEnabled \in BOOLEAN /\ DamageAllowed \in BOOLEAN
  /\ MonoCap \in Nat /\ NonceCap \in Nat /\ SeqMax \in Nat /\ FrameCap \in Nat
  /\ NoValue \notin Values

Slots == 0 .. NSlots - 1
NoSlot == NSlots

\* A generation is the pair (anchor, sequence) the header packs into a u64.
Generations == [a : 0 .. MonoCap, q : 0 .. SeqMax]
ZeroGen == [a |-> 0, q |-> 0]

\* u64 comparison of two packed generations.
GenLess(g, h) == g.a < h.a \/ (g.a = h.a /\ g.q < h.q)

Durability == IF AppendEnabled THEN {"Ordinary", "Anchored"} ELSE {"Anchored"}

Frames == [gen : Generations, attempt : 0 .. NonceCap, val : Values]

Images ==
  [rec : {"erased", "torn", "whole"}, gen : Generations, attempt : 0 .. NonceCap,
   val : Values \cup {NoValue}, committed : BOOLEAN, started : BOOLEAN,
   complete : BOOLEAN, frames : Seq(Frames), tail : {"clean", "torn"}]

Blank ==
  [rec |-> "erased", gen |-> ZeroGen, attempt |-> 0, val |-> NoValue,
   committed |-> FALSE, started |-> FALSE, complete |-> FALSE,
   frames |-> <<>>, tail |-> "clean"]

VARIABLES
  \* flash
  slot,       \* [Slots -> Images]
  mono,       \* words programmed in the security anchor
  nonces,     \* words programmed in the nonce counter
  \* the Journal handle in RAM
  mode,       \* "closed" (no handle), "poisoned" or "ready"
  gen, active, baseAttempt, offset,
  identity,   \* a ReservedNonce held by the caller, 0 when none
  pc, op,     \* the flash mutation about to run, and the record it belongs to
  \* history
  known,      \* what the caller last learned to be durable
  sealed,     \* every record of which some word was programmed
  damaged     \* the environment has damaged a committed record

flashVars == <<slot, mono, nonces>>
handleVars == <<mode, gen, active, baseAttempt, offset>>
vars == <<slot, mono, nonces, mode, gen, active, baseAttempt, offset,
          identity, pc, op, known, sealed, damaged>>

Steps == {"idle", "intent", "erase", "program", "marker", "complete", "anchor",
          "frame", "frameMarker", "frameAnchor"}

Ops == [slot : Slots, gen : Generations, attempt : 0 .. NonceCap,
        val : Values \cup {NoValue}, dur : {"Ordinary", "Anchored"},
        at : 0 .. FrameCap + 1]

NoOp == [slot |-> 0, gen |-> ZeroGen, attempt |-> 0, val |-> NoValue,
         dur |-> "Anchored", at |-> 0]

\* The AES-CCM nonce of a record: at = 0 is the snapshot itself, at = i the
\* i-th append offset of the same epoch.
Seals == [attempt : 0 .. NonceCap, at : 0 .. FrameCap + 1,
          gen : Generations, val : Values \cup {NoValue}]
SealOf(o) == [attempt |-> o.attempt, at |-> o.at, gen |-> o.gen, val |-> o.val]

-----------------------------------------------------------------------------
(* Reading the flash *)

\* append::read accepts the next frame only if it extends the chain by one.
Extends(g, f, attempt) ==
  /\ f.gen.q = g.q + 1
  /\ f.gen.a \in {g.a, g.a + 1}
  /\ f.attempt = attempt

GenBefore(x, i) == IF i = 1 THEN x.gen ELSE x.frames[i - 1].gen

\* append::replay over the committed frames.
ReplayOK(x) ==
  \A i \in 1 .. Len(x.frames) : Extends(GenBefore(x, i), x.frames[i], x.attempt)

LastGen(x) == IF x.frames = <<>> THEN x.gen ELSE x.frames[Len(x.frames)].gen
LastVal(x) == IF x.frames = <<>> THEN x.val ELSE x.frames[Len(x.frames)].val

\* Journal::read_candidate: CandidateRead::Valid and CandidateRead::Corrupt.
\* n is the number of nonce reservations read back from the counter.
ValidImage(x, n) ==
  /\ x.committed
  /\ x.rec = "whole"
  /\ x.attempt # 0 /\ x.attempt <= n
  /\ AppendEnabled => x.gen.a # 0 /\ x.gen.q # 0
  /\ ReplayOK(x)
  /\ x.complete => x.started

Valid(s) == ValidImage(slot[s], nonces)
Corrupt(s) == slot[s].committed /\ ~Valid(s)

\* append_offset of a recovered candidate; 0 stands for None.
ScanOffset(x) ==
  IF AppendEnabled /\ ~x.started /\ x.tail = "clean" /\ Len(x.frames) < FrameCap
  THEN Len(x.frames) + 1
  ELSE 0

\* The scan keeps the first slot with the highest generation.
Selected(s) ==
  /\ Valid(s)
  /\ \A t \in Slots : Valid(t) => ~GenLess(LastGen(slot[s]), LastGen(slot[t]))
  /\ \A t \in Slots : Valid(t) /\ t < s => GenLess(LastGen(slot[t]), LastGen(slot[s]))

AnySelected == \E s \in Slots : Selected(s)
TheSelected == CHOOSE s \in Slots : Selected(s)

\* recover_with_replay_mode up to the reconciliation: a damaged committed slot
\* is tolerated only while the survivor says that a slot is being replaced,
\* and programmed flash without any valid record is refused.
ScanOK ==
  /\ (\E s \in Slots : Corrupt(s)) =>
        \E s \in Slots : Selected(s) /\ slot[s].started /\ ~slot[s].complete
  /\ (\E s \in Slots : slot[s] # Blank) => AnySelected

ScanGen == IF AnySelected THEN LastGen(slot[TheSelected]) ELSE ZeroGen
ScanVal == IF AnySelected THEN LastVal(slot[TheSelected]) ELSE NoValue

\* Mutant: a record older than the anchor is accepted.
Reconcilable_Older == ScanGen.a <= mono + 1

\* reconcile_generation: the anchor may trail the selected record by one.
Reconcilable == ScanGen.a \in {mono, mono + 1}

Recoverable == ScanOK /\ Reconcilable

-----------------------------------------------------------------------------
(* The handle *)

Bump(d) == IF d = "Anchored" THEN 1 ELSE 0

\* next_generation
NextGeneration(g, d) == [a |-> g.a + Bump(d), q |-> g.q + 1]

\* next_generation and the capacity check both succeed.  An append journal
\* has no record with anchor 0, so its first record must be anchored.
CanAdvance(g, d) ==
  /\ g.q < SeqMax
  /\ g.a + Bump(d) <= MonoCap
  /\ AppendEnabled => g.a + Bump(d) # 0

\* (active + 1) % slot_count, slot 0 when nothing is active.
SlotAfter(s) == IF s = NSlots - 1 THEN 0 ELSE s + 1
NextSlot == IF active = NoSlot THEN 0 ELSE SlotAfter(active)

Init ==
  /\ slot = [s \in Slots |-> Blank]
  /\ mono = 0 /\ nonces = 0
  /\ mode = "closed" /\ gen = ZeroGen /\ active = NoSlot
  /\ baseAttempt = 0 /\ offset = 0 /\ identity = 0
  /\ pc = "idle" /\ op = NoOp
  /\ known = [gen |-> ZeroGen, val |-> NoValue]
  /\ sealed = {} /\ damaged = FALSE

\* Journal::open_mode and recover_with_replay on flash that reads back well;
\* the anchor is repaired when it trails the selected record.
Recover ==
  /\ pc = "idle"
  /\ Recoverable
  /\ mono' = ScanGen.a
  /\ gen' = ScanGen
  /\ active' = IF AnySelected THEN TheSelected ELSE NoSlot
  /\ baseAttempt' = IF AnySelected THEN slot[TheSelected].attempt ELSE 0
  /\ offset' = IF AnySelected THEN ScanOffset(slot[TheSelected]) ELSE 0
  /\ mode' = "ready"
  /\ known' = [gen |-> ScanGen, val |-> ScanVal]
  /\ UNCHANGED <<slot, nonces, identity, pc, op, sealed, damaged>>

\* The anchor repair itself reports an error, with or without having
\* programmed the word: a live handle is loaded but stays poisoned, and
\* open_mode returns no handle.
RecoverUnreconciled ==
  /\ pc = "idle"
  /\ ScanOK /\ ScanGen.a = mono + 1
  /\ mono' \in {mono, mono + 1}
  /\ IF mode = "closed"
     THEN UNCHANGED handleVars
     ELSE /\ gen' = ScanGen
          /\ active' = TheSelected
          /\ baseAttempt' = slot[TheSelected].attempt
          /\ offset' = ScanOffset(slot[TheSelected])
          /\ mode' = "poisoned"
  /\ UNCHANGED <<slot, nonces, identity, pc, op, known, sealed, damaged>>

\* The scan fails before it selects a record (a read or provider error, or
\* flash that is refused): recovery has already disabled commits.
RecoverFails ==
  /\ pc = "idle" /\ mode = "ready"
  /\ mode' = "poisoned"
  /\ UNCHANGED <<flashVars, gen, active, baseAttempt, offset, identity, pc, op,
                 known, sealed, damaged>>

-----------------------------------------------------------------------------
(* Snapshot commit: Journal::commit_owned_with_nonce *)

\* Everything before the first slot mutation, with the given nonce.
StartCommit(v, d, attempt) ==
  /\ mode = "ready" /\ pc = "idle"
  /\ CanAdvance(gen, d)
  /\ op' = [slot |-> NextSlot, gen |-> NextGeneration(gen, d),
            attempt |-> attempt, val |-> v, dur |-> d, at |-> 0]
  /\ mode' = "poisoned"
  /\ pc' = IF active = NoSlot THEN "erase" ELSE "intent"
  /\ UNCHANGED <<slot, mono, gen, active, baseAttempt, offset, known, sealed,
                 damaged>>

\* seal_record reserves a fresh nonce before it encrypts.
BeginCommit(v, d) ==
  /\ nonces < NonceCap
  /\ nonces' = nonces + 1
  /\ StartCommit(v, d, nonces + 1)
  /\ UNCHANGED identity

\* reserve_nonce or the encryption fails: the nonce may be consumed, nothing
\* else happened and the handle stays usable.
SealFails ==
  /\ mode = "ready" /\ pc = "idle" /\ nonces < NonceCap
  /\ nonces' = nonces + 1
  /\ UNCHANGED <<slot, mono, handleVars, identity, pc, op, known, sealed, damaged>>

\* reserve_identity_nonce: the registry burns a nonce as a fresh identity.
ReserveIdentity ==
  /\ mode = "ready" /\ pc = "idle" /\ nonces < NonceCap
  /\ nonces' = nonces + 1
  /\ identity' = nonces + 1
  /\ UNCHANGED <<slot, mono, handleVars, pc, op, known, sealed, damaged>>

\* Mutant: the reservation survives the commit that used it.
CommitReserved_Kept(v) ==
  /\ identity # 0 /\ identity = nonces
  /\ StartCommit(v, "Anchored", identity)
  /\ UNCHANGED <<nonces, identity>>

\* commit_owned_with_reserved: the reserved nonce is moved into the call and
\* is used only if no later reservation happened.
CommitReserved(v) ==
  /\ identity # 0 /\ identity = nonces
  /\ identity' = 0
  /\ StartCommit(v, "Anchored", identity)
  /\ UNCHANGED nonces

RejectReserved ==
  /\ mode = "ready" /\ pc = "idle"
  /\ identity # 0 /\ identity # nonces
  /\ identity' = 0
  /\ UNCHANGED <<flashVars, handleVars, pc, op, known, sealed, damaged>>

\* Mutant: the reclaim intent is forgotten.
WriteIntent_Forgotten ==
  /\ pc = "intent"
  /\ pc' = "erase"
  /\ UNCHANGED <<slot, mono, nonces, handleVars, identity, op, known, sealed, damaged>>

\* The active record says that another slot is about to be replaced.
WriteIntent ==
  /\ pc = "intent"
  /\ slot' = [slot EXCEPT ![active].started = TRUE]
  /\ pc' = "erase"
  /\ UNCHANGED <<mono, nonces, handleVars, identity, op, known, sealed, damaged>>

EraseTarget ==
  /\ pc = "erase"
  /\ slot' = [slot EXCEPT ![op.slot] = Blank]
  /\ pc' = "program"
  /\ UNCHANGED <<mono, nonces, handleVars, identity, op, known, sealed, damaged>>

\* Mutant: the commit marker is part of the record's own programming.
SnapshotImage_Marked(o) ==
  [rec |-> "whole", gen |-> o.gen, attempt |-> o.attempt, val |-> o.val,
   committed |-> TRUE, started |-> FALSE, complete |-> FALSE,
   frames |-> <<>>, tail |-> "clean"]

\* The image an uncommitted snapshot leaves in an erased slot.
SnapshotImage(o) ==
  [rec |-> "whole", gen |-> o.gen, attempt |-> o.attempt, val |-> o.val,
   committed |-> FALSE, started |-> FALSE, complete |-> FALSE,
   frames |-> <<>>, tail |-> "clean"]

ProgramRecord ==
  /\ pc = "program"
  /\ slot' = [slot EXCEPT ![op.slot] = SnapshotImage(op)]
  /\ sealed' = sealed \cup {SealOf(op)}
  /\ pc' = "marker"
  /\ UNCHANGED <<mono, nonces, handleVars, identity, op, known, damaged>>

Acknowledge ==
  /\ mode' = "ready" /\ pc' = "idle" /\ op' = NoOp
  /\ known' = [gen |-> op.gen, val |-> op.val]

\* Mutant: the handle keeps the previous epoch's nonce.
FinishSlots_OldAttempt ==
  /\ gen' = op.gen /\ active' = op.slot /\ offset' = 1
  /\ UNCHANGED baseAttempt
  /\ IF op.dur = "Anchored"
     THEN pc' = "anchor" /\ UNCHANGED <<mode, op, known>>
     ELSE Acknowledge

\* The handle moves to the new snapshot before its anchor is written, and
\* stays poisoned until then.
FinishSlots ==
  /\ gen' = op.gen /\ active' = op.slot /\ baseAttempt' = op.attempt /\ offset' = 1
  /\ IF op.dur = "Anchored"
     THEN pc' = "anchor" /\ UNCHANGED <<mode, op, known>>
     ELSE Acknowledge

WriteCommitMarker ==
  /\ pc = "marker"
  /\ slot' = [slot EXCEPT ![op.slot].committed = TRUE]
  /\ IF active # NoSlot
     THEN pc' = "complete" /\ UNCHANGED <<handleVars, op, known>>
     ELSE FinishSlots
  /\ UNCHANGED <<mono, nonces, identity, sealed, damaged>>

\* The previous record learns that the replacement is over.
WriteReclaimComplete ==
  /\ pc = "complete"
  /\ slot' = [slot EXCEPT ![active].complete = TRUE]
  /\ FinishSlots
  /\ UNCHANGED <<mono, nonces, identity, sealed, damaged>>

AdvanceAnchor ==
  /\ pc = "anchor"
  /\ mono' = op.gen.a
  /\ Acknowledge
  /\ UNCHANGED <<slot, nonces, gen, active, baseAttempt, offset, identity,
                 sealed, damaged>>

-----------------------------------------------------------------------------
(* Append: append_encoded_with, append::prepare_append and append::publish *)

BeginAppend(v, d) ==
  /\ AppendEnabled
  /\ mode = "ready" /\ pc = "idle"
  /\ offset \in 1 .. FrameCap /\ active # NoSlot
  /\ CanAdvance(gen, d)
  /\ slot[active].tail = "clean" /\ Len(slot[active].frames) < offset
  /\ op' = [slot |-> active, gen |-> NextGeneration(gen, d),
            attempt |-> baseAttempt, val |-> v, dur |-> d, at |-> offset]
  /\ mode' = "poisoned" /\ pc' = "frame"
  /\ UNCHANGED <<flashVars, gen, active, baseAttempt, offset, identity, known,
                 sealed, damaged>>

ProgramFrame ==
  /\ pc = "frame"
  /\ slot' = [slot EXCEPT ![op.slot].tail = "torn"]
  /\ sealed' = sealed \cup {SealOf(op)}
  /\ pc' = "frameMarker"
  /\ UNCHANGED <<mono, nonces, handleVars, identity, op, known, damaged>>

FrameOf(o) == [gen |-> o.gen, attempt |-> o.attempt, val |-> o.val]

\* A programmed frame whose marker word is written: replay now reads it.
PublishFrame(x, o) ==
  [x EXCEPT !.tail = "clean", !.frames = Append(@, FrameOf(o))]

\* Mutant: the append offset is not advanced.
AdoptFrame_SameOffset == gen' = op.gen /\ offset' = op.at

AdoptFrame == gen' = op.gen /\ offset' = op.at + 1

WriteFrameMarker ==
  /\ pc = "frameMarker"
  /\ slot' = [slot EXCEPT ![op.slot] = PublishFrame(@, op)]
  /\ IF op.dur = "Anchored"
     THEN pc' = "frameAnchor" /\ UNCHANGED <<mode, gen, offset, op, known>>
     ELSE AdoptFrame /\ Acknowledge
  /\ UNCHANGED <<mono, nonces, active, baseAttempt, identity, sealed, damaged>>

AdvanceFrameAnchor ==
  /\ pc = "frameAnchor"
  /\ mono' = op.gen.a
  /\ AdoptFrame
  /\ Acknowledge
  /\ UNCHANGED <<slot, nonces, active, baseAttempt, identity, sealed, damaged>>

-----------------------------------------------------------------------------
(* Power cuts and flash errors *)

\* An erase that stops part way.  The header goes first and the commit marker
\* is the last word of the slot; nothing else of a torn image is ever read.
PartialErase(x) ==
  IF x = Blank THEN {Blank}
  ELSE {x, Blank, [Blank EXCEPT !.rec = "torn"], [x EXCEPT !.rec = "torn"]}

\* What the interrupted mutation may have left in its slot.  Words are
\* programmed indivisibly, so a marker is either there or not.
Leftover(x, step) ==
  CASE step = "erase" -> PartialErase(x)
    [] step = "program" -> {x, [x EXCEPT !.rec = "torn"], SnapshotImage(op)}
    [] step = "marker" -> {x, [x EXCEPT !.committed = TRUE]}
    [] step = "intent" -> {x, [x EXCEPT !.started = TRUE]}
    [] step = "complete" -> {x, [x EXCEPT !.complete = TRUE]}
    [] step = "frame" -> {x, [x EXCEPT !.tail = "torn"]}
    [] step = "frameMarker" -> {x, PublishFrame(x, op)}
    [] OTHER -> {x}

\* The slot the interrupted mutation was writing.
Touched(step) == IF step \in {"intent", "complete"} THEN active ELSE op.slot

\* A flash error leaves a poisoned handle, a power cut leaves none.
Poisoned == mode' = "poisoned" /\ UNCHANGED <<gen, active, baseAttempt, offset, identity>>
Closed ==
  /\ mode' = "closed" /\ gen' = ZeroGen /\ active' = NoSlot
  /\ baseAttempt' = 0 /\ offset' = 0 /\ identity' = 0

\* The mutation about to run stops part way.
Interrupt ==
  /\ pc # "idle"
  /\ \E x \in Leftover(slot[Touched(pc)], pc) :
       /\ slot' = [slot EXCEPT ![Touched(pc)] = x]
       /\ sealed' = IF pc \in {"program", "frame"} /\ x # slot[Touched(pc)]
                    THEN sealed \cup {SealOf(op)} ELSE sealed
  /\ mono' \in {mono} \cup (IF pc \in {"anchor", "frameAnchor"} THEN {op.gen.a} ELSE {})
  /\ Poisoned \/ Closed
  /\ pc' = "idle" /\ op' = NoOp
  /\ UNCHANGED <<nonces, known, damaged>>

\* Power is lost between operations.
PowerOff ==
  /\ pc = "idle" /\ mode # "closed"
  /\ Closed
  /\ UNCHANGED <<flashVars, pc, op, known, sealed, damaged>>

\* Environment: one committed record decays while the card is off.
Damage(s) ==
  /\ DamageAllowed /\ ~damaged /\ mode = "closed"
  /\ slot[s].committed /\ slot[s].rec = "whole"
  /\ slot' = [slot EXCEPT ![s].rec = "torn"]
  /\ damaged' = TRUE
  /\ UNCHANGED <<mono, nonces, handleVars, identity, pc, op, known, sealed>>

-----------------------------------------------------------------------------
Next ==
  \/ Recover \/ RecoverUnreconciled \/ RecoverFails
  \/ \E v \in Values, d \in Durability : BeginCommit(v, d)
  \/ SealFails \/ ReserveIdentity \/ RejectReserved
  \/ \E v \in Values : CommitReserved(v)
  \/ WriteIntent \/ EraseTarget \/ ProgramRecord \/ WriteCommitMarker
  \/ WriteReclaimComplete \/ AdvanceAnchor
  \/ \E v \in Values, d \in Durability : BeginAppend(v, d)
  \/ ProgramFrame \/ WriteFrameMarker \/ AdvanceFrameAnchor
  \/ Interrupt \/ PowerOff
  \/ \E s \in Slots : Damage(s)

Spec == Init /\ [][Next]_vars

-----------------------------------------------------------------------------
(* Properties *)

\* Type invariant of the flash image, the handle and the history.
TypeOK ==
  /\ slot \in [Slots -> Images]
  /\ mono \in 0 .. MonoCap /\ nonces \in 0 .. NonceCap
  /\ mode \in {"closed", "poisoned", "ready"}
  /\ gen \in Generations /\ active \in Slots \cup {NoSlot}
  /\ baseAttempt \in 0 .. NonceCap /\ offset \in 0 .. FrameCap + 1
  /\ identity \in 0 .. NonceCap
  /\ pc \in Steps /\ op \in Ops
  /\ known \in [gen : Generations, val : Values \cup {NoValue}]
  /\ sealed \subseteq Seals /\ damaged \in BOOLEAN

\* journal.rs promises that "the old slot survives": once anything has been
\* acknowledged, a power cut at ANY instant (in the middle of an erase, between
\* two markers, before the anchor) leaves flash that recovery accepts, holding
\* a state at least as new as what the caller knows to be durable.
AlwaysRecoverable ==
  ~damaged /\ known.gen # ZeroGen =>
    Recoverable /\ ~GenLess(ScanGen, known.gen)

\* What a caller has been told is durable is never replaced by something
\* older, across commits, appends, errors, cuts and recoveries; and no record
\* decay, wherever it hits, loses an acknowledged security anchor (the PIN
\* retry floor).
NeverRollsBack ==
  [][ /\ known'.gen.a >= known.gen.a
      /\ ~damaged' => /\ ~GenLess(known'.gen, known.gen)
                      /\ known'.gen = known.gen => known'.val = known.val ]_vars

\* No AES-CCM nonce ever protects two different records: snapshot nonces come
\* from one-way reservations, append nonces from (attempt, offset), and an
\* offset holding any programmed word is never written again.
NoncesNeverRepeat ==
  \A x, y \in sealed : x.attempt = y.attempt /\ x.at = y.at => x = y

\* A usable handle agrees with what a reboot would read back: generation,
\* active slot, epoch nonce and next append offset.  Commits extend the handle,
\* so a stale one would fork the chain.
HandleMirrorsFlash ==
  mode = "ready" /\ ~damaged =>
    /\ ScanOK /\ gen = ScanGen /\ mono = gen.a
    /\ active = IF AnySelected THEN TheSelected ELSE NoSlot
    /\ active # NoSlot =>
         /\ baseAttempt = slot[active].attempt
         /\ AppendEnabled =>
              ScanOffset(slot[active]) = IF offset <= FrameCap THEN offset ELSE 0

\* The flash as one durable cell: what a power cut right now would leave, and
\* the record that is being written until its marker word is programmed.
Stored == [version |-> ScanGen.q, value |-> ScanVal]
InFlight ==
  IF pc \in {"intent", "erase", "program", "marker", "frame", "frameMarker"}
  THEN op.val ELSE NoValue
Cell == INSTANCE DurableCell WITH stored <- Stored, pending <- InFlight

\* The journal implements the durable cell: the stored value changes only when
\* a marker word is programmed, and then to exactly the announced value.
ImplementsDurableCell == Cell!CellSpec

=============================================================================
