-------------------------- MODULE JournalInvariant --------------------------
(***************************************************************************)
(* The inductive invariant of Journal.  NewestIs(c) is the heart: while no *)
(* record has decayed there is one slot c whose record is strictly newer   *)
(* than every other readable record, at least as new as anything that was  *)
(* acknowledged, and a damaged slot exists only where c announced that it  *)
(* was going to replace it.                                                *)
(***************************************************************************)
EXTENDS Journal

FrameSteps == {"frame", "frameMarker", "frameAnchor"}
SnapshotSteps == {"intent", "erase", "program", "marker"}

\* What the record in flight looks like at each step.
OpInv ==
  /\ pc # "idle" => op.val \in Values
  /\ pc # "idle" /\ AppendEnabled => op.gen.a # 0
  /\ pc \in FrameSteps => op.at \in 1 .. FrameCap
  /\ pc \in {"intent", "complete"} => active \in Slots

\* The anchor and the caller's knowledge, true even of decaying flash.
AnchorInv ==
  /\ known.gen.a <= mono
  /\ pc # "idle" => mode = "poisoned"
  /\ mode = "ready" => gen = known.gen /\ mono = gen.a
  /\ pc # "idle" => mono = known.gen.a /\ op.gen = NextGeneration(known.gen, op.dur)
  /\ pc \in {"anchor", "frameAnchor"} => op.dur = "Anchored"
  /\ pc \in SnapshotSteps => gen = known.gen
  /\ pc = "anchor" => gen = op.gen

\* No nonce in flash or in flight is beyond the reservation counter.
AttemptInv ==
  /\ \A s \in Slots : slot[s].attempt <= nonces
  /\ baseAttempt <= nonces /\ identity <= nonces
  /\ (mode = "ready" /\ active # NoSlot) \/ pc \in FrameSteps \cup {"anchor"} => baseAttempt # 0
  /\ pc # "idle" => op.attempt \in 1 .. nonces

\* The slot being rewritten, step by step.
TargetInv ==
  /\ pc = "program" => slot[op.slot] = Blank
  /\ pc = "marker" => slot[op.slot] = SnapshotImage(op)

\* Nothing was ever committed.
NothingStored ==
  /\ \A s \in Slots : ~slot[s].committed
  /\ mono = 0 /\ known = [gen |-> ZeroGen, val |-> NoValue]
  /\ mode = "ready" => active = NoSlot
  /\ pc \in {"idle", "erase", "program", "marker"}
  /\ pc # "idle" => active = NoSlot

\* c is what a reboot would load.
NewestIs(c) ==
  /\ Valid(c)
  /\ \A t \in Slots : t # c /\ Valid(t) => GenLess(LastGen(slot[t]), LastGen(slot[c]))
  /\ ~slot[c].complete
  /\ \A t \in Slots : Corrupt(t) => t = SlotAfter(c) /\ slot[c].started

\* c is not older than what the caller knows.
CoversKnown(c) ==
  /\ LastGen(slot[c]).a \in {mono, mono + 1}
  /\ ~GenLess(LastGen(slot[c]), known.gen)
  /\ LastGen(slot[c]) = known.gen => LastVal(slot[c]) = known.val

\* How the handle and the operation in flight relate to c.
HandleInv(c) ==
  /\ mode = "ready" \/ pc \in SnapshotSteps \cup {"frame", "frameMarker"} =>
       active = c /\ LastGen(slot[c]) = known.gen
  /\ pc \in SnapshotSteps => op.slot = SlotAfter(c)
  /\ pc \in {"erase", "program", "marker"} => slot[c].started
  /\ mode = "ready" \/ pc \in {"frame", "frameMarker", "anchor", "frameAnchor"} =>
       active = c /\ baseAttempt = slot[c].attempt
  /\ pc \in {"frame", "frameMarker"} => op.slot = c /\ op.attempt = slot[c].attempt
  /\ pc \in {"complete", "anchor", "frameAnchor"} =>
       op.slot = c /\ LastGen(slot[c]) = op.gen /\ LastVal(slot[c]) = op.val
  /\ pc = "complete" => active # c /\ slot[active].started /\ op.attempt = slot[c].attempt
  /\ pc \in {"complete", "anchor"} => \A t \in Slots : ~Corrupt(t)

Safe(c) == NewestIs(c) /\ CoversKnown(c) /\ HandleInv(c)

StoredInv == ~damaged => NothingStored \/ \E c \in Slots : Safe(c)

\* The invariant of the journal that the proofs use: together these parts are
\* preserved by every step of journal.rs and append.rs.  With TypeOK, it says
\* that no generation, nonce or append offset leaves its range.
JournalInv == TypeOK /\ OpInv /\ AnchorInv /\ AttemptInv /\ TargetInv /\ StoredInv
=============================================================================
