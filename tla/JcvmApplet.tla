----------------------------- MODULE JcvmApplet -----------------------------
(***************************************************************************)
(* One installed JCVM applet while it runs: its object slab with bump      *)
(* allocation, the before-image log of a transaction, the tracker of dirty *)
(* ranges from which a checkpoint builds its flash patch, the object       *)
(* deletion that compacts the slab between callbacks, the OwnerPIN whose   *)
(* tries are spent durably in the middle of a transaction, and the session *)
(* that rebuilds the applet from flash after any error, and parks it with  *)
(* its reset-scoped arrays when another applet is selected.                *)
(*                                                                         *)
(* The slab is a sequence of cells: a header <<kind, length>> or a payload *)
(* word <<value>>.  Cell 1 is the deletion-request mark.  A reference is   *)
(* the position of a header; 0 is null.  The journal below a checkpoint is *)
(* one durable cell (module Journal).                                      *)
(***************************************************************************)
EXTENDS Integers, Sequences, FiniteSets, TLC

CONSTANTS
  Capacity,   \* cells of the slab
  UndoCap,    \* before-images a transaction may hold
  MaxSpans,   \* HEAP_SPANS: dirty intervals before a snapshot is required
  TryLimit,   \* tries the PIN is built with, and the most it may be given
  LowWater,   \* collect_when_low runs below this many free cells
  Budget,     \* operations of one command: the instruction budget
  Codes       \* the applets: sets of operations with the class of their PIN, and
              \* "override" when deselect() is their own

Transients == {"reset", "deselect"}
Pins == {"OwnerPIN", "OwnerPINx", "OwnerPINxWithPredecrement"}

ASSUME AppletConstants ==
  /\ Capacity \in Nat /\ UndoCap \in Nat /\ MaxSpans \in Nat \ {0}
  /\ TryLimit \in 1 .. 127 /\ LowWater \in Nat /\ Budget \in Nat
  /\ \A c \in Codes : c \cap Pins # {}

VARIABLES
  mem,       \* the slab up to Heap::next
  statics,   \* the package's static field
  inst,      \* reference of the applet object
  tx,        \* the open transaction, or NoTx
  dirty,     \* PendingWrites
  aborted,   \* a transaction that allocated was aborted
  flash,     \* newest authenticated record
  retained,  \* RAM copy of the reset-scoped arrays of the parked applet
  selected,
  cb, at,    \* the callback that runs, and where in it the engine is
  tries,     \* tries the running PIN check found
  fresh,     \* reference of the newest array the callback allocated
  budget,    \* operations left
  code       \* the operations the applet's code consists of

vars == <<mem, statics, inst, tx, dirty, aborted, flash, retained, selected,
          cb, at, tries, fresh, budget, code>>

NoTx == [start |-> 0, cells |-> <<>>, static |-> <<>>]
Clean == [heap |-> {}, static |-> FALSE, snap |-> FALSE]
NothingRetained == [used |-> 0, inst |-> 0, cells |-> <<>>]
Bit == {0, 1}

-----------------------------------------------------------------------------
\* Objects.  Layout of the applet object and of a PIN, after the header.
Ref == 1      \* a byte array, or null
Pin == 2      \* the OwnerPIN
Flag == 3     \* a CLEAR_ON_RESET array: predecrement permit or scratch
RefFields == 1 .. 3
Counter == 1
Ready == 2
Secret == 3
Limit == 4
Buffer == 2   \* the APDU buffer, the whole runtime prefix here

Starts(m) == {i \in DOMAIN m : Len(m[i]) = 2}
\* Info::read finds the object a cell belongs to by walking the slab.
ObjectAt(m, i) ==
  CHOOSE s \in 1 .. i : Len(m[s]) = 2 /\ \A o \in s + 1 .. i : Len(m[o]) # 2
Kind(m, i) == m[ObjectAt(m, i)][1]
Word(m, i) == m[i][1]
Payload(m, s) == s + 1 .. s + m[s][2]

\* Cells a transient array owns: no undo, no dirty range, never durable.
InTransient(m, i) == i > 1 /\ Kind(m, i) \in Transients

\* native_volatile_range and the clear events: what sanitizing zeroes.
Volatile(m, i) ==
  /\ i > 1 /\ Len(m[i]) # 2
  /\ \/ InTransient(m, i)
     \/ Kind(m, i) \in Pins /\ i = ObjectAt(m, i) + Ready

PinObject == Word(mem, inst + Pin)
FlagCell == Word(mem, inst + Flag) + 1
IsOwnerPin == Kind(mem, PinObject) = "OwnerPIN"
IsPredecrement == Kind(mem, PinObject) = "OwnerPINxWithPredecrement"
Sanitized(m) == [i \in DOMAIN m |-> IF Volatile(m, i) THEN <<0>> ELSE m[i]]

\* PersistentView: the committed bytes, with the open transaction undone.
Undone(m, t) ==
  IF t = NoTx THEN m
  ELSE [i \in 1 .. t.start |-> IF i \in DOMAIN t.cells THEN t.cells[i] ELSE m[i]]
StaticsUndone(s, t) == IF t # NoTx /\ t.static # <<>> THEN t.static[1] ELSE s

\* validate_saved: references name objects and the PIN's words are in range ...
SoundSaved(m, i) ==
  /\ i \in Starts(m)
  /\ \A f \in RefFields : Word(m, i + f) \in Starts(m) \cup {0}
  /\ LET p == Word(m, i + Pin) IN
       /\ p # 0 /\ Word(m, p + Ready) = 0
       /\ Word(m, p + Limit) \in 1 .. 127 /\ Word(m, p + Counter) \in 0 .. Word(m, p + Limit)
\* ... and transient contents are zero.
Leftovers(m) == {c \in DOMAIN m : InTransient(m, c) /\ Len(m[c]) # 2 /\ Word(m, c) # 0}
ValidSaved(m, i) == SoundSaved(m, i) /\ Leftovers(m) = {}

-----------------------------------------------------------------------------
\* PendingWrites: a bounded set of intervals.
Runs(s) == Cardinality({i \in s : i - 1 \notin s})

\* Mutant: an interval that does not fit is forgotten.
Mark_Dropped(d, s) ==
  LET h == d.heap \cup s IN IF Runs(h) <= MaxSpans THEN [d EXCEPT !.heap = h] ELSE d

Mark(d, s) ==
  LET h == d.heap \cup s
  IN IF Runs(h) <= MaxSpans THEN [d EXCEPT !.heap = h] ELSE [d EXCEPT !.snap = TRUE]

IsPending(d) == d.snap \/ d.heap # {} \/ d.static

\* patch::replay_snapshot: the old record, cut or zero-extended to the new
\* length, with the tracked intervals replaced.
Patched(old, d, new) ==
  [i \in DOMAIN new |->
     IF i \in d.heap THEN new[i] ELSE IF i \in DOMAIN old THEN old[i] ELSE <<0>>]

\* Store::commit_view: a patch when the tracker allows one and the epoch has
\* room for it, else a snapshot.
Records(d, m, s, i) ==
  {[mem |-> Sanitized(m), statics |-> s, inst |-> i]} \cup
  IF d.snap THEN {}
  ELSE {[mem |-> Patched(flash.mem, d, Sanitized(m)),
         statics |-> IF d.static THEN s ELSE flash.statics, inst |-> i]}

\* The records of a checkpoint now: commit projects through the undo log.
Projected == Records(dirty, Undone(mem, tx), StaticsUndone(statics, tx), inst)

-----------------------------------------------------------------------------
Init ==
  /\ code \in Codes
  /\ \E p \in code \cap Pins :
       mem = << <<0>>, <<"reset", 1>>, <<0>>, <<"bytes", 1>>, <<0>>,
                <<"object", 3>>, <<4>>, <<10>>, <<15>>,
                <<p, 4>>, <<TryLimit>>, <<0>>, <<0>>, <<TryLimit>>, <<"reset", 1>>, <<0>> >>
  /\ statics = 0 /\ inst = 6
  /\ flash = [mem |-> mem, statics |-> 0, inst |-> 6]
  /\ tx = NoTx /\ dirty = Clean /\ aborted = FALSE
  /\ retained = NothingRetained /\ selected = FALSE
  /\ cb = "none" /\ at = "closed" /\ tries = 0 /\ fresh = 0 /\ budget = 0

\* The live applet is dropped and rebuilt from the newest record.
FromFlash ==
  /\ mem' = flash.mem /\ statics' = flash.statics /\ inst' = flash.inst /\ UNCHANGED <<flash, code>>
  /\ tx' = NoTx /\ dirty' = Clean /\ aborted' = FALSE /\ selected' = FALSE
  /\ cb' = "none" /\ tries' = 0 /\ fresh' = 0 /\ budget' = 0

\* Session::recover: an unreadable record leaves recovery_required set.
Recover ==
  /\ at = "failed"
  /\ UNCHANGED retained
  /\ IF ValidSaved(flash.mem, flash.inst) THEN FromFlash /\ at' = "idle"
     ELSE /\ at' = "dead"
          /\ UNCHANGED <<code, mem, statics, inst, tx, dirty, aborted, flash, selected, cb, tries,
                         fresh, budget>>

\* Power loss or card reset: RAM goes, and the retained arrays with it.
PowerLoss ==
  /\ FromFlash
  /\ at' = "closed" /\ retained' = NothingRetained

\* Cancellation, an exhausted budget or any engine error inside a callback.
Fault ==
  /\ at \notin {"idle", "closed", "failed", "dead"}
  /\ at' = "failed"
  /\ UNCHANGED <<code, mem, statics, inst, tx, dirty, aborted, flash, retained, selected,
                 cb, tries, fresh, budget>>

-----------------------------------------------------------------------------
\* Object deletion.
Reachable(m, i) == ({Buffer, i} \cup {Word(m, i + f) : f \in RefFields}) \ {0}
Kept(m, i) ==
  SelectSeq([c \in 1 .. Len(m) |-> c],
            LAMBDA c : c = 1 \/ ObjectAt(m, c) \in Reachable(m, i))
Moved(keep, c) == IF c = 0 THEN 0 ELSE CHOOSE k \in DOMAIN keep : keep[k] = c
IsRefSlot(m, i, c) == \E f \in RefFields : c = i + f

Compacted(m, i) ==
  LET keep == Kept(m, i) IN
    [k \in DOMAIN keep |->
       IF IsRefSlot(m, i, keep[k]) THEN <<Moved(keep, Word(m, keep[k]))>> ELSE m[keep[k]]]

\* Mutant: a slot rewritten in an object that stays put is not tracked.
CollectDirty_MovedOnly(m, i, d) ==
  LET keep == Kept(m, i) IN Mark(d, {k \in DOMAIN keep : keep[k] # k})

\* Moved objects and rewritten slots are dirty; a dead suffix is not.
CollectDirty(m, i, d) ==
  LET keep == Kept(m, i)
      new == Compacted(m, i)
      marked == Mark(d, {k \in DOMAIN keep : keep[k] # k \/ new[k] # m[k]})
  IN IF Moved(keep, i) = i THEN marked ELSE [marked EXCEPT !.snap = TRUE]

Collect ==
  /\ mem' = Compacted(mem, inst)
  /\ inst' = Moved(Kept(mem, inst), inst)
  /\ dirty' = CollectDirty(mem, inst, dirty)

\* service_object_deletion: collect, then clear the mark.
ServiceDeletion ==
  IF Word(mem, 1) = 0 THEN UNCHANGED <<mem, inst, dirty>>
  ELSE /\ mem' = [Compacted(mem, inst) EXCEPT ![1] = <<0>>]
       /\ inst' = Moved(Kept(mem, inst), inst)
       /\ dirty' = Mark(CollectDirty(mem, inst, dirty), {1})

-----------------------------------------------------------------------------
\* Callbacks.
Run(c) == cb' = c /\ at' = "run" /\ fresh' = 0 /\ tries' = 0
Enter(c) == Run(c) /\ budget' = Budget

\* collect_when_low before a command; the growth test may also skip it.
MayCollect ==
  \/ UNCHANGED <<mem, inst, dirty>>
  \/ Capacity - Len(mem) < LowWater /\ Collect

\* process_with_cancel: an aborted session refuses every command.
Command ==
  /\ at = "idle" /\ selected
  /\ IF aborted
     THEN at' = "failed" /\ UNCHANGED <<mem, inst, dirty, cb, tries, fresh, budget>>
     ELSE MayCollect /\ Enter("process")
  /\ UNCHANGED <<code, statics, tx, aborted, flash, retained, selected>>

\* SELECT of the live applet: a selected one is deselected first.
Select ==
  /\ at = "idle" /\ ~aborted
  /\ selected' = FALSE
  /\ \/ selected /\ Enter("reselect") /\ UNCHANGED <<mem, inst, dirty>>
     \/ ~selected /\ MayCollect /\ Enter("select")
  /\ UNCHANGED <<code, statics, tx, aborted, flash, retained>>

\* Restored contents, when the record has the layout that was retained.
Matches(r) == r.used = Len(flash.mem) /\ r.inst = flash.inst
Restored(r) ==
  [c \in DOMAIN flash.mem |-> IF c \in DOMAIN r.cells THEN r.cells[c] ELSE flash.mem[c]]

\* SELECT of a parked applet: open the session, restore the retained arrays.
Open ==
  /\ at = "closed" /\ ValidSaved(flash.mem, flash.inst)
  /\ retained = NothingRetained \/ Matches(retained)
  /\ mem' = IF retained = NothingRetained THEN flash.mem ELSE Restored(retained)
  /\ retained' = NothingRetained
  /\ Enter("select")
  /\ UNCHANGED <<code, statics, inst, tx, dirty, aborted, flash, selected>>

\* Another applet is selected: deselect this one, then park it.
Leave ==
  /\ at = "idle"
  /\ IF selected /\ ~aborted THEN Enter("deselect") /\ selected' = FALSE
     ELSE IF aborted THEN at' = "failed" /\ UNCHANGED <<selected, cb, tries, fresh, budget>>
     ELSE at' = "park" /\ UNCHANGED <<selected, cb, tries, fresh, budget>>
  /\ UNCHANGED <<code, mem, statics, inst, tx, dirty, aborted, flash, retained>>

ResetArrays(m) == {c \in DOMAIN m : Volatile(m, c) /\ Kind(m, c) = "reset" /\ c # Buffer + 1}

\* retain_volatile, then the session is dropped.
Park ==
  /\ at = "park"
  /\ retained' = [used |-> Len(mem), inst |-> inst, cells |-> [c \in ResetArrays(mem) |-> mem[c]]]
  /\ FromFlash
  /\ at' = "closed"

-----------------------------------------------------------------------------
\* Writes.  Put is conditional, PutNow is not; w maps cells to new words.
Changed(w) == {c \in DOMAIN w : mem[c] # <<w[c]>>}
Written(w) == [c \in DOMAIN mem |-> IF c \in DOMAIN w THEN <<w[c]>> ELSE mem[c]]
Tracked(w) == {c \in Changed(w) : ~InTransient(mem, c)}

NewImages(s) == {c \in s : c <= tx.start} \ DOMAIN tx.cells
Images == Cardinality(DOMAIN tx.cells) + Len(tx.static)
Fits(s) == tx = NoTx \/ Images + Cardinality(NewImages(s)) <= UndoCap

\* Undo::record: the first before-image of a cell wins.
Recorded(s) ==
  IF tx = NoTx THEN tx
  ELSE [tx EXCEPT !.cells = [c \in DOMAIN tx.cells \cup NewImages(s) |->
          IF c \in DOMAIN tx.cells THEN tx.cells[c] ELSE mem[c]]]

Put(w) ==
  /\ mem' = Written(w)
  /\ tx' = Recorded(Tracked(w))
  /\ dirty' = IF tx = NoTx THEN Mark(dirty, Tracked(w)) ELSE dirty

\* Undo::preserve: an unconditional change also becomes the before-image.
Preserved(w) ==
  IF tx = NoTx THEN tx
  ELSE [tx EXCEPT !.cells = [c \in DOMAIN @ |-> IF c \in Changed(w) THEN <<w[c]>> ELSE @[c]]]

PutNow(w) ==
  /\ mem' = Written(w)
  /\ tx' = Preserved(w)
  /\ dirty' = Mark(dirty, Tracked(w))

\* The inherited deselect() does nothing.
Deselecting == cb \in {"deselect", "reselect"}
InCode == at = "run" /\ (Deselecting => "override" \in code)
\* One operation of the applet's code.
Step(op) ==
  /\ InCode /\ op \in code
  /\ budget > 0 /\ budget' = budget - 1
Quiet == UNCHANGED <<statics, inst, aborted, flash, retained, selected, cb, code>>

\* A write that does not fit throws BUFFER_FULL and changes nothing.
PutOrThrow(w) == IF Fits(Tracked(w)) THEN Put(w) ELSE UNCHANGED <<mem, tx, dirty>>

PutStatic ==
  /\ Step("static")
  /\ IF tx # NoTx /\ tx.static = <<>> /\ Images >= UndoCap
     THEN UNCHANGED <<statics, tx, dirty>>
     ELSE /\ statics' = 1 - statics
          /\ tx' = IF tx # NoTx /\ tx.static = <<>> THEN [tx EXCEPT !.static = <<statics>>] ELSE tx
          /\ dirty' = IF tx = NoTx THEN [dirty EXCEPT !.static = TRUE] ELSE dirty
  /\ UNCHANGED <<code, mem, inst, aborted, flash, retained, selected, cb, at, tries, fresh>>

\* bastore or arrayFill into the array the applet holds, or its newest one.
ArrayOf(r) == r # 0 /\ r \in Starts(mem)
PutArray ==
  /\ Step("array")
  /\ \E r \in {Word(mem, inst + Ref), fresh}, v \in Bit :
       /\ ArrayOf(r) /\ mem[r + 1] # <<v>>
       /\ \/ PutOrThrow((r + 1) :> v)
          \/ PutNow((r + 1) :> v)            \* arrayFillNonAtomic
  /\ UNCHANGED <<at, tries, fresh>> /\ Quiet

StoreReference ==
  /\ Step("reference")
  /\ \E r \in {0, fresh} : PutOrThrow((inst + Ref) :> r)
  /\ UNCHANGED <<at, tries, fresh>> /\ Quiet

\* Outside a transaction a new array is dirty, a transient one by its header.
AllocDirty(k) ==
  IF tx # NoTx THEN dirty
  ELSE Mark(dirty, {Len(mem) + 1} \cup IF k \in Transients THEN {} ELSE {Len(mem) + 2})

NewArray ==
  /\ Len(mem) + 2 <= Capacity
  /\ \E k \in {"bytes"} \cup Transients :
       /\ Step(k)
       /\ mem' = mem \o << <<k, 1>>, <<0>> >>
       /\ dirty' = AllocDirty(k)
  /\ fresh' = Len(mem) + 1
  /\ UNCHANGED <<at, tries, tx>> /\ Quiet

PutTransient ==
  /\ Step("transient")
  /\ mem[inst + Pin][1] # 0 /\ ~IsPredecrement
  /\ mem' = [mem EXCEPT ![FlagCell] = <<1>>]
  /\ UNCHANGED <<at, tries, tx, dirty, fresh>> /\ Quiet

RequestDeletion ==
  /\ Step("delete") /\ Word(mem, 1) = 0
  /\ mem' = [mem EXCEPT ![1] = <<1>>]
  /\ dirty' = Mark(dirty, {1})
  /\ UNCHANGED <<at, tries, tx, fresh>> /\ Quiet

-----------------------------------------------------------------------------
\* Transactions.
BeginTransaction ==
  /\ Step("transaction") /\ tx = NoTx
  /\ tx' = [NoTx EXCEPT !.start = Len(mem)]
  /\ UNCHANGED <<at, tries, mem, dirty, fresh>> /\ Quiet

\* A failing checkpoint leaves the old or the new record and stops the engine.
CheckpointFails(news) ==
  /\ flash' \in {flash} \cup news
  /\ at' = "failed"
  /\ UNCHANGED <<code, mem, statics, inst, tx, dirty, aborted, retained, selected,
                 cb, tries, fresh, budget>>

Snapshot == [mem |-> Sanitized(mem), statics |-> statics, inst |-> inst]

CommitTransaction ==
  /\ Step("transaction") /\ tx # NoTx
  /\ flash' = Snapshot
  /\ tx' = NoTx /\ dirty' = Clean
  /\ UNCHANGED <<code, mem, statics, inst, aborted, retained, selected, cb, at, tries, fresh>>

CommitFails == at = "run" /\ cb # "none" /\ tx # NoTx /\ CheckpointFails({Snapshot})

\* Heap::abort_transaction: restore, then wipe what was allocated since.
Rollback ==
  /\ mem' = Undone(mem, tx)
  /\ statics' = StaticsUndone(statics, tx)
  /\ aborted' = (aborted \/ Len(mem) # tx.start)
  /\ tx' = NoTx

\* An abort that allocated ends the callback: select() failed, process()
\* answers 6F00, deselect() goes on to the clearing.  Any other lets it continue.
AbortTransaction ==
  /\ InCode /\ "transaction" \in code /\ budget > 0 /\ tx # NoTx
  /\ Rollback
  /\ at' = IF Len(mem) # tx.start /\ ~Deselecting THEN "finish" ELSE "run"
  /\ budget' = IF Len(mem) # tx.start /\ Deselecting THEN 0 ELSE budget - 1
  /\ fresh' = IF Len(mem) # tx.start THEN 0 ELSE fresh
  /\ UNCHANGED <<code, inst, dirty, flash, retained, selected, cb, tries>>

-----------------------------------------------------------------------------
\* OwnerPIN.
TriesLeft == Word(mem, PinObject + Counter)
TryMaximum == Word(mem, PinObject + Limit)
Validated == Word(mem, PinObject + Ready) # 0
OneLess == IF TriesLeft = 0 THEN 0 ELSE TriesLeft - 1

\* check(), first half: consume the permit or one try, drop validation; what
\* changed is made durable before the comparison.
PinPresent ==
  /\ Step("pin")
  /\ tries' = TriesLeft
  /\ IF IsPredecrement /\ Word(mem, FlagCell) = 0
     THEN at' = "run" /\ UNCHANGED <<mem, tx, dirty>>   \* PINException
     ELSE /\ at' = IF Validated \/ (~IsPredecrement /\ TriesLeft # 0) THEN "spend" ELSE "compare"
          /\ PutNow((PinObject + Ready) :> 0 @@
                   IF IsPredecrement THEN FlagCell :> 0 ELSE (PinObject + Counter) :> OneLess)
  /\ UNCHANGED fresh /\ Quiet

\* checkpoint_committed: nothing dirty, nothing written.
CheckpointDone(next) ==
  /\ flash' \in IF IsPending(dirty) THEN Projected ELSE {flash}
  /\ dirty' = Clean
  /\ at' = next
  /\ UNCHANGED <<code, mem, statics, inst, tx, aborted, retained, selected, cb, tries, fresh, budget>>

\* Mutant: the comparison runs before the spent try is durable.
PinSpent_Unchecked == at = "spend" /\ at' = "compare"
  /\ UNCHANGED <<code, mem, statics, inst, tx, dirty, aborted, flash, retained, selected,
                 cb, tries, fresh, budget>>

PinSpent == at = "spend" /\ CheckpointDone("compare")

\* check(), second half: a match restores the tries and validates.
PinCompare ==
  /\ at = "compare"
  /\ \E ok \in BOOLEAN :
       IF ok /\ tries > 0
       THEN /\ PutNow((PinObject + Counter) :> TryMaximum @@ (PinObject + Ready) :> 1)
            /\ at' = "grant"
       ELSE at' = "run" /\ UNCHANGED <<mem, tx, dirty>>
  /\ tries' = 0
  /\ UNCHANGED <<fresh, budget>> /\ Quiet

PinGranted == at = "grant" /\ CheckpointDone("run")

\* decrementTriesRemaining: spend a try now, permit one check later.
PinPredecrement ==
  /\ Step("pin") /\ IsPredecrement
  /\ PutNow((PinObject + Counter) :> OneLess @@ (PinObject + Ready) :> 0)
  /\ at' = IF TriesLeft # 0 \/ Validated THEN "permit" ELSE "permitted"
  /\ UNCHANGED <<tries, fresh>> /\ Quiet

PinCharged == at = "permit" /\ CheckpointDone("permitted")

PinPermit ==
  /\ at = "permitted"
  /\ mem' = [mem EXCEPT ![FlagCell] = <<1>>]
  /\ at' = "run"
  /\ UNCHANGED <<tx, dirty, tries, fresh, budget>> /\ Quiet

\* A conditional PIN write: every before-image is reserved before the first
\* write; OwnerPIN drops validation unconditionally, the others with it.
PinWrite(w, s) ==
  IF ~Fits(s) THEN UNCHANGED <<mem, tx, dirty>>
  ELSE /\ mem' = IF IsPredecrement THEN [Written(w) EXCEPT ![FlagCell] = <<0>>] ELSE Written(w)
       /\ tx' = Recorded(s)
       /\ dirty' = Mark(dirty, IF tx = NoTx THEN Tracked(w) ELSE Tracked(w) \ s)

\* update(): new secret, full tries, not validated.
PinUpdate ==
  /\ Step("update")
  /\ LET w == (PinObject + Secret) :> (1 - Word(mem, PinObject + Secret))
              @@ (PinObject + Counter) :> TryMaximum @@ (PinObject + Ready) :> 0
     IN PinWrite(w, IF IsOwnerPin THEN DOMAIN w \ {PinObject + Ready} ELSE DOMAIN w)
  /\ UNCHANGED <<at, tries, fresh>> /\ Quiet

\* setTriesRemaining of the extended classes.
PinSetTries ==
  /\ Step("update") /\ ~IsOwnerPin
  /\ \E n \in 0 .. TryMaximum :
       LET w == (PinObject + Counter) :> n @@ (PinObject + Ready) :> 0
       IN PinWrite(w, DOMAIN w)
  /\ UNCHANGED <<at, tries, fresh>> /\ Quiet

\* setTryLimit of the extended classes.
PinSetLimit ==
  /\ Step("update") /\ ~IsOwnerPin
  /\ \E n \in 1 .. TryLimit :
       LET w == (PinObject + Limit) :> n @@ (PinObject + Counter) :> n @@ (PinObject + Ready) :> 0
       IN PinWrite(w, DOMAIN w)
  /\ UNCHANGED <<at, tries, fresh>> /\ Quiet

\* setValidatedFlag of OwnerPIN: an ordinary write, which a transaction undoes.
PinSetValidated ==
  /\ Step("update") /\ IsOwnerPin
  /\ \E v \in Bit : PutOrThrow((PinObject + Ready) :> v)
  /\ UNCHANGED <<at, tries, fresh>> /\ Quiet

\* reset() of a validated PIN and resetAndUnblock(): full tries, not
\* validated, durable before it returns.
PinUnblock ==
  /\ Step("pin")
  /\ IsOwnerPin \/ Validated
  /\ LET w == (PinObject + Counter) :> TryMaximum @@ (PinObject + Ready) :> 0
     IN /\ PutNow(IF IsPredecrement THEN w @@ FlagCell :> 0 ELSE w)
        /\ at' = IF Changed(w) # {} THEN "grant" ELSE "run"
  /\ UNCHANGED <<tries, fresh>> /\ Quiet

PinCheckpointFails == at \in {"spend", "grant", "permit"} /\ CheckpointFails(Projected)

-----------------------------------------------------------------------------
\* End of a callback.

\* abort_unfinished_transaction
Unfinished == IF tx = NoTx THEN UNCHANGED <<mem, statics, tx, aborted>> ELSE Rollback

\* select() returned or threw: an accepted selection goes on to process().
SelectReturns ==
  /\ at = "run" /\ cb = "select"
  /\ Unfinished
  /\ \E accepted \in BOOLEAN :
       /\ selected' = (accepted /\ tx = NoTx)
       /\ at' = IF accepted /\ tx = NoTx THEN "selected" ELSE "finish"
  /\ fresh' = 0
  /\ budget' = IF at' = "selected" THEN budget ELSE 0
  /\ UNCHANGED <<code, inst, dirty, flash, retained, cb, tries>>

\* The deletion a select() requested is serviced before process() runs.
ProcessSelected ==
  /\ at = "selected"
  /\ ServiceDeletion
  /\ Run("process")
  /\ UNCHANGED <<code, budget, statics, tx, aborted, flash, retained, selected>>

\* process() returned or threw; both keep its writes.
ProcessReturns ==
  /\ at = "run" /\ cb = "process"
  /\ Unfinished
  /\ at' = "finish" /\ fresh' = 0 /\ budget' = 0
  /\ UNCHANGED <<code, inst, dirty, flash, retained, selected, cb, tries>>

\* deselect() returned or threw.  The deselect-scoped arrays are cleared; a
\* new selection goes on to collect_when_low and select(), which is refused,
\* and so ends in Fault, when the callback allocated and was rolled back.
Cleared(m) ==
  [c \in DOMAIN m |->
     IF c = Buffer + 1 \/ (Volatile(m, c) /\ Kind(m, c) = "deselect") THEN <<0>> ELSE m[c]]
DeselectReturns ==
  /\ at = "run" /\ Deselecting
  /\ LET m == Cleared(Undone(mem, tx)) IN
     \/ mem' = m /\ UNCHANGED <<inst, dirty>>
     \/ /\ cb = "reselect" /\ Capacity - Len(m) < LowWater
        /\ mem' = Compacted(m, inst) /\ inst' = Moved(Kept(m, inst), inst)
        /\ dirty' = CollectDirty(m, inst, dirty)
  /\ statics' = StaticsUndone(statics, tx)
  /\ aborted' = (aborted \/ (tx # NoTx /\ Len(mem) # tx.start))
  /\ tx' = NoTx
  /\ IF cb = "reselect" /\ ~aborted' THEN Enter("select")
     ELSE /\ at' = IF cb = "deselect" THEN "finish" ELSE "refused"
          /\ budget' = 0 /\ fresh' = 0 /\ UNCHANGED <<cb, tries>>
  /\ UNCHANGED <<code, flash, retained, selected>>

\* Every command ends with the deletion it requested, then a checkpoint.
Finish ==
  /\ at = "finish"
  /\ ServiceDeletion
  /\ at' = "save" /\ budget' = 0
  /\ UNCHANGED <<code, statics, tx, aborted, flash, retained, selected, cb, tries, fresh>>

Save ==
  /\ at = "save"
  /\ flash' \in IF IsPending(dirty) THEN Projected ELSE {flash}
  /\ dirty' = Clean
  /\ at' = IF cb = "deselect" THEN "park" ELSE "idle"
  /\ cb' = "none"
  /\ UNCHANGED <<code, mem, statics, inst, tx, aborted, retained, selected, tries, fresh, budget>>

SaveFails == at = "save" /\ CheckpointFails(Projected)

-----------------------------------------------------------------------------
Next ==
  \/ Recover \/ PowerLoss \/ Fault
  \/ Command \/ Select \/ Open \/ Leave \/ Park
  \/ PutStatic \/ PutArray \/ StoreReference \/ NewArray \/ PutTransient \/ RequestDeletion
  \/ BeginTransaction \/ CommitTransaction \/ CommitFails \/ AbortTransaction
  \/ PinPresent \/ PinSpent \/ PinCompare \/ PinGranted
  \/ PinPredecrement \/ PinCharged \/ PinPermit
  \/ PinUpdate \/ PinSetTries \/ PinSetLimit \/ PinSetValidated \/ PinUnblock \/ PinCheckpointFails
  \/ SelectReturns \/ ProcessSelected \/ ProcessReturns \/ DeselectReturns
  \/ Finish \/ Save \/ SaveFails

Spec == Init /\ [][Next]_vars

-----------------------------------------------------------------------------
\* The slab stays within its capacity and its walk ends at its last cell.
TypeOK ==
  /\ Len(mem) <= Capacity /\ Len(flash.mem) <= Capacity
  /\ statics \in Bit /\ inst \in Starts(mem)
  /\ dirty.heap \subseteq 1 .. Capacity
  /\ tx # NoTx => tx.start <= Len(mem) /\ Images <= UndoCap
  /\ tries \in 0 .. TryLimit /\ budget \in 0 .. Budget

\* The state is well typed and the record in flash stays one that recovery
\* accepts, however allocation, rollback and compaction interleaved before a
\* checkpoint: every reference is on an object, the PIN's words are in range,
\* and no checkpoint writes the contents of a transient array.  One defect
\* remains, for which recovery refuses the record: where a transient array is
\* allocated over bytes an earlier record saved, only its header is tracked
\* (heap.rs:340-341), and a patch leaves the old bytes under it.
RecordIsValid ==
  [][/\ TypeOK'
     /\ flash' # flash =>
          /\ SoundSaved(flash'.mem, flash'.inst)
          /\ \A c \in Leftovers(flash'.mem) :
               c \in DOMAIN flash.mem /\ flash'.mem[c] = flash.mem[c]]_vars

\* A PIN is compared only while the durable counter already shows the try as
\* spent, so a power cut during the comparison cannot give it back.
SpentBeforeCompared ==
  at = "compare" /\ tries > 0 =>
    LET p == Word(flash.mem, flash.inst + Pin)
    IN /\ Word(flash.mem, p + Counter) = TriesLeft
       /\ ~IsPredecrement => TriesLeft < tries

\* What the applet sees of a slab: a null or transient array shows as 0.
View(m, s, i) ==
  LET r == Word(m, i + Ref)
      p == Word(m, i + Pin)
  IN [array |-> IF r = 0 \/ InTransient(m, r) THEN 0 ELSE Word(m, r + 1) + 1,
      static |-> s, counter |-> Word(m, p + Counter), secret |-> Word(m, p + Secret)]

Promise ==
  INSTANCE AppletMemory WITH
    Fields <- {"array", "static", "counter", "secret"},
    Values <- 0 .. (TryLimit + 1),
    live <- View(mem, statics, inst),
    shadow <- View(Undone(mem, tx), StaticsUndone(statics, tx), inst),
    saved <- View(flash.mem, flash.statics, flash.inst),
    status <- IF at \in {"failed", "dead"} THEN "failed" ELSE IF tx # NoTx THEN "tx" ELSE "ok"

\* The engine keeps the promise of AppletMemory: every durable state is the
\* applet's own state with the open transaction undone, although it is built
\* from a patch of tracked ranges over the previous record, and compaction,
\* rollback and the PIN's unconditional writes meet in the same slab.
ImplementsAppletMemory == Promise!MemorySpec
=============================================================================
