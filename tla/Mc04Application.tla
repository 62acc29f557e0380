--------------------------- MODULE Mc04Application ---------------------------
(***************************************************************************)
(* The MC04 engine running managed applications.  Each security domain has *)
(* one application with a store record and a credential (a PIN and the PUK *)
(* that unblocks it).  A command runs on a staged copy of the domain; a    *)
(* transaction keeps that copy over several commands; a wrong credential   *)
(* is checkpointed on its own, past any transaction; selection, install    *)
(* and uninstall run callbacks of one or two domains and commit both at    *)
(* once.  The journal below is a durable cell whose commits may fail with  *)
(* the old or the new state in flash, leaving it poisoned (module          *)
(* Journal).                                                               *)
(***************************************************************************)
EXTENDS Integers, Sequences, FiniteSets

CONSTANTS
  Domains,     \* supplementary security domains
  None,        \* no domain
  MaxTries,    \* pin_max_retries
  MaxPuk,      \* puk_max_retries
  TxCommands,  \* MAX_TRANSACTION_COMMANDS
  Budget,      \* native calls of one command
  Code         \* natives the application of each domain calls

ASSUME Mc04Constants ==
  /\ None \notin Domains
  /\ MaxTries \in Nat \ {0} /\ MaxPuk \in Nat \ {0}
  /\ TxCommands \in Nat \ {0, 1} /\ Budget \in Nat
  /\ Code \in [Domains -> SUBSET {"store", "tx", "pin", "puk", "create", "output"}]

VARIABLES
  flash,     \* what the journal recovers
  ram,       \* Mc04Engine::state
  poisoned,  \* the journal refuses commits until it is recovered
  selected,  \* the selected application, by its domain
  tx,        \* PendingTransaction, or NoTx
  run,       \* the command in progress, or Idle
  wrong,     \* history: wrong PINs answered, out of doubt, since the right one
  doubt      \* history: a failed commit that no recovery resolved into RAM

vars == <<flash, ram, poisoned, selected, tx, run, wrong, doubt>>

-----------------------------------------------------------------------------
Applications == [store : {0, 1}, pin : -1 .. MaxTries, puk : 0 .. MaxPuk]
Empty == [store |-> 0, pin |-> -1, puk |-> 0]         \* pin -1: no such slot
Fresh == [store |-> 0, pin |-> MaxTries, puk |-> MaxPuk]
DomainStates == [inst : BOOLEAN, app : Applications]
Floors == [pin : 0 .. MaxTries, puk : 0 .. MaxPuk]
NoFloor == [pin |-> MaxTries, puk |-> MaxPuk]
NoTx == [d |-> None, app |-> Empty, left |-> 0]
Dispositions == {"Inactive", "Active", "Begun", "Commit", "Abort"}

Commands == [
  kind : {"process", "select", "isd", "install", "uninstall"},
  calls : UNION {[1 .. n -> Domains] : n \in 0 .. 2},   \* callbacks still to run
  order : UNION {[1 .. n -> Domains] : n \in 0 .. 2},   \* LifecycleRetries
  goal : Domains \cup {None},
  at : {"run", "checkpoint", "faulted", "floors", "end"},
  next : [Domains -> Applications],                    \* staged copies
  snap : Applications,                                 \* transaction_snapshot
  disp : Dispositions, active : BOOLEAN, left : 0 .. TxCommands,
  dirty : BOOLEAN, output : BOOLEAN, auth : BOOLEAN, ops : 0 .. Budget,
  floor : [Domains -> Floors], secret : {"pin", "puk"}]
Idle == [kind |-> "idle"]

Running == run # Idle
d == Head(run.calls)                                   \* domain that executes
Least(a, b) == IF a < b THEN a ELSE b

\* apply_retry_floor only takes tries away, and skips an absent slot.
Floored(app, f) == [app EXCEPT !.pin = Least(@, f.pin), !.puk = Least(@, f.puk)]
FloorIn(s, x, f) == [s EXCEPT ![x].app = Floored(@, f)]
AppsOf(s) == [x \in Domains |-> s[x].app]
WithApp(s, x, a) == [s EXCEPT ![x].app = a]
WithApps(s, a) == [x \in Domains |-> [s[x] EXCEPT !.app = a[x]]]

-----------------------------------------------------------------------------
\* The journal: a commit that fails before sealing changes nothing; later it
\* may or may not have reached flash and the handle is poisoned.
CommitOutcomes(bad, old, new) ==
  IF bad THEN {[ok |-> FALSE, flash |-> old, bad |-> TRUE]}
  ELSE {[ok |-> TRUE, flash |-> new, bad |-> FALSE],
        [ok |-> FALSE, flash |-> old, bad |-> FALSE]}
       \cup [ok : {FALSE}, flash : {old, new}, bad : {TRUE}]

\* recover_with un-poisons the handle, or fails and leaves it poisoned.
RecoverOutcomes == {[ok |-> TRUE, bad |-> FALSE], [ok |-> FALSE, bad |-> TRUE]}
\* recover_selected_with may also answer without the anchor reconciled.
SelectedOutcomes == [ok : BOOLEAN, bad : {TRUE}] \cup {[ok |-> TRUE, bad |-> FALSE]}

\* Mutant: the error is final, RAM keeps the state it tried to commit.
ApplicationOutcomes_NoRecovery(new) ==
  {[ok |-> c.ok, flash |-> c.flash, ram |-> new, bad |-> c.bad, lost |-> FALSE]
     : c \in CommitOutcomes(poisoned, flash, new)}

\* commit_application_snapshot of RAM state new: after an error RAM becomes
\* what flash holds, and the command succeeded if that is what it intended.
ApplicationOutcomes(new) ==
  UNION {IF c.ok
         THEN {[ok |-> TRUE, flash |-> c.flash, ram |-> new, bad |-> FALSE,
                lost |-> FALSE]}
         ELSE {[ok |-> r.ok /\ c.flash = new, flash |-> c.flash,
                ram |-> IF r.ok THEN c.flash ELSE new, bad |-> r.bad, lost |-> ~r.ok]
                 : r \in SelectedOutcomes}
         : c \in CommitOutcomes(poisoned, flash, new)}

\* commit_metadata_snapshot with its caller's undo: RAM keeps the old state.
MetadataOutcomes(new) ==
  {[ok |-> c.ok, flash |-> c.flash, ram |-> IF c.ok THEN new ELSE ram, bad |-> c.bad,
    lost |-> c.bad]
     : c \in CommitOutcomes(poisoned, flash, new)}

Unwritten(new) == [ok |-> TRUE, flash |-> flash, ram |-> new, bad |-> poisoned,
                   lost |-> FALSE]
Adopt(o) ==
  /\ flash' = o.flash /\ ram' = o.ram /\ poisoned' = o.bad
  /\ doubt' = ((doubt \/ o.lost) /\ o.ram # o.flash)

-----------------------------------------------------------------------------
Init ==
  /\ flash = [x \in Domains |->
                [inst |-> TRUE, app |-> IF "create" \in Code[x] THEN Empty ELSE Fresh]]
  /\ ram = flash /\ poisoned = FALSE
  /\ selected = None /\ tx = NoTx /\ run = Idle
  /\ wrong = [x \in Domains |-> 0] /\ doubt = FALSE

PowerLoss ==
  /\ ram' = flash /\ poisoned' = FALSE
  /\ selected' = None /\ tx' = NoTx /\ run' = Idle
  /\ doubt' = FALSE /\ UNCHANGED <<flash, wrong>>

\* Endpoint reset, a new secure channel or any management command.
AbortTransaction ==
  /\ ~Running /\ tx # NoTx
  /\ tx' = NoTx
  /\ UNCHANGED <<flash, ram, poisoned, selected, run, wrong, doubt>>

Start(kind, calls, goal, next, active, left) ==
  run' = [kind |-> kind, calls |-> calls, order |-> calls, goal |-> goal,
          at |-> IF calls = <<>> THEN "end" ELSE "run",
          next |-> next, snap |-> Empty,
          disp |-> IF active THEN "Active" ELSE "Inactive", active |-> active, left |-> left,
          dirty |-> FALSE, output |-> FALSE, auth |-> FALSE, ops |-> Budget,
          floor |-> [x \in Domains |-> NoFloor], secret |-> "pin"]

\* invoke_context_with_metrics_and_cancel: resume the owner's transaction, or
\* take the domain's state out of RAM.
Process ==
  /\ ~Running /\ selected # None /\ ram[selected].inst
  /\ tx' = NoTx
  /\ IF tx.d = selected
     THEN /\ Start("process", <<selected>>, None, [AppsOf(ram) EXCEPT ![selected] = tx.app],
                   TRUE, tx.left)
          /\ UNCHANGED ram
     ELSE /\ Start("process", <<selected>>, None, AppsOf(ram), FALSE, TxCommands)
          /\ ram' = WithApp(ram, selected, Empty)
  /\ UNCHANGED <<flash, poisoned, selected, wrong, doubt>>

\* process_verified: the selected instance is gone; selected stays taken.
ProcessMissing ==
  /\ ~Running /\ selected # None /\ ~ram[selected].inst
  /\ selected' = None
  /\ UNCHANGED <<flash, ram, poisoned, tx, run, wrong, doubt>>

Installed(x) == x # None /\ ram[x].inst

\* select_with_retries: deselect the old application, then select the new.
Select(x) ==
  /\ ~Running /\ ram[x].inst
  /\ tx' = NoTx
  /\ IF selected # None /\ ~ram[selected].inst
     THEN UNCHANGED run                                  \* Missing
     ELSE Start("select", IF selected = None THEN <<x>> ELSE <<selected, x>>, x,
                AppsOf(ram), FALSE, 0)
  /\ UNCHANGED <<flash, ram, poisoned, selected, wrong, doubt>>

\* select_isd_with_retries: only the old application has a callback.
SelectIsd ==
  /\ ~Running /\ Installed(selected)
  /\ tx' = NoTx
  /\ Start("isd", <<selected>>, None, AppsOf(ram), FALSE, 0)
  /\ UNCHANGED <<flash, ram, poisoned, selected, wrong, doubt>>

Install(x) ==
  /\ ~Running /\ ~ram[x].inst
  /\ tx' = NoTx
  /\ Start("install", <<x>>, x, AppsOf(ram), FALSE, 0)
  /\ UNCHANGED <<flash, ram, poisoned, selected, wrong, doubt>>

Uninstall(x) ==
  /\ ~Running /\ ram[x].inst
  /\ tx' = NoTx
  /\ Start("uninstall", <<x>>, x, AppsOf(ram), FALSE, 0)
  /\ UNCHANGED <<flash, ram, poisoned, selected, wrong, doubt>>

-----------------------------------------------------------------------------
\* Native calls of the managed code.  After Commit or Abort only the response
\* may still be written.
Calls(native) ==
  /\ Running /\ run.at = "run" /\ run.ops > 0
  /\ native \in Code[d]
  /\ run.disp \notin {"Commit", "Abort"}
App == run.next[d]
Staged(a, dirty) ==
  [run EXCEPT !.next[d] = a, !.dirty = @ \/ dirty, !.ops = @ - 1]
RunOnly == UNCHANGED <<flash, ram, poisoned, selected, tx, doubt>>

StoreInt ==
  /\ Calls("store")
  /\ run' = Staged([App EXCEPT !.store = 1 - @], TRUE)
  /\ RunOnly /\ UNCHANGED wrong

\* key_call: key slots and byte records are staged like the integer store.
KeyCall ==
  /\ Calls("store")
  /\ \E s \in {0, 1} :
       run' = Staged([App EXCEPT !.store = s], s # App.store)
  /\ RunOnly /\ UNCHANGED wrong

\* Buffers, hashes, random, command and response: charged, nothing persistent.
BufferCall ==
  /\ Calls("store")
  /\ run' = [run EXCEPT !.ops = @ - 1]
  /\ RunOnly /\ UNCHANGED wrong

\* Hardware output cannot be undone: refused inside a transaction.
HardwareOutput ==
  /\ Calls("output") /\ run.disp = "Inactive"
  /\ run' = [run EXCEPT !.output = TRUE, !.ops = @ - 1]
  /\ RunOnly /\ UNCHANGED wrong

\* A command that already wrote, or drove an output, cannot begin one.
MayBegin == run.disp = "Inactive" /\ ~run.output /\ ~run.dirty

Begin ==
  /\ Calls("tx") /\ MayBegin
  /\ run' = [run EXCEPT !.disp = "Begun", !.snap = App, !.ops = @ - 1]
  /\ RunOnly /\ UNCHANGED wrong

End ==
  /\ Calls("tx") /\ run.disp \in {"Active", "Begun"}
  /\ \E disp \in {"Commit", "Abort"} : run' = [run EXCEPT !.disp = disp, !.ops = @ - 1]
  /\ RunOnly /\ UNCHANGED wrong

CreateCredential ==
  /\ Calls("create") /\ App.pin = -1
  /\ run' = Staged([App EXCEPT !.pin = MaxTries, !.puk = MaxPuk], TRUE)
  /\ wrong' = [wrong EXCEPT ![d] = 0]
  /\ RunOnly

\* verify_pin with the right PIN restores the tries; the holder knows the PIN.
VerifyRight ==
  /\ Calls("pin") /\ App.pin > 0
  /\ run' = [Staged([App EXCEPT !.pin = MaxTries], App.pin # MaxTries) EXCEPT !.auth = TRUE]
  /\ wrong' = [wrong EXCEPT ![d] = 0]
  /\ RunOnly

\* change_pin by an authorized command, unblock with the right PUK.
ChangePin ==
  /\ Calls("pin") /\ run.auth
  /\ run' = Staged([App EXCEPT !.pin = MaxTries], TRUE)
  /\ wrong' = [wrong EXCEPT ![d] = 0]
  /\ RunOnly

Unblock ==
  /\ Calls("puk") /\ App.pin # -1 /\ App.puk > 0
  /\ run' = [Staged([App EXCEPT !.pin = MaxTries, !.puk = MaxPuk], TRUE) EXCEPT !.auth = TRUE]
  /\ wrong' = [wrong EXCEPT ![d] = 0]
  /\ RunOnly

\* A wrong PIN or PUK: compared, counted in the staged copy and in the floor
\* of this command; it is answered only after the checkpoint.
Lower(f, a) == [pin |-> Least(f.pin, a.pin), puk |-> Least(f.puk, a.puk)]
Wrong(a, auth, secret) ==
  /\ run' = [Staged(a, FALSE) EXCEPT !.auth = auth, !.at = "checkpoint",
                                     !.floor[d] = Lower(@, a), !.secret = secret]
  /\ RunOnly /\ UNCHANGED wrong

VerifyWrong ==
  /\ Calls("pin") /\ App.pin > 0
  /\ Wrong([App EXCEPT !.pin = @ - 1], FALSE, "pin")
UnblockWrong ==
  /\ Calls("puk") /\ App.pin # -1 /\ App.puk > 0
  /\ Wrong([App EXCEPT !.puk = @ - 1], run.auth, "puk")

\* JournalCredentialCheckpoint::checkpoint: the floor is committed over what
\* is durable, not over the staged state.
Durable == FloorIn(flash, d, run.floor[d])
\* Mutant: the whole staged state is committed with the spent try.
CheckpointOutcomes_Staged ==
  {[ok |-> TRUE, flash |-> WithApp(flash, d, App), bad |-> FALSE]}

CheckpointOutcomes ==
  UNION {IF ~r.ok THEN {[ok |-> FALSE, flash |-> flash, bad |-> r.bad]}
         ELSE IF Durable = flash THEN {[ok |-> TRUE, flash |-> flash, bad |-> FALSE]}
         ELSE UNION {IF c.ok THEN {c}
                     ELSE {[ok |-> s.ok /\ c.flash = Durable, flash |-> c.flash, bad |-> s.bad]
                             : s \in SelectedOutcomes}
                     : c \in CommitOutcomes(FALSE, flash, Durable)}
         : r \in RecoverOutcomes}

\* A checkpoint that fails leaves the command dirty and ends it.
Checkpoint ==
  /\ Running /\ run.at = "checkpoint"
  /\ \E o \in CheckpointOutcomes :
       /\ flash' = o.flash /\ poisoned' = o.bad
       /\ run' = [run EXCEPT !.at = IF o.ok THEN "run" ELSE "faulted", !.dirty = @ \/ ~o.ok]
       /\ wrong' = IF o.ok /\ ~doubt /\ run.secret = "pin"
                   THEN [wrong EXCEPT ![d] = Least(@ + 1, MaxTries + 1)] ELSE wrong
  /\ UNCHANGED <<ram, selected, tx, doubt>>

-----------------------------------------------------------------------------
\* The end of a process command.
Involved == run.disp # "Inactive"
Processing == Running /\ run.kind = "process"
Close(o, pending) ==
  Adopt(o) /\ tx' = pending /\ run' = Idle /\ UNCHANGED <<selected, wrong>>

\* RAM without the command: a transaction that began here restores its
\* snapshot; one that was resumed had left RAM alone.
Base == IF run.active THEN ram ELSE WithApp(ram, d, run.snap)
\* Mutant: an aborted transaction also takes back the tries it spent.
Reconciled_Skipped(s) == s

Reconciled(s) == FloorIn(s, d, run.floor[d])

CommitOrdinary ==
  LET new == WithApp(ram, d, App)
  IN IF run.dirty THEN ApplicationOutcomes(new) ELSE {Unwritten(new)}

\* The transaction left open for the next command, up to its limit.
Open == [d |-> d, app |-> App, left |-> run.left - 1]
Pending == IF run.left > 1 THEN Open ELSE NoTx

Return ==
  /\ Processing /\ run.at = "run"
  /\ CASE run.disp = "Inactive" -> \E o \in CommitOrdinary : Close(o, NoTx)
       [] run.disp = "Commit" ->
            IF Base[d].app = App THEN Close(Unwritten(Base), NoTx)
            ELSE \E o \in ApplicationOutcomes(WithApp(Base, d, App)) : Close(o, NoTx)
       [] run.disp = "Abort" -> Close(Unwritten(Reconciled(Base)), NoTx)
       [] OTHER -> Close(Unwritten(Reconciled(Base)), Pending)

\* A managed exception outside a transaction is a completed command.  So is a
\* checkpoint that failed with Quota or Bounds.
ManagedException ==
  /\ Processing /\ run.at \in {"run", "faulted"}
  /\ IF Involved THEN Close(Unwritten(Reconciled(Base)), NoTx)
     ELSE \E o \in CommitOrdinary : Close(o, NoTx)

\* Cancellation, budget, storage errors: RAM keeps the clean staged state, or
\* is read back when the command had written.
Fault ==
  /\ Processing /\ run.at \in {"run", "faulted"}
  /\ LET new == WithApp(ram, d, App)
     IN IF Involved THEN Close(Unwritten(Reconciled(Base)), NoTx)
        ELSE IF ~run.dirty THEN Close(Unwritten(new), NoTx)
        ELSE \E r \in RecoverOutcomes :
               Close([ok |-> FALSE, flash |-> flash,
                      ram |-> IF r.ok THEN flash ELSE new, bad |-> r.bad, lost |-> ~r.ok], NoTx)

-----------------------------------------------------------------------------
\* The end of a lifecycle callback.
Lifecycle == Running /\ run.kind # "process"
Refuse == run' = [run EXCEPT !.at = "floors", !.calls = <<>>]

\* run_lifecycle: a callback that touched a transaction is refused.
CallbackReturns ==
  /\ Lifecycle /\ run.at = "run"
  /\ IF Involved THEN Refuse
     ELSE run' = [run EXCEPT !.calls = Tail(@), !.auth = FALSE, !.output = FALSE,
                             !.dirty = FALSE, !.ops = Budget,
                             !.at = IF Len(run.calls) = 1 THEN "end" ELSE "run"]
  /\ RunOnly /\ UNCHANGED wrong

CallbackFails ==
  /\ Lifecycle /\ run.at \in {"run", "faulted"}
  /\ Refuse
  /\ RunOnly /\ UNCHANGED wrong

Flagged(s, b) == [s EXCEPT ![run.goal].inst = b]

\* commit_application_changes of both domains, or commit_instance_lifecycle.
LifecycleCommits ==
  /\ Lifecycle /\ run.at = "end"
  /\ LET new == WithApps(ram, run.next)
         out == CASE run.kind = "install" -> MetadataOutcomes(Flagged(new, TRUE))
                  [] run.kind = "uninstall" -> MetadataOutcomes(Flagged(new, FALSE))
                  [] OTHER -> IF new = ram THEN {Unwritten(ram)} ELSE ApplicationOutcomes(new)
     IN \E o \in out :
          /\ Adopt(o)
          /\ IF o.ok THEN run' = Idle ELSE Refuse
          /\ selected' = CASE o.ok /\ run.kind = "select" -> run.goal
                           [] o.ok /\ run.kind = "isd" -> None
                           [] OTHER -> selected
  /\ UNCHANGED <<tx, wrong>>

\* with_lifecycle_retry_floors: a failed operation still spends its tries,
\* one owner after the other.
Owes(x) == FloorIn(ram, x, run.floor[x]) # ram
CommitFloors ==
  /\ Lifecycle /\ run.at = "floors"
  /\ \/ /\ \A i \in 1 .. Len(run.order) : ~Owes(run.order[i])
        /\ run' = Idle /\ UNCHANGED <<flash, ram, poisoned, doubt>>
     \/ \E i \in 1 .. Len(run.order) :
          LET x == run.order[i] IN
          /\ Owes(x) /\ \A j \in 1 .. i - 1 : ~Owes(run.order[j])
          /\ \E o \in ApplicationOutcomes(FloorIn(ram, x, run.floor[x])) :
               Adopt(o) /\ run' = IF o.ok THEN run ELSE Idle
  /\ UNCHANGED <<selected, tx, wrong>>

-----------------------------------------------------------------------------
Next ==
  \/ PowerLoss \/ AbortTransaction
  \/ Process \/ ProcessMissing \/ SelectIsd
  \/ \E x \in Domains : Select(x) \/ Install(x) \/ Uninstall(x)
  \/ StoreInt \/ KeyCall \/ BufferCall \/ HardwareOutput \/ Begin \/ End
  \/ CreateCredential \/ VerifyRight \/ ChangePin \/ Unblock
  \/ VerifyWrong \/ UnblockWrong \/ Checkpoint
  \/ Return \/ ManagedException \/ Fault
  \/ CallbackReturns \/ CallbackFails \/ LifecycleCommits \/ CommitFloors

Spec == Init /\ [][Next]_vars

-----------------------------------------------------------------------------
\* Types; a pending transaction exists only between commands.
TypeOK ==
  /\ flash \in [Domains -> DomainStates] /\ ram \in [Domains -> DomainStates]
  /\ poisoned \in BOOLEAN /\ doubt \in BOOLEAN /\ selected \in Domains \cup {None}
  /\ tx = NoTx \/ (~Running /\ tx.d = selected /\ tx.left \in 1 .. TxCommands - 1)
  /\ Running => run \in Commands

\* Over every mix of transactions, aborts, faults, failing commits and power
\* cuts, no more than MaxTries wrong PINs are answered without the right one
\* (not counting what a card answers whose last failure is unresolved).
GuessesAreBounded == \A x \in Domains : wrong[x] <= MaxTries

\* Between commands, with a journal that accepts commits and every failed
\* commit resolved, RAM holds the store and the instances a reboot would
\* find: a failed command leaves nothing that the next commit would publish.
\* Both are well typed, and a transaction is open only between commands.
RamAgrees ==
  /\ TypeOK
  /\ ~Running /\ ~poisoned /\ ~doubt =>
       \A x \in Domains : /\ ram[x].inst = flash[x].inst
                          /\ ram[x].app.store = flash[x].app.store

\* While a transaction is open its writes never reach flash.
TransactionIsInvisible ==
  [][ /\ Processing /\ run.disp \in {"Active", "Begun", "Abort"}
      => \A x \in Domains : flash'[x].app.store = flash[x].app.store ]_vars
=============================================================================
