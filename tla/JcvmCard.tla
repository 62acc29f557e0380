------------------------------ MODULE JcvmCard ------------------------------
(***************************************************************************)
(* Storage ownership of the JCVM card: the registry that names every       *)
(* installed applet (jcvm_registry.rs), the heap bank that holds its state *)
(* under a key derived from its identity (jcvm_storage.rs), the staging    *)
(* region shared by uploads and heap renewal (staging.rs), and the engine  *)
(* that installs, selects, runs, renews and deletes (jcvm_card.rs), with   *)
(* flash errors and power cuts between any two durable writes.             *)
(*                                                                         *)
(* The registry and each heap bank are durable cells: the module Journal   *)
(* shows that a commit takes effect at one instant and that an error       *)
(* leaves either value.  A bank is readable only under the key of the      *)
(* identity that wrote it.  An identity is a registry nonce.               *)
(***************************************************************************)
EXTENDS Integers, FiniteSets

CONSTANTS
  Aids,       \* instance AIDs a host installs
  Banks,      \* heap banks: two on the board
  Data,       \* persistent states of an applet
  Fresh,      \* the state install() leaves
  None, Other,
  NonceCap,   \* registry nonce words
  HeapCap,    \* words of each of a bank's two counters
  MaxFaults   \* bound: flash errors and power cuts inside an operation

Ids == 0 .. NonceCap
Records == [id : Ids, data : Data]
Instances == [id : Ids, bank : Banks]
Renewals == [aid : Aids, bank : Banks, old : Ids, record : Records]
Registries == [inst : [Aids -> Instances \cup {None}], renewal : Renewals \cup {None}]
BankStates == [state : {"erased", "partial", "whole"}, id : Ids, data : Data,
               mono : 0 .. HeapCap, used : 0 .. HeapCap]
Sessions == [aid : Aids, id : Ids, data : Data, anchor : 0 .. HeapCap, ok : BOOLEAN]

ASSUME JcvmCardConstants ==
  /\ Fresh \in Data /\ NonceCap \in Nat \ {0} /\ HeapCap \in Nat \ {0} /\ MaxFaults \in Nat
  /\ None \notin Data \cup Instances \cup Renewals \cup Sessions

VARIABLES
  \* durable
  reg,        \* the newest committed registry
  nonces,     \* registry nonce words programmed
  bank,       \* [Banks -> BankStates]
  staged,     \* staging flash: a record, None (erased) or Other bytes
  \* RAM
  power,      \* "off", "boot" or "on"
  view,       \* Store::state, the registry in RAM
  regOK,      \* not Store::recovery_required
  stageLen,   \* PackageStaging::len is not zero
  upload,     \* an Upload is being received
  sel,        \* the selected session, or None
  pc, op,     \* the durable write about to happen and what it belongs to
  \* history
  ack,        \* [Aids -> Data]: the state the applet's last heap commit left
  executed,   \* identities under which an applet has committed
  stale,      \* a session wrote a bank that is no longer its own
  faults

durable == <<reg, nonces, bank, staged>>
ram == <<power, view, regOK, stageLen, upload, sel>>
vars == <<reg, nonces, bank, staged, power, view, regOK, stageLen, upload, sel,
          pc, op, ack, executed, stale, faults>>

NoOp == [aid |-> None, bank |-> None, record |-> None, path |-> "none"]
ErasedBank == [state |-> "erased", id |-> 0, data |-> Fresh, mono |-> 0, used |-> 0]

\* A bank holding one anchored snapshot: after install, or a copied seed.
SeededBank(r) == [state |-> "whole", id |-> r.id, data |-> r.data, mono |-> 1, used |-> 1]

\* Registry::instances
Installed(r) == {a \in Aids : r.inst[a] # None}
FreeBanks(r) == {b \in Banks : \A a \in Installed(r) : r.inst[a].bank # b}

\* Mutant: a pending renewal does not block ordinary operations.
StateOK_IgnoresRenewal == regOK

\* Store::state: Storage while recovery is required, Busy during a renewal.
StateOK == regOK /\ view.renewal = None

\* Session::open with the key of identity i finds an installed applet.
Opens(b, i) == bank[b].state = "whole" /\ bank[b].id = i

Init ==
  /\ reg = [inst |-> [a \in Aids |-> None], renewal |-> None]
  /\ nonces = 1
  /\ bank = [b \in Banks |-> ErasedBank] /\ staged = None
  /\ power = "off" /\ view = reg /\ regOK = TRUE /\ stageLen = FALSE /\ upload = FALSE
  /\ sel = None /\ pc = "idle" /\ op = NoOp
  /\ ack = [a \in Aids |-> Fresh] /\ executed = {} /\ stale = FALSE /\ faults = 0

-----------------------------------------------------------------------------
(* What every path shares *)

Idle == power = "on" /\ pc = "idle"

\* JcvmEngine::abort_staging: staging that may belong to a renewal is kept.
AbortStaging ==
  /\ upload' = FALSE
  /\ stageLen' = IF regOK' /\ view'.renewal = None THEN FALSE ELSE stageLen

\* Endpoint::reset: abort_staging and abort_transaction.
Reset == AbortStaging /\ sel' = None

PowerLost ==
  /\ power' = "off" /\ view' = reg' /\ regOK' = TRUE /\ stageLen' = FALSE
  /\ upload' = FALSE /\ sel' = None

Done == pc' = "idle" /\ op' = NoOp

\* Mutant: a failed publication is assumed not to have happened.
ResolveRegistry_AssumeOld == regOK' = TRUE /\ view' = view

\* Store::finish_commit_snapshot after an error: recover decides which registry
\* is durable, or leaves the store unusable until the next boot.
ResolveRegistry ==
  \/ regOK' = TRUE /\ view' = reg'
  \/ regOK' = FALSE /\ view' = view

\* Power is lost, or the reader resets the card, between operations.
PowerOff ==
  /\ power # "off" /\ pc = "idle"
  /\ UNCHANGED <<durable, pc, op, ack, executed, stale, faults>>
  /\ PowerLost

CardReset ==
  /\ Idle
  /\ UNCHANGED <<durable, power, view, regOK, pc, op, ack, executed, stale, faults>>
  /\ Reset

-----------------------------------------------------------------------------
(* Boot: Store::open and JcvmEngine::open *)

RenewalOp(r, path) == [aid |-> r.aid, bank |-> r.bank, record |-> r.record, path |-> path]

\* Mutant: the staged record is found by the volatile upload length.
CanResume_UploadLength(r) == stageLen /\ staged = r.record /\ nonces < NonceCap

\* recover_renewal refuses, without erasing anything, when the staged record
\* is not the authenticated one or the registry cannot take one more commit.
CanResume(r) == staged = r.record /\ nonces < NonceCap

Boot ==
  /\ power = "off"
  /\ power' = "boot" /\ view' = reg
  /\ IF reg.renewal = None
     THEN pc' = "open" /\ op' = NoOp
     ELSE /\ CanResume(reg.renewal)
          /\ pc' = "erase" /\ op' = RenewalOp(reg.renewal, "boot")
  /\ UNCHANGED <<durable, regOK, stageLen, upload, sel, ack, executed,
                 stale, faults>>

\* Every committed instance must open; startup never repairs one.
OpenAll ==
  /\ pc = "open"
  /\ \A a \in Installed(view) : Opens(view.inst[a].bank, view.inst[a].id)
  /\ power' = "on" /\ stageLen' = FALSE
  /\ Done
  /\ UNCHANGED <<durable, view, regOK, upload, sel, ack, executed, stale, faults>>

-----------------------------------------------------------------------------
(* Application commands *)

\* open_session, restoring the volatile state that was parked.
Select(a) ==
  /\ Idle /\ sel = None /\ StateOK /\ view.inst[a] # None
  /\ UNCHANGED <<view, regOK>>
  /\ AbortStaging
  /\ LET i == view.inst[a] IN
       /\ Opens(i.bank, i.id)
       /\ sel' = [aid |-> a, id |-> i.id, data |-> bank[i.bank].data,
                  anchor |-> bank[i.bank].mono, ok |-> TRUE]
  /\ UNCHANGED <<durable, power, pc, op, ack, executed, stale, faults>>

\* The bank a session writes: its journal handle never moves.
BankOf(a) == view.inst[a].bank

\* Journal::remaining_commits on the session's handle.
CountersAgree(s) == bank[BankOf(s.aid)].mono = s.anchor

Remaining(s) ==
  LET b == bank[BankOf(s.aid)]
      left == {HeapCap - s.anchor, HeapCap - b.used}
  IN  CHOOSE n \in left : \A m \in left : n <= m

Usable(s) == s.ok /\ CountersAgree(s)

\* maintain_epoch_if_needed decides that the heap key must be renewed.
NeedsRenewal(s) == Remaining(s) <= 1 /\ ~upload

\* Store::commit_view: an append or a snapshot, at an ordinary or an anchored
\* (installation, PIN) checkpoint, and the counter words each one takes.
Commits == [anchored : BOOLEAN, snapshot : BOOLEAN]
Word(flag) == IF flag THEN 1 ELSE 0

HeapCommit(b, v, c) ==
  [b EXCEPT !.data = v, !.mono = @ + Word(c.anchored), !.used = @ + Word(c.snapshot)]

\* process_plain and process_verified: the heap is durable before the response.
Execute(v, c) ==
  /\ Idle /\ sel # None /\ Usable(sel) /\ ~NeedsRenewal(sel)
  /\ Word(c.anchored) <= HeapCap - sel.anchor
  /\ Word(c.snapshot) <= HeapCap - bank[BankOf(sel.aid)].used
  /\ Opens(BankOf(sel.aid), sel.id)
  /\ UNCHANGED <<view, regOK>>
  /\ AbortStaging
  /\ bank' = [bank EXCEPT ![BankOf(sel.aid)] = HeapCommit(@, v, c)]
  /\ sel' = [sel EXCEPT !.data = v, !.anchor = @ + Word(c.anchored)]
  /\ ack' = [ack EXCEPT ![sel.aid] = v]
  /\ executed' = executed \cup {sel.id}
  /\ UNCHANGED <<reg, nonces, staged, power, pc, op, stale, faults>>

\* A commit that stopped before its marker: only its nonce is gone.
LostCommit(b, c) == [b EXCEPT !.used = @ + Word(c.snapshot)]

\* The heap commit fails, with or without effect, or power is lost in it.
ExecuteFails(v, c) ==
  /\ Idle /\ faults < MaxFaults /\ sel # None /\ Usable(sel) /\ ~NeedsRenewal(sel)
  /\ Word(c.anchored) <= HeapCap - sel.anchor
  /\ Word(c.snapshot) <= HeapCap - bank[BankOf(sel.aid)].used
  /\ Opens(BankOf(sel.aid), sel.id)
  /\ \/ /\ bank' = [bank EXCEPT ![BankOf(sel.aid)] = HeapCommit(@, v, c)]
        /\ ack' = [ack EXCEPT ![sel.aid] = v]
     \/ /\ bank' = [bank EXCEPT ![BankOf(sel.aid)] = LostCommit(@, c)]
        /\ UNCHANGED ack
  /\ \/ UNCHANGED <<power, view, regOK>> /\ Reset
     \/ UNCHANGED reg /\ PowerLost
  /\ executed' = executed \cup {sel.id}
  /\ faults' = faults + 1
  /\ UNCHANGED <<reg, nonces, staged, pc, op, stale>>

\* What a commit through a stale handle makes of a reseeded bank.  A snapshot
\* erases or invalidates the seed and an anchored append takes a counter word
\* of it, after which the bank does not open; an ordinary append lands behind
\* the seed, where the replay refuses it, or further on, where it is not read.
StaleCommit(b, c) ==
  {[b EXCEPT !.state = s, !.mono = @ + Word(c.anchored), !.used = @ + Word(c.snapshot)] :
     s \in {"partial"} \cup (IF c.anchored \/ c.snapshot THEN {} ELSE {b.state})}

\* A session whose bank was reseeded under another identity still passes the
\* counter check when both epochs have the same anchor, and its commit (of a
\* command, or of compact_idle) is acknowledged.
ExecuteStale(v, c) ==
  /\ Idle /\ sel # None /\ Usable(sel) /\ ~NeedsRenewal(sel)
  /\ Word(c.anchored) <= HeapCap - sel.anchor
  /\ Word(c.snapshot) <= HeapCap - bank[BankOf(sel.aid)].used
  /\ ~Opens(BankOf(sel.aid), sel.id)
  /\ UNCHANGED <<view, regOK>>
  /\ AbortStaging
  /\ \E b \in StaleCommit(bank[BankOf(sel.aid)], c) :
       bank' = [bank EXCEPT ![BankOf(sel.aid)] = b]
  /\ sel' = [sel EXCEPT !.data = v, !.anchor = @ + Word(c.anchored)]
  /\ ack' = [ack EXCEPT ![sel.aid] = v]
  /\ stale' = TRUE
  /\ UNCHANGED <<reg, nonces, staged, power, pc, op, executed, faults>>

\* The same, when the commit fails part way or power is lost in it.
ExecuteStaleFails(c) ==
  /\ Idle /\ faults < MaxFaults /\ sel # None /\ Usable(sel) /\ ~NeedsRenewal(sel)
  /\ Word(c.anchored) <= HeapCap - sel.anchor
  /\ Word(c.snapshot) <= HeapCap - bank[BankOf(sel.aid)].used
  /\ ~Opens(BankOf(sel.aid), sel.id)
  /\ LET b == bank[BankOf(sel.aid)]
     IN \E n \in StaleCommit(b, c) \cup {LostCommit(b, c), [LostCommit(b, c) EXCEPT !.state = "partial"]} :
          bank' = [bank EXCEPT ![BankOf(sel.aid)] = n]
  /\ \/ UNCHANGED <<power, view, regOK>> /\ Reset
     \/ UNCHANGED reg /\ PowerLost
  /\ stale' = TRUE
  /\ faults' = faults + 1
  /\ UNCHANGED <<reg, nonces, staged, pc, op, ack, executed>>

\* compact_idle: a snapshot of the same state under the same key.
Compact ==
  /\ Idle /\ sel # None /\ Usable(sel) /\ Remaining(sel) > 1 /\ ~upload
  /\ Opens(BankOf(sel.aid), sel.id)
  /\ bank' = [bank EXCEPT ![BankOf(sel.aid)] =
                HeapCommit(@, @.data, [anchored |-> FALSE, snapshot |-> TRUE])]
  /\ UNCHANGED <<reg, nonces, staged, ram, pc, op, ack, executed, stale, faults>>

\* park_selected, once no renewal is needed: the volatile state is kept.
Park ==
  /\ Idle /\ sel # None /\ Usable(sel) /\ ~NeedsRenewal(sel) /\ StateOK
  /\ sel' = None
  /\ UNCHANGED <<durable, power, view, regOK, stageLen, upload, pc, op, ack,
                 executed, stale, faults>>

-----------------------------------------------------------------------------
(* Heap renewal: Storage::renew_epoch *)

\* Mutant: the renewed heap keeps its identity.
BeginRenewal_SameIdentity(path) ==
  /\ Idle /\ sel # None /\ Usable(sel) /\ NeedsRenewal(sel)
  /\ StateOK /\ ~stageLen /\ NonceCap - nonces >= 2
  /\ nonces' = nonces + 1
  /\ op' = [aid |-> sel.aid, bank |-> BankOf(sel.aid),
            record |-> [id |-> sel.id, data |-> sel.data], path |-> path]
  /\ pc' = "stage"
  /\ UNCHANGED <<reg, bank, staged, ram, ack, executed, stale, faults>>

\* begin_renewal up to the staged record: a fresh identity is reserved and the
\* live heap is sealed under it.  "management" is a renewal reached through
\* park_selected of a GP command, whose errors are answered without a reset.
BeginRenewal(path) ==
  /\ Idle /\ sel # None /\ Usable(sel) /\ NeedsRenewal(sel)
  /\ StateOK /\ ~stageLen
  /\ NonceCap - nonces >= 2
  /\ nonces' = nonces + 1
  /\ sel.id = view.inst[sel.aid].id
  /\ op' = [aid |-> sel.aid, bank |-> BankOf(sel.aid),
            record |-> [id |-> nonces', data |-> sel.data], path |-> path]
  /\ pc' = "stage"
  /\ UNCHANGED <<reg, bank, staged, ram, ack, executed, stale, faults>>

\* BoundedFlashStaging::append erases, programs and is read back.
StageRecord ==
  /\ pc = "stage"
  /\ staged' = op.record /\ stageLen' = TRUE
  /\ pc' = "publish"
  /\ UNCHANGED <<reg, nonces, bank, power, view, regOK, upload, sel, op,
                 ack, executed, stale, faults>>

PendingRegistry ==
  [view EXCEPT !.renewal = [aid |-> op.aid, bank |-> op.bank,
                            old |-> view.inst[op.aid].id, record |-> op.record]]

\* The reserved identity nonce is the nonce of this registry record.
PublishRenewal ==
  /\ pc = "publish"
  /\ reg' = PendingRegistry /\ view' = PendingRegistry
  /\ pc' = "erase"
  /\ UNCHANGED <<nonces, bank, staged, power, regOK, stageLen, upload, sel,
                 op, ack, executed, stale, faults>>

\* recover_renewal: the staged record is authenticated before the first erase.
EraseBank ==
  /\ pc = "erase" /\ CanResume(view.renewal)
  /\ bank' = [bank EXCEPT ![op.bank] = ErasedBank]
  /\ pc' = "seed"
  /\ UNCHANGED <<reg, nonces, staged, ram, op, ack, executed, stale, faults>>

\* install_empty_bank copies the ciphertext and validate_journal reads it.
SeedBank ==
  /\ pc = "seed"
  /\ bank' = [bank EXCEPT ![op.bank] = SeededBank(staged)]
  /\ pc' = "finish"
  /\ UNCHANGED <<reg, nonces, staged, ram, op, ack, executed, stale, faults>>

RenewedRegistry ==
  [view EXCEPT !.inst[op.aid].id = op.record.id, !.renewal = None]

FinishRenewal ==
  /\ pc = "finish" /\ nonces < NonceCap
  /\ nonces' = nonces + 1
  /\ reg' = RenewedRegistry /\ view' = RenewedRegistry
  /\ pc' = IF power = "boot" THEN "open" ELSE "handoff"
  /\ UNCHANGED <<bank, staged, power, regOK, stageLen, upload, sel, op,
                 ack, executed, stale, faults>>

\* adopt_renewed_store: the live applet must equal the reopened heap.
Handoff ==
  /\ pc = "handoff"
  /\ Opens(op.bank, view.inst[op.aid].id) /\ bank[op.bank].data = sel.data
  /\ sel' = [sel EXCEPT !.id = view.inst[op.aid].id, !.anchor = bank[op.bank].mono]
  /\ stageLen' = FALSE
  /\ Done
  /\ UNCHANGED <<durable, power, view, regOK, upload, ack, executed, stale,
                 faults>>

-----------------------------------------------------------------------------
(* Management commands: the selected applet was parked first *)

Managing == Idle /\ sel = None /\ StateOK

\* Store::install: the first free bank, under a fresh identity.
BeginInstall(a) ==
  /\ Managing /\ view.inst[a] = None
  /\ FreeBanks(view) # {} /\ nonces < NonceCap
  /\ UNCHANGED <<view, regOK>>
  /\ AbortStaging
  /\ nonces' = nonces + 1
  /\ op' = [aid |-> a, bank |-> CHOOSE b \in FreeBanks(view) : TRUE,
            record |-> [id |-> nonces', data |-> Fresh], path |-> "install"]
  /\ pc' = "prepare"
  /\ UNCHANGED <<reg, bank, staged, power, sel, ack, executed, stale, faults>>

PrepareBank ==
  /\ pc = "prepare"
  /\ bank' = [bank EXCEPT ![op.bank] = ErasedBank]
  /\ pc' = "heap"
  /\ UNCHANGED <<reg, nonces, staged, ram, op, ack, executed, stale, faults>>

\* Session::install_globalplatform commits the first snapshot.
CommitFreshHeap ==
  /\ pc = "heap"
  /\ bank' = [bank EXCEPT ![op.bank] = SeededBank(op.record)]
  /\ pc' = "register"
  /\ UNCHANGED <<reg, nonces, staged, ram, op, ack, executed, stale, faults>>

InstalledRegistry ==
  [view EXCEPT !.inst[op.aid] = [id |-> op.record.id, bank |-> op.bank]]

Register ==
  /\ pc = "register"
  /\ reg' = InstalledRegistry /\ view' = InstalledRegistry
  /\ ack' = [ack EXCEPT ![op.aid] = Fresh]
  /\ Done
  /\ UNCHANGED <<nonces, bank, staged, power, regOK, stageLen, upload, sel, executed,
                 stale, faults>>

\* DELETE of an instance: its bank becomes reclaimable.
DeletedRegistry(a) == [view EXCEPT !.inst[a] = None]

Delete(a) ==
  /\ Managing /\ view.inst[a] # None /\ nonces < NonceCap
  /\ nonces' = nonces + 1
  /\ reg' = DeletedRegistry(a) /\ view' = DeletedRegistry(a)
  /\ UNCHANGED regOK
  /\ AbortStaging
  /\ UNCHANGED <<bank, staged, power, sel, pc, op, ack, executed, stale, faults>>

DeleteFails(a) ==
  /\ Managing /\ view.inst[a] # None /\ nonces < NonceCap /\ faults < MaxFaults
  /\ nonces' = nonces + 1
  /\ reg' \in {reg, DeletedRegistry(a)}
  /\ \/ ResolveRegistry /\ AbortStaging /\ UNCHANGED <<power, sel>>
     \/ PowerLost
  /\ faults' = faults + 1
  /\ UNCHANGED <<bank, staged, pc, op, ack, executed, stale>>

\* INSTALL [for load] opens an upload; its blocks go to staging.
StartUpload ==
  /\ Managing
  /\ upload' = TRUE /\ stageLen' = FALSE
  /\ UNCHANGED <<durable, power, view, regOK, sel, pc, op, ack, executed,
                 stale, faults>>

ReceiveBlock ==
  /\ Idle /\ sel = None /\ upload
  /\ staged' = Other /\ stageLen' = TRUE
  /\ UNCHANGED <<reg, nonces, bank, power, view, regOK, upload, sel, pc, op,
                 ack, executed, stale, faults>>

\* The last block: the image is activated by a registry record of its own.
FinishUpload ==
  /\ Idle /\ sel = None /\ upload /\ stageLen /\ nonces < NonceCap
  /\ nonces' = nonces + 1
  /\ upload' = FALSE /\ stageLen' = FALSE
  /\ UNCHANGED <<reg, bank, staged, power, view, regOK, sel, pc, op, ack,
                 executed, stale, faults>>

\* The image is refused, or its activation fails with or without effect.
FinishUploadFails ==
  /\ Idle /\ sel = None /\ upload /\ stageLen /\ nonces < NonceCap /\ faults < MaxFaults
  /\ nonces' \in {nonces, nonces + 1}
  /\ UNCHANGED reg
  /\ \/ ResolveRegistry /\ AbortStaging /\ UNCHANGED <<power, sel>>
     \/ PowerLost
  /\ faults' = faults + 1
  /\ UNCHANGED <<bank, staged, pc, op, ack, executed, stale>>

-----------------------------------------------------------------------------
(* Errors and power cuts in the middle of an operation *)

\* What the interrupted write may have left.
Leftover ==
  \/ /\ pc \in {"erase", "prepare", "seed", "heap"}
     /\ \/ UNCHANGED bank
        \/ bank' = [bank EXCEPT ![op.bank].state = "partial"]
        \/ bank' = [bank EXCEPT ![op.bank] =
                      IF pc \in {"seed", "heap"} THEN SeededBank(op.record) ELSE ErasedBank]
     /\ UNCHANGED <<reg, nonces, staged, ack>>
  \/ /\ pc = "stage"
     /\ staged' \in {staged, Other, op.record}
     /\ UNCHANGED <<reg, nonces, bank, ack>>
  \/ /\ pc = "publish"
     /\ reg' \in {reg, PendingRegistry}
     /\ UNCHANGED <<nonces, bank, staged, ack>>
  \/ /\ pc = "finish" /\ nonces < NonceCap
     /\ nonces' \in {nonces, nonces + 1}
     /\ reg' \in {reg} \cup (IF nonces' = nonces THEN {} ELSE {RenewedRegistry})
     /\ UNCHANGED <<bank, staged, ack>>
  \/ /\ pc = "register"
     /\ reg' \in {reg, InstalledRegistry}
     /\ ack' = IF reg' = reg THEN ack ELSE [ack EXCEPT ![op.aid] = Fresh]
     /\ UNCHANGED <<nonces, bank, staged>>
  \/ /\ pc = "handoff"
     /\ UNCHANGED <<durable, ack>>

\* The registry in RAM after the error.
Resolve ==
  IF pc \in {"publish", "finish", "register"} THEN ResolveRegistry ELSE UNCHANGED <<view, regOK>>

\* Who sees the error.  A command path ends in Endpoint::reset; a GP command
\* answers with a status word and keeps the selected session, whose handoff
\* may have failed before or inside adopt_renewed_store.
ErrorPath ==
  CASE op.path = "command" -> Reset
    [] op.path = "install" -> AbortStaging /\ UNCHANGED <<sel>>
    [] op.path = "management" ->
         /\ sel' \in {sel} \cup (IF pc = "handoff" THEN {[sel EXCEPT !.ok = FALSE]} ELSE {})
         /\ stageLen' = IF pc = "stage" \/ (pc = "publish" /\ regOK' /\ view'.renewal = None)
                        THEN FALSE ELSE stageLen
         /\ UNCHANGED <<upload>>

Fails ==
  /\ pc \notin {"idle", "open"} /\ faults < MaxFaults
  /\ Leftover
  /\ \/ op.path # "boot" /\ Resolve /\ ErrorPath /\ UNCHANGED power
     \/ PowerLost
  /\ Done
  /\ faults' = faults + 1
  /\ UNCHANGED <<executed, stale>>

-----------------------------------------------------------------------------
Next ==
  \/ PowerOff \/ CardReset \/ Boot \/ OpenAll
  \/ \E a \in Aids : Select(a) \/ BeginInstall(a) \/ Delete(a) \/ DeleteFails(a)
  \/ \E v \in Data, c \in Commits :
       Execute(v, c) \/ ExecuteFails(v, c) \/ ExecuteStale(v, c)
  \/ \E c \in Commits : ExecuteStaleFails(c)
  \/ Compact \/ Park
  \/ \E path \in {"command", "management"} : BeginRenewal(path)
  \/ StageRecord \/ PublishRenewal \/ EraseBank \/ SeedBank \/ FinishRenewal \/ Handoff
  \/ PrepareBank \/ CommitFreshHeap \/ Register
  \/ StartUpload \/ ReceiveBlock \/ FinishUpload \/ FinishUploadFails
  \/ Fails

Spec == Init /\ [][Next]_vars

\* The card's own steps are taken, and a card that answers Busy or Storage to
\* every command is power cycled sooner or later.
CardSteps ==
  Boot \/ OpenAll \/ StageRecord \/ PublishRenewal \/ EraseBank \/ SeedBank
    \/ FinishRenewal \/ Handoff \/ PrepareBank \/ CommitFreshHeap \/ Register
FairSpec == Spec /\ WF_vars(CardSteps) /\ WF_vars(PowerOff /\ ~StateOK)

-----------------------------------------------------------------------------
(* Properties *)

\* Type invariant.
TypeOK ==
  /\ reg \in Registries /\ nonces \in 0 .. NonceCap
  /\ bank \in [Banks -> BankStates]
  /\ staged \in Records \cup {None, Other}
  /\ power \in {"off", "boot", "on"} /\ view \in Registries
  /\ {regOK, stageLen, upload, stale} \subseteq BOOLEAN
  /\ sel \in Sessions \cup {None}
  /\ pc \in {"idle", "open", "stage", "publish", "erase", "seed", "finish", "handoff",
             "prepare", "heap", "register"}
  /\ ack \in [Aids -> Data] /\ executed \subseteq Ids /\ faults \in 0 .. MaxFaults

\* What a boot at this instant would give applet a.
BootState(a) ==
  LET i == reg.inst[a]
      r == reg.renewal
  IN  IF r # None /\ r.aid = a
      THEN IF staged = r.record THEN staged.data ELSE None
      ELSE IF Opens(i.bank, i.id) THEN bank[i.bank].data ELSE None

\* STORAGE.md: "Before the pending registry commit, the old bank remains
\* authoritative.  After that commit, the authenticated staging copy is."  At
\* every instant, for every installed applet, a boot finds exactly the state
\* its last heap commit left: no install, upload, renewal, delete of another
\* applet, error or power cut loses or revives applet data.  The ranges of the
\* counters (TypeOK) are part of it: a bank whose counter overran would not open.
HeapNeverLost ==
  /\ TypeOK
  /\ ~stale => \A a \in Installed(reg) : BootState(a) = ack[a]

\* Heap-key nonces restart at 1 in a new epoch, so an identity under which an
\* applet has already committed is never given a second initial record.
EpochNeverRestarts ==
  pc \in {"erase", "seed", "prepare", "heap"} => op.record.id \notin executed

\* An applet's identity only moves forward, and a registry never comes to name a
\* heap key under which an applet has already run: whatever errors, cuts and
\* recoveries happen, neither a renewed nor a deleted identity is brought back
\* (Store::finish_commit_snapshot decides from what is durable).
IdentityAdvances ==
  [][\A a \in Aids : reg'.inst[a] \notin {None, reg.inst[a]} =>
       /\ reg'.inst[a].id \notin executed
       /\ reg.inst[a] # None => reg'.inst[a].id > reg.inst[a].id]_vars

\* A published renewal is always resolved: every interrupted one is picked up
\* by a later boot, as long as the registry's own counter has a word left.
RenewalResolves ==
  reg.renewal # None ~> reg.renewal = None \/ nonces = NonceCap

=============================================================================
