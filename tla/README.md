# A TLA+ model of MicroCard

MicroCard is a smart-card operating system in Rust. It runs Java Card applets
(JCVM build) or C# assemblies (MC04 build) on an nRF52840, keeps applet state in
internal flash, and is managed by GlobalPlatform commands over an SCP03 secure
channel. This directory holds TLA+ models of its storage, its management, its two
execution engines and its board firmware, the TLC configurations that check them
and TLAPS proofs about eight of the components.

## 1. Inventory

All paths are relative to `src/`; core is `crates/microcard-core/src`, engine is
`crates/microcard-engine-jcvm/src`, board is `board/nrf52840/src`.

| Component | State | Operations | Interacts with | What makes it correct |
|---|---|---|---|---|
| Flash journal (core `journal.rs`, `journal/*`) | slots with records, frames, reclaim words; two one-way word counters (anchor, nonce); an open handle | recover, commit a snapshot, append a frame, reserve an identity | every store is one | a cut anywhere is recoverable, no rollback, no nonce reuse, publication is atomic |
| JCVM registry (core `jcvm_registry.rs`, `renewal.rs`) | domains, loads, instances, pending renewal, challenge sequence, in one journal record | load, install, delete, begin and recover a renewal, reserve sequences | the journal, heap banks, staging | identities are never reused, an interrupted renewal is finished |
| Heap storage and session (core `jcvm_storage.rs`, `jcvm_storage/*`) | two heap banks, each an appending journal; an open session with counters | open, process, commit, compact, adopt a renewed store | registry, engine, flash | an acknowledged applet state survives |
| JCVM card engine (core `jcvm_card.rs`) | registry, selected session, retained volatile state, staging, sequence window | open, select, park, process, manage, restart the channel | endpoint above, stores below | no command runs on a heap that is not the durable one |
| Staging (core `staging.rs`) | one flash area and its length | reset, append, read | uploads and renewals share it | a staged heap is not overwritten while it is the only copy |
| SCP03 (core `scp03.rs`) | keys, MAC chain, command counter, level | initiate, authenticate, unwrap, response | endpoint | commands run once and in order, no counter block is reused |
| Endpoint (core `transport.rs`) | session, status cursor, bootloader flag | one dispatcher, reset, maintenance | engine, SCP03 | continuation state belongs to one session |
| GlobalPlatform parsers (core `globalplatform.rs`) | load receiver, status cursor | parse, receive a block | endpoint | blocks are contiguous |
| JCVM applet memory (engine `applet*`, `vm/heap*`, `natives/framework/jcsystem.rs`, `pin.rs`) | object slab, undo log, dirty ranges, PIN counters | allocate, write, transaction, delete, collect, checkpoint | session below, natives above | a transaction is all or nothing except PIN tries; a saved record recovers |
| JCVM native security objects (engine `natives/security/*`) | keys, ciphers, signatures, digests, generators on the applet heap | construct, initialise, stream, finish, save, load | applet memory | streams keep their bytes, saved objects load, output is not repeated |
| JCVM virtual machine (engine `code.rs`, `verify.rs`, `link.rs`, `vm/exec.rs`, `vm/frame.rs`) | package, frames in an arena, budget | load, dispatch, call, throw, unwind | natives, heap | only verified instructions run, calls and frames keep a word's kind, commands end |
| Image store (core `image_store.rs`) | image slots | stage, reuse, read | package management | an image a snapshot names is never erased |
| Packages (core `package.rs`, `envelope.rs`, `jcvm_package.rs`) | none | verify | package management | no older version or foreign domain is activated |
| MC04 package management (core `domains/management.rs`, `lifecycle.rs`, `linking.rs`, `registry.rs`) | domains, packages, bindings, instances, policies | create, load, install, uninstall, remove, start | image store, journal | every durable snapshot starts |
| MC04 applications (core `domains/application.rs`, `execution.rs`, `session.rs`, `native.rs`, `credential_store.rs`) | domain state, pending transaction, credentials | process, select, callbacks, transaction scopes, PIN calls | journal | a fault never gives a PIN try back, a failed command leaves nothing |
| MC04 assembly verifier and VM (core `assembly/*`, `mc04_imports.rs`, `mc04_vm.rs`) | work list and types; frames, stack, heap | verify, link, execute | applications | values have their verified types up to the names the linker compares, irreversible output is outside transactions |
| CCID class (`vendor/usbd-ccid`, board `usb_ccid.rs`) | pipe state, outbox, request channel | packet, abort, time extension, send | board runtime | an answer belongs to its command |
| Board runtime (board `rtic_runtime.rs`, `main.rs`) | atomics between the USB task, the tick and the worker; ownership word | start, poll, work, maintain, reset | endpoint, CCID | a reset precedes the next command, work is not lost |
| Board storage (board `storage.rs`, `jcvm.rs`) | pages | erase, program, word counter | journal | a word is programmed once |
| Codecs (core `apdu.rs`, `framing.rs`, `cbor.rs`, `tlv.rs`), cryptography, simulator, managed tools, wallet, fuzzers, other vendored code | none or internal | parse, compute | | out of scope, see section 8 |

Behaviours that are hard here: power cuts between and inside flash writes;
errors whose effect is nevertheless durable; three journals and a staging area
that must agree without a common transaction; counters that end; a link that
repeats messages; sessions whose store was replaced underneath them; state with
three lifetimes (durable, transactional, until reset) in one object; a worker that
is preempted between two flags; verification and execution that must agree.
`PROJECT.json` lists each at its line under `hazards`.

## 2. Modules

| Module | What it models |
|---|---|
| `DurableCell` | abstract specification: one cell holding a version and a value, replaced atomically by an announced value |
| `Journal` | `journal.rs` and `append.rs` over the board's flash; the constants choose the JCVM journal (two slots, frames) or the MC04 one (three slots, snapshots only) |
| `JournalInvariant` | the inductive invariant `JournalInv` |
| `JournalProofs` | theorems about `Journal`, see section 6 |
| `JcvmCard` | engine, registry, heap banks, sessions and staging: the life of an applet's durable state |
| `Endpoint` | dispatcher, SCP03 session, challenge counters, upload and listing state, against a host over an unreliable link |
| `AppletMemory` | abstract specification: an applet's memory with atomic transactions and a try counter outside them |
| `JcvmApplet` | one running applet: object slab, undo log, dirty ranges, collection, PIN, checkpoints, session recovery |
| `JcvmCrypto` | the native security objects of one applet over heap, transactions and resets |
| `JcvmVm` | load-time verification of bytecode, and the dispatch loop |
| `Mc04Application` | MC04 commands, transactions, credentials, callbacks and commit failures of several domains |
| `Mc04Packages` | MC04 domains, packages, links, image slots, snapshot commits and start-up checks |
| `Mc04Vm` | MC04 verifier, linker and interpreter |
| `BoardRuntime` | start-up, USB interrupt task, tick, worker, CCID pipe and request channel, against a host |
| `JcvmCardProofs`, `EndpointProofs`, `JcvmCryptoProofs`, `Mc04ApplicationProofs`, `Mc04PackagesProofs`, `Mc04VmProofs`, `BoardRuntimeProofs` | theorems about the module each is named after, with its inductive invariant |
| `MC...` | what TLC needs beside a `.cfg`: symmetry, levels, the packages, programs and applets that are explored |

The modules compose by their promises. `Journal` implements `DurableCell`; the
commits of `JcvmCard`, `JcvmApplet`, `JcvmCrypto`, `Mc04Application` and
`Mc04Packages` are one step on a durable cell that may fail with the old or the new
value in it, which is what the journal was shown to be. `BoardRuntime` delivers
requests to the `Endpoint`, which calls `JcvmCard`; a fault or a reset of the board
is a power cycle or an endpoint reset there. The two virtual machines run the
calls whose effects `JcvmApplet`, `JcvmCrypto` and `Mc04Application` model.

### Journal

`slot` is the flash image of each slot: snapshot record (blank, torn or whole),
its nonce (`attempt`), generation and value, published frames, a torn tail, the
commit marker and the two reclaim words. `mono` and `nonces` are the two word
counters. `mode`, `gen`, `active`, `baseAttempt`, `offset`, `identity` are the
fields of the Rust `Journal`. `pc` and `op` are the local variables of the
commit in progress. A commit is one action per flash mutation, in the code's
order (`WriteIntent`, `EraseTarget`, `ProgramRecord`, `WriteCommitMarker`,
`WriteReclaimComplete`, `AdvanceAnchor`; for a frame `ProgramFrame`,
`WriteFrameMarker`, `AdvanceFrameAnchor`), and `Interrupt` stops any of them part
way, either with an error (the handle stays `poisoned`, as in the code) or
with a power cut. `Recover` is the whole of `recover_with_replay_mode`: candidate
check per slot, scan, interrupted-reclaim rule, replay of frames, reconciliation
with the anchor. `known`, `sealed` and `damaged` are history: what a caller was
told is durable, which nonce protected what, whether flash has decayed.

Encryption is ideal: a whole record authenticates, a torn or decayed one does
not. A generation is the pair (anchor, sequence) the code packs in one word.

### JcvmCard

`reg` and `nonces` are the registry journal as a durable cell with its nonce
counter (the property proved of `Journal` is what justifies one step per commit);
`bank` is each heap journal reduced to the record and counters that a session
depends on; `staged` is the staging flash. `view`, `regOK`, `sel`, `stageLen`,
`upload` are the engine's RAM. A renewal is seven steps (`BeginRenewal`,
`StageRecord`, `PublishRenewal`, `EraseBank`, `SeedBank`, `FinishRenewal`,
`Handoff`), an install three, each of which `Fails` can interrupt with an error or
a power cut with every leftover the write permits. What a failure does to RAM
depends on who called (`ErrorPath`): a command path ends in `Endpoint::reset`, a
management command keeps the selected session. `Boot` resumes a pending renewal
before anything else as `JcvmEngine::open` does. `ack` is history: the state each
applet's last acknowledged commit left. A session that a failed renewal left behind
goes on in `ExecuteStale` and `ExecuteStaleFails`: `StaleCommit` gives what its journal
handle does to a bank that was reseeded underneath it, up to a bank that no longer opens.

Retained CLEAR_ON_RESET state, load and domain entries are left out: none of them
decides where a heap lives.

### Endpoint

The host wraps commands; `wire` holds every message it ever sent, and `Deliver`
takes any of them at any time, which gives loss, duplication and reordering. A key
is the pair (host challenge, card sequence number) that both sides derive session
keys from; a MAC verifies when key and chain are those it was made for. The
card's part follows `Endpoint::handle` branch by branch. The sequence window in
RAM and its reservation in the registry (`next_secure_channel_sequence`) are
modelled with commits that fail and are or are not durable. The model is the
JCVM build, in which plain commands reach the selected applet directly.

### AppletMemory and JcvmApplet

The slab is a sequence of cells, header or payload word, with a bump pointer, so a
reference, an allocation tail and a moved object are what they are in the code. A
transaction logs before-images; `Mark` is the tracker of dirty ranges that overflows
into "everything" at `MaxSpans`; `Save` builds the record from the previous record
and the tracked ranges, never from memory as a whole. Deletion requests are served
between callbacks by a compaction (`Collect`), which moves objects, drops dead ones and
marks what it touched. PIN presentation is one action per durable effect, so that
a cut falls between spending and comparing. Every error ends in `Recover`, which
rebuilds the applet from flash as the session does; parking keeps reset-scoped
arrays, a power loss clears them. `deselect()` runs applet code like any callback, before
the arrays of that scope are cleared. The three PIN classes differ in what spends a
try and when; `setTryLimit`, `setTriesRemaining` and `setValidatedFlag` are operations of them.

`AppletMemory` promises, without slab or patch: saved state is always the applet's
own with the open transaction undone, PIN tries excepted. The refinement maps both
slabs through `View`, which follows references from the roots and so does not see
addresses.

### JcvmCrypto

An object is its native words plus the contents of its persistent and its scoped
array. A message byte is its position, so a stream that loses, repeats or reorders
one is seen; keys and chains are tokens. Words follow the transaction, scoped arrays
follow resets, the pseudo-random chain follows neither. `ValidSaved` is
`validate_saved_security`. `prng` is history: what was drawn in this command and what
left the card.

### JcvmVm

Bytes are kept, because instruction boundaries are what is verified; data words are
`Zero`, `Number` or references. `Reachable` is `Boundaries::reachable`, `Verify` the load-time
passes, `Instructions` one action per group of opcodes, `Unwind` the search for a
handler, `Stop` and `Cancel` the ends of a command. Frames are laid over one arena whose
old contents stay. A word keeps its bits when an
instruction gives it another tag, and the words of fields and statics carry none, so a
number can come back as a reference. `Converted` says what a converter guarantees
and the loader does not check: a handler stays inside its method, try blocks nest and the
last one is marked, a catch names a class. A number used as a reference
denotes null, any object or none (`Denotes`); the middle of an object is not represented.

### Mc04Application

`flash` and `ram` are one state per domain (store, credential, instance), `tx` the copy a
transaction keeps over several commands, `run` the command in progress with its staged
copy and retry floors. Every commit may fail either way and poison the journal;
`ApplicationOutcomes`, `MetadataOutcomes` and `CheckpointOutcomes` include the recovery, which may
fail too, where the code runs one. Callbacks of selection and installation
run over up to two domains and commit together. A checkpoint that fails with `Quota` or
`Bounds` ends the command as a managed exception does, any other error as a fault.

### Mc04Packages

A package is what its signed manifest says: domain, assembly and its version, package
version, signer, incarnation, dependencies, capabilities, and to whom it is exported. A
dependency admits a set of assembly versions and may pin package version, signer and
digest (`Matches`). `Bootable` is the validation at start-up;
`Resolves`, `ProviderInUse` and `NoRollback` are the rules of activation and removal. `slots` holds the
image in each slot, a slot being programmed is torn until `Programmed`; `held` is
`uncommitted_images`. Any verified command other than LOAD first drops a declared upload
(`AbortsLoad`), which is why no other handler has to.

### Mc04Vm

Verification is the two passes of the code, each a work list in `pending` (stack heights,
then types per block start). A type is a class of the unit or a row of its type
references, which is a name and a scope: two units have no common classes, only names. `Link` binds member references and runs the effect
analysis of the program graph. Then the interpreter runs, one action per instruction
group. `Binds` compares as the code does: assembly, version and name across units, and for a
framework type the name alone, whatever the scope. All framework services are one opaque
object. `shapes` is history: the types the verifier accepted at each instruction.

### BoardRuntime

Interrupt tasks run to completion at their priority, so each is one action. The
worker is a step per access to shared state, because it is preempted anywhere; the head of
its loop is five (`WorkerHead`, `WorkerReset`, `WorkerTake`, `WorkerTaken`,
`WorkerIdle`): the reset flag, the endpoint's reset, the request, the busy mark,
the idle mark. `link` is the pipe, the channel between pipe and worker (an external crate,
modelled from its use), and the IN endpoint. The host may abort by either half first,
unplug, replug, reset the bus, and take packets late; a loss of VBUS leaves the IN endpoint
busy until the bus reset. A start-up that fails ends in a loop that serves CCID and restarts
on the fault-reset command (`BootHalts`, `HaltedReset`); a USB task that fails blocks
everything until the supply is cut (`UsbHalts`).

The firmware has no lock around the reset flag and the request. An unplug, a replug and
the first request of the new session that all fall between the worker's read of
`RESET_PENDING` (`rtic_runtime.rs:218`) and its `take_request` (`:222`) would reach a card that has not been reset.
`EnumerationIsSlow` states the timing that rules this out: the host's first request after
a replug takes a bus reset, enumeration and a power-on, the worker a few
instructions, though nothing in the code enforces it. With the constant `FALSE` TLC finds `SessionIsolated`
violated in exactly this way.

## 3. Runs

| Run | Bounds | Shows |
|---|---|---|
| `journal_append` | 2 slots, 2 values, 2 anchors, 3 nonces, 4 sequence numbers, 2 frames | `JournalInv` (types included), unique nonces, handle agrees with flash, refinement of `DurableCell` |
| `journal_ring` | 3 slots, 5 nonces, one decay | recoverability of sound flash, and no rollback over a full rotation |
| `jcvm_card` | 2 applets, 2 banks, 6 registry nonces, heap counters to 3, 2 faults, fairness | no applet state is lost, keys are not reused, identities advance, a published renewal is resolved |
| `endpoint` | 2 host sessions of 3 commands, 1 fault, ceiling 3, window 2, counter to 2 | commands run in order and at most once, challenges and response counter blocks are unique, uploads and listings are continued only by their session |
| `applet` | 20 cells, 2 before-images, 2 dirty spans, 2 tries, 3 operations a command, 6 applets | a saved record is sound, except for old payload under a reset-scoped array; a try is durable before the comparison, refinement of `AppletMemory` |
| `crypto` | blocks of 2, messages to 5, 4 objects, 3 tokens, 26 applets | saved objects load, streams keep bytes, pseudo-random output does not repeat |
| `jcvm_vm` | 4 applets with all their one-byte variations a converter could make and one catch above a library class, 4 frames, 40 instructions, fairness | only verified instructions run, a word's tag lies only after a field or static read, innermost handler up to one passed-over kind, commands end |
| `mc04_application` | 2 domains, 2 tries, 1 unblock, transactions of 2 commands, 2 calls a command | guesses are bounded, RAM agrees with flash, open transactions do not reach flash |
| `mc04_packages` | 2 domains, 3 incarnations, 4 image slots, 2 assemblies a domain, 6 packages with pins, a version range and a restricted export | every durable snapshot starts, live images are intact, no version or signer goes back |
| `mc04_providers` | the same with two matching providers | a finding, section 5 |
| `mc04_vm` | programs with branches, loops, calls and class-typed calls across units with namesakes, 3 frames, 16 instructions, Int32 of 2 bits, fairness | verified types hold at run time up to names, which forms fault, irreversible output, termination |
| `board` | 4 sequence numbers a session, 2 losses, 1 failed maintenance, replies of two packets, fairness | whose answer a host accepts, resets and the ownership word in their order, accepted transfers end |

Why the bounds suffice to meet the interesting cases: two slots with three nonces
rotate the journal once around and interrupt a retry; `FrameCap` 2 fills an
append area; three slots with five nonces reuse every slot. In `JcvmCard` six
registry nonces allow two installs and a renewal with one interrupted commit,
`HeapCap` 3 makes a heap reach its renewal threshold, and two faults
cover an error followed by a cut during the repair. In `Endpoint` a window of two
under a ceiling of three is refilled once and then exhausted, and three commands
reach the command counter's end. In `JcvmApplet` 20 cells are enough to allocate,
drop and collect, two spans make the tracker overflow, and two before-images
exhaust the log. In `JcvmCrypto` messages of five over blocks of two stop at, before
and after a block boundary twice. In `Mc04Application` two tries and
two-command transactions let a guess, a transaction and an abort overlap; in
`Mc04Packages` four slots and two assemblies force a slot to be reclaimed while a
failed commit is unresolved. In `Mc04Vm` `MaxStates` and `MaxFuel` are small enough
that some program meets each. In `BoardRuntime` four sequence numbers allow a transfer,
an abort and another transfer, and two losses leave packets of one session to the next. The bounds of counters are limits the code also has;
`MaxFaults`, `MaxLosses`, `MaxSessions`, `MaxCommands`, `MaxSeq`, `MaxInc` and `MaxToken` bound the
environment. `Budget` and `MaxFuel` are the code's instruction budget, smaller.

`CHECK_DEADLOCK FALSE`: a journal may really stop, either because its counters
are used up or because the first commit was torn and recovery refuses it
(`journal.rs:285`); a card may refuse to boot with `Quota` once its registry
counter is spent; a board halts with a diagnostic; verification or execution is
over; a domain's or a slot's limit is reached; an applet whose recovery fails stays
dead. The `endpoint` and `crypto` runs check deadlock.

## 4. Fairness

`RenewalResolves` assumes weak fairness of the card's own steps (they are
straight-line code that runs to completion or fails) and of the power cycle of a
card that refuses every command. The second is an assumption on the
environment: `docs/STORAGE.md:182` says the board reboots after a maintenance
failure, but the worker in `board/nrf52840/src/rtic_runtime.rs` sets `FAULTED` and
answers 6581 until the host sends the fault-reset command or power is cycled, as
`docs/BOARD.md:97` describes. Nothing inside the card forces the boot that
finishes the renewal, so without the assumption the property does not hold.
Faults are bounded, so that a renewal is not interrupted for ever, and the property
excludes a registry whose own counter is used up.

`Terminates` and `CommandsEnd` assume only that verifier, interpreter and dispatch loop
do not pause: they are loops without a wait. `AcceptedTransfersEnd` assumes weak
fairness of the USB interrupt, the 1 ms tick and the worker separately (the interrupt
controller and RTIC run what is pending, and none of the higher tasks blocks), and of a host
that waits for an answer: it reads the IN endpoint and asks for the next block.

## 5. Findings

* `mc04_providers`: activation resolves the dependencies of the new package only. A
  second provider that matches an accepted consumer's dependency is accepted; the
  next start resolves the consumer again, finds two providers
  (`core domains/linking.rs:502`), compares with the recorded binding
  (`domains.rs:278`) and refuses the card. `docs/ARCHITECTURE.md:77` and
  `docs/STORAGE.md:16` promise otherwise. The packages of `mc04_packages` have at most
  one provider for each dependency.

Observations. Each was met while modelling and decides how a property is stated
or which instance is explored; none is checked by a run of its own.

Storage and management:

* A cut between publication and the old slot's completion word leaves the reclaim
  window open after the new record was adopted (`journal.rs:281-283`). If that record then
  decays, recovery returns the old one, unlike the name of the test at
  `journal/tests.rs:173`. Anchored state is not affected, which `NeverRollsBack` shows.
* A renewal that fails behind a management command leaves the old session selected
  (`jcvm_card.rs:245`), although `jcvm_storage/session.rs:42` forbids stale execution. An ordinary
  append of that session is acknowledged and never read, or makes the bank's replay fail; a snapshot or an anchored
  append leaves a bank the next start cannot open, and the card does not start. The model has all of
  these; `HeapNeverLost` is stated for behaviours in which no such session wrote (`~stale`).
* The wrapped bootloader command keeps the listing cursor (`transport.rs:267`);
  `docs/GLOBALPLATFORM_PROFILE.md:22` says another command clears it.

JCVM applet and native objects:

* An applet that saves a byte array, drops it by a collection in SELECT and allocates a
  reset-scoped array over the same range leaves the old payload in its record: only the
  header of the transient array is tracked (`vm/heap.rs:340`). `docs/JCVM_RECOVERY_CONTRACT.md:16`
  has transient contents cleared. Recovery refuses such a record, and the applet is dead. An applet of the run does this:
  `RecordIsValid` says that a record has no other defect, and only in cells (`Leftovers`) that an
  earlier record had already saved and the transient array was allocated over.
* The factory constructs `Cipher` 12 where raw RSA is built in, and
  `natives/security/saved_state.rs:82` refuses it at load; `RecordLoads` leaves it out.
* An aborted `init` leaves the scoped stream of the new key (`docs/JCVM_RECOVERY_CONTRACT.md:19`
  is not true of AES-MAC 18 with an IV and of DES MACs). History `stale` marks such objects.
* A closed one-shot digest handle can become valid again; the transient halves of a key pair mix
  generations after an abort; `update(all)` followed by an empty `doFinal` of a method-1
  padded decryption raises ILLEGAL_USE.

JCVM virtual machine:

* The generated table gives `istore` length 1 (`jcvm_opcodes.rs:45`), the dispatcher reads its
  operand (`vm/exec.rs:562`).
* `Boundaries::reachable` makes every target a boundary, so the later target check cannot
  fail, and overlapping instructions are accepted. They are verified as decoded, so
  `RunsVerifiedCode` holds.
* `vm/frame.rs:6-10` and `docs/JCVM_PROFILE.md:255` say that a reference cannot be made from a number
  whatever the bytecode does. Words of fields and statics carry no tag (`vm/exec.rs:1228-1240`,
  `1303-1310`): `putfield_s` of a number and `getfield_a` of the same word make one.
  `WordsKeepKind` says that those reads are the only place.
* `class_matches_target` compares a class of the applet with the first library class it extends and
  not with that one's superclasses (`link.rs:278`), so `catch (CardException)` misses an applet's subclass of
  `UserException`, which the search at `vm/exec.rs:362` means to find. A package of the run does this;
  `InnermostHandler` leaves out exactly these blocks (`PassedOver`).
* `find_handler` bounds a handler by the component's end and not by its method (`Converted` keeps it
  inside), and an `invokespecial` of an external virtual method or a virtual call on a primitive array starts at
  the first class; these are modelled as they are.

MC04:

* A lifecycle callback over two domains commits their retry floors one after the other and stops at
  the first error (`domains/lifecycle.rs:106`; `docs/TRANSACTIONS.md:43`). One domain of the run has a PIN.
* A callback that spends a try and then proves the PIN leaves flash one try short, on the
  safe side. `RamAgrees` therefore compares store and instances.
* When recovery after a failed commit fails too, RAM may be ahead of flash (`doubt`).
* Uninstalling the selected application leaves the selection dangling until the next one.
* Bound framework calls skip the stack quota check (`mc04_vm.rs:471`). `call` of an instance method, `newobj`
  of something that is no constructor and a type whose field list runs backwards are
  verified and refused at run time: `OnlyCallFormsFault` lists them.
* The linker ignores the scope of a framework type (`mc04_imports.rs:20-35`) and compares classes of two units by
  assembly, version and name (`assembly/validation.rs:97-145`); two types of one name in an assembly are not refused. A method
  verified for its own class can therefore be given a framework object, or an object of a namesake. The interpreter checks
  every access again and answers `Format` or `Unauthorized`. `StackMatchesVerifier` keeps
  classes by name (`GoesBy`), and the accesses to a `Namesake` are among the forms of `OnlyCallFormsFault`.

Board:

* An abort or a bus reset while the worker executes, followed by a transfer, leaves the
  channel cancelled until power is cycled; `docs/CCID_PROFILE.md:26` describes an abort that cancels the
  running command and leaves the slot in use. A bus reset resets neither pipe nor endpoint, and a reply
  left in the outbox then is sent to the next session. `AcceptedTransfersEnd` is stated for
  an accepted transfer that found the outbox empty. After three such resets a host can take the
  ATR an earlier session left for the answer to its own power-on, and then a block of that session;
  `NoForeignAnswer` is stated for up to two.
* A long transfer cut by a replug swallows the packets that follow; a request of the old session that the
  worker had not taken yet runs after the replug, on a reset card.
* A cut between the ownership word and the first commit refuses the next start, as
  `docs/BOARD.md:20` accepts.

Assumptions of `BoardRuntime`: `EnumerationIsSlow` (section 2) for `SessionIsolated`; a loss of
VBUS outlasts a tick, a reading host empties the IN endpoint within the time extension, a CCID
message fits a packet.

## 6. Proofs

The theorems hold for every value of the constants that the named assumptions of a
module allow: any number of slots, applets, banks, domains, sessions or packages, any
counter width, any number of errors and power cuts. Each proof module states an
inductive invariant first; TLC checked each one on the instance of its run
before it was proved (where one quantifies over all sets, over the subsets of the
instance). There is one lemma per action, and a theorem combines them.

### Journal

* `JournalTypeCorrect`: `Spec => []TypeOK`.
* `JournalInvariantHolds`: `Spec => []JournalInv`.
* `JournalAlwaysRecoverable` and `JournalNeverRollsBack` follow from it.
* `JournalNoncesNeverRepeat`, `JournalHandleMirrorsFlash`.
* `JournalImplementsDurableCell`: `Spec => ImplementsDurableCell`, under `~DamageAllowed`.
  Decay can take a record away, which no durable cell does, so the refinement is about
  sound flash; recoverability and rollback are stated with decay.

Recoverability is not inductive as it stands. The invariant says that, unless
flash has decayed, either nothing was ever stored or some slot `c` is `Safe`:
`NewestIs(c)` (its record is strictly newer than any other readable one, and a
damaged slot exists only where `c` carries the intent to replace it),
`CoversKnown(c)` (it is as new as what was acknowledged and within one step of
the anchor) and `HandleInv(c)` (how handle and operation in flight relate to
`c`, step by step). Every step preserves `Safe` of the same slot, except the commit
marker, which hands the role to the target slot. `Interrupt` is proved by cases on the
interrupted step. `NewestIs(c)` then determines the scan: the selected slot is `c`, and
the interrupted-reclaim rule accepts it.

For the last three theorems the invariant grows by `LinkInv` (where handle and
operation point), `MirrorInv` (the handle's offset is the one a scan would find, at
every step of a frame) and `SealInv` (a nonce belongs to one slot and its
append offsets are spent in order, so a torn frame's offset is never used again).
These hold of decaying flash too. The refinement maps the cell to the newest record;
the commit marker, the frame marker, or the interruption of either is the step that
replaces it, and every other step stutters.

### JcvmCard

`CardHeapNeverLost`, `CardEpochNeverRestarts` and `CardIdentityAdvances` follow from
`CardInvariantHolds`. `HeapNeverLost` speaks of what a boot would find and not of
why nothing overwrites it, so `CardInv` adds who owns what: no two entries name one
bank (`BankInv`), the staged record of a pending renewal is not overwritten and no
upload is open (`RenewalInv`), identities come in order from the registry's nonces
(`IdInv`), and what each step of a renewal or an install has established (`OpInv`). The
part that is easy to get wrong is `SessionInv`: a renewal that fails behind a
management command leaves its session selected. While the renewal is pending that
session commits nothing under its identity, because its bank no longer opens under it, or
because one of its counters is too low and it is told to renew first. What it may still do
to a reseeded bank is `ExecuteStale` (section 5): from then on `BankInv` keeps only the
identity of a bank, not that it opens, `HeapNeverLost` says nothing, and the other two
theorems still hold.

### Endpoint

`EndpointCommandsRunInOrder`, `EndpointChallengesNeverRepeat`,
`EndpointResponseIvsNeverRepeat` and `EndpointContinuationsAreContiguous` follow from
`EndpointInvariantHolds`. The link may repeat, reorder and drop anything, so the
invariant is about the set of all messages ever sent: those of one key are prefixes of
one chain (`LinkInv`); what is left of a reserved counter range is its end and was never
handed out (`CounterInv`); the session's command counter is the length of its chain
(`SessionInv`); and under the key of the open session exactly the commands of
that chain have run (`LogInv`).

### JcvmCrypto

`CryptoPseudoNeverRepeats` follows from `CryptoInvariantHolds`. A chain lives in the heap,
in the record and, as a position to ignore, in the snapshot of a transaction; the
invariant says where each stands. Chains start from different draws of entropy
(`ChainsApart`, `ChainsDrawn`); the heap's chains are at or past every value
drawn from them, the record's at or past every value that left the card (`Beyond`); and
a source of the snapshot is still a source of the heap (`Covers`), so that an abort
takes the position of the heap. A value drawn and not sent may be drawn again after a
cut, and only then. `Kept` is the step all calls on other objects share, `NewChain`
the one of `getInstance` and `setSeed`. `genKeyPair` writes two objects that a third one
names, so the invariant includes that a joined pair names keys (`PairsJoined`).

`CryptoRecordLoads` is about the record, and a record is made of the heap at a moment
the applet chooses, or of the heap an abort returned to. `RecordInv` therefore says of all
three that they load (`Loads`, class by class: which words any sequence of calls can
leave in a key, a cipher, a pair), and that at most one temporary digest is open. `Alike`
is the step most calls share: an object keeps the words that matter to a record.

`CryptoStreamKeepsBytes` needs the shape of a stream and not only its sum: `StreamInv` says
that the released bytes are a run from 0 and the held ones the run that follows
(`Flows`), that a chaining value has counted the released blocks, which streams release nothing
and which hold a block back (`Tracks`). An abort restores words under a stream
that goes on, so the snapshot must agree with the heap on the kind of every stream, and on
whether it has its array (`Fixed`); the record holds no stream at all. What is held and
released is arithmetic on block boundaries, proved once for all block sizes.

The theorems assume `CryptoConstants`: the bounds are natural numbers, block size and
token bound positive.

### Mc04Application

`ApplicationRamAgrees` and `ApplicationTransactionIsInvisible` follow from
`ApplicationInvariantHolds`. While a command runs RAM and flash differ, so
`AgreeInv` relates RAM, the staged copy, the snapshot of the transaction and flash in each
phase. `ApplicationGuessesAreBounded` needs `GuessInv` beside it: the wrong
guesses answered and the tries left fit in the limit wherever tries are kept (flash,
RAM, staged copy, snapshot, floor), counting a guess that was compared and not yet
written down. It assumes `OnePinDomain`, that at most one domain's code uses a PIN or a
PUK, as in the run: a callback over two domains writes their floors one after the
other, and the second is lost when the first commit fails (section 5).

### Mc04Packages

`PackagesLiveImagesIntact` and `PackagesNeverRollBack` follow from
`PackagesInvariantHolds`: the durable snapshot is RAM or a successor of it (`Ahead`),
both name intact images (`Sound`), every image of the durable one is protected, and an
activation under way was admitted against the RAM it will change and writes to a
slot nothing needs.

### Mc04Vm

`VmIrreversibleOutsideTransaction` is about every program, not those of the run.
The linker finds a set of methods that holds all transactional ones, that
calls do not leave and in which nothing irreversible is called (`Effects`). The interpreter's stack is not
that graph: what the invariant `VmInv` must say is that the frames are a chain of it.
`Chained` states this without naming a path: whatever set of methods calls do not leave, if
it holds the method of a frame it holds those of all frames above. A call
pushes an edge of the graph (`CallEdge`, from the bindings the linker checked), a return
pops, every other instruction moves the position of the top frame. The frame of the irreversible call is outside
the linker's set, so none below it is transactional. `ProgramTables`, the only assumption, says
that a program has an entry unit and that method tables are sequences.

### BoardRuntime

`BoardOwnSessionAnswer`, `BoardSessionIsolated` and `BoardOwnedBeforeState` follow from
`BoardInvariantHolds`. An answer's way leads through worker, channel, pipe
and endpoint, and an abort or a bus reset leaves a packet in any of them; the
invariant says for each what it may hold of the host's session in each phase of
the host (`LinkInv`, `HostInv`), and which era of the power line a request belongs to
(`SessionInv`).
`BoardSessionIsolated` is proved under `EnumerationIsSlow`; the other theorems do not need it.

`BoardResetAfterAnswer` rests on a second layer, `AnswerInv`. While the host waits, the
fault-reset request has not reached the channel (`Quiet`), is with the worker,
whose answer is one short block (`Working`), or has its answer in outbox or endpoint, or
dropped with the marks that would drain it (`Settled`). The host leaves that state
only by reading the answer, because it can take no other block for it: a block it reads
in two pieces is a full one, and every full block left by an earlier command
or session carries an older number (`TailInv`).

### Only model-checked

* Liveness (`RenewalResolves`, `Terminates`, `CommandsEnd`, `AcceptedTransfersEnd`), out of
  the prover's reach.
* `NoForeignAnswer` is bounded by its own statement: with up to two interrupted sessions
  a host accepts only its own answer. Three bus resets defeat it, by a stale ATR in
  the outbox. `BoardOwnSessionAnswer` is the part that holds without a bound.
* `CardBoots`: it does not hold for every set of packages, which is the finding of
  `mc04_providers`.
* `StackMatchesVerifier` and `OnlyCallFormsFault` of `Mc04Vm`, and everything about `JcvmApplet`
  and `JcvmVm`. They rest on what a fold over a branch table, a slab or a byte string returns
  for every input, which needs an induction the provers cannot do.

## 7. Plan

Done: the journal (checked and proved), card core, endpoint, applet memory, native
objects, both virtual machines, MC04 applications and packages, board runtime; the
proofs of section 6. Next, in order:

1. The proof of `SpentBeforeCompared` of `JcvmApplet`, the part of that module that needs
   no induction over data.
2. A registry metadata module for the JCVM build: load and domain entries, version and
   incarnation rules, image pins, the retained entry after a failed delete, the commit
   budget of a retried renewal.
3. Retained CLEAR_ON_RESET state in `JcvmCard`, composed with `JcvmApplet`.

## 8. Not modelled

Codecs, the decoding of CAP components and of assembly tables, and package signatures
are pure functions over byte formats. Cryptographic primitives are ideal. The MC04
managed heap's collector, the key store's policies and the native cryptographic calls of
MC04 return values without protocol state. The portable CCID slot
(`core ccid.rs`) runs in tests and fuzzers only. The dongle's UF2 entry, diagnostic
commands and latency trace are build options. The managed build tools, the wallet,
fuzz targets, simulator and the other vendored code do not run on the card.
`PROJECT.json` gives the reason for each component.
