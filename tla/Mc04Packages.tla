---------------------------- MODULE Mc04Packages ----------------------------
(***************************************************************************)
(* Package management of the MC04 engine: security domains, signed         *)
(* packages, their images in flash slots, dependencies between packages,   *)
(* instances, and the one metadata snapshot that names them all.  An       *)
(* activation stages the image in a slot nothing needs, then commits the   *)
(* snapshot; a commit may fail with the old or the new snapshot durable.   *)
(* The uploads (Endpoint) and the applications' own state                  *)
(* (Mc04Application) are elsewhere.                                        *)
(***************************************************************************)
EXTENDS Integers, FiniteSets

CONSTANTS
  Ssds,     \* supplementary security domain identifiers
  Isd,      \* the issuer security domain
  Root,     \* "mscorlib"
  Pkgs,     \* signed packages that may be sent, see PackageType
  NoPkg,    \* no package
  MaxInc,   \* bound on the incarnations drawn
  Slots,    \* image slots are 1 .. Slots
  MaxAsm    \* policy: assemblies of one domain

Domains == Ssds \cup {Isd}
Asm == {p.asm : p \in Pkgs}
Signers == {p.signer : p \in Pkgs}
Digests == {p.digest : p \in Pkgs}
\* A dependency: the assembly versions its ranges admit, pins of the package
\* version (0 for none), the signer and the digest (NoPkg for none), and the
\* scope, 0: same domain, 1: issuer domain, 2: either.
Deps ==
  [asm : Asm, admits : SUBSET Nat, ver : Nat, signer : Signers \cup {NoPkg},
   digest : Digests \cup {NoPkg}, scope : 0 .. 2]
\* ver orders updates, asmver is what ranges compare; export is the set of
\* signers that may link to the package (DependencyExport::allows).
PackageType ==
  [dom : Domains, asm : Asm, ver : Nat \ {0}, asmver : Nat \ {0}, signer : Signers,
   digest : Digests, inc : Nat \ {0}, deps : SUBSET Deps, export : SUBSET Signers,
   gpio : BOOLEAN, entry : BOOLEAN]

ASSUME PackagesConstants ==
  /\ Isd \notin Ssds /\ Pkgs \subseteq PackageType /\ NoPkg \notin Pkgs
  /\ \A p, q \in Pkgs : p.digest = q.digest => p = q
  /\ MaxInc \in Nat \ {0} /\ Slots \in 2 .. 64 /\ MaxAsm \in Nat \ {0}

VARIABLES
  flash,    \* the durable snapshot
  ram,      \* Mc04Engine::state
  poisoned, \* the journal refuses commits until it is recovered
  slots,    \* content of each image slot, NoPkg when it is torn or blank
  held,     \* uncommitted_images
  staged,   \* package in the staging area
  load,     \* load file the host declared, NoPkg for a plain upload
  act,      \* activation between erasing its slot and committing, or Idle
  born      \* incarnations drawn so far

vars == <<flash, ram, poisoned, slots, held, staged, load, act, born>>

-----------------------------------------------------------------------------
Slot == 1 .. Slots
DomainStates ==
  [inc : 0 .. MaxInc, key : Signers \cup {NoPkg}, gpio : BOOLEAN,
   ver : [Asm -> Pkgs \cup {NoPkg}],       \* versions: kept past removal
   img : [Asm -> 0 .. Slots],              \* image_refs, 0 for none
   bind : [Asm -> SUBSET Pkgs],            \* digests the links resolved to
   inst : SUBSET Asm]
Fresh(inc) ==
  [inc |-> inc, key |-> NoPkg, gpio |-> TRUE, ver |-> [a \in Asm |-> NoPkg],
   img |-> [a \in Asm |-> 0], bind |-> [a \in Asm |-> {}], inst |-> {}]
Absent == Fresh(0)
Idle == [slot |-> 0, pkg |-> NoPkg, bind |-> {}]

Present(s, x) == s[x].inc # 0
Active(s, x, a) == s[x].img[a] # 0
IsOwned(s) == s[Isd].key # NoPkg /\ Active(s, Isd, Root)
Images(s) == {s[x].img[a] : x \in Domains, a \in Asm} \ {0}
AllBindings(s) == UNION {s[x].bind[a] : x \in Domains, a \in Asm}

\* provider_in_use: some package is linked to this exact version.
ProviderInUse_Never(s, x, a) == FALSE          \* Mutant: links are not counted
ProviderInUse(s, x, a) == s[x].ver[a] # NoPkg /\ s[x].ver[a] \in AllBindings(s)

\* Dependency::matches_parts, and the provider's consent to the consumer's key.
Matches(dep, q) ==
  /\ dep.asm = q.asm /\ q.asmver \in dep.admits /\ dep.ver \in {0, q.ver}
  /\ dep.signer \in {NoPkg, q.signer} /\ dep.digest \in {NoPkg, q.digest}
Exports(q, p) == p.signer \in q.export

\* resolve_dependency: the one active provider in scope, none when two match.
Providers(s, x, p, dep) ==
  {s[y].ver[dep.asm] : y \in {y \in Domains :
     /\ (y = x /\ dep.scope \in {0, 2}) \/ (y = Isd /\ dep.scope \in {1, 2})
     /\ Active(s, y, dep.asm)
     /\ Matches(dep, s[y].ver[dep.asm]) /\ Exports(s[y].ver[dep.asm], p)}}
Resolves(s, x, p) == \A dep \in p.deps : Cardinality(Providers(s, x, p, dep)) = 1
Links(s, x, p) == UNION {Providers(s, x, p, dep) : dep \in p.deps}

-----------------------------------------------------------------------------
\* commit_metadata_snapshot; every caller restores RAM after an error.
Commits(new) ==
  \/ /\ ~poisoned
     /\ flash' = new /\ ram' = new /\ held' = {} /\ UNCHANGED poisoned
  \/ /\ ~poisoned
     /\ flash' \in {flash, new} /\ poisoned' = TRUE /\ UNCHANGED <<ram, held>>
  \/ UNCHANGED <<flash, ram, poisoned, held>>
Quiet == act = Idle
Clear == staged' = NoPkg /\ load' = NoPkg
\* Any verified command but LOAD aborts a declared upload, and so does a LOAD
\* that fails; what a plain upload has staged stays.
AbortsLoad == IF load = NoPkg THEN UNCHANGED <<staged, load>> ELSE Clear
Update(new) == Commits(new) /\ AbortsLoad /\ UNCHANGED <<slots, act, born>>

Init ==
  /\ flash = [x \in Domains |-> IF x = Isd THEN Fresh(1) ELSE Absent]
  /\ ram = flash /\ poisoned = FALSE
  /\ slots = [s \in Slot |-> NoPkg] /\ held = {}
  /\ staged = NoPkg /\ load = NoPkg /\ act = Idle /\ born = 1

\* manage 0xe0, INSTALL [for install] of a domain: a random incarnation.
CreateDomain(x) ==
  /\ Quiet /\ IsOwned(ram) /\ ~Present(ram, x) /\ born < MaxInc
  /\ born' = born + 1
  /\ Commits([ram EXCEPT ![x] = Fresh(born + 1)]) /\ AbortsLoad
  /\ UNCHANGED <<slots, act>>

\* update_domain_policy: only of a domain nothing was ever loaded into.
SetPolicy(x, gpio) ==
  /\ Quiet /\ Present(ram, x) /\ ram[x].key = NoPkg /\ ram[x].gpio # gpio
  /\ Update([ram EXCEPT ![x].gpio = gpio])

\* remove_domain: both commands reset the staging area once the commit
\* succeeded, and a declared load was aborted before they ran.
DeleteDomain(x) ==
  /\ Quiet /\ Present(ram, x)
  /\ Commits([ram EXCEPT ![x] = Absent])
  /\ IF ram' # ram THEN Clear ELSE AbortsLoad
  /\ UNCHANGED <<slots, act, born>>

\* Upload of a whole package, with or without a declared load file AID.  The
\* first command of either upload drops what was staged before.
StagePackage(p, declared) ==
  /\ Quiet
  /\ declared # NoPkg => Present(ram, declared.dom)
  /\ staged' = p /\ load' = declared
  /\ UNCHANGED <<flash, ram, poisoned, slots, held, act, born>>

\* manage 0xe6, and any command that is refused while a load is declared.
AbortUpload ==
  /\ Quiet /\ Clear
  /\ UNCHANGED <<flash, ram, poisoned, slots, held, act, born>>

-----------------------------------------------------------------------------
\* manage 0xea up to activate_package: what an activation is checked for.
NoRollback_Unchecked(p) == TRUE                  \* Mutant: any version passes
NoRollback(p) ==
  LET v == ram[p.dom].ver[p.asm]
  IN v # NoPkg => p.ver > v.ver \/ p = v
Fits(p) ==
  /\ Active(ram, p.dom, p.asm) \/ Cardinality({a \in Asm : Active(ram, p.dom, a)}) < MaxAsm
  /\ ram[p.dom].ver[p.asm] # NoPkg
       \/ Cardinality({a \in Asm : ram[p.dom].ver[a] # NoPkg}) < MaxAsm
Acceptable(p) ==
  /\ load # NoPkg => load = p
  /\ Present(ram, p.dom)
  /\ p.dom # Isd => IsOwned(ram)
  /\ p.dom = Isd /\ ram[Isd].key = NoPkg => p.asm = Root /\ ~p.entry /\ p.deps = {}
  /\ Resolves(ram, p.dom, p)
  /\ Active(ram, p.dom, p.asm) => ~ProviderInUse(ram, p.dom, p.asm)
  /\ p.gpio => ram[p.dom].gpio
  /\ p.inc = ram[p.dom].inc
  /\ ram[p.dom].key \in {NoPkg, p.signer}
  /\ NoRollback(p)
AlreadyActive(p) == ram[p.dom].ver[p.asm] = p /\ Active(ram, p.dom, p.asm)

\* Descriptors no slot may be taken from: committed, pending and uncertain.
Protected_RamOnly == Images(ram)                 \* Mutant: uncertain ones dropped
Protected == held \cup Images(ram)

\* Images::stage: reuse a protected slot with the same bytes, or erase a free
\* one.  The activation holds its slot and commits later.
Activate ==
  /\ Quiet /\ staged # NoPkg
  /\ LET p == staged IN
     /\ Acceptable(p) /\ ~AlreadyActive(p)
     /\ p.asm \notin ram[p.dom].inst /\ Fits(p)
     /\ LET same == {s \in Protected : slots[s] = p}
            free == Slot \ Protected
            take(s) == act' = [slot |-> s, pkg |-> p, bind |-> Links(ram, p.dom, p)]
        IN IF same # {} THEN take(CHOOSE s \in same : TRUE) /\ UNCHANGED slots
           ELSE /\ free # {}
                /\ LET s == CHOOSE s \in free : \A t \in free : s <= t
                   IN take(s) /\ slots' = [slots EXCEPT ![s] = NoPkg]
  /\ UNCHANGED <<flash, ram, poisoned, held, staged, load, born>>

ActivateAgain ==
  /\ Quiet /\ staged # NoPkg /\ Acceptable(staged) /\ AlreadyActive(staged)
  /\ Clear
  /\ UNCHANGED <<flash, ram, poisoned, slots, held, act, born>>

ActivateRefused ==
  /\ Quiet /\ staged # NoPkg
  /\ ~Acceptable(staged) \/ (~AlreadyActive(staged) /\
       (staged.asm \in ram[staged.dom].inst \/ ~Fits(staged)))
  /\ AbortsLoad
  /\ UNCHANGED <<flash, ram, poisoned, slots, held, act, born>>

\* Programmed and read back.
Programmed ==
  /\ act # Idle /\ slots[act.slot] = NoPkg
  /\ slots' = [slots EXCEPT ![act.slot] = act.pkg]
  /\ UNCHANGED <<flash, ram, poisoned, held, staged, load, act, born>>

\* A cancelled or failing write abandons the slot.
ActivateFails ==
  /\ act # Idle
  /\ act' = Idle /\ AbortsLoad
  /\ UNCHANGED <<flash, ram, poisoned, slots, held, born>>

\* activate_package, from publication in RAM to commit or undo.
ActivateCommits ==
  /\ act # Idle /\ slots[act.slot] = act.pkg
  /\ LET p == act.pkg
         new == [ram EXCEPT ![p.dom] =
                   [@ EXCEPT !.ver[p.asm] = p, !.img[p.asm] = act.slot,
                             !.bind[p.asm] = act.bind, !.key = p.signer]]
         kept == Protected \cup {act.slot}
     IN \/ /\ ~poisoned /\ flash' = new /\ ram' = new /\ held' = {} /\ Clear
           /\ UNCHANGED poisoned
        \/ /\ ~poisoned /\ flash' \in {flash, new} /\ poisoned' = TRUE
           /\ held' = kept /\ AbortsLoad /\ UNCHANGED ram
        \/ /\ held' = kept /\ AbortsLoad /\ UNCHANGED <<flash, ram, poisoned>>
  /\ act' = Idle
  /\ UNCHANGED <<slots, born>>

-----------------------------------------------------------------------------
\* install_instance_with_retries finds the package among the versions.
Install(x, a) ==
  /\ Quiet /\ Present(ram, x) /\ a \notin ram[x].inst
  /\ Active(ram, x, a) /\ ram[x].ver[a].entry
  /\ Update([ram EXCEPT ![x].inst = @ \cup {a}])

Uninstall(x, a) ==
  /\ Quiet /\ a \in ram[x].inst
  /\ Update([ram EXCEPT ![x].inst = @ \ {a}])

\* remove_package: the version stays, against a later rollback.
RemovePackage(x, a) ==
  /\ Quiet /\ <<x, a>> # <<Isd, Root>> /\ Active(ram, x, a)
  /\ ~ProviderInUse(ram, x, a) /\ a \notin ram[x].inst
  /\ Update([ram EXCEPT ![x].img[a] = 0, ![x].bind[a] = {}])

\* An application's own commit publishes the whole of RAM.
ApplicationCommits ==
  /\ Quiet /\ ~poisoned /\ ram # flash
  /\ flash' = ram /\ held' = {} /\ AbortsLoad
  /\ UNCHANGED <<ram, poisoned, slots, act, born>>

\* recover_committed_state after a fault or a failed application commit, with
\* the anchor reconciled or not.
RecoverState ==
  /\ Quiet
  /\ ram' = flash /\ poisoned' \in {FALSE, poisoned} /\ AbortsLoad
  /\ UNCHANGED <<flash, slots, held, act, born>>

\* A credential checkpoint recovers the journal but not the engine's state.
RecoverJournal ==
  /\ Quiet /\ poisoned
  /\ poisoned' = FALSE /\ AbortsLoad
  /\ UNCHANGED <<flash, ram, slots, held, act, born>>

-----------------------------------------------------------------------------
\* open_with_staging: what a start checks of the snapshot and its images.
PackageBoots(x, a) ==
  LET d == flash[x]
      p == d.ver[a]
  IN /\ p # NoPkg /\ slots[d.img[a]] = p
     /\ Resolves(flash, x, p) /\ d.bind[a] = Links(flash, x, p)
     /\ p.dom = x /\ p.asm = a /\ p.inc = d.inc /\ p.signer = d.key
     /\ p.gpio => d.gpio
ShapeBoots(d) ==
  /\ Cardinality({a \in Asm : d.ver[a] # NoPkg}) <= MaxAsm
  /\ \A a \in Asm : d.bind[a] # {} => d.img[a] # 0
  /\ d.key = NoPkg => d = [Fresh(d.inc) EXCEPT !.gpio = d.gpio]
InstanceBoots(x, a) == Active(flash, x, a) /\ flash[x].ver[a].entry
DomainBoots(x) ==
  /\ ShapeBoots(flash[x])
  /\ \A a \in Asm : Active(flash, x, a) => PackageBoots(x, a)
  /\ \A a \in flash[x].inst : InstanceBoots(x, a)
Bootable ==
  /\ \A x \in Domains : DomainBoots(x)
  /\ (flash[Isd].key # NoPkg) = Active(flash, Isd, Root)

PowerLoss ==
  /\ Bootable
  /\ ram' = flash /\ poisoned' = FALSE /\ held' = {}
  /\ act' = Idle /\ staged' = NoPkg /\ load' = NoPkg
  /\ UNCHANGED <<flash, slots, born>>

Next ==
  \/ \E x \in Ssds : CreateDomain(x) \/ DeleteDomain(x)
  \/ \E x \in Ssds, gpio \in BOOLEAN : SetPolicy(x, gpio)
  \/ \E p \in Pkgs, declared \in Pkgs \cup {NoPkg} : StagePackage(p, declared)
  \/ AbortUpload \/ Activate \/ ActivateAgain \/ ActivateRefused
  \/ Programmed \/ ActivateFails \/ ActivateCommits
  \/ \E x \in Domains, a \in Asm : Install(x, a) \/ Uninstall(x, a) \/ RemovePackage(x, a)
  \/ ApplicationCommits \/ RecoverState \/ RecoverJournal \/ PowerLoss

Spec == Init /\ [][Next]_vars

-----------------------------------------------------------------------------
\* Types; an activation in progress owns a slot nothing committed names.
TypeOK ==
  /\ flash \in [Domains -> DomainStates] /\ ram \in [Domains -> DomainStates]
  /\ slots \in [Slot -> Pkgs \cup {NoPkg}] /\ held \subseteq Slot
  /\ staged \in Pkgs \cup {NoPkg} /\ load \in Pkgs \cup {NoPkg}
  /\ act # Idle => /\ act.pkg = staged /\ act.slot \in Slot
                   /\ slots[act.slot] = act.pkg \/ act.slot \notin Images(flash)

\* Whatever failed and whenever power is lost, the next start accepts the
\* durable snapshot: its images are intact, its links resolve to what was
\* recorded, its signers, versions and instances agree.
CardBoots == Bootable

\* The images RAM names are intact too, so packages can run and be linked to,
\* and an activation under way writes to a slot nothing committed names (TypeOK).
LiveImagesIntact ==
  /\ TypeOK
  /\ \A x \in Domains, a \in Asm : Active(ram, x, a) => slots[ram[x].img[a]] = ram[x].ver[a]

\* Within an incarnation, over removal, reload, failed commits and restarts,
\* an assembly's version never goes back and the signing key never changes.
NeverRollsBack ==
  [][\A x \in Domains : ram'[x].inc = ram[x].inc =>
       /\ ram[x].key \in {NoPkg, ram'[x].key}
       /\ \A a \in Asm : ram[x].ver[a] # NoPkg =>
            ram'[x].ver[a] # NoPkg /\ ram'[x].ver[a].ver >= ram[x].ver[a].ver]_vars
=============================================================================
