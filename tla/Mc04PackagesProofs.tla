------------------------- MODULE Mc04PackagesProofs -------------------------
(***************************************************************************)
(* Proofs about package management of the MC04 engine (module              *)
(* Mc04Packages): for any domains, packages, slots and commit failures,    *)
(* the images that RAM and flash name are never overwritten, and within an *)
(* incarnation of a domain versions never go back and its key never        *)
(* changes.                                                                *)
(***************************************************************************)
EXTENDS Mc04Packages, WellFoundedInduction, TLAPS

-----------------------------------------------------------------------------
(* The inductive invariant *)

\* A snapshot s is well formed and names intact images in the slots sl.
Sound(s, sl) ==
  /\ s \in [Domains -> DomainStates]
  /\ \A x \in Domains, a \in Asm : Active(s, x, a) =>
       s[x].ver[a] \in Pkgs /\ sl[s[x].img[a]] = s[x].ver[a]

\* Domain state e may follow d within one incarnation.
Advances(d, e) ==
  e.inc = d.inc =>
    /\ d.key \in {NoPkg, e.key}
    /\ \A a \in Asm : d.ver[a] # NoPkg => e.ver[a] # NoPkg /\ e.ver[a].ver >= d.ver[a].ver
Ahead(s, t) == \A x \in Domains : Advances(s[x], t[x])

\* An activation writes to a slot nothing needs, unless it found its image in
\* one, and was admitted against the state in RAM, which does not move meanwhile.
ActivationInv ==
  act # Idle =>
    /\ act \in [slot : Slot, pkg : Pkgs, bind : SUBSET Pkgs] /\ act.pkg = staged
    /\ slots[act.slot] = act.pkg \/ act.slot \notin Protected
    /\ ram[act.pkg.dom].key \in {NoPkg, act.pkg.signer} /\ NoRollback(act.pkg)

\* The durable snapshot is what a failed commit left: RAM or a successor of it,
\* with all its images among the protected ones.
PackagesInv ==
  /\ slots \in [Slot -> Pkgs \cup {NoPkg}] /\ held \subseteq Slot
  /\ staged \in Pkgs \cup {NoPkg} /\ load \in Pkgs \cup {NoPkg} /\ born \in 0 .. MaxInc
  /\ Sound(ram, slots) /\ Sound(flash, slots)
  /\ Images(flash) \subseteq Protected /\ Ahead(ram, flash)
  /\ ActivationInv

-----------------------------------------------------------------------------
(* Types *)

\* The fields of a domain's state.
LEMMA DomainFields ==
  ASSUME NEW s \in [Domains -> DomainStates], NEW x \in Domains
  PROVE  /\ s[x] \in DomainStates /\ s[x].inc \in 0 .. MaxInc /\ s[x].key \in Signers \cup {NoPkg}
         /\ s[x].gpio \in BOOLEAN /\ s[x].ver \in [Asm -> Pkgs \cup {NoPkg}]
         /\ s[x].img \in [Asm -> 0 .. Slots] /\ s[x].bind \in [Asm -> SUBSET Pkgs]
         /\ s[x].inst \subseteq Asm
  BY DEF DomainStates

\* The fields of a package.
LEMMA PackageFields ==
  ASSUME NEW p \in Pkgs
  PROVE  /\ p.dom \in Domains /\ p.asm \in Asm /\ p.ver \in Nat \ {0} /\ p.signer \in Signers
         /\ p.deps \subseteq Deps /\ p # NoPkg
<1>1. p \in PackageType /\ p # NoPkg
  BY PackagesConstants
<1> QED BY <1>1 DEF PackageType

\* A domain nothing was loaded into.
LEMMA FreshType ==
  ASSUME NEW n \in 0 .. MaxInc
  PROVE  /\ Fresh(n) \in DomainStates /\ Fresh(n).inc = n
         /\ \A a \in Asm : Fresh(n).img[a] = 0
<1>1. 0 \in 0 .. Slots
  BY PackagesConstants
<1> QED BY <1>1 DEF Fresh, DomainStates

\* A state follows itself.
LEMMA AheadReflexive ==
  ASSUME NEW s \in [Domains -> DomainStates]
  PROVE  Ahead(s, s)
<1> SUFFICES ASSUME NEW x \in Domains PROVE Advances(s[x], s[x])
  BY DEF Ahead
<1>1. ASSUME NEW a \in Asm, s[x].ver[a] # NoPkg
      PROVE  s[x].ver[a].ver >= s[x].ver[a].ver
  <2>1. s[x].ver[a] \in Pkgs
    BY <1>1, DomainFields
  <2>2. s[x].ver[a].ver \in Nat
    BY <2>1, PackageFields
  <2> QED BY <2>2
<1> QED BY <1>1 DEF Advances

\* The providers a link resolves to are packages.
LEMMA LinksType ==
  ASSUME NEW s, NEW sl, Sound(s, sl), NEW x \in Domains, NEW p \in Pkgs
  PROVE  Links(s, x, p) \in SUBSET Pkgs
<1> SUFFICES ASSUME NEW dep \in p.deps, NEW q \in Providers(s, x, p, dep) PROVE q \in Pkgs
  BY DEF Links
<1>1. dep.asm \in Asm
  BY PackageFields DEF Deps
<1>2. PICK y \in Domains : Active(s, y, dep.asm) /\ q = s[y].ver[dep.asm]
  BY DEF Providers
<1> QED BY <1>1, <1>2 DEF Sound

\* Images are slots.
LEMMA ImagesType ==
  ASSUME NEW s \in [Domains -> DomainStates]
  PROVE  Images(s) \subseteq Slot
<1> SUFFICES ASSUME NEW x \in Domains, NEW a \in Asm, s[x].img[a] # 0 PROVE s[x].img[a] \in Slot
  BY DEF Images
<1>1. s[x].img[a] \in 0 .. Slots
  BY DomainFields
<1> QED BY <1>1, PackagesConstants DEF Slot

-----------------------------------------------------------------------------
(* Commits *)

\* The initial state satisfies the invariant.
LEMMA InitInv == Init => PackagesInv
<1> SUFFICES ASSUME Init PROVE PackagesInv
  OBVIOUS
<1>1. 0 \in 0 .. MaxInc /\ 1 \in 0 .. MaxInc
  BY PackagesConstants
<1>2. /\ Fresh(1) \in DomainStates /\ Absent \in DomainStates
      /\ \A a \in Asm : Fresh(1).img[a] = 0 /\ Absent.img[a] = 0
  BY <1>1, FreshType DEF Absent
<1>3. flash \in [Domains -> DomainStates] /\ ram = flash /\ \A x \in Domains, a \in Asm : flash[x].img[a] = 0
  BY <1>2 DEF Init
<1>4. Sound(ram, slots) /\ Sound(flash, slots)
  BY <1>3 DEF Sound, Active
<1>5. Images(flash) \subseteq Protected
  BY <1>3 DEF Images
<1>6. Ahead(ram, flash)
  BY <1>3, AheadReflexive
<1> QED BY <1>1, <1>4, <1>5, <1>6 DEF Init, PackagesInv, ActivationInv

\* A snapshot a management command may commit.
Successor(new) ==
  /\ Sound(new, slots) /\ Images(new) \subseteq Images(ram) /\ Ahead(ram, new)

\* Whatever the commit does, the invariant holds after it and RAM moves forward.
LEMMA CommitsInv ==
  ASSUME PackagesInv, act = Idle, act' = Idle, NEW new, Successor(new), Commits(new), slots' = slots,
         staged' \in Pkgs \cup {NoPkg}, load' \in Pkgs \cup {NoPkg}, born' \in 0 .. MaxInc
  PROVE  PackagesInv' /\ Ahead(ram, ram')
<1>1. ActivationInv'
  BY DEF ActivationInv, Idle
<1>2. CASE flash' = new /\ ram' = new /\ held' = {}
  <2>1. Sound(ram, slots)' /\ Sound(flash, slots)'
    BY <1>2 DEF Successor, Sound, Active
  <2>2. Images(flash)' \subseteq Protected'
    BY <1>2 DEF Protected, Images
  <2>3. Ahead(ram, flash)'
    <3>1. Ahead(new, new)
      BY AheadReflexive DEF Successor, Sound
    <3> QED BY <1>2, <3>1 DEF Ahead
  <2> QED BY <1>1, <1>2, <2>1, <2>2, <2>3 DEF PackagesInv, Successor
<1>3. CASE flash' \in {flash, new} /\ ram' = ram /\ held' = held
  <2>1. Sound(ram, slots)' /\ Sound(flash, slots)'
    BY <1>3 DEF Successor, Sound, Active, PackagesInv
  <2>2. Images(flash)' \subseteq Protected'
    BY <1>3 DEF Protected, Images, PackagesInv, Successor
  <2>3. Ahead(ram, flash)'
    BY <1>3 DEF Ahead, PackagesInv, Successor
  <2>4. Ahead(ram, ram)
    BY AheadReflexive DEF PackagesInv, Sound
  <2> QED BY <1>1, <1>3, <2>1, <2>2, <2>3, <2>4 DEF PackagesInv
<1> QED BY <1>2, <1>3 DEF Commits

\* A domain is replaced by one nothing was loaded into.
LEMMA FreshSuccessor ==
  ASSUME PackagesInv, NEW x \in Domains, NEW n \in 0 .. MaxInc, ram[x].inc # n
  PROVE  Successor([ram EXCEPT ![x] = Fresh(n)])
<1> DEFINE new == [ram EXCEPT ![x] = Fresh(n)]
<1>1. ram \in [Domains -> DomainStates] /\ Sound(ram, slots)
  BY DEF PackagesInv, Sound
<1>2. /\ new \in [Domains -> DomainStates] /\ new[x] = Fresh(n)
      /\ \A y \in Domains : y # x => new[y] = ram[y]
  BY <1>1, FreshType
<1>3. new[x].inc = n /\ \A a \in Asm : new[x].img[a] = 0
  BY <1>2, FreshType
<1> HIDE DEF new
<1>4. Sound(new, slots)
  BY <1>1, <1>2, <1>3 DEF Sound, Active
<1>5. Images(new) \subseteq Images(ram)
  BY <1>2, <1>3 DEF Images
<1>6. Ahead(new, new) /\ Ahead(ram, ram)
  BY <1>1, <1>2, AheadReflexive
<1>7. Ahead(ram, new)
  BY <1>2, <1>3, <1>6 DEF Ahead, Advances
<1> QED BY <1>4, <1>5, <1>7 DEF Successor, new

\* A change that leaves the keys and versions of all domains alone, and names
\* no image that was not named before.
LEMMA QuietSuccessor ==
  ASSUME PackagesInv, NEW new \in [Domains -> DomainStates],
         \A y \in Domains : /\ new[y].key = ram[y].key /\ new[y].ver = ram[y].ver
                            /\ \A a \in Asm : new[y].img[a] \in {0, ram[y].img[a]}
  PROVE  Successor(new)
<1>1. ram \in [Domains -> DomainStates] /\ Sound(ram, slots)
  BY DEF PackagesInv, Sound
<1>2. Sound(new, slots)
  BY <1>1 DEF Sound, Active
<1>3. Images(new) \subseteq Images(ram)
  BY DEF Images
<1>4. Ahead(ram, new)
  <2>1. Ahead(ram, ram)
    BY <1>1, AheadReflexive
  <2> QED BY <2>1 DEF Ahead, Advances
<1> QED BY <1>2, <1>3, <1>4 DEF Successor

-----------------------------------------------------------------------------
(* The management commands *)

\* A domain is created or deleted.
LEMMA DomainStep ==
  ASSUME PackagesInv, NEW x \in Ssds, CreateDomain(x) \/ DeleteDomain(x)
  PROVE  PackagesInv' /\ Ahead(ram, ram')
<1>1. x \in Domains /\ born \in 0 .. MaxInc /\ MaxInc \in Nat
      /\ staged \in Pkgs \cup {NoPkg} /\ load \in Pkgs \cup {NoPkg}
  BY PackagesConstants DEF Domains, PackagesInv
<1>2. CASE CreateDomain(x)
  <2> DEFINE n == born + 1
             new == [ram EXCEPT ![x] = Fresh(n)]
  <2>1. /\ act = Idle /\ act' = Idle /\ ram[x].inc = 0 /\ born < MaxInc /\ born' = n /\ Commits(new)
        /\ UNCHANGED slots /\ staged' \in Pkgs \cup {NoPkg} /\ load' \in Pkgs \cup {NoPkg}
    BY <1>1, <1>2 DEF CreateDomain, Quiet, Present, AbortsLoad, Clear
  <2>2. n \in 0 .. MaxInc /\ ram[x].inc # n
    BY <1>1, <2>1
  <2> HIDE DEF n
  <2>3. Successor(new)
    BY <1>1, <2>2, FreshSuccessor
  <2> HIDE DEF new
  <2> QED BY <1>1, <2>1, <2>2, <2>3, CommitsInv
<1>3. CASE DeleteDomain(x)
  <2> DEFINE n == 0
             new == [ram EXCEPT ![x] = Fresh(n)]
  <2>1. act = Idle /\ act' = Idle /\ ram[x].inc # 0 /\ Commits(new) /\ UNCHANGED <<slots, born>>
    BY <1>3 DEF DeleteDomain, Quiet, Present, Absent
  <2>2. n \in 0 .. MaxInc /\ ram[x].inc # n
    BY <1>1, <2>1
  <2>3. staged' \in Pkgs \cup {NoPkg} /\ load' \in Pkgs \cup {NoPkg}
    BY <1>1, <1>3 DEF DeleteDomain, AbortsLoad, Clear
  <2> HIDE DEF n
  <2>4. Successor(new)
    BY <1>1, <2>2, FreshSuccessor
  <2> HIDE DEF new
  <2>5. born' \in 0 .. MaxInc
    BY <1>1, <2>1
  <2> QED BY <2>1, <2>3, <2>4, <2>5, CommitsInv
<1> QED BY <1>2, <1>3

\* Commands that change the policy, the instances or the images of a domain.
LEMMA UpdateStep ==
  ASSUME PackagesInv,
         \/ \E x \in Ssds, gpio \in BOOLEAN : SetPolicy(x, gpio)
         \/ \E x \in Domains, a \in Asm : Install(x, a) \/ Uninstall(x, a) \/ RemovePackage(x, a)
  PROVE  PackagesInv' /\ Ahead(ram, ram')
<1>1. ram \in [Domains -> DomainStates] /\ born \in 0 .. MaxInc
      /\ staged \in Pkgs \cup {NoPkg} /\ load \in Pkgs \cup {NoPkg}
  BY DEF PackagesInv, Sound
<1>2. ASSUME act = Idle, NEW new \in [Domains -> DomainStates], Update(new),
             \A y \in Domains : /\ new[y].key = ram[y].key /\ new[y].ver = ram[y].ver
                                /\ \A a \in Asm : new[y].img[a] \in {0, ram[y].img[a]}
      PROVE  PackagesInv' /\ Ahead(ram, ram')
  <2>1. Successor(new)
    BY <1>2, QuietSuccessor
  <2>2. Commits(new) /\ AbortsLoad /\ UNCHANGED <<slots, act, born>>
    BY <1>2 DEF Update
  <2>3. act' = Idle /\ staged' \in Pkgs \cup {NoPkg} /\ load' \in Pkgs \cup {NoPkg} /\ born' \in 0 .. MaxInc
    BY <1>1, <1>2, <2>2 DEF AbortsLoad, Clear
  <2> QED BY <1>2, <2>1, <2>2, <2>3, CommitsInv
<1>3. ASSUME NEW x \in Ssds, NEW gpio \in BOOLEAN, SetPolicy(x, gpio)
      PROVE  PackagesInv' /\ Ahead(ram, ram')
  <2> DEFINE new == [ram EXCEPT ![x].gpio = gpio]
  <2>1. act = Idle /\ Update(new) /\ x \in Domains
    BY <1>3 DEF SetPolicy, Quiet, Domains
  <2>2. /\ new \in [Domains -> DomainStates]
        /\ \A y \in Domains : /\ new[y].key = ram[y].key /\ new[y].ver = ram[y].ver
                              /\ new[y].img = ram[y].img
    BY <1>1, <2>1 DEF DomainStates
  <2> HIDE DEF new
  <2> QED BY <1>2, <2>1, <2>2
<1>4. ASSUME NEW x \in Domains, NEW a \in Asm, Install(x, a) \/ Uninstall(x, a)
      PROVE  PackagesInv' /\ Ahead(ram, ram')
  <2>1. PICK i \in {ram[x].inst \cup {a}, ram[x].inst \ {a}} :
          act = Idle /\ Update([ram EXCEPT ![x].inst = i])
    BY <1>4 DEF Install, Uninstall, Quiet
  <2> DEFINE new == [ram EXCEPT ![x].inst = i]
  <2>2. i \subseteq Asm
    BY <1>1, <2>1, DomainFields
  <2>3. /\ new \in [Domains -> DomainStates]
        /\ \A y \in Domains : /\ new[y].key = ram[y].key /\ new[y].ver = ram[y].ver
                              /\ new[y].img = ram[y].img
    BY <1>1, <2>2 DEF DomainStates
  <2> HIDE DEF new
  <2>4. act = Idle /\ Update(new)
    BY <2>1 DEF new
  <2> QED BY <1>2, <2>3, <2>4
<1>5. ASSUME NEW x \in Domains, NEW a \in Asm, RemovePackage(x, a)
      PROVE  PackagesInv' /\ Ahead(ram, ram')
  <2> DEFINE new == [ram EXCEPT ![x].img[a] = 0, ![x].bind[a] = {}]
             img == [ram[x].img EXCEPT ![a] = 0]
             bind == [ram[x].bind EXCEPT ![a] = {}]
             d == [ram[x] EXCEPT !.img = img, !.bind = bind]
  <2>1. act = Idle /\ Update(new)
    BY <1>5 DEF RemovePackage, Quiet
  <2>2. /\ ram[x] \in DomainStates /\ ram[x].img \in [Asm -> 0 .. Slots]
        /\ ram[x].bind \in [Asm -> SUBSET Pkgs]
    BY <1>1, DomainFields
  <2>3. /\ img \in [Asm -> 0 .. Slots] /\ bind \in [Asm -> SUBSET Pkgs]
        /\ \A b \in Asm : img[b] \in {0, ram[x].img[b]}
    BY <2>2, PackagesConstants
  <2>4. new = [ram EXCEPT ![x] = d]
    BY <1>1, <2>2 DEF DomainStates
  <2> HIDE DEF img, bind, new
  <2>5. d \in DomainStates /\ d.key = ram[x].key /\ d.ver = ram[x].ver /\ d.img = img
    BY <2>2, <2>3 DEF DomainStates
  <2> HIDE DEF d
  <2>6. /\ new \in [Domains -> DomainStates] /\ new[x] = d
        /\ \A y \in Domains : y # x => new[y] = ram[y]
    BY <1>1, <2>4, <2>5
  <2>7. \A y \in Domains : /\ new[y].key = ram[y].key /\ new[y].ver = ram[y].ver
                           /\ \A b \in Asm : new[y].img[b] \in {0, ram[y].img[b]}
    BY <2>3, <2>5, <2>6
  <2> QED BY <1>2, <2>1, <2>6, <2>7
<1> QED BY <1>3, <1>4, <1>5

\* Steps that leave the snapshots and the images alone.
LEMMA StagingStep ==
  ASSUME PackagesInv,
         \/ \E p \in Pkgs, declared \in Pkgs \cup {NoPkg} : StagePackage(p, declared)
         \/ AbortUpload \/ ActivateAgain \/ ActivateRefused \/ ActivateFails \/ RecoverJournal
  PROVE  PackagesInv' /\ Ahead(ram, ram')
<1>1. UNCHANGED <<flash, ram, slots, held, born>> /\ act' = Idle
  BY DEF StagePackage, AbortUpload, ActivateAgain, ActivateRefused, ActivateFails, RecoverJournal,
         Quiet
<1>2. staged' \in Pkgs \cup {NoPkg} /\ load' \in Pkgs \cup {NoPkg}
  BY DEF PackagesInv, StagePackage, AbortUpload, ActivateAgain, ActivateRefused, ActivateFails,
         RecoverJournal, Clear, AbortsLoad
<1>3. ActivationInv'
  BY <1>1 DEF ActivationInv, Idle
<1>4. Sound(ram, slots)' /\ Sound(flash, slots)' /\ Images(flash)' \subseteq Protected' /\ Ahead(ram, flash)'
  BY <1>1 DEF PackagesInv, Sound, Active, Images, Protected, Ahead
<1>5. Ahead(ram, ram)
  BY AheadReflexive DEF PackagesInv, Sound
<1> QED BY <1>1, <1>2, <1>3, <1>4, <1>5 DEF PackagesInv

\* An application's commit, a recovery and a restart make RAM and flash agree.
LEMMA AgreeStep ==
  ASSUME PackagesInv, ApplicationCommits \/ RecoverState \/ PowerLoss
  PROVE  PackagesInv' /\ Ahead(ram, ram')
<1>1. /\ ram' = flash' /\ flash' \in {ram, flash} /\ UNCHANGED <<slots, born>> /\ act' = Idle
      /\ held' \in {held, {}}
  BY DEF ApplicationCommits, RecoverState, PowerLoss, Quiet
<1>2. staged' \in Pkgs \cup {NoPkg} /\ load' \in Pkgs \cup {NoPkg}
  BY DEF PackagesInv, ApplicationCommits, RecoverState, PowerLoss, AbortsLoad, Clear
<1>3. ActivationInv'
  BY <1>1 DEF ActivationInv, Idle
<1>4. Sound(ram, slots)' /\ Sound(flash, slots)'
  BY <1>1 DEF PackagesInv, Sound, Active
<1>5. Images(flash)' \subseteq Protected'
  BY <1>1 DEF Images, Protected
<1>6. Ahead(ram, flash)'
  <2>1. Ahead(flash, flash) /\ Ahead(ram, ram)
    BY AheadReflexive DEF PackagesInv, Sound
  <2> QED BY <1>1, <2>1 DEF Ahead
<1>7. Ahead(ram, ram)
  BY AheadReflexive DEF PackagesInv, Sound
<1> QED BY <1>1, <1>2, <1>3, <1>4, <1>5, <1>6, <1>7 DEF PackagesInv

-----------------------------------------------------------------------------
(* Activation *)

\* A set of naturals has a least element.
LEMMA LeastNatural ==
  ASSUME NEW T, T \subseteq Nat, T # {}
  PROVE  \E s \in T : \A t \in T : s <= t
<1> DEFINE R == OpToRel(<, Nat)
<1>1. IsWellFoundedOn(R, Nat)
  BY NatLessThanWellFounded, Zenon
<1>2. \A x, y \in Nat : <<y, x>> \notin R => x <= y
  BY DEF OpToRel
<1> HIDE DEF R
<1>3. \E x \in T : \A y \in T : ~(<<y, x>> \in R)
  BY <1>1, WFMin
<1> QED BY <1>2, <1>3

\* A slot outside the protected ones may change without touching any image.
LEMMA SlotWritten ==
  ASSUME PackagesInv, NEW s \in Slot, s \notin Protected, NEW p \in Pkgs \cup {NoPkg},
         slots' = [slots EXCEPT ![s] = p], UNCHANGED <<flash, ram>>
  PROVE  /\ Sound(ram, slots)' /\ Sound(flash, slots)' /\ slots' \in [Slot -> Pkgs \cup {NoPkg}]
         /\ slots'[s] = p
<1>1. slots \in [Slot -> Pkgs \cup {NoPkg}] /\ Sound(ram, slots) /\ Sound(flash, slots)
      /\ Images(flash) \subseteq Protected /\ Images(ram) \subseteq Protected
  BY DEF PackagesInv, Protected
<1>2. ASSUME NEW t, Sound(t, slots), Images(t) \subseteq Protected
      PROVE  Sound(t, slots')
  <2> SUFFICES ASSUME NEW x \in Domains, NEW a \in Asm, Active(t, x, a)
               PROVE  slots'[t[x].img[a]] = slots[t[x].img[a]]
    BY <1>2 DEF Sound
  <2>1. t[x].img[a] \in Images(t)
    BY DEF Images, Active
  <2>2. t[x].img[a] \in Slot /\ t[x].img[a] # s
    BY <1>2, <2>1, ImagesType DEF Sound
  <2> QED BY <1>1, <2>2
<1>3. Sound(ram, slots') /\ Sound(flash, slots')
  BY <1>1, <1>2
<1>4. Sound(ram, slots)' /\ Sound(flash, slots)'
  BY <1>3 DEF Sound, Active
<1> QED BY <1>1, <1>4

\* An admitted package takes a slot.
LEMMA ActivateStep ==
  ASSUME PackagesInv, Activate
  PROVE  PackagesInv' /\ Ahead(ram, ram')
<1> DEFINE p == staged
           same == {s \in Protected : slots[s] = p}
           free == Slot \ Protected
           bind == Links(ram, p.dom, p)
<1>1. /\ act = Idle /\ p # NoPkg /\ Acceptable(p)
      /\ UNCHANGED <<flash, ram, held, staged, load, born>>
  BY DEF Activate, Quiet
<1>2. p \in Pkgs /\ Protected \subseteq Slot
  BY <1>1, ImagesType DEF PackagesInv, Sound, Protected
<1>3. bind \in SUBSET Pkgs
  BY <1>2, LinksType, PackageFields DEF PackagesInv
<1>4. PICK s \in Slot :
        /\ act' = [slot |-> s, pkg |-> p, bind |-> bind]
        /\ \/ slots[s] = p /\ slots' = slots
           \/ s \notin Protected /\ slots' = [slots EXCEPT ![s] = NoPkg]
  <2>1. CASE same # {}
    <3>1. PICK s \in same : act' = [slot |-> s, pkg |-> p, bind |-> bind] /\ slots' = slots
      BY <2>1 DEF Activate
    <3> QED BY <1>2, <3>1
  <2>2. CASE same = {}
    <3> DEFINE t == CHOOSE s \in free : \A u \in free : s <= u
    <3>1. free # {} /\ act' = [slot |-> t, pkg |-> p, bind |-> bind] /\ slots' = [slots EXCEPT ![t] = NoPkg]
      BY <2>2 DEF Activate
    <3>2. t \in free
      <4>1. free \subseteq Nat
        BY DEF Slot
      <4> HIDE DEF free
      <4> QED BY <3>1, <4>1, LeastNatural
    <3> QED BY <3>1, <3>2
  <2> QED BY <2>1, <2>2
<1> HIDE DEF bind
<1>5. /\ Sound(ram, slots)' /\ Sound(flash, slots)' /\ slots' \in [Slot -> Pkgs \cup {NoPkg}]
      /\ slots'[s] = p \/ s \notin Protected
  <2>1. CASE slots[s] = p /\ slots' = slots
    BY <1>1, <2>1 DEF PackagesInv, Sound, Active
  <2>2. CASE s \notin Protected /\ slots' = [slots EXCEPT ![s] = NoPkg]
    BY <1>1, <2>2, SlotWritten
  <2> QED BY <1>4, <2>1, <2>2
<1>6. Protected' = Protected /\ Images(flash)' \subseteq Protected' /\ Ahead(ram, flash)'
  BY <1>1 DEF PackagesInv, Protected, Images, Ahead
<1>7. ActivationInv'
  <2>1. /\ act' \in [slot : Slot, pkg : Pkgs, bind : SUBSET Pkgs] /\ act'.pkg = p /\ act'.slot = s
    BY <1>2, <1>3, <1>4
  <2>2. ram[p.dom].key \in {NoPkg, p.signer} /\ NoRollback(p)
    BY <1>1 DEF Acceptable
  <2>3. NoRollback(act.pkg)'
    BY <1>1, <2>1, <2>2 DEF NoRollback
  <2> QED BY <1>1, <1>5, <1>6, <2>1, <2>2, <2>3 DEF ActivationInv
<1>8. Ahead(ram, ram)
  BY AheadReflexive DEF PackagesInv, Sound
<1> QED BY <1>1, <1>5, <1>6, <1>7, <1>8 DEF PackagesInv

\* The slot is programmed with the admitted package.
LEMMA ProgrammedStep ==
  ASSUME PackagesInv, Programmed
  PROVE  PackagesInv' /\ Ahead(ram, ram')
<1> DEFINE s == act.slot
           p == act.pkg
<1>1. /\ act # Idle /\ slots[s] = NoPkg /\ slots' = [slots EXCEPT ![s] = p]
      /\ UNCHANGED <<flash, ram, held, staged, load, act, born>>
  BY DEF Programmed
<1>2. /\ act \in [slot : Slot, pkg : Pkgs, bind : SUBSET Pkgs] /\ p = staged
      /\ slots[s] = p \/ s \notin Protected
      /\ ram[p.dom].key \in {NoPkg, p.signer} /\ NoRollback(p)
  BY <1>1 DEF PackagesInv, ActivationInv
<1>3. s \in Slot /\ p \in Pkgs /\ s \notin Protected
  <2>1. s \in Slot /\ p \in Pkgs
    BY <1>2
  <2> QED BY <1>1, <1>2, <2>1, PackagesConstants
<1> HIDE DEF s, p
<1>4. Sound(ram, slots)' /\ Sound(flash, slots)' /\ slots' \in [Slot -> Pkgs \cup {NoPkg}] /\ slots'[s] = p
  BY <1>1, <1>3, SlotWritten
<1>5. Images(flash)' \subseteq Protected' /\ Ahead(ram, flash)'
  BY <1>1 DEF PackagesInv, Protected, Images, Ahead
<1>6. ActivationInv'
  <2>1. NoRollback(act.pkg)'
    BY <1>1, <1>2 DEF NoRollback, p
  <2> QED BY <1>1, <1>2, <1>4, <2>1 DEF ActivationInv, s, p
<1>7. Ahead(ram, ram)
  BY AheadReflexive DEF PackagesInv, Sound
<1> QED BY <1>1, <1>4, <1>5, <1>6, <1>7 DEF PackagesInv

\* The snapshot an activation commits.
Activated ==
  [ram EXCEPT ![act.pkg.dom] =
     [@ EXCEPT !.ver[act.pkg.asm] = act.pkg, !.img[act.pkg.asm] = act.slot,
               !.bind[act.pkg.asm] = act.bind, !.key = act.pkg.signer]]

\* It names the new image and moves one version and one key forward.
LEMMA ActivatedFacts ==
  ASSUME PackagesInv, act # Idle, slots[act.slot] = act.pkg
  PROVE  /\ Sound(Activated, slots) /\ Images(Activated) \subseteq Images(ram) \cup {act.slot}
         /\ Ahead(ram, Activated) /\ act.slot \in Slot
<1> DEFINE p == act.pkg
           x == p.dom
           ver == [ram[x].ver EXCEPT ![p.asm] = p]
           img == [ram[x].img EXCEPT ![p.asm] = act.slot]
           bind == [ram[x].bind EXCEPT ![p.asm] = act.bind]
           d == [ram[x] EXCEPT !.ver = ver, !.img = img, !.bind = bind, !.key = p.signer]
           new == [ram EXCEPT ![x] = d]
<1>1. /\ p \in Pkgs /\ act.slot \in Slot /\ act.bind \subseteq Pkgs
      /\ ram[x].key \in {NoPkg, p.signer} /\ NoRollback(p)
  BY DEF PackagesInv, ActivationInv
<1>2. x \in Domains /\ p.asm \in Asm /\ p.signer \in Signers /\ p.ver \in Nat
  BY <1>1, PackageFields
<1>3. ram \in [Domains -> DomainStates] /\ Sound(ram, slots)
  BY DEF PackagesInv, Sound
<1>4. /\ ram[x] \in DomainStates /\ ram[x].ver \in [Asm -> Pkgs \cup {NoPkg}]
      /\ ram[x].img \in [Asm -> 0 .. Slots] /\ ram[x].bind \in [Asm -> SUBSET Pkgs]
  BY <1>2, <1>3, DomainFields
<1>5. act.slot \in 0 .. Slots
  BY <1>1, PackagesConstants DEF Slot
<1>6. /\ ver \in [Asm -> Pkgs \cup {NoPkg}] /\ img \in [Asm -> 0 .. Slots] /\ bind \in [Asm -> SUBSET Pkgs]
      /\ ver[p.asm] = p /\ img[p.asm] = act.slot
      /\ \A a \in Asm : a # p.asm => ver[a] = ram[x].ver[a] /\ img[a] = ram[x].img[a]
  BY <1>1, <1>2, <1>4, <1>5
<1>7. Activated = new
  BY <1>2, <1>3, <1>4 DEF Activated, DomainStates
<1> HIDE DEF ver, img, bind
<1>8. /\ d \in DomainStates /\ d.inc = ram[x].inc /\ d.ver = ver /\ d.img = img /\ d.key = p.signer
  BY <1>2, <1>4, <1>6 DEF DomainStates
<1> HIDE DEF d
<1>9. new \in [Domains -> DomainStates] /\ new[x] = d /\ \A y \in Domains : y # x => new[y] = ram[y]
  BY <1>2, <1>3, <1>8
<1> HIDE DEF new, x
<1>10. Sound(new, slots)
  <2> SUFFICES ASSUME NEW y \in Domains, NEW a \in Asm, Active(new, y, a)
               PROVE  new[y].ver[a] \in Pkgs /\ slots[new[y].img[a]] = new[y].ver[a]
    BY <1>9 DEF Sound
  <2>1. CASE y = x /\ a = p.asm
    BY <1>1, <1>6, <1>8, <1>9, <2>1
  <2>2. CASE ~(y = x /\ a = p.asm)
    <3>1. new[y].ver[a] = ram[y].ver[a] /\ new[y].img[a] = ram[y].img[a]
      BY <1>6, <1>8, <1>9, <2>2
    <3> QED BY <1>3, <3>1 DEF Sound, Active
  <2> QED BY <2>1, <2>2
<1>11. Images(new) \subseteq Images(ram) \cup {act.slot}
  <2>1. \A y \in Domains, a \in Asm : new[y].img[a] \in {act.slot, ram[y].img[a]}
    BY <1>6, <1>8, <1>9
  <2> QED BY <2>1 DEF Images
<1>12. Ahead(ram, new)
  <2>1. Ahead(ram, ram)
    BY <1>3, AheadReflexive
  <2> SUFFICES ASSUME NEW y \in Domains PROVE Advances(ram[y], new[y])
    BY DEF Ahead
  <2>2. CASE y # x
    BY <1>9, <2>1, <2>2 DEF Ahead
  <2>3. CASE y = x
    <3>1. ram[x].key \in {NoPkg, new[x].key}
      BY <1>1, <1>8, <1>9
    <3>2. ASSUME NEW a \in Asm, ram[x].ver[a] # NoPkg
          PROVE  new[x].ver[a] # NoPkg /\ new[x].ver[a].ver >= ram[x].ver[a].ver
      <4>1. CASE a # p.asm
        <5>1. new[x].ver[a] = ram[x].ver[a]
          BY <1>6, <1>8, <1>9, <4>1
        <5>2. ram[x].ver[a] \in Pkgs
          BY <1>4, <3>2
        <5>3. ram[x].ver[a].ver \in Nat
          BY <5>2, PackageFields
        <5> QED BY <3>2, <5>1, <5>3
      <4>2. CASE a = p.asm
        <5>1. new[x].ver[a] = p /\ p # NoPkg
          BY <1>1, <1>6, <1>8, <1>9, <4>2, PackageFields
        <5>2. p.ver > ram[x].ver[a].ver \/ p = ram[x].ver[a]
          BY <1>1, <3>2, <4>2 DEF NoRollback, x
        <5>3. ram[x].ver[a] \in Pkgs
          BY <1>4, <3>2
        <5>4. ram[x].ver[a].ver \in Nat
          BY <5>3, PackageFields
        <5> HIDE DEF p
        <5> QED BY <1>2, <5>1, <5>2, <5>4
      <4> QED BY <4>1, <4>2
    <3> QED BY <2>3, <3>1, <3>2 DEF Advances
  <2> QED BY <2>2, <2>3
<1> QED BY <1>1, <1>7, <1>10, <1>11, <1>12

\* The activation commits, or leaves its slot protected.
LEMMA ActivateCommitsStep ==
  ASSUME PackagesInv, ActivateCommits
  PROVE  PackagesInv' /\ Ahead(ram, ram')
<1> DEFINE new == Activated
           kept == Protected \cup {act.slot}
<1>1. act # Idle /\ slots[act.slot] = act.pkg /\ act' = Idle /\ slots' = slots /\ born' = born
  BY DEF ActivateCommits
<1>2. /\ Sound(new, slots) /\ Images(new) \subseteq Images(ram) \cup {act.slot}
      /\ Ahead(ram, new) /\ act.slot \in Slot
  BY <1>1, ActivatedFacts
<1>3. /\ \/ flash' = new /\ ram' = new /\ held' = {}
         \/ flash' \in {flash, new} /\ held' = kept /\ ram' = ram
      /\ Clear \/ AbortsLoad
  BY DEF ActivateCommits, Activated
<1>4. staged' \in Pkgs \cup {NoPkg} /\ load' \in Pkgs \cup {NoPkg}
  BY <1>3 DEF Clear, AbortsLoad, PackagesInv
<1>5. Protected \subseteq Slot
  BY ImagesType DEF PackagesInv, Sound, Protected
<1>6. ActivationInv'
  BY <1>1 DEF ActivationInv, Idle
<1> HIDE DEF new
<1>7. CASE flash' = new /\ ram' = new /\ held' = {}
  <2>1. Sound(ram, slots)' /\ Sound(flash, slots)'
    BY <1>1, <1>2, <1>7 DEF Sound, Active
  <2>2. Images(flash)' \subseteq Protected'
    BY <1>7 DEF Protected, Images
  <2>3. Ahead(ram, flash)'
    <3>1. Ahead(new, new)
      BY <1>2, AheadReflexive DEF Sound
    <3> QED BY <1>7, <3>1 DEF Ahead
  <2> QED BY <1>1, <1>2, <1>4, <1>6, <1>7, <2>1, <2>2, <2>3 DEF PackagesInv
<1>8. CASE flash' \in {flash, new} /\ held' = kept /\ ram' = ram
  <2>1. Sound(ram, slots)' /\ Sound(flash, slots)'
    BY <1>1, <1>2, <1>8 DEF Sound, Active, PackagesInv
  <2>2. Images(flash)' \subseteq Protected'
    BY <1>2, <1>8 DEF Protected, Images, PackagesInv
  <2>3. Ahead(ram, flash)'
    BY <1>2, <1>8 DEF Ahead, PackagesInv
  <2>4. held' \subseteq Slot
    BY <1>2, <1>5, <1>8
  <2>5. Ahead(ram, ram')
    BY <1>8, AheadReflexive DEF PackagesInv, Sound
  <2> QED BY <1>1, <1>4, <1>6, <2>1, <2>2, <2>3, <2>4, <2>5 DEF PackagesInv
<1> QED BY <1>3, <1>7, <1>8

-----------------------------------------------------------------------------
(* The invariant holds, and what follows from it *)

\* Every step keeps the invariant, and the state in RAM moves forward.
LEMMA NextInv == PackagesInv /\ [Next]_vars => PackagesInv' /\ Ahead(ram, ram')
<1> SUFFICES ASSUME PackagesInv, [Next]_vars PROVE PackagesInv' /\ Ahead(ram, ram')
  OBVIOUS
<1>1. CASE UNCHANGED vars
  <2>1. UNCHANGED <<flash, ram, slots, held, staged, load, act, born>>
    BY <1>1 DEF vars
  <2>2. Sound(ram, slots)' /\ Sound(flash, slots)' /\ Images(flash)' \subseteq Protected' /\ Ahead(ram, flash)'
    BY <2>1 DEF PackagesInv, Sound, Active, Images, Protected, Ahead
  <2>3. ActivationInv'
    BY <2>1 DEF PackagesInv, ActivationInv, Protected, Images, NoRollback
  <2>4. Ahead(ram, ram)
    BY AheadReflexive DEF PackagesInv, Sound
  <2> QED BY <2>1, <2>2, <2>3, <2>4 DEF PackagesInv
<1>2. ASSUME NEW x \in Ssds, CreateDomain(x) \/ DeleteDomain(x)
      PROVE  PackagesInv' /\ Ahead(ram, ram')
  BY <1>2, DomainStep
<1>3. CASE \/ \E x \in Ssds, gpio \in BOOLEAN : SetPolicy(x, gpio)
           \/ \E x \in Domains, a \in Asm : Install(x, a) \/ Uninstall(x, a) \/ RemovePackage(x, a)
  BY <1>3, UpdateStep
<1>4. CASE \/ \E p \in Pkgs, declared \in Pkgs \cup {NoPkg} : StagePackage(p, declared)
           \/ AbortUpload \/ ActivateAgain \/ ActivateRefused \/ ActivateFails \/ RecoverJournal
  BY <1>4, StagingStep
<1>5. CASE ApplicationCommits \/ RecoverState \/ PowerLoss
  BY <1>5, AgreeStep
<1>6. CASE Activate \/ Programmed \/ ActivateCommits
  BY <1>6, ActivateStep, ProgrammedStep, ActivateCommitsStep
<1> QED BY <1>1, <1>2, <1>3, <1>4, <1>5, <1>6 DEF Next

\* Snapshots, images and activations stay consistent in every behaviour.
THEOREM PackagesInvariantHolds == Spec => []PackagesInv
<1>1. Init => PackagesInv
  BY InitInv
<1>2. PackagesInv /\ [Next]_vars => PackagesInv'
  BY NextInv
<1> QED BY <1>1, <1>2, PTL DEF Spec

\* The images RAM names hold the packages it records, through failed commits,
\* recoveries and restarts: Images::stage never takes a slot that the state in
\* RAM or the durable one may need.
THEOREM PackagesLiveImagesIntact == Spec => []LiveImagesIntact
<1>1. PackagesInv => LiveImagesIntact
  <2> SUFFICES ASSUME PackagesInv PROVE LiveImagesIntact
    OBVIOUS
  <2>1. TypeOK
    <3>1. act # Idle => /\ act.pkg = staged /\ act.slot \in Slot
                        /\ slots[act.slot] = act.pkg \/ act.slot \notin Images(flash)
      BY DEF PackagesInv, ActivationInv
    <3> QED BY <3>1 DEF TypeOK, PackagesInv, Sound
  <2>2. \A x \in Domains, a \in Asm : Active(ram, x, a) => slots[ram[x].img[a]] = ram[x].ver[a]
    BY DEF PackagesInv, Sound
  <2> QED BY <2>1, <2>2 DEF LiveImagesIntact
<1> QED BY <1>1, PackagesInvariantHolds, PTL

\* Within an incarnation versions never go back and the key never changes, and
\* no recovery or restart revives an older snapshot (activate_package,
\* recover_committed_state).
THEOREM PackagesNeverRollBack == Spec => NeverRollsBack
<1> DEFINE Step == \A x \in Domains : ram'[x].inc = ram[x].inc =>
             /\ ram[x].key \in {NoPkg, ram'[x].key}
             /\ \A a \in Asm : ram[x].ver[a] # NoPkg =>
                  ram'[x].ver[a] # NoPkg /\ ram'[x].ver[a].ver >= ram[x].ver[a].ver
<1>1. PackagesInv /\ [Next]_vars => [Step]_vars
  <2> SUFFICES ASSUME PackagesInv, [Next]_vars PROVE Step
    OBVIOUS
  <2>1. Ahead(ram, ram')
    BY NextInv
  <2> QED BY <2>1 DEF Ahead, Advances
<1>2. Spec => [][Step]_vars
  BY <1>1, PackagesInvariantHolds, PTL DEF Spec
<1> QED BY <1>2 DEF NeverRollsBack

=============================================================================
