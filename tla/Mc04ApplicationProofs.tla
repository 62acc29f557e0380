----------------------- MODULE Mc04ApplicationProofs -----------------------
(***************************************************************************)
(* TLAPS proofs about Mc04Application, for any set of domains, code,       *)
(* retry limits and budgets: RAM agrees with flash between commands, an    *)
(* open transaction does not reach flash, and wrong PIN guesses are        *)
(* bounded.                                                                *)
(***************************************************************************)
EXTENDS Mc04Application, TLAPS

-----------------------------------------------------------------------------
(* The inductive invariant *)

\* A pending transaction belongs to the selected, installed application.
TxInv ==
  tx # NoTx => /\ ~Running /\ tx.d = selected /\ selected \in Domains
               /\ tx.app \in Applications /\ tx.left \in 1 .. TxCommands - 1
               /\ ram[selected].inst

\* The shape of a command in progress.
ShapeInv ==
  Running =>
    /\ run.at \in {"run", "checkpoint", "faulted"} => run.calls # <<>>
    /\ run.kind = "process" =>
         /\ selected \in Domains /\ run.calls = <<selected>> /\ ram[selected].inst
         /\ run.at \in {"run", "checkpoint", "faulted"}
         /\ run.left >= 1 /\ (run.active => run.left < TxCommands /\ run.disp # "Inactive")
    /\ run.kind \in {"select", "install", "uninstall"} => run.goal \in Domains

\* Store and instances of domain x are in RAM as they are in flash.
Agrees(x) == ram[x].inst = flash[x].inst /\ ram[x].app.store = flash[x].app.store

\* What RAM, the staged copy and the snapshot hold of the durable state while
\* every failed commit is resolved.
AgreeInv ==
  ~doubt =>
    /\ \A x \in Domains : ram[x].inst = flash[x].inst
    /\ ~Processing => \A x \in Domains : Agrees(x)
    /\ Processing =>
         /\ \A x \in Domains \ {selected} : Agrees(x)
         /\ run.active => Agrees(selected)
         /\ ~run.active /\ ~Involved /\ ~run.dirty =>
              run.next[selected].store = flash[selected].app.store
         /\ ~run.active /\ Involved => run.snap.store = flash[selected].app.store

AppInv == TypeOK /\ TxInv /\ ShapeInv /\ AgreeInv

-----------------------------------------------------------------------------
(* The invariant of the PIN tries, for a card with one domain that holds a *)
(* PIN or a PUK.                                                           *)

HoldsPin(x) == Code[x] \cap {"pin", "puk"} # {}
OnePinDomain == \A x, y \in Domains : HoldsPin(x) /\ HoldsPin(y) => x = y

\* The tries p of a slot that exists leave room for w wrong guesses.
Fits(w, p) == p = -1 \/ w + p <= MaxTries

\* A guess that is compared and not yet counted.
Uncounted(x) ==
  IF run.at = "checkpoint" /\ x = d /\ run.secret = "pin" THEN 1 ELSE 0

\* Between commands: RAM and a parked transaction.
RestRoom ==
  /\ ~Running => \A x \in Domains : Fits(wrong[x], ram[x].app.pin)
  /\ tx # NoTx => Fits(wrong[tx.d], tx.app.pin)

\* During a command: the staged copy, and RAM and the snapshot once the floor
\* of the command is laid on them.
RunRoom ==
  Running =>
    /\ \A x \in Domains : Fits(wrong[x] + Uncounted(x), run.next[x].pin)
    /\ \A x \in Domains : Fits(wrong[x], Least(ram[x].app.pin, run.floor[x].pin))
    /\ run.kind = "process" /\ Involved =>
         Fits(wrong[selected], Least(run.snap.pin, run.floor[selected].pin))

\* Floors are owed by domains of the command that hold a PIN, and the floor
\* about to be checkpointed is no higher than the tries left.
FloorInv ==
  Running =>
    /\ \A x \in Domains : run.floor[x] # NoFloor =>
         /\ HoldsPin(x) /\ \E i \in 1 .. Len(run.order) : run.order[i] = x
         /\ run.kind = "process" => x = selected
    /\ run.at = "checkpoint" => run.next[d].pin # -1 /\ run.floor[d].pin <= run.next[d].pin
    /\ \A i \in 1 .. Len(run.calls) : \E j \in 1 .. Len(run.order) : run.order[j] = run.calls[i]

GuessInv ==
  /\ wrong \in [Domains -> 0 .. MaxTries]
  /\ \A x \in Domains : Fits(wrong[x], flash[x].app.pin)
  /\ RestRoom /\ RunRoom /\ FloorInv

-----------------------------------------------------------------------------
(* What the model's operators return *)

States == [Domains -> DomainStates]
CallLists == UNION {[1 .. n -> Domains] : n \in 0 .. 2}

\* Sizes and limits are numbers.
LEMMA Limits ==
  /\ MaxTries \in Nat /\ MaxTries > 0 /\ MaxPuk \in Nat /\ MaxPuk > 0
  /\ TxCommands \in Nat /\ TxCommands > 1 /\ Budget \in Nat /\ None \notin Domains
BY Mc04Constants

\* Lists of at most two callbacks.
LEMMA CallListType ==
  ASSUME NEW s \in CallLists
  PROVE  /\ s \in Seq(Domains) /\ Len(s) \in 0 .. 2
         /\ s # <<>> => Head(s) \in Domains /\ Tail(s) \in CallLists
                        /\ Len(s) \in 1 .. 2 /\ Len(Tail(s)) = Len(s) - 1 /\ Head(s) = s[1]
<1>1. PICK n \in 0 .. 2 : s \in [1 .. n -> Domains]
  BY DEF CallLists
<1>2. s \in Seq(Domains) /\ Len(s) = n
  BY <1>1
<1>3. ASSUME s # <<>>
      PROVE Head(s) \in Domains /\ Tail(s) \in CallLists /\ Len(s) \in 1 .. 2
            /\ Len(Tail(s)) = Len(s) - 1 /\ Head(s) = s[1]
  <2>1. n \in 1 .. 2
    <3>1. n # 0
      BY <1>2, <1>3
    <3>2. \A m \in 0 .. 2 : m # 0 => m \in 1 .. 2
      OBVIOUS
    <3> QED BY <3>1, <3>2
  <2>2. Tail(s) \in Seq(Domains) /\ Len(Tail(s)) = n - 1 /\ Head(s) \in Domains /\ Head(s) = s[1]
    BY <1>2, <1>3
  <2>3. Tail(s) \in [1 .. n - 1 -> Domains] /\ n - 1 \in 0 .. 2
    <3>1. n - 1 \in 0 .. 2 /\ n - 1 = Len(Tail(s))
      BY <2>1, <2>2
    <3>2. \A q \in Seq(Domains) : q \in [1 .. Len(q) -> Domains]
      OBVIOUS
    <3> QED BY <2>2, <3>1, <3>2
  <2> QED BY <1>2, <2>1, <2>2, <2>3 DEF CallLists
<1> QED BY <1>1, <1>2, <1>3

\* The lists a command starts with.
LEMMA StartLists ==
  ASSUME NEW x \in Domains, NEW y \in Domains
  PROVE  <<x>> \in CallLists /\ <<x, y>> \in CallLists /\ <<>> \in CallLists
         /\ <<x>> # <<>> /\ <<x, y>> # <<>>
<1>1. <<x>> \in [1 .. 1 -> Domains] /\ <<x, y>> \in [1 .. 2 -> Domains] /\ <<>> \in [1 .. 0 -> Domains]
  OBVIOUS
<1> QED BY <1>1 DEF CallLists

\* A command in progress is not Idle.
LEMMA CommandRuns == \A r \in Commands : r # Idle
BY DEF Commands, Idle

\* Least is the smaller of two numbers.
LEMMA LeastType ==
  \A a, b \in Int : Least(a, b) \in {a, b} /\ Least(a, b) <= a /\ Least(a, b) <= b
BY DEF Least

\* A floor only takes tries away and leaves everything else.
LEMMA FlooredType ==
  ASSUME NEW a \in Applications, NEW f \in Floors
  PROVE  /\ Floored(a, f) \in Applications
         /\ Floored(a, f).store = a.store
         /\ Floored(a, f).pin = Least(a.pin, f.pin)
<1>1. /\ a.pin \in -1 .. MaxTries /\ a.puk \in 0 .. MaxPuk
      /\ f.pin \in 0 .. MaxTries /\ f.puk \in 0 .. MaxPuk
  BY DEF Applications, Floors
<1>2. Least(a.pin, f.pin) \in -1 .. MaxTries /\ Least(a.puk, f.puk) \in 0 .. MaxPuk
  BY <1>1, Limits DEF Least
<1> QED BY <1>2 DEF Floored, Applications

\* Changing one application of a state.
LEMMA WithAppType ==
  ASSUME NEW s \in States, NEW x \in Domains, NEW a \in Applications
  PROVE  /\ WithApp(s, x, a) \in States
         /\ WithApp(s, x, a)[x].app = a
         /\ \A y \in Domains : WithApp(s, x, a)[y].inst = s[y].inst
         /\ \A y \in Domains \ {x} : WithApp(s, x, a)[y] = s[y]
BY DEF WithApp, States, DomainStates

\* A floor laid on one domain takes tries of that domain only.
LEMMA FloorInType ==
  ASSUME NEW s \in States, NEW x \in Domains, NEW f \in Floors
  PROVE  /\ FloorIn(s, x, f) \in States
         /\ FloorIn(s, x, f)[x].app = Floored(s[x].app, f)
         /\ \A y \in Domains : /\ FloorIn(s, x, f)[y].inst = s[y].inst
                               /\ FloorIn(s, x, f)[y].app.store = s[y].app.store
         /\ \A y \in Domains \ {x} : FloorIn(s, x, f)[y] = s[y]
<1>1. s[x].app \in Applications
  BY DEF States, DomainStates
<1>2. Floored(s[x].app, f) \in Applications /\ Floored(s[x].app, f).store = s[x].app.store
  BY <1>1, FlooredType
<1>3. FloorIn(s, x, f) = WithApp(s, x, Floored(s[x].app, f))
  BY DEF FloorIn, WithApp, States, DomainStates
<1> QED BY <1>2, <1>3, WithAppType

\* All applications taken out of a state, or put into it.
LEMMA AppsType ==
  ASSUME NEW s \in States
  PROVE  /\ AppsOf(s) \in [Domains -> Applications]
         /\ \A x \in Domains : AppsOf(s)[x] = s[x].app
         /\ \A a \in [Domains -> Applications] :
              /\ WithApps(s, a) \in States
              /\ \A x \in Domains : /\ WithApps(s, a)[x].inst = s[x].inst
                                    /\ WithApps(s, a)[x].app = a[x]
BY DEF AppsOf, WithApps, States, DomainStates

\* Installing or uninstalling leaves the applications.
LEMMA FlaggedType ==
  ASSUME NEW s \in States, NEW b \in BOOLEAN, run.goal \in Domains
  PROVE  /\ Flagged(s, b) \in States
         /\ \A x \in Domains : Flagged(s, b)[x].app = s[x].app
BY DEF Flagged, States, DomainStates

\* The empty and the fresh slot, and no floor.
LEMMA EmptyType ==
  /\ Empty \in Applications /\ Fresh \in Applications /\ NoFloor \in Floors
  /\ Empty.pin = -1 /\ Fresh.pin = MaxTries /\ NoFloor.pin = MaxTries
BY Limits DEF Empty, Fresh, Applications, NoFloor, Floors

-----------------------------------------------------------------------------
(* What a commit may leave behind *)

\* What a commit through a handle that is not poisoned may answer.
LEMMA CleanCommit ==
  ASSUME NEW old, NEW new, NEW c \in CommitOutcomes(FALSE, old, new)
  PROVE  /\ c.ok \in BOOLEAN /\ c.bad \in BOOLEAN /\ c.flash \in {old, new}
         /\ (c.ok => c.flash = new) /\ (~c.ok /\ ~c.bad => c.flash = old)
<1>1. \/ c = [ok |-> TRUE, flash |-> new, bad |-> FALSE]
      \/ c = [ok |-> FALSE, flash |-> old, bad |-> FALSE]
      \/ c \in [ok : {FALSE}, flash : {old, new}, bad : {TRUE}]
  BY DEF CommitOutcomes
<1>2. CASE c = [ok |-> TRUE, flash |-> new, bad |-> FALSE]
  BY <1>2
<1>3. CASE c = [ok |-> FALSE, flash |-> old, bad |-> FALSE]
  BY <1>3
<1>4. CASE c \in [ok : {FALSE}, flash : {old, new}, bad : {TRUE}]
  <2>1. c.ok \in {FALSE} /\ c.flash \in {old, new} /\ c.bad \in {TRUE}
    BY <1>4
  <2> QED BY <2>1
<1> QED BY <1>1, <1>2, <1>3, <1>4

\* A commit that succeeds is in flash; one that fails before sealing is not.
LEMMA CommitType ==
  ASSUME NEW bad, NEW old, NEW new, NEW c \in CommitOutcomes(bad, old, new)
  PROVE  /\ c.ok \in BOOLEAN /\ c.bad \in BOOLEAN /\ c.flash \in {old, new}
         /\ (c.ok => c.flash = new) /\ (~c.ok /\ ~c.bad => c.flash = old)
<1>1. CASE bad
  <2>1. c = [ok |-> FALSE, flash |-> old, bad |-> TRUE]
    BY <1>1 DEF CommitOutcomes
  <2> QED BY <2>1
<1>2. CASE ~bad
  <2>1. CommitOutcomes(bad, old, new) = CommitOutcomes(FALSE, old, new)
    BY <1>2 DEF CommitOutcomes
  <2> QED BY <2>1, CleanCommit
<1> QED BY <1>1, <1>2

\* Recovery says whether RAM may be trusted.
LEMMA RecoverType ==
  /\ \A r \in RecoverOutcomes : r.ok \in BOOLEAN /\ r.bad \in BOOLEAN
  /\ \A r \in SelectedOutcomes : r.ok \in BOOLEAN /\ r.bad \in BOOLEAN
<1>1. \A r \in RecoverOutcomes : r = [ok |-> TRUE, bad |-> FALSE] \/ r = [ok |-> FALSE, bad |-> TRUE]
  BY DEF RecoverOutcomes
<1>2. \A r \in SelectedOutcomes : r \in [ok : BOOLEAN, bad : {TRUE}] \/ r = [ok |-> TRUE, bad |-> FALSE]
  BY DEF SelectedOutcomes
<1>3. \A r \in [ok : BOOLEAN, bad : {TRUE}] : r.ok \in BOOLEAN /\ r.bad \in {TRUE}
  OBVIOUS
<1>4. ASSUME NEW r \in SelectedOutcomes
      PROVE  r.ok \in BOOLEAN /\ r.bad \in BOOLEAN
  <2>1. CASE r \in [ok : BOOLEAN, bad : {TRUE}]
    <3>1. r.ok \in BOOLEAN /\ r.bad = TRUE
      BY <1>3, <2>1
    <3> QED BY <3>1
  <2>2. CASE r = [ok |-> TRUE, bad |-> FALSE]
    BY <2>2
  <2> QED BY <1>2, <2>1, <2>2
<1>5. ASSUME NEW r \in RecoverOutcomes
      PROVE  r.ok \in BOOLEAN /\ r.bad \in BOOLEAN
  <2>1. CASE r = [ok |-> TRUE, bad |-> FALSE]
    BY <2>1
  <2>2. CASE r = [ok |-> FALSE, bad |-> TRUE]
    BY <2>2
  <2> QED BY <1>1, <2>1, <2>2
<1> QED BY <1>4, <1>5

\* After an application commit RAM is what was intended or what flash holds;
\* it differs from flash only when the error was not resolved.
LEMMA ApplicationCommit ==
  ASSUME NEW new, NEW o \in ApplicationOutcomes(new), poisoned \in BOOLEAN
  PROVE  /\ o.flash \in {flash, new} /\ o.ram \in {new, o.flash}
         /\ o.bad \in BOOLEAN /\ o.lost \in BOOLEAN /\ o.ok \in BOOLEAN
         /\ ~o.lost => o.ram = o.flash
         /\ o.ok => o.ram = new /\ o.flash = new /\ ~o.lost
<1>1. PICK c \in CommitOutcomes(poisoned, flash, new) :
        o \in IF c.ok
              THEN {[ok |-> TRUE, flash |-> c.flash, ram |-> new, bad |-> FALSE, lost |-> FALSE]}
              ELSE {[ok |-> r.ok /\ c.flash = new, flash |-> c.flash,
                     ram |-> IF r.ok THEN c.flash ELSE new, bad |-> r.bad, lost |-> ~r.ok]
                      : r \in SelectedOutcomes}
  BY DEF ApplicationOutcomes
<1>2. c.ok \in BOOLEAN /\ c.flash \in {flash, new} /\ (c.ok => c.flash = new)
  BY CommitType
<1>3. CASE c.ok
  <2>1. o = [ok |-> TRUE, flash |-> c.flash, ram |-> new, bad |-> FALSE, lost |-> FALSE]
    BY <1>1, <1>3
  <2> QED BY <1>2, <1>3, <2>1
<1>4. CASE ~c.ok
  <2>1. PICK r \in SelectedOutcomes :
          o = [ok |-> r.ok /\ c.flash = new, flash |-> c.flash,
               ram |-> IF r.ok THEN c.flash ELSE new, bad |-> r.bad, lost |-> ~r.ok]
    BY <1>1, <1>4
  <2>2. r.ok \in BOOLEAN /\ r.bad \in BOOLEAN
    BY RecoverType
  <2> QED BY <1>2, <2>1, <2>2
<1> QED BY <1>2, <1>3, <1>4

\* A failed metadata commit keeps RAM, and is resolved only if flash kept the
\* old state too.
LEMMA MetadataCommit ==
  ASSUME NEW new, NEW o \in MetadataOutcomes(new), poisoned \in BOOLEAN
  PROVE  /\ o.flash \in {flash, new}
         /\ o.bad \in BOOLEAN /\ o.lost \in BOOLEAN /\ o.ok \in BOOLEAN
         /\ o.ok => o.ram = new /\ o.flash = new
         /\ ~o.ok => o.ram = ram
         /\ ~o.ok /\ ~o.lost => o.flash = flash
<1>1. PICK c \in CommitOutcomes(poisoned, flash, new) :
        o = [ok |-> c.ok, flash |-> c.flash, ram |-> IF c.ok THEN new ELSE ram, bad |-> c.bad,
             lost |-> c.bad]
  BY DEF MetadataOutcomes
<1>2. /\ c.ok \in BOOLEAN /\ c.bad \in BOOLEAN /\ c.flash \in {flash, new}
      /\ (c.ok => c.flash = new) /\ (~c.ok /\ ~c.bad => c.flash = flash)
  BY CommitType
<1> QED BY <1>1, <1>2

\* A checkpoint leaves flash or adds the command's floor to it, and has added
\* it when it succeeds.
LEMMA CheckpointCommit ==
  ASSUME NEW o \in CheckpointOutcomes
  PROVE  /\ o.flash \in {flash, Durable} /\ o.bad \in BOOLEAN /\ o.ok \in BOOLEAN
         /\ o.ok => o.flash = Durable
<1>1. PICK r \in RecoverOutcomes :
        o \in IF ~r.ok THEN {[ok |-> FALSE, flash |-> flash, bad |-> r.bad]}
              ELSE IF Durable = flash THEN {[ok |-> TRUE, flash |-> flash, bad |-> FALSE]}
              ELSE UNION {IF c.ok THEN {c}
                          ELSE {[ok |-> s.ok /\ c.flash = Durable, flash |-> c.flash, bad |-> s.bad]
                                  : s \in SelectedOutcomes}
                          : c \in CommitOutcomes(FALSE, flash, Durable)}
  BY DEF CheckpointOutcomes
<1>2. r.ok \in BOOLEAN /\ r.bad \in BOOLEAN
  BY RecoverType
<1>3. CASE ~r.ok
  <2>1. o = [ok |-> FALSE, flash |-> flash, bad |-> r.bad]
    BY <1>1, <1>3
  <2> QED BY <1>2, <2>1
<1>4. CASE r.ok /\ Durable = flash
  <2>1. o = [ok |-> TRUE, flash |-> flash, bad |-> FALSE]
    BY <1>1, <1>4
  <2> QED BY <1>4, <2>1
<1>5. CASE r.ok /\ Durable # flash
  <2>1. PICK c \in CommitOutcomes(FALSE, flash, Durable) :
          o \in IF c.ok THEN {c}
                ELSE {[ok |-> s.ok /\ c.flash = Durable, flash |-> c.flash, bad |-> s.bad]
                        : s \in SelectedOutcomes}
    BY <1>1, <1>5
  <2>2. /\ c.ok \in BOOLEAN /\ c.bad \in BOOLEAN /\ c.flash \in {flash, Durable}
        /\ (c.ok => c.flash = Durable)
    BY CleanCommit
  <2>3. CASE c.ok
    <3>1. o = c
      BY <2>1, <2>3
    <3> QED BY <2>2, <2>3, <3>1
  <2>4. CASE ~c.ok
    <3>1. PICK s \in SelectedOutcomes :
            o = [ok |-> s.ok /\ c.flash = Durable, flash |-> c.flash, bad |-> s.bad]
      BY <2>1, <2>4
    <3>2. s.ok \in BOOLEAN /\ s.bad \in BOOLEAN
      BY RecoverType
    <3> QED BY <2>2, <3>1, <3>2
  <2> QED BY <2>2, <2>3, <2>4
<1> QED BY <1>2, <1>3, <1>4, <1>5
-----------------------------------------------------------------------------
(* Steps of the managed code on its staged copy *)

\* The fields of a command in progress.
LEMMA Fields ==
  ASSUME TypeOK, Running
  PROVE  /\ run \in Commands
         /\ run.calls \in CallLists /\ run.order \in CallLists
         /\ run.goal \in Domains \cup {None}
         /\ run.at \in {"run", "checkpoint", "faulted", "floors", "end"}
         /\ run.next \in [Domains -> Applications] /\ run.snap \in Applications
         /\ run.disp \in Dispositions /\ run.active \in BOOLEAN
         /\ run.left \in 0 .. TxCommands /\ run.dirty \in BOOLEAN
         /\ run.output \in BOOLEAN /\ run.auth \in BOOLEAN /\ run.ops \in 0 .. Budget
         /\ run.floor \in [Domains -> Floors] /\ run.secret \in {"pin", "puk"}
BY DEF TypeOK, Commands, CallLists

\* What every step of managed code leaves alone.
SameCommand ==
  /\ Running /\ run.at = "run" /\ RunOnly
  /\ run' \in Commands
  /\ run'.kind = run.kind /\ run'.calls = run.calls /\ run'.order = run.order
  /\ run'.goal = run.goal /\ run'.active = run.active /\ run'.left = run.left
  /\ \A x \in Domains \ {d} : /\ run'.next[x] = run.next[x]
                             /\ run'.floor[x] = run.floor[x]

\* A write is marked, and a transaction begins with the copy as it was.
SoundStaging ==
  /\ run'.disp = "Inactive" =>
       /\ run.disp = "Inactive"
       /\ ~run'.dirty => ~run.dirty /\ run'.next[d].store = run.next[d].store
  /\ run'.disp # "Inactive" =>
       IF run.disp = "Inactive" THEN ~run.dirty /\ run'.snap = run.next[d]
       ELSE run'.snap = run.snap

Staging ==
  /\ SameCommand /\ SoundStaging /\ run'.at = "run" /\ run'.floor = run.floor
  /\ \/ run'.next[d].pin = run.next[d].pin /\ wrong' = wrong
     \/ wrong' = [wrong EXCEPT ![d] = 0]

Guessing ==
  /\ SameCommand /\ SoundStaging /\ run'.at = "checkpoint" /\ UNCHANGED wrong
  /\ run'.disp = run.disp /\ run'.snap = run.snap
  /\ HoldsPin(d)
  /\ run.next[d].pin # -1 /\ run'.next[d].pin # -1
  /\ run'.floor[d].pin = Least(run.floor[d].pin, run'.next[d].pin)
  /\ IF run'.secret = "pin" THEN run'.next[d].pin = run.next[d].pin - 1
     ELSE run'.next[d].pin = run.next[d].pin

\* The domain that executes has a staged copy and is the next in the list.
LEMMA Executing ==
  ASSUME TypeOK, ShapeInv, Running, run.at \in {"run", "checkpoint", "faulted"}
  PROVE  /\ d \in Domains /\ d = run.calls[1] /\ Len(run.calls) \in 1 .. 2
         /\ run.next[d] \in Applications /\ run.floor[d] \in Floors
         /\ run.kind = "process" => d = selected
<1>1. run.calls \in CallLists /\ run.calls # <<>>
  BY Fields DEF ShapeInv
<1>2. d \in Domains /\ d = run.calls[1] /\ Len(run.calls) \in 1 .. 2
  BY <1>1, CallListType DEF d
<1>3. run.kind = "process" => d = selected
  BY DEF ShapeInv, d
<1> QED BY <1>2, <1>3, Fields

\* Staging one application: the record that results.
LEMMA StagedType ==
  ASSUME TypeOK, ShapeInv, Running, run.at = "run", run.ops > 0,
         NEW a \in Applications, NEW b \in BOOLEAN
  PROVE  LET r == Staged(a, b) IN
         /\ r \in Commands /\ r.next = [run.next EXCEPT ![d] = a]
         /\ r.dirty = (run.dirty \/ b)
         /\ r.kind = run.kind /\ r.calls = run.calls /\ r.order = run.order
         /\ r.goal = run.goal /\ r.active = run.active /\ r.left = run.left
         /\ r.at = run.at /\ r.floor = run.floor /\ r.disp = run.disp /\ r.snap = run.snap
         /\ r.secret = run.secret
<1>1. d \in Domains /\ run.next \in [Domains -> Applications] /\ run \in Commands
  BY Executing, Fields
<1>2. [run.next EXCEPT ![d] = a] \in [Domains -> Applications]
  BY <1>1
<1>3. (run.dirty \/ b) \in BOOLEAN /\ run.ops - 1 \in 0 .. Budget
  BY Fields, Limits
<1>4. Staged(a, b) = [run EXCEPT !.next = [run.next EXCEPT ![d] = a], !.dirty = run.dirty \/ b, !.ops = run.ops - 1]
  BY <1>1 DEF Staged, Commands
<1> HIDE DEF Staged
<1> QED BY <1>1, <1>2, <1>3, <1>4 DEF Commands
\* Every native that is answered at once is a staging step.
LEMMA StagingSteps ==
  ASSUME TypeOK, ShapeInv,
         StoreInt \/ KeyCall \/ BufferCall \/ HardwareOutput \/ Begin \/ End
           \/ CreateCredential \/ VerifyRight \/ ChangePin \/ Unblock
  PROVE  Staging
<1>1. /\ Running /\ run.at = "run" /\ run.ops > 0 /\ RunOnly
  BY DEF StoreInt, KeyCall, BufferCall, HardwareOutput, Begin, End, CreateCredential,
         VerifyRight, ChangePin, Unblock, Calls
<1>2. d \in Domains /\ App \in Applications /\ App = run.next[d]
  BY <1>1, Executing DEF App
<1>3. run.next \in [Domains -> Applications] /\ run \in Commands /\ run.ops - 1 \in 0 .. Budget
      /\ run.dirty \in BOOLEAN /\ run.auth \in BOOLEAN
  BY <1>1, Fields, Limits
<1>4. ASSUME NEW a \in Applications, NEW b \in BOOLEAN, NEW auth \in BOOLEAN,
             run' = Staged(a, b) \/ run' = [Staged(a, b) EXCEPT !.auth = auth],
             ~b => a.store = App.store
      PROVE  /\ SameCommand /\ SoundStaging /\ run'.at = "run" /\ run'.floor = run.floor
             /\ run'.next[d] = a
  <2> DEFINE r == Staged(a, b)
  <2>1. /\ r \in Commands /\ r.next = [run.next EXCEPT ![d] = a]
        /\ r.dirty = (run.dirty \/ b)
        /\ r.kind = run.kind /\ r.calls = run.calls /\ r.order = run.order
        /\ r.goal = run.goal /\ r.active = run.active /\ r.left = run.left
        /\ r.at = run.at /\ r.floor = run.floor /\ r.disp = run.disp /\ r.snap = run.snap
    BY <1>1, StagedType
  <2> HIDE DEF r
  <2>2. /\ run' \in Commands /\ run'.next = r.next /\ run'.dirty = r.dirty
        /\ run'.kind = r.kind /\ run'.calls = r.calls /\ run'.order = r.order
        /\ run'.goal = r.goal /\ run'.active = r.active /\ run'.left = r.left
        /\ run'.at = r.at /\ run'.floor = r.floor /\ run'.disp = r.disp /\ run'.snap = r.snap
    <3>1. CASE run' = r
      BY <2>1, <3>1
    <3>2. CASE run' = [r EXCEPT !.auth = auth]
      BY <2>1, <3>2 DEF Commands
    <3> QED BY <1>4, <3>1, <3>2 DEF r
  <2>3. run'.next = [run.next EXCEPT ![d] = a] /\ run'.next[d] = a
    BY <1>2, <1>3, <2>1, <2>2
  <2>4. SameCommand
    BY <1>1, <1>2, <1>3, <2>1, <2>2, <2>3 DEF SameCommand
  <2>5. SoundStaging
    BY <1>2, <1>3, <1>4, <2>1, <2>2, <2>3 DEF SoundStaging
  <2> QED BY <1>1, <2>1, <2>2, <2>3, <2>4, <2>5
<1>5. ASSUME NEW disp \in Dispositions, NEW snap \in Applications, NEW output \in BOOLEAN,
             run' = [run EXCEPT !.disp = disp, !.snap = snap, !.output = output, !.ops = @ - 1],
             disp = "Inactive" => run.disp = "Inactive",
             disp # "Inactive" => IF run.disp = "Inactive" THEN ~run.dirty /\ snap = run.next[d]
                                  ELSE snap = run.snap
      PROVE  /\ SameCommand /\ SoundStaging /\ run'.at = "run" /\ run'.floor = run.floor
             /\ run'.next[d].pin = run.next[d].pin
  <2>1. /\ run' \in Commands /\ run'.next = run.next /\ run'.dirty = run.dirty
        /\ run'.kind = run.kind /\ run'.calls = run.calls /\ run'.order = run.order
        /\ run'.goal = run.goal /\ run'.active = run.active /\ run'.left = run.left
        /\ run'.at = run.at /\ run'.floor = run.floor /\ run'.disp = disp /\ run'.snap = snap
    BY <1>3, <1>5 DEF Commands
  <2>2. SameCommand
    BY <1>1, <2>1 DEF SameCommand
  <2>3. SoundStaging
    BY <1>5, <2>1 DEF SoundStaging
  <2> QED BY <1>1, <2>1, <2>2, <2>3
<1>6. CASE StoreInt
  <2>1. [App EXCEPT !.store = 1 - @] \in Applications /\ [App EXCEPT !.store = 1 - @].pin = App.pin
    BY <1>2 DEF Applications
  <2> QED BY <1>2, <1>4, <1>6, <2>1 DEF StoreInt, Staging
<1>7. CASE KeyCall
  <2>1. PICK s \in {0, 1} : run' = Staged([App EXCEPT !.store = s], s # App.store)
    BY <1>7 DEF KeyCall
  <2>2. /\ [App EXCEPT !.store = s] \in Applications /\ [App EXCEPT !.store = s].pin = App.pin
        /\ [App EXCEPT !.store = s].store = s
    BY <1>2 DEF Applications
  <2> QED BY <1>2, <1>4, <1>7, <2>1, <2>2 DEF KeyCall, Staging
<1>8. CASE BufferCall
  <2>1. run' = [run EXCEPT !.disp = run.disp, !.snap = run.snap, !.output = run.output, !.ops = @ - 1]
    BY <1>3, <1>8 DEF BufferCall, Commands
  <2>2. run.disp \in Dispositions /\ run.snap \in Applications /\ run.output \in BOOLEAN
    BY <1>1, Fields
  <2> QED BY <1>5, <1>8, <2>1, <2>2 DEF BufferCall, Staging
<1>9. CASE HardwareOutput
  <2>1. run' = [run EXCEPT !.disp = run.disp, !.snap = run.snap, !.output = TRUE, !.ops = @ - 1]
    BY <1>3, <1>9 DEF HardwareOutput, Commands
  <2>2. run.disp \in Dispositions /\ run.snap \in Applications
    BY <1>1, Fields
  <2> QED BY <1>5, <1>9, <2>1, <2>2 DEF HardwareOutput, Staging
<1>10. CASE Begin
  <2>1. run' = [run EXCEPT !.disp = "Begun", !.snap = App, !.output = run.output, !.ops = @ - 1]
    BY <1>3, <1>10 DEF Begin, Commands
  <2>2. "Begun" \in Dispositions /\ run.output \in BOOLEAN /\ run.disp = "Inactive" /\ ~run.dirty
    BY <1>1, <1>10, Fields DEF Begin, MayBegin, Dispositions
  <2>3. /\ SameCommand /\ SoundStaging /\ run'.at = "run" /\ run'.floor = run.floor
        /\ run'.next[d].pin = run.next[d].pin
    BY <1>2, <1>5, <2>1, <2>2
  <2> QED BY <1>10, <2>3 DEF Begin, Staging
<1>11. CASE End
  <2>1. PICK disp \in {"Commit", "Abort"} : run' = [run EXCEPT !.disp = disp, !.ops = @ - 1]
    BY <1>11 DEF End
  <2>2. run' = [run EXCEPT !.disp = disp, !.snap = run.snap, !.output = run.output, !.ops = @ - 1]
    BY <1>3, <2>1 DEF Commands
  <2>3. /\ disp \in Dispositions /\ disp # "Inactive" /\ run.disp # "Inactive"
        /\ run.snap \in Applications /\ run.output \in BOOLEAN
    BY <1>1, <1>11, Fields DEF End, Dispositions
  <2> QED BY <1>5, <1>11, <2>2, <2>3 DEF End, Staging
<1>12. CASE CreateCredential
  <2>1. [App EXCEPT !.pin = MaxTries, !.puk = MaxPuk] \in Applications
    <3>1. MaxTries \in -1 .. MaxTries /\ MaxPuk \in 0 .. MaxPuk
      BY Limits
    <3> QED BY <1>2, <3>1 DEF Applications
  <2> QED BY <1>2, <1>4, <1>12, <2>1 DEF CreateCredential, Staging
<1>13. CASE VerifyRight
  <2>1. /\ [App EXCEPT !.pin = MaxTries] \in Applications
        /\ [App EXCEPT !.pin = MaxTries].store = App.store
    BY <1>2, Limits DEF Applications
  <2> QED BY <1>2, <1>4, <1>13, <2>1 DEF VerifyRight, Staging
<1>14. CASE ChangePin
  <2>1. [App EXCEPT !.pin = MaxTries] \in Applications
    BY <1>2, Limits DEF Applications
  <2> QED BY <1>2, <1>4, <1>14, <2>1 DEF ChangePin, Staging
<1>15. CASE Unblock
  <2>1. [App EXCEPT !.pin = MaxTries, !.puk = MaxPuk] \in Applications
    <3>1. MaxTries \in -1 .. MaxTries /\ MaxPuk \in 0 .. MaxPuk
      BY Limits
    <3> QED BY <1>2, <3>1 DEF Applications
  <2> QED BY <1>2, <1>4, <1>15, <2>1 DEF Unblock, Staging
<1> QED BY <1>6, <1>7, <1>8, <1>9, <1>10, <1>11, <1>12, <1>13, <1>14, <1>15

\* A wrong PIN and a wrong PUK lower the floor of the executing domain.
LEMMA GuessingSteps ==
  ASSUME TypeOK, ShapeInv, VerifyWrong \/ UnblockWrong
  PROVE  Guessing
<1>1. Running /\ run.at = "run" /\ run.ops > 0 /\ HoldsPin(d)
  BY DEF VerifyWrong, UnblockWrong, Calls, HoldsPin
<1>2. d \in Domains /\ App \in Applications /\ App = run.next[d] /\ run.floor[d] \in Floors
  BY <1>1, Executing DEF App
<1>3. App.pin \in -1 .. MaxTries /\ App.puk \in 0 .. MaxPuk /\ run.auth \in BOOLEAN
  BY <1>1, <1>2, Fields DEF Applications
<1>4. App.pin # -1
  <2>1. App.pin > 0 \/ App.pin # -1
    BY DEF VerifyWrong, UnblockWrong
  <2>2. \A n \in -1 .. MaxTries : n > 0 => n # -1
    BY Limits
  <2> QED BY <1>3, <2>1, <2>2
<1>5. ASSUME NEW a \in Applications, NEW auth \in BOOLEAN, NEW secret \in {"pin", "puk"},
             Wrong(a, auth, secret), a.store = App.store, a.pin # -1,
             IF secret = "pin" THEN a.pin = App.pin - 1 ELSE a.pin = App.pin
      PROVE  Guessing
  <2> DEFINE r == Staged(a, FALSE)
  <2>1. /\ r \in Commands /\ r.next = [run.next EXCEPT ![d] = a]
        /\ r.dirty = (run.dirty \/ FALSE)
        /\ r.kind = run.kind /\ r.calls = run.calls /\ r.order = run.order
        /\ r.goal = run.goal /\ r.active = run.active /\ r.left = run.left
        /\ r.at = run.at /\ r.floor = run.floor /\ r.disp = run.disp /\ r.snap = run.snap
    BY <1>1, StagedType
  <2>2. run' = [r EXCEPT !.auth = auth, !.at = "checkpoint", !.floor[d] = Lower(@, a),
                         !.secret = secret]
    BY <1>5 DEF Wrong
  <2> HIDE DEF r
  <2>3. run.next \in [Domains -> Applications] /\ run.floor \in [Domains -> Floors]
        /\ run.dirty \in BOOLEAN
    BY <1>1, Fields
  <2>4. Lower(run.floor[d], a) \in Floors
        /\ Lower(run.floor[d], a).pin = Least(run.floor[d].pin, a.pin)
    <3>1. /\ a.pin \in -1 .. MaxTries /\ a.puk \in 0 .. MaxPuk
          /\ run.floor[d].pin \in 0 .. MaxTries /\ run.floor[d].puk \in 0 .. MaxPuk
      BY <1>2 DEF Applications, Floors
    <3>2. a.pin \in 0 .. MaxTries
      BY <1>5, <3>1, Limits
    <3>3. Least(run.floor[d].pin, a.pin) \in 0 .. MaxTries
          /\ Least(run.floor[d].puk, a.puk) \in 0 .. MaxPuk
      BY <3>1, <3>2, Limits DEF Least
    <3> QED BY <3>3 DEF Lower, Floors
  <2>5. [run.floor EXCEPT ![d] = Lower(run.floor[d], a)] \in [Domains -> Floors]
    BY <2>3, <2>4
  <2>6. run' = [r EXCEPT !.auth = auth, !.at = "checkpoint",
                         !.floor = [run.floor EXCEPT ![d] = Lower(run.floor[d], a)],
                         !.secret = secret]
    BY <2>1, <2>2
  <2>7. /\ run' \in Commands /\ run'.next = r.next /\ run'.dirty = r.dirty
        /\ run'.kind = r.kind /\ run'.calls = r.calls /\ run'.order = r.order
        /\ run'.goal = r.goal /\ run'.active = r.active /\ run'.left = r.left
        /\ run'.at = "checkpoint" /\ run'.disp = r.disp /\ run'.snap = r.snap
        /\ run'.floor = [run.floor EXCEPT ![d] = Lower(run.floor[d], a)] /\ run'.secret = secret
    BY <2>1, <2>5, <2>6 DEF Commands
  <2>8. run'.next[d] = a /\ run'.floor[d] = Lower(run.floor[d], a)
        /\ \A x \in Domains \ {d} : run'.next[x] = run.next[x] /\ run'.floor[x] = run.floor[x]
    BY <1>2, <2>1, <2>3, <2>7
  <2>9. SameCommand
    BY <1>1, <1>5, <2>1, <2>7, <2>8 DEF SameCommand, Wrong
  <2>10. SoundStaging
    BY <1>2, <1>5, <2>1, <2>3, <2>7, <2>8 DEF SoundStaging
  <2> QED BY <1>1, <1>2, <1>5, <1>4, <2>1, <2>4, <2>7, <2>8, <2>9, <2>10 DEF Guessing, Wrong
<1>6. CASE VerifyWrong
  <2>1. App.pin > 0 /\ Wrong([App EXCEPT !.pin = @ - 1], FALSE, "pin")
    BY <1>6 DEF VerifyWrong
  <2>2. App.pin - 1 \in 0 .. MaxTries
    BY <1>3, <2>1, Limits
  <2>3. /\ [App EXCEPT !.pin = @ - 1] \in Applications
        /\ [App EXCEPT !.pin = @ - 1].store = App.store
        /\ [App EXCEPT !.pin = @ - 1].pin = App.pin - 1
    BY <1>2, <2>2 DEF Applications
  <2>4. App.pin - 1 # -1
    BY <2>2, Limits
  <2> QED BY <1>5, <2>1, <2>3, <2>4
<1>7. CASE UnblockWrong
  <2>1. App.puk > 0 /\ Wrong([App EXCEPT !.puk = @ - 1], run.auth, "puk")
    BY <1>7 DEF UnblockWrong
  <2>2. App.puk - 1 \in 0 .. MaxPuk
    BY <1>3, <2>1, Limits
  <2>3. /\ [App EXCEPT !.puk = @ - 1] \in Applications
        /\ [App EXCEPT !.puk = @ - 1].store = App.store
        /\ [App EXCEPT !.puk = @ - 1].pin = App.pin
    BY <1>2, <2>2 DEF Applications
  <2> QED BY <1>5, <1>3, <1>4, <2>1, <2>3
<1> QED BY <1>6, <1>7
-----------------------------------------------------------------------------
(* The invariant under the steps of managed code *)

\* No transaction is parked while a command runs.
LEMMA NothingParked ==
  ASSUME TypeOK, Running
  PROVE  tx = NoTx
BY DEF TypeOK

\* A staged step, a guess included, keeps RAM, flash and the snapshot related.
LEMMA StagedInv ==
  ASSUME AppInv, SameCommand, SoundStaging, run'.at \in {"run", "checkpoint"}
  PROVE  AppInv'
<1>1. TypeOK /\ ShapeInv /\ AgreeInv /\ Running /\ run.at = "run"
  BY DEF AppInv, SameCommand
<1>2. /\ run' \in Commands /\ run' # Idle /\ Running'
      /\ UNCHANGED <<flash, ram, poisoned, selected, tx, doubt>> /\ tx = NoTx
  BY <1>1, CommandRuns, NothingParked DEF SameCommand, RunOnly, Running
<1>3. TypeOK'
  BY <1>1, <1>2 DEF TypeOK
<1>4. TxInv'
  BY <1>2 DEF TxInv, NoTx
<1>5. ShapeInv'
  BY <1>1, <1>2 DEF ShapeInv, SameCommand, SoundStaging
<1>6. AgreeInv'
  <2>1. CASE run.kind = "process"
    <3>1. d = selected /\ selected \in Domains
      BY <1>1, <2>1, Executing
    <3>2. Processing /\ Processing'
      BY <1>1, <1>2, <2>1 DEF Processing, SameCommand
    <3>3. ASSUME ~doubt
          PROVE  /\ \A x \in Domains : ram[x].inst = flash[x].inst
                 /\ \A x \in Domains \ {selected} : Agrees(x)
                 /\ run.active => Agrees(selected)
                 /\ ~run.active /\ run.disp = "Inactive" /\ ~run.dirty =>
                      run.next[selected].store = flash[selected].app.store
                 /\ ~run.active /\ run.disp # "Inactive" =>
                      run.snap.store = flash[selected].app.store
      BY <1>1, <3>2, <3>3 DEF AgreeInv, Involved
    <3>4. ASSUME ~doubt, ~run'.active, run'.disp = "Inactive", ~run'.dirty
          PROVE  run'.next[selected].store = flash[selected].app.store
      BY <3>1, <3>3, <3>4 DEF SoundStaging, SameCommand
    <3>5. ASSUME ~doubt, ~run'.active, run'.disp # "Inactive"
          PROVE  run'.snap.store = flash[selected].app.store
      BY <3>1, <3>3, <3>5 DEF SoundStaging, SameCommand
    <3>6. run'.active = run.active
      BY DEF SameCommand
    <3> QED BY <1>2, <3>2, <3>3, <3>4, <3>5, <3>6 DEF AgreeInv, Agrees, Involved
  <2>2. CASE run.kind # "process"
    <3>1. ~Processing /\ ~Processing'
      BY <2>2 DEF Processing, SameCommand
    <3> QED BY <1>1, <1>2, <3>1 DEF AgreeInv, Agrees
  <2> QED BY <2>1, <2>2
<1> QED BY <1>3, <1>4, <1>5, <1>6 DEF AppInv

\* What Checkpoint does: flash may get the floor, nothing else moves.
LEMMA CheckpointStep ==
  ASSUME TypeOK, ShapeInv, Checkpoint
  PROVE  /\ Running /\ run.at = "checkpoint" /\ tx = NoTx
         /\ flash' \in {flash, Durable} /\ poisoned' \in BOOLEAN
         /\ UNCHANGED <<ram, selected, tx, doubt>>
         /\ run' \in Commands /\ run'.kind = run.kind /\ run'.calls = run.calls
         /\ run'.order = run.order /\ run'.goal = run.goal /\ run'.active = run.active
         /\ run'.left = run.left /\ run'.next = run.next /\ run'.snap = run.snap
         /\ run'.disp = run.disp /\ run'.floor = run.floor /\ run'.at \in {"run", "faulted"}
         /\ ~run'.dirty => ~run.dirty
         /\ \/ wrong' = wrong
            \/ /\ flash' = Durable /\ run.secret = "pin"
               /\ wrong' = [wrong EXCEPT ![d] = Least(@ + 1, MaxTries + 1)]
<1>1. PICK o \in CheckpointOutcomes :
       /\ flash' = o.flash /\ poisoned' = o.bad
       /\ run' = [run EXCEPT !.at = IF o.ok THEN "run" ELSE "faulted", !.dirty = @ \/ ~o.ok]
       /\ wrong' = IF o.ok /\ ~doubt /\ run.secret = "pin"
                   THEN [wrong EXCEPT ![d] = Least(@ + 1, MaxTries + 1)] ELSE wrong
  BY DEF Checkpoint
<1>2. Running /\ run.at = "checkpoint" /\ UNCHANGED <<ram, selected, tx, doubt>>
  BY DEF Checkpoint
<1>3. /\ o.flash \in {flash, Durable} /\ o.bad \in BOOLEAN /\ o.ok \in BOOLEAN
      /\ o.ok => o.flash = Durable
  BY CheckpointCommit
<1>4. run \in Commands /\ run.dirty \in BOOLEAN /\ tx = NoTx
  BY <1>2, Fields, NothingParked
<1>5. /\ run' \in Commands /\ run'.kind = run.kind /\ run'.calls = run.calls
      /\ run'.order = run.order /\ run'.goal = run.goal /\ run'.active = run.active
      /\ run'.left = run.left /\ run'.next = run.next /\ run'.snap = run.snap
      /\ run'.disp = run.disp /\ run'.floor = run.floor /\ run'.at \in {"run", "faulted"}
      /\ run'.dirty = (run.dirty \/ ~o.ok)
  <2>1. run' = [run EXCEPT !.at = IF o.ok THEN "run" ELSE "faulted", !.dirty = run.dirty \/ ~o.ok]
    BY <1>1, <1>4 DEF Commands
  <2>2. (run.dirty \/ ~o.ok) \in BOOLEAN /\ (IF o.ok THEN "run" ELSE "faulted") \in {"run", "faulted"}
    BY <1>3, <1>4
  <2> QED BY <1>4, <2>1, <2>2 DEF Commands
<1> QED BY <1>1, <1>2, <1>3, <1>4, <1>5

\* The floor that a checkpoint adds to flash changes no store and no instance.
LEMMA DurableType ==
  ASSUME TypeOK, ShapeInv, Running, run.at = "checkpoint"
  PROVE  /\ Durable \in States
         /\ Durable[d].app.pin = Least(flash[d].app.pin, run.floor[d].pin)
         /\ \A x \in Domains : /\ Durable[x].inst = flash[x].inst
                               /\ Durable[x].app.store = flash[x].app.store
         /\ \A x \in Domains \ {d} : Durable[x] = flash[x]
<1>1. d \in Domains /\ run.floor[d] \in Floors /\ flash \in States
  BY Executing DEF TypeOK, States
<1>2. flash[d].app \in Applications
  BY <1>1 DEF States, DomainStates
<1> QED BY <1>1, <1>2, FloorInType, FlooredType DEF Durable

\* A checkpoint keeps RAM, flash and the staged copy related.
LEMMA CheckpointInv ==
  ASSUME AppInv, Checkpoint
  PROVE  AppInv'
<1>1. TypeOK /\ ShapeInv /\ AgreeInv
  BY DEF AppInv
<1>2. /\ Running /\ run.at = "checkpoint" /\ tx = NoTx
      /\ flash' \in {flash, Durable} /\ poisoned' \in BOOLEAN
      /\ UNCHANGED <<ram, selected, tx, doubt>>
      /\ run' \in Commands /\ run'.kind = run.kind /\ run'.calls = run.calls
      /\ run'.order = run.order /\ run'.goal = run.goal /\ run'.active = run.active
      /\ run'.left = run.left /\ run'.next = run.next /\ run'.snap = run.snap
      /\ run'.disp = run.disp /\ run'.floor = run.floor /\ run'.at \in {"run", "faulted"}
      /\ ~run'.dirty => ~run.dirty
  BY <1>1, CheckpointStep
<1>3. Running' /\ run' # Idle
  BY <1>2, CommandRuns DEF Running
<1>4. /\ flash' \in States
      /\ \A x \in Domains : /\ flash'[x].inst = flash[x].inst
                            /\ flash'[x].app.store = flash[x].app.store
  BY <1>1, <1>2, DurableType DEF TypeOK, States
<1>5. TypeOK'
  BY <1>1, <1>2, <1>3, <1>4 DEF TypeOK, States
<1>6. TxInv'
  BY <1>2 DEF TxInv, NoTx
<1>7. ShapeInv'
  BY <1>1, <1>2, <1>3 DEF ShapeInv
<1>8. AgreeInv'
  <2>1. Processing' <=> Processing
    BY <1>2, <1>3 DEF Processing
  <2>2. Processing => selected \in Domains
    BY <1>1 DEF Processing, ShapeInv
  <2> QED BY <1>1, <1>2, <1>4, <2>1, <2>2 DEF AgreeInv, Agrees, Involved
<1> QED BY <1>5, <1>6, <1>7, <1>8 DEF AppInv
-----------------------------------------------------------------------------
(* The tries under the steps of managed code *)

Tries == -1 .. MaxTries

\* No guess counted: any number of tries fits.
LEMMA FitsZero == \A p \in Tries : Fits(0, p)
BY Limits DEF Fits, Tries

\* A floor leaves at least as much room, and no floor changes nothing.
LEMMA FitsLeast ==
  /\ \A w \in Nat : \A p \in Tries : \A f \in 0 .. MaxTries : Fits(w, p) => Fits(w, Least(p, f))
  /\ \A p \in Tries : Least(p, MaxTries) = p
  /\ \A w \in Nat : \A p \in Tries : \A f, g \in 0 .. MaxTries :
       Fits(w, Least(p, f)) => Fits(w, Least(p, Least(f, g)))
BY Limits DEF Fits, Tries, Least

\* One more guess fits whatever a floor at or below the tries left was laid on.
LEMMA FitsSpent ==
  ASSUME NEW w \in Nat, NEW q \in 0 .. MaxTries, NEW f \in 0 .. MaxTries, f <= q, Fits(w + 1, q)
  PROVE  /\ w + 1 \in 0 .. MaxTries /\ Least(w + 1, MaxTries + 1) = w + 1
         /\ \A p \in Tries : Fits(w + 1, Least(p, f))
BY Limits DEF Fits, Tries, Least

\* A spent try makes room for the guess it answers.
LEMMA FitsGuess ==
  \A w \in Nat : \A p \in Tries : p # -1 /\ Fits(w, p) => Fits(w + 1, p - 1)
BY Limits DEF Fits, Tries

\* The tries of slots and floors.
LEMMA TriesType ==
  /\ \A a \in Applications : a.pin \in Tries
  /\ \A f \in Floors : f.pin \in 0 .. MaxTries
  /\ \A s \in States : \A x \in Domains : s[x].app \in Applications /\ s[x].app.pin \in Tries
BY DEF Applications, Floors, States, DomainStates, Tries

\* Natives answered at once leave room: a reset slot has counted no guess.
LEMMA StagingGuess ==
  ASSUME AppInv, GuessInv, Staging
  PROVE  GuessInv'
<1>1. TypeOK /\ ShapeInv /\ SameCommand /\ SoundStaging /\ Running /\ run.at = "run" /\ tx = NoTx
  BY NothingParked DEF AppInv, Staging, SameCommand
<1>2. Running' /\ UNCHANGED <<flash, ram, selected, tx>> /\ run'.at = "run"
      /\ run'.floor = run.floor
  BY <1>1, CommandRuns DEF SameCommand, RunOnly, Running, Staging
<1>3. /\ d \in Domains /\ flash \in States /\ ram \in States
      /\ run.next \in [Domains -> Applications] /\ run.floor \in [Domains -> Floors]
      /\ run.snap \in Applications /\ wrong \in [Domains -> 0 .. MaxTries]
      /\ run.kind = "process" => d = selected
  BY <1>1, Executing, Fields DEF GuessInv, TypeOK, States
<1>4. run'.next \in [Domains -> Applications] /\ run'.snap \in Applications
      /\ run'.floor \in [Domains -> Floors]
  BY <1>1 DEF SameCommand, Commands
<1>5. /\ wrong' \in [Domains -> 0 .. MaxTries]
      /\ \A x \in Domains : wrong'[x] = wrong[x] \/ (x = d /\ wrong'[x] = 0)
      /\ (wrong'[d] = wrong[d] /\ run'.next[d].pin = run.next[d].pin) \/ wrong'[d] = 0
  BY <1>3, Limits DEF Staging
<1>6. ASSUME NEW x \in Domains, NEW p \in Tries, Fits(wrong[x], p)
      PROVE  Fits(wrong'[x], p)
  BY <1>5, <1>6, FitsZero
<1>7. \A x \in Domains : Fits(wrong'[x], flash'[x].app.pin)
  BY <1>2, <1>3, <1>6, TriesType DEF GuessInv
<1>8. ASSUME NEW x \in Domains
      PROVE  Fits(wrong'[x], run'.next[x].pin)
  <2>1. Fits(wrong[x], run.next[x].pin) /\ run.next[x].pin \in Tries /\ run'.next[x].pin \in Tries
    <3>1. wrong[x] + Uncounted(x) = wrong[x]
      BY <1>1, <1>3 DEF Uncounted
    <3> QED BY <1>1, <1>3, <1>4, <3>1, TriesType DEF GuessInv, RunRoom
  <2>2. run'.next[x].pin = run.next[x].pin \/ wrong'[x] = 0
    BY <1>1, <1>5 DEF SameCommand
  <2> QED BY <1>6, <2>1, <2>2, FitsZero
<1>9. \A x \in Domains : Fits(wrong'[x], Least(ram'[x].app.pin, run'.floor[x].pin))
  <2>1. ASSUME NEW x \in Domains
        PROVE  Least(ram[x].app.pin, run.floor[x].pin) \in Tries
    BY <1>3, TriesType, Limits DEF Least, Tries
  <2> QED BY <1>1, <1>2, <1>6, <2>1 DEF GuessInv, RunRoom
<1>10. ASSUME run'.kind = "process", run'.disp # "Inactive"
       PROVE  Fits(wrong'[selected], Least(run'.snap.pin, run'.floor[selected].pin))
  <2>1. /\ selected = d /\ selected \in Domains /\ run.kind = "process"
        /\ wrong[selected] \in Nat /\ wrong'[selected] \in Nat
        /\ run.snap.pin \in Tries /\ run'.snap.pin \in Tries /\ run.next[d].pin \in Tries
        /\ run.floor[selected].pin \in 0 .. MaxTries
    BY <1>1, <1>3, <1>4, <1>5, <1>10, TriesType DEF SameCommand
  <2>2. Least(run.snap.pin, run.floor[selected].pin) \in Tries
    BY <2>1, Limits DEF Least, Tries
  <2>3. CASE run.disp # "Inactive"
    <3>1. run'.snap = run.snap
      BY <1>1, <1>10, <2>3 DEF SoundStaging
    <3>2. Fits(wrong[selected], Least(run.snap.pin, run.floor[selected].pin))
      BY <1>1, <2>1, <2>3 DEF GuessInv, RunRoom, Involved
    <3> QED BY <1>2, <1>6, <2>1, <2>2, <3>1, <3>2
  <2>4. CASE run.disp = "Inactive"
    <3>1. run'.snap = run.next[d]
      BY <1>1, <1>10, <2>4 DEF SoundStaging
    <3>2. Fits(wrong[d], run.next[d].pin)
      <4>1. wrong[d] + Uncounted(d) = wrong[d]
        BY <1>1, <2>1 DEF Uncounted
      <4> QED BY <1>1, <1>3, <4>1 DEF GuessInv, RunRoom
    <3>3. Fits(wrong'[d], run.next[d].pin)
      BY <1>3, <1>6, <2>1, <3>2
    <3> QED BY <1>2, <2>1, <3>1, <3>3, FitsLeast
  <2> QED BY <2>3, <2>4
<1>11. RestRoom'
  BY <1>1, <1>2 DEF RestRoom, NoTx
<1>12. RunRoom'
  <2>1. \A x \in Domains : Uncounted(x)' = 0 /\ wrong'[x] + 0 = wrong'[x]
    BY <1>2, <1>5 DEF Uncounted
  <2>2. \A x \in Domains : Fits(wrong[x] + Uncounted(x), run.next[x].pin)'
    BY <1>8, <2>1
  <2>3. selected' = selected
    BY <1>2
  <2> QED BY <1>9, <1>10, <2>2, <2>3 DEF RunRoom, Involved
<1>13. FloorInv'
  BY <1>1, <1>2 DEF FloorInv, GuessInv, SameCommand
<1> QED BY <1>5, <1>7, <1>11, <1>12, <1>13 DEF GuessInv
\* A wrong guess leaves room for itself before it is counted.
LEMMA GuessingGuess ==
  ASSUME AppInv, GuessInv, Guessing
  PROVE  GuessInv'
<1>1. TypeOK /\ ShapeInv /\ SameCommand /\ Running /\ run.at = "run" /\ tx = NoTx
  BY NothingParked DEF AppInv, Guessing, SameCommand
<1>2. /\ Running' /\ UNCHANGED <<flash, ram, selected, tx, wrong>> /\ run'.at = "checkpoint"
      /\ run'.kind = run.kind /\ run'.calls = run.calls /\ run'.order = run.order
      /\ run'.disp = run.disp /\ run'.snap = run.snap
      /\ \A x \in Domains \ {d} : run'.next[x] = run.next[x] /\ run'.floor[x] = run.floor[x]
  BY <1>1, CommandRuns DEF SameCommand, RunOnly, Running, Guessing
<1>3. /\ d \in Domains /\ flash \in States /\ ram \in States
      /\ run.next \in [Domains -> Applications] /\ run.floor \in [Domains -> Floors]
      /\ run.snap \in Applications /\ wrong \in [Domains -> 0 .. MaxTries]
      /\ run.kind = "process" => d = selected
      /\ d = run.calls[1] /\ Len(run.calls) \in 1 .. 2
  BY <1>1, Executing, Fields DEF GuessInv, TypeOK, States
<1>4. run'.next \in [Domains -> Applications] /\ run'.floor \in [Domains -> Floors]
  BY <1>1 DEF SameCommand, Commands
<1>5. d' = d
  BY <1>2 DEF d
<1>6. /\ wrong[d] \in Nat /\ run.next[d].pin \in Tries /\ run'.next[d].pin \in Tries
      /\ run.floor[d].pin \in 0 .. MaxTries /\ run'.next[d].pin \in 0 .. MaxTries
      /\ run'.floor[d].pin = Least(run.floor[d].pin, run'.next[d].pin)
      /\ Fits(wrong[d], run.next[d].pin)
  <2>1. wrong[d] \in Nat /\ run.next[d].pin \in Tries /\ run'.next[d].pin \in Tries
        /\ run.floor[d].pin \in 0 .. MaxTries
    BY <1>3, <1>4, TriesType
  <2>2. run'.next[d].pin # -1 /\ run'.floor[d].pin = Least(run.floor[d].pin, run'.next[d].pin)
    BY DEF Guessing
  <2>3. run'.next[d].pin \in 0 .. MaxTries
    BY <2>1, <2>2, Limits DEF Tries
  <2>4. wrong[d] + Uncounted(d) = wrong[d]
    BY <1>1, <2>1 DEF Uncounted
  <2> QED BY <1>1, <1>3, <2>1, <2>2, <2>3, <2>4 DEF GuessInv, RunRoom
<1>7. ASSUME NEW x \in Domains
      PROVE  Fits(wrong[x] + Uncounted(x), run.next[x].pin)'
  <2>1. CASE x = d
    <3>1. CASE run'.secret = "pin"
      <4>1. Uncounted(x)' = 1
        BY <1>2, <1>5, <2>1, <3>1 DEF Uncounted
      <4>2. run'.next[d].pin = run.next[d].pin - 1 /\ run.next[d].pin # -1
        BY <3>1 DEF Guessing
      <4>3. Fits(wrong[d] + 1, run.next[d].pin - 1)
        BY <1>6, <4>2, FitsGuess
      <4> QED BY <1>2, <2>1, <4>1, <4>2, <4>3
    <3>2. CASE run'.secret # "pin"
      <4>1. Uncounted(x)' = 0
        BY <3>2 DEF Uncounted
      <4>2. run'.next[d].pin = run.next[d].pin /\ wrong[d] + 0 = wrong[d]
        BY <1>6, <3>2 DEF Guessing
      <4> QED BY <1>2, <1>6, <2>1, <4>1, <4>2
    <3> QED BY <3>1, <3>2
  <2>2. CASE x # d
    <3>1. Uncounted(x)' = 0 /\ Uncounted(x) = 0
      BY <1>1, <1>5, <2>2 DEF Uncounted
    <3> QED BY <1>1, <1>2, <2>2, <3>1 DEF GuessInv, RunRoom
  <2> QED BY <2>1, <2>2
<1>8. ASSUME NEW x \in Domains, NEW p \in Tries, Fits(wrong[x], Least(p, run.floor[x].pin))
      PROVE  Fits(wrong[x], Least(p, run'.floor[x].pin))
  <2>1. CASE x = d
    BY <1>6, <1>8, <2>1, FitsLeast
  <2>2. CASE x # d
    BY <1>2, <1>8, <2>2
  <2> QED BY <2>1, <2>2
<1>9. RunRoom'
  <2>1. \A x \in Domains : Fits(wrong[x], Least(ram[x].app.pin, run'.floor[x].pin))
    BY <1>1, <1>3, <1>8, TriesType DEF GuessInv, RunRoom
  <2>2. ASSUME run.kind = "process", run.disp # "Inactive"
        PROVE  Fits(wrong[selected], Least(run.snap.pin, run'.floor[selected].pin))
    BY <1>1, <1>3, <1>8, <2>2, TriesType DEF GuessInv, RunRoom, Involved
  <2> QED BY <1>2, <1>7, <2>1, <2>2 DEF RunRoom, Involved
<1>10. FloorInv'
  <2>1. ASSUME NEW x \in Domains, run'.floor[x] # NoFloor
        PROVE  /\ HoldsPin(x) /\ \E i \in 1 .. Len(run.order) : run.order[i] = x
               /\ run.kind = "process" => x = selected
    <3>1. CASE x = d
      <4>1. \E i \in 1 .. Len(run.order) : run.order[i] = run.calls[1]
        BY <1>1, <1>3 DEF GuessInv, FloorInv
      <4> QED BY <1>3, <3>1, <4>1 DEF Guessing
    <3>2. CASE x # d
      BY <1>1, <1>2, <2>1, <3>2 DEF GuessInv, FloorInv
    <3> QED BY <3>1, <3>2
  <2>2. run'.next[d].pin # -1 /\ run'.floor[d].pin <= run'.next[d].pin
    BY <1>6, LeastType, Limits DEF Guessing
  <2> QED BY <1>1, <1>2, <1>5, <2>1, <2>2 DEF FloorInv, GuessInv
<1>11. RestRoom'
  BY <1>1, <1>2 DEF RestRoom, NoTx
<1> QED BY <1>2, <1>9, <1>10, <1>11 DEF GuessInv

\* A checkpoint counts a guess only when flash holds the floor.
LEMMA CheckpointGuess ==
  ASSUME AppInv, GuessInv, Checkpoint
  PROVE  GuessInv'
<1>1. TypeOK /\ ShapeInv
  BY DEF AppInv
<1>2. /\ Running /\ run.at = "checkpoint" /\ tx = NoTx
      /\ flash' \in {flash, Durable}
      /\ UNCHANGED <<ram, selected, tx>>
      /\ run' \in Commands /\ run'.kind = run.kind /\ run'.calls = run.calls
      /\ run'.order = run.order /\ run'.next = run.next /\ run'.snap = run.snap
      /\ run'.disp = run.disp /\ run'.floor = run.floor /\ run'.at \in {"run", "faulted"}
      /\ \/ wrong' = wrong
         \/ /\ flash' = Durable /\ run.secret = "pin"
            /\ wrong' = [wrong EXCEPT ![d] = Least(@ + 1, MaxTries + 1)]
  BY <1>1, CheckpointStep
<1>3. Running'
  BY <1>2, CommandRuns DEF Running
<1>4. /\ d \in Domains /\ flash \in States /\ ram \in States
      /\ run.next \in [Domains -> Applications] /\ run.floor \in [Domains -> Floors]
      /\ run.snap \in Applications /\ wrong \in [Domains -> 0 .. MaxTries]
      /\ run.kind = "process" => d = selected
  BY <1>1, <1>2, Executing, Fields DEF GuessInv, TypeOK, States
<1>5. /\ run.next[d].pin \in 0 .. MaxTries /\ run.floor[d].pin \in 0 .. MaxTries
      /\ run.floor[d].pin <= run.next[d].pin /\ wrong[d] \in Nat
  <2>1. run.next[d].pin \in Tries /\ run.floor[d].pin \in 0 .. MaxTries /\ wrong[d] \in Nat
    BY <1>4, TriesType
  <2>2. run.next[d].pin # -1 /\ run.floor[d].pin <= run.next[d].pin
    BY <1>2 DEF GuessInv, FloorInv
  <2> QED BY <2>1, <2>2, Limits DEF Tries
<1>6. \A x \in Domains : Uncounted(x)' = 0
  BY <1>2 DEF Uncounted
<1>7. /\ Durable[d].app.pin = Least(flash[d].app.pin, run.floor[d].pin)
      /\ \A x \in Domains \ {d} : Durable[x] = flash[x]
  BY <1>1, <1>2, DurableType
<1>8. \A x \in Domains :
        /\ Fits(wrong[x], flash[x].app.pin)
        /\ Fits(wrong[x] + Uncounted(x), run.next[x].pin)
        /\ Fits(wrong[x], Least(ram[x].app.pin, run.floor[x].pin))
        /\ flash[x].app.pin \in Tries /\ ram[x].app.pin \in Tries
        /\ wrong[x] \in Nat
  BY <1>2, <1>4, TriesType DEF GuessInv, RunRoom
<1>9. run.kind = "process" /\ run.disp # "Inactive" =>
        Fits(wrong[selected], Least(run.snap.pin, run.floor[selected].pin))
  BY <1>2 DEF GuessInv, RunRoom, Involved
<1>10. /\ wrong' \in [Domains -> 0 .. MaxTries]
       /\ \A x \in Domains :
            /\ Fits(wrong'[x], flash'[x].app.pin)
            /\ Fits(wrong'[x], run.next[x].pin)
            /\ Fits(wrong'[x], Least(ram[x].app.pin, run.floor[x].pin))
       /\ run.kind = "process" /\ run.disp # "Inactive" =>
            Fits(wrong'[selected], Least(run.snap.pin, run.floor[selected].pin))
  <2>1. CASE wrong' = wrong
    <3>1. ASSUME NEW x \in Domains
          PROVE  Fits(wrong[x], flash'[x].app.pin) /\ Fits(wrong[x], run.next[x].pin)
      <4>1. Fits(wrong[x], run.next[x].pin)
        <5>1. run.next[x].pin \in Tries /\ Uncounted(x) \in {0, 1}
          BY <1>4, TriesType DEF Uncounted
        <5> QED BY <1>8, <5>1, Limits DEF Fits, Tries
      <4>2. Fits(wrong[x], flash'[x].app.pin)
        BY <1>2, <1>5, <1>7, <1>8, FitsLeast
      <4> QED BY <4>1, <4>2
    <3> QED BY <1>4, <1>8, <1>9, <2>1, <3>1
  <2>2. CASE /\ flash' = Durable /\ run.secret = "pin"
             /\ wrong' = [wrong EXCEPT ![d] = Least(@ + 1, MaxTries + 1)]
    <3>1. Fits(wrong[d] + 1, run.next[d].pin)
      <4>1. Uncounted(d) = 1
        BY <1>2, <2>2 DEF Uncounted
      <4> QED BY <1>4, <1>8, <4>1
    <3>2. /\ wrong[d] + 1 \in 0 .. MaxTries /\ Least(wrong[d] + 1, MaxTries + 1) = wrong[d] + 1
          /\ \A p \in Tries : Fits(wrong[d] + 1, Least(p, run.floor[d].pin))
      BY <1>5, <3>1, FitsSpent
    <3>3. /\ wrong' \in [Domains -> 0 .. MaxTries] /\ wrong'[d] = wrong[d] + 1
          /\ \A x \in Domains \ {d} : wrong'[x] = wrong[x]
      BY <1>4, <2>2, <3>2
    <3>4. ASSUME NEW x \in Domains \ {d}
          PROVE  /\ Fits(wrong'[x], flash'[x].app.pin) /\ Fits(wrong'[x], run.next[x].pin)
                 /\ Fits(wrong'[x], Least(ram[x].app.pin, run.floor[x].pin))
      <4>1. Uncounted(x) = 0 /\ wrong[x] + 0 = wrong[x]
        BY <1>8 DEF Uncounted
      <4> QED BY <1>7, <1>8, <2>2, <3>3, <4>1
    <3>5. /\ Fits(wrong'[d], flash'[d].app.pin) /\ Fits(wrong'[d], run.next[d].pin)
          /\ Fits(wrong'[d], Least(ram[d].app.pin, run.floor[d].pin))
      BY <1>4, <1>7, <1>8, <2>2, <3>1, <3>2, <3>3
    <3>6. run.kind = "process" => Fits(wrong'[selected], Least(run.snap.pin, run.floor[selected].pin))
      BY <1>4, <3>2, <3>3, TriesType
    <3> QED BY <3>3, <3>4, <3>5, <3>6
  <2> QED BY <1>2, <2>1, <2>2
<1>11. RunRoom'
  <2>1. \A x \in Domains : Fits(wrong[x] + Uncounted(x), run.next[x].pin)'
    <3>1. \A x \in Domains : wrong'[x] + 0 = wrong'[x]
      BY <1>10
    <3> QED BY <1>2, <1>6, <1>10, <3>1
  <2> QED BY <1>2, <1>10, <2>1 DEF RunRoom, Involved
<1>12. FloorInv'
  BY <1>2 DEF FloorInv, GuessInv
<1>13. RestRoom'
  BY <1>2, <1>3 DEF RestRoom, NoTx
<1> QED BY <1>10, <1>11, <1>12, <1>13 DEF GuessInv
-----------------------------------------------------------------------------
(* The end of a process command *)

\* A state that agrees with flash, if every failed commit is resolved.
Clean(s) ==
  /\ s \in States /\ s[selected].inst
  /\ ~doubt => \A x \in Domains : /\ s[x].inst = flash[x].inst
                                  /\ s[x].app.store = flash[x].app.store

\* A state whose tries leave room for the guesses counted.
Roomy(s) == \A x \in Domains : Fits(wrong[x], s[x].app.pin)

\* What the command may leave behind.
Closing(o, pending) ==
  /\ Close(o, pending)
  /\ o.flash \in States /\ o.ram \in States /\ o.bad \in BOOLEAN /\ o.lost \in BOOLEAN
  /\ o.ram = o.flash \/ o.lost \/ (o.flash = flash /\ Clean(o.ram))
  /\ pending = NoTx \/ (pending = Open /\ run.left > 1 /\ Clean(o.ram))
  /\ GuessInv => Roomy(o.flash) /\ Roomy(o.ram)
  /\ run.disp \in {"Active", "Begun", "Abort"} => o.flash = flash

\* The states that a command which ends may put into RAM.
LEMMA EndStates ==
  ASSUME AppInv, Processing, run.at \in {"run", "faulted"}
  PROVE  /\ d = selected /\ d \in Domains /\ App \in Applications /\ ram \in States /\ flash \in States
         /\ poisoned \in BOOLEAN /\ doubt \in BOOLEAN
         /\ WithApp(ram, d, App) \in States
         /\ ~Involved /\ ~run.dirty => Clean(WithApp(ram, d, App))
         /\ Involved => Clean(Base) /\ Clean(Reconciled(Base))
         /\ WithApp(Base, d, App) \in States
         /\ GuessInv => /\ Roomy(flash) /\ Roomy(WithApp(ram, d, App))
                        /\ Roomy(WithApp(Base, d, App))
                        /\ Involved => Roomy(Reconciled(Base))
                        /\ Base[d].app = App => Roomy(Base)
<1>1. TypeOK /\ ShapeInv /\ AgreeInv /\ Running /\ run.kind = "process"
  BY DEF AppInv, Processing
<1>2. /\ d = selected /\ d \in Domains /\ App \in Applications /\ ram \in States /\ flash \in States
      /\ poisoned \in BOOLEAN /\ doubt \in BOOLEAN
      /\ run.snap \in Applications /\ run.floor \in [Domains -> Floors] /\ run.floor[d] \in Floors
      /\ run.active \in BOOLEAN /\ App = run.next[d] /\ ram[selected].inst
      /\ run.next \in [Domains -> Applications]
      /\ run.active => Involved
  BY <1>1, Executing, Fields DEF App, TypeOK, States, ShapeInv, Involved
<1>3. /\ Base \in States /\ Base[selected].inst
      /\ \A x \in Domains \ {d} : Base[x] = ram[x]
      /\ Base[d].app = (IF run.active THEN ram[d].app ELSE run.snap)
      /\ \A x \in Domains : Base[x].inst = ram[x].inst
  <2>1. CASE run.active
    BY <1>2, <2>1 DEF Base
  <2>2. CASE ~run.active
    <3>1. Base = WithApp(ram, d, run.snap)
      BY <2>2 DEF Base
    <3>2. ram \in States /\ d \in Domains /\ run.snap \in Applications
      BY <1>2
    <3>3. /\ WithApp(ram, d, run.snap) \in States
          /\ WithApp(ram, d, run.snap)[d].app = run.snap
          /\ \A x \in Domains : WithApp(ram, d, run.snap)[x].inst = ram[x].inst
          /\ \A x \in Domains \ {d} : WithApp(ram, d, run.snap)[x] = ram[x]
      BY <3>2, WithAppType
    <3> QED BY <1>2, <2>2, <3>1, <3>3
  <2> QED BY <2>1, <2>2
<1>4. /\ WithApp(ram, d, App) \in States /\ WithApp(Base, d, App) \in States
      /\ WithApp(ram, d, App)[d].app = App /\ WithApp(Base, d, App)[d].app = App
      /\ \A x \in Domains : WithApp(ram, d, App)[x].inst = ram[x].inst
      /\ \A x \in Domains \ {d} : WithApp(ram, d, App)[x] = ram[x] /\ WithApp(Base, d, App)[x] = ram[x]
  <2>1. ram \in States /\ Base \in States /\ d \in Domains /\ App \in Applications
    BY <1>2, <1>3
  <2>2. /\ WithApp(ram, d, App) \in States /\ WithApp(ram, d, App)[d].app = App
        /\ \A x \in Domains : WithApp(ram, d, App)[x].inst = ram[x].inst
        /\ \A x \in Domains \ {d} : WithApp(ram, d, App)[x] = ram[x]
    BY <2>1, WithAppType
  <2>3. /\ WithApp(Base, d, App) \in States /\ WithApp(Base, d, App)[d].app = App
        /\ \A x \in Domains \ {d} : WithApp(Base, d, App)[x] = Base[x]
    BY <2>1, WithAppType
  <2> QED BY <1>3, <2>2, <2>3
<1>5. /\ Reconciled(Base) \in States
      /\ Reconciled(Base)[d].app = Floored(Base[d].app, run.floor[d])
      /\ \A x \in Domains : /\ Reconciled(Base)[x].inst = Base[x].inst
                            /\ Reconciled(Base)[x].app.store = Base[x].app.store
      /\ \A x \in Domains \ {d} : Reconciled(Base)[x] = ram[x]
  BY <1>2, <1>3, FloorInType DEF Reconciled
<1>6. ASSUME ~doubt
      PROVE  /\ \A x \in Domains : ram[x].inst = flash[x].inst
             /\ \A x \in Domains \ {d} : ram[x].app.store = flash[x].app.store
             /\ run.active => ram[d].app.store = flash[d].app.store
             /\ ~Involved /\ ~run.dirty => App.store = flash[d].app.store
             /\ ~run.active /\ Involved => run.snap.store = flash[d].app.store
  BY <1>1, <1>2, <1>6 DEF AgreeInv, Agrees, Processing
<1>7. ~Involved /\ ~run.dirty => Clean(WithApp(ram, d, App))
  BY <1>2, <1>4, <1>6 DEF Clean
<1>8. Involved => Clean(Base)
  BY <1>2, <1>3, <1>6 DEF Clean
<1>9. Involved => Clean(Reconciled(Base))
  BY <1>2, <1>3, <1>5, <1>8 DEF Clean
<1>10. ASSUME GuessInv
       PROVE  /\ Roomy(flash) /\ Roomy(WithApp(ram, d, App))
              /\ Roomy(WithApp(Base, d, App))
              /\ Involved => Roomy(Reconciled(Base))
              /\ Base[d].app = App => Roomy(Base)
  <2>1. /\ wrong \in [Domains -> 0 .. MaxTries] /\ RunRoom /\ FloorInv /\ Roomy(flash)
    BY <1>10 DEF GuessInv, Roomy
  <2>2. Fits(wrong[d], App.pin)
    <3>1. Uncounted(d) = 0 /\ wrong[d] \in Nat
      BY <1>2, <2>1 DEF Uncounted
    <3>2. wrong[d] + 0 = wrong[d]
      BY <3>1
    <3> QED BY <1>1, <1>2, <2>1, <3>1, <3>2 DEF RunRoom
  <2>3. ASSUME NEW x \in Domains \ {d}
        PROVE  Fits(wrong[x], ram[x].app.pin)
    <3>1. run.floor[x].pin = MaxTries
      BY <1>1, <1>2, <2>1, EmptyType DEF FloorInv
    <3>2. ram[x].app.pin \in Tries
      BY <1>2, TriesType
    <3> QED BY <1>1, <2>1, <3>1, <3>2, FitsLeast DEF RunRoom
  <2>4. ASSUME Involved
        PROVE  Fits(wrong[d], Reconciled(Base)[d].app.pin)
    <3>1. Base[d].app \in Applications
      BY <1>2, <1>3, TriesType
    <3>2. Reconciled(Base)[d].app.pin = Least(Base[d].app.pin, run.floor[d].pin)
      BY <1>2, <1>5, <3>1, FlooredType
    <3>3. CASE run.active
      BY <1>1, <1>2, <1>3, <2>1, <3>2, <3>3 DEF RunRoom
    <3>4. CASE ~run.active
      BY <1>1, <1>2, <1>3, <2>1, <2>4, <3>2, <3>4 DEF RunRoom
    <3> QED BY <3>3, <3>4
  <2> QED BY <1>3, <1>4, <1>5, <2>1, <2>2, <2>3, <2>4 DEF Roomy
<1> QED BY <1>2, <1>4, <1>7, <1>8, <1>9, <1>10

\* Nothing written: RAM becomes a clean state, flash stays.
LEMMA EndUnwritten ==
  ASSUME AppInv, Processing, NEW s, NEW pending, Close(Unwritten(s), pending),
         Clean(s), GuessInv => Roomy(s) /\ Roomy(flash),
         pending = NoTx \/ (pending = Open /\ run.left > 1)
  PROVE  Closing(Unwritten(s), pending)
<1>1. /\ Unwritten(s).flash = flash /\ Unwritten(s).ram = s /\ Unwritten(s).bad = poisoned
      /\ Unwritten(s).lost = FALSE
  BY DEF Unwritten
<1>2. flash \in States /\ s \in States /\ poisoned \in BOOLEAN
  BY DEF AppInv, TypeOK, States, Clean
<1> QED BY <1>1, <1>2 DEF Closing

\* Committed: the outcomes of an application commit.
LEMMA EndCommitted ==
  ASSUME AppInv, Processing, NEW s \in States, NEW o \in ApplicationOutcomes(s), Close(o, NoTx),
         GuessInv => Roomy(s) /\ Roomy(flash),
         run.disp \notin {"Active", "Begun", "Abort"}
  PROVE  Closing(o, NoTx)
<1>1. flash \in States /\ poisoned \in BOOLEAN
  BY DEF AppInv, TypeOK, States
<1>2. /\ o.flash \in {flash, s} /\ o.ram \in {s, o.flash}
      /\ o.bad \in BOOLEAN /\ o.lost \in BOOLEAN /\ o.ok \in BOOLEAN
      /\ ~o.lost => o.ram = o.flash
  BY <1>1, ApplicationCommit
<1> QED BY <1>1, <1>2 DEF Closing

\* An ordinary command that returns or throws.
LEMMA EndOrdinary ==
  ASSUME AppInv, Processing, run.at \in {"run", "faulted"}, ~Involved,
         \E o \in CommitOrdinary : Close(o, NoTx)
  PROVE  \E o, pending : Closing(o, pending)
<1> DEFINE new == WithApp(ram, d, App)
<1>1. /\ new \in States /\ (~run.dirty => Clean(new)) /\ (GuessInv => Roomy(new) /\ Roomy(flash))
  BY EndStates
<1>2. PICK o \in CommitOrdinary : Close(o, NoTx)
  OBVIOUS
<1>3. run.disp \notin {"Active", "Begun", "Abort"}
  BY DEF Involved
<1> HIDE DEF new
<1>4. CASE run.dirty
  <2>1. o \in ApplicationOutcomes(new)
    BY <1>2, <1>4 DEF CommitOrdinary, new
  <2> QED BY <1>1, <1>2, <1>3, <2>1, EndCommitted
<1>5. CASE ~run.dirty
  <2>1. o = Unwritten(new)
    BY <1>2, <1>5 DEF CommitOrdinary, new
  <2> QED BY <1>1, <1>2, <1>5, <2>1, EndUnwritten
<1> QED BY <1>4, <1>5

\* A transaction that is aborted, parked or faulted: RAM without it.
LEMMA EndReconciled ==
  ASSUME AppInv, Processing, run.at \in {"run", "faulted"}, Involved, NEW pending,
         Close(Unwritten(Reconciled(Base)), pending),
         pending = NoTx \/ (pending = Open /\ run.left > 1)
  PROVE  \E o, q : Closing(o, q)
BY EndStates, EndUnwritten

\* Every end of a process command is one of these.
LEMMA EndSteps ==
  ASSUME AppInv, Return \/ ManagedException \/ Fault
  PROVE  Processing /\ run.at # "checkpoint" /\ \E o, pending : Closing(o, pending)
<1>1. Processing /\ run.at \in {"run", "faulted"}
  BY DEF Return, ManagedException, Fault
<1>2. CASE Return
  <2>1. run.at = "run" /\ run.disp \in Dispositions
    BY <1>1, <1>2, Fields DEF Return, AppInv, Processing
  <2>2. CASE run.disp = "Inactive"
    <3>1. \E o \in CommitOrdinary : Close(o, NoTx)
      BY <1>2, <2>2 DEF Return
    <3> QED BY <1>1, <2>1, <2>2, <3>1, EndOrdinary DEF Involved
  <2>3. CASE run.disp = "Commit"
    <3>1. CASE Base[d].app = App
      <4>1. Close(Unwritten(Base), NoTx)
        BY <1>2, <2>3, <3>1 DEF Return
      <4>2. Clean(Base) /\ (GuessInv => Roomy(Base) /\ Roomy(flash))
        BY <1>1, <2>3, <3>1, EndStates DEF Involved
      <4> QED BY <1>1, <4>1, <4>2, EndUnwritten
    <3>2. CASE Base[d].app # App
      <4>1. PICK o \in ApplicationOutcomes(WithApp(Base, d, App)) : Close(o, NoTx)
        BY <1>2, <2>3, <3>2 DEF Return
      <4>2. WithApp(Base, d, App) \in States
            /\ (GuessInv => Roomy(WithApp(Base, d, App)) /\ Roomy(flash))
        BY <1>1, EndStates
      <4> QED BY <1>1, <2>3, <4>1, <4>2, EndCommitted
    <3> QED BY <3>1, <3>2
  <2>4. CASE run.disp = "Abort"
    <3>1. Close(Unwritten(Reconciled(Base)), NoTx)
      BY <1>2, <2>4 DEF Return
    <3> QED BY <1>1, <2>4, <3>1, EndReconciled DEF Involved
  <2>5. CASE run.disp \in {"Active", "Begun"}
    <3>1. Close(Unwritten(Reconciled(Base)), Pending)
      BY <1>2, <2>5 DEF Return
    <3>2. Pending = NoTx \/ (Pending = Open /\ run.left > 1)
      BY DEF Pending
    <3> QED BY <1>1, <2>5, <3>1, <3>2, EndReconciled DEF Involved
  <2> QED BY <1>1, <2>1, <2>2, <2>3, <2>4, <2>5 DEF Dispositions
<1>3. CASE ManagedException
  <2>1. CASE Involved
    BY <1>1, <1>3, <2>1, EndReconciled DEF ManagedException
  <2>2. CASE ~Involved
    BY <1>1, <1>3, <2>2, EndOrdinary DEF ManagedException
  <2> QED BY <1>1, <2>1, <2>2
<1>4. CASE Fault
  <2> DEFINE new == WithApp(ram, d, App)
  <2>1. CASE Involved
    BY <1>1, <1>4, <2>1, EndReconciled DEF Fault
  <2>2. CASE ~Involved /\ ~run.dirty
    <3>1. Close(Unwritten(new), NoTx)
      BY <1>4, <2>2 DEF Fault
    <3>2. Clean(new) /\ (GuessInv => Roomy(new) /\ Roomy(flash))
      BY <1>1, <2>2, EndStates
    <3> QED BY <1>1, <3>1, <3>2, EndUnwritten
  <2>3. CASE ~Involved /\ run.dirty
    <3>1. PICK r \in RecoverOutcomes :
            Close([ok |-> FALSE, flash |-> flash,
                   ram |-> IF r.ok THEN flash ELSE new, bad |-> r.bad, lost |-> ~r.ok], NoTx)
      BY <1>4, <2>3 DEF Fault
    <3>2. r.ok \in BOOLEAN /\ r.bad \in BOOLEAN
      BY RecoverType
    <3>3. new \in States /\ flash \in States /\ (GuessInv => Roomy(new) /\ Roomy(flash))
      BY <1>1, EndStates
    <3> HIDE DEF new
    <3> DEFINE o == [ok |-> FALSE, flash |-> flash,
                     ram |-> IF r.ok THEN flash ELSE new, bad |-> r.bad, lost |-> ~r.ok]
    <3>4. /\ o.flash = flash /\ o.ram = (IF r.ok THEN flash ELSE new) /\ o.bad = r.bad
          /\ o.lost = ~r.ok /\ Close(o, NoTx)
      BY <3>1
    <3> HIDE DEF o
    <3>5. /\ o.flash \in States /\ o.ram \in States /\ o.bad \in BOOLEAN /\ o.lost \in BOOLEAN
          /\ o.ram = o.flash \/ o.lost
          /\ GuessInv => Roomy(o.flash) /\ Roomy(o.ram)
      BY <3>2, <3>3, <3>4
    <3>6. Closing(o, NoTx)
      BY <3>4, <3>5 DEF Closing
    <3> QED BY <1>1, <3>6
  <2> QED BY <1>1, <2>1, <2>2, <2>3
<1> QED BY <1>2, <1>3, <1>4
\* The end of a command: RAM agrees with flash again.
LEMMA ClosingInv ==
  ASSUME AppInv, Processing, run.at # "checkpoint", NEW o, NEW pending, Closing(o, pending)
  PROVE  AppInv'
<1>1. TypeOK /\ ShapeInv /\ Running /\ run.kind = "process"
  BY DEF AppInv, Processing
<1>2. /\ flash' = o.flash /\ ram' = o.ram /\ poisoned' = o.bad
      /\ doubt' = ((doubt \/ o.lost) /\ o.ram # o.flash)
      /\ tx' = pending /\ run' = Idle /\ selected' = selected
  BY DEF Closing, Close, Adopt
<1>3. /\ d = selected /\ selected \in Domains /\ run.next[d] \in Applications
      /\ run.left \in 0 .. TxCommands
      /\ run.at \in {"run", "checkpoint", "faulted"}
  BY <1>1, Executing, Fields DEF ShapeInv
<1>4. ~Running' /\ ~Processing'
  BY <1>2 DEF Running, Processing
<1>5. ASSUME pending # NoTx
      PROVE  /\ pending.d = selected /\ pending.left \in 1 .. TxCommands - 1
             /\ pending.app \in Applications /\ ram'[selected].inst
  <2>1. pending = Open /\ run.left > 1 /\ Clean(o.ram)
    BY <1>5 DEF Closing
  <2>2. run.left - 1 \in 1 .. TxCommands - 1
    BY <1>3, <2>1, Limits
  <2> QED BY <1>2, <1>3, <2>1, <2>2 DEF Open, Clean, App
<1>6. TypeOK'
  <2>1. flash' \in [Domains -> DomainStates] /\ ram' \in [Domains -> DomainStates]
        /\ poisoned' \in BOOLEAN /\ doubt' \in BOOLEAN
    BY <1>1, <1>2 DEF Closing, States, TypeOK
  <2> QED BY <1>2, <1>3, <1>4, <1>5, <2>1 DEF TypeOK
<1>7. TxInv'
  BY <1>2, <1>3, <1>4, <1>5 DEF TxInv, NoTx
<1>8. ShapeInv'
  BY <1>4 DEF ShapeInv
<1>9. AgreeInv'
  <2>1. ASSUME ~doubt'
        PROVE  \A x \in Domains : Agrees(x)'
    <3>1. \/ o.ram = o.flash
          \/ ~doubt /\ ~o.lost /\ o.flash = flash /\ Clean(o.ram)
      BY <1>2, <2>1 DEF Closing
    <3> QED BY <1>2, <3>1 DEF Agrees, Clean
  <2> QED BY <1>4, <2>1 DEF AgreeInv, Agrees
<1> QED BY <1>6, <1>7, <1>8, <1>9 DEF AppInv

\* The end of a command leaves room in RAM, flash and a parked transaction.
LEMMA ClosingGuess ==
  ASSUME AppInv, GuessInv, Processing, run.at # "checkpoint",
         NEW o, NEW pending, Closing(o, pending)
  PROVE  GuessInv'
<1>1. TypeOK /\ ShapeInv /\ Running /\ run.kind = "process"
  BY DEF AppInv, Processing
<1>2. flash' = o.flash /\ ram' = o.ram /\ tx' = pending /\ run' = Idle /\ wrong' = wrong
  BY DEF Closing, Close, Adopt
<1>3. d = selected /\ selected \in Domains /\ wrong \in [Domains -> 0 .. MaxTries]
  BY <1>1, Executing DEF ShapeInv, GuessInv
<1>4. ~Running'
  BY <1>2 DEF Running
<1>5. Roomy(o.flash) /\ Roomy(o.ram)
  BY DEF Closing
<1>6. ASSUME pending # NoTx
      PROVE  Fits(wrong[pending.d], pending.app.pin)
  <2>1. pending = Open
    BY <1>6 DEF Closing
  <2>2. pending.d = d /\ pending.app = run.next[d]
    BY <2>1 DEF Open, App
  <2>3. Uncounted(d) = 0 /\ wrong[d] + 0 = wrong[d]
    BY <1>3 DEF Uncounted
  <2>4. Fits(wrong[d], run.next[d].pin)
    BY <1>1, <1>3, <2>3 DEF GuessInv, RunRoom
  <2> QED BY <2>2, <2>4
<1>7. RestRoom'
  BY <1>2, <1>4, <1>5, <1>6 DEF RestRoom, Roomy, NoTx
<1> QED BY <1>2, <1>3, <1>4, <1>5, <1>7 DEF GuessInv, RunRoom, FloorInv, Roomy

-----------------------------------------------------------------------------
(* The start of a command *)

\* Every start takes RAM's applications, or resumes the parked transaction.
Starting ==
  /\ ~Running /\ tx' = NoTx
  /\ UNCHANGED <<flash, poisoned, selected, wrong, doubt>>
  /\ run' \in Commands /\ run' # Idle /\ run'.at = "run" /\ run'.calls # <<>>
  /\ run'.order = run'.calls
  /\ run'.floor = [x \in Domains |-> NoFloor] /\ run'.snap = Empty
  /\ run'.kind # "process" =>
       /\ ram' = ram /\ run'.next = AppsOf(ram)
       /\ run'.kind # "isd" => run'.goal \in Domains
  /\ run'.kind = "process" =>
       /\ selected \in Domains /\ run'.calls = <<selected>> /\ ram[selected].inst
       /\ \/ /\ tx # NoTx /\ tx.d = selected /\ run'.next = [AppsOf(ram) EXCEPT ![selected] = tx.app]
             /\ run'.active /\ run'.disp = "Active" /\ run'.left = tx.left /\ ram' = ram
          \/ /\ run'.next = AppsOf(ram) /\ ~run'.active /\ run'.disp = "Inactive"
             /\ run'.left = TxCommands /\ ram' = WithApp(ram, selected, Empty)

\* The record a command starts with.
LEMMA StartType ==
  ASSUME NEW kind \in {"process", "select", "isd", "install", "uninstall"},
         NEW calls \in CallLists, calls # <<>>, NEW goal \in Domains \cup {None},
         NEW next \in [Domains -> Applications], NEW active \in BOOLEAN,
         NEW left \in 0 .. TxCommands,
         Start(kind, calls, goal, next, active, left)
  PROVE  /\ run' \in Commands /\ run' # Idle /\ run'.at = "run" /\ run'.kind = kind
         /\ run'.calls = calls /\ run'.order = calls /\ run'.goal = goal /\ run'.next = next
         /\ run'.snap = Empty /\ run'.floor = [x \in Domains |-> NoFloor]
         /\ run'.active = active /\ run'.left = left
         /\ run'.disp = (IF active THEN "Active" ELSE "Inactive")
<1>1. run' = [kind |-> kind, calls |-> calls, order |-> calls, goal |-> goal,
          at |-> "run",
          next |-> next, snap |-> Empty,
          disp |-> IF active THEN "Active" ELSE "Inactive", active |-> active, left |-> left,
          dirty |-> FALSE, output |-> FALSE, auth |-> FALSE, ops |-> Budget,
          floor |-> [x \in Domains |-> NoFloor], secret |-> "pin"]
  BY DEF Start
<1>2. /\ Empty \in Applications /\ [x \in Domains |-> NoFloor] \in [Domains -> Floors]
      /\ (IF active THEN "Active" ELSE "Inactive") \in Dispositions /\ Budget \in 0 .. Budget
  BY EmptyType, Limits DEF Dispositions
<1>3. run' \in Commands
  BY <1>1, <1>2 DEF Commands, CallLists
<1> QED BY <1>1, <1>3, CommandRuns

\* The commands that a card between commands may start.
LEMMA StartSteps ==
  ASSUME AppInv, \/ Process \/ SelectIsd
                 \/ \E x \in Domains : Select(x) \/ Install(x) \/ Uninstall(x)
  PROVE  Starting \/ (~Running /\ tx' = NoTx /\ UNCHANGED <<flash, ram, poisoned, selected, run, wrong, doubt>>)
<1>1. TypeOK /\ TxInv /\ ram \in States
  BY DEF AppInv, TypeOK, States
<1>2. AppsOf(ram) \in [Domains -> Applications] /\ FALSE \in BOOLEAN /\ TRUE \in BOOLEAN
      /\ 0 \in 0 .. TxCommands /\ TxCommands \in 0 .. TxCommands /\ selected \in Domains \cup {None}
  BY <1>1, AppsType, Limits DEF TypeOK
<1>3. CASE Process
  <2>1. ~Running /\ selected \in Domains /\ ram[selected].inst /\ tx' = NoTx
        /\ UNCHANGED <<flash, poisoned, selected, wrong, doubt>>
    BY <1>2, <1>3 DEF Process
  <2>2. <<selected>> \in CallLists /\ <<selected>> # <<>>
    BY <2>1, StartLists
  <2>3. CASE tx.d = selected
    <3>1. Start("process", <<selected>>, None, [AppsOf(ram) EXCEPT ![selected] = tx.app],
                TRUE, tx.left) /\ ram' = ram
      BY <1>3, <2>3 DEF Process
    <3>2. tx # NoTx
      BY <2>1, <2>3, Limits DEF NoTx
    <3>3. tx.app \in Applications /\ tx.left \in 0 .. TxCommands
      BY <1>1, <3>2, Limits DEF TxInv
    <3>4. [AppsOf(ram) EXCEPT ![selected] = tx.app] \in [Domains -> Applications]
      BY <1>2, <3>3
    <3>5. /\ run' \in Commands /\ run' # Idle /\ run'.at = "run" /\ run'.kind = "process"
          /\ run'.calls = <<selected>> /\ run'.order = <<selected>> /\ run'.goal = None
          /\ run'.next = [AppsOf(ram) EXCEPT ![selected] = tx.app]
          /\ run'.snap = Empty /\ run'.floor = [y \in Domains |-> NoFloor]
          /\ run'.active = TRUE /\ run'.left = tx.left /\ run'.disp = "Active"
      <4> DEFINE next == [AppsOf(ram) EXCEPT ![selected] = tx.app]
                 calls == <<selected>>
                 left == tx.left
      <4>1. /\ next \in [Domains -> Applications] /\ left \in 0 .. TxCommands
            /\ None \in Domains \cup {None} /\ calls \in CallLists /\ calls # <<>>
            /\ "process" \in {"process", "select", "isd", "install", "uninstall"}
        BY <2>2, <3>3, <3>4
      <4>2. Start("process", calls, None, next, TRUE, left)
        BY <3>1
      <4> HIDE DEF next, calls, left
      <4>3. /\ run' \in Commands /\ run' # Idle /\ run'.at = "run" /\ run'.kind = "process"
            /\ run'.calls = calls /\ run'.order = calls /\ run'.goal = None
            /\ run'.next = next
            /\ run'.snap = Empty /\ run'.floor = [y \in Domains |-> NoFloor]
            /\ run'.active = TRUE /\ run'.left = left
            /\ run'.disp = (IF TRUE THEN "Active" ELSE "Inactive")
        BY <1>2, <4>1, <4>2, StartType, ZenonT(60)
      <4> QED BY <4>3 DEF next, calls, left
    <3> QED BY <2>1, <2>2, <2>3, <3>1, <3>2, <3>5 DEF Starting
  <2>4. CASE tx.d # selected
    <3>1. /\ Start("process", <<selected>>, None, AppsOf(ram), FALSE, TxCommands)
          /\ ram' = WithApp(ram, selected, Empty)
      BY <1>3, <2>4 DEF Process
    <3>2. /\ run' \in Commands /\ run' # Idle /\ run'.at = "run" /\ run'.kind = "process"
          /\ run'.calls = <<selected>> /\ run'.order = <<selected>> /\ run'.goal = None
          /\ run'.next = AppsOf(ram)
          /\ run'.snap = Empty /\ run'.floor = [y \in Domains |-> NoFloor]
          /\ run'.active = FALSE /\ run'.left = TxCommands /\ run'.disp = "Inactive"
      BY <1>2, <2>2, <3>1, StartType, ZenonT(60)
    <3> QED BY <2>1, <2>2, <3>1, <3>2 DEF Starting
  <2> QED BY <2>3, <2>4
<1>4. CASE SelectIsd
  <2>1. ~Running /\ selected \in Domains /\ tx' = NoTx
        /\ UNCHANGED <<flash, ram, poisoned, selected, wrong, doubt>>
        /\ Start("isd", <<selected>>, None, AppsOf(ram), FALSE, 0)
    BY <1>2, <1>4 DEF SelectIsd, Installed
  <2>2. <<selected>> \in CallLists /\ <<selected>> # <<>>
    BY <2>1, StartLists
  <2> QED BY <1>2, <2>1, <2>2, StartType, ZenonT(60) DEF Starting
<1>5. ASSUME NEW x \in Domains, Select(x)
      PROVE  Starting \/ (~Running /\ tx' = NoTx /\ UNCHANGED <<flash, ram, poisoned, selected, run, wrong, doubt>>)
  <2>1. ~Running /\ tx' = NoTx /\ UNCHANGED <<flash, ram, poisoned, selected, wrong, doubt>>
    BY <1>5 DEF Select
  <2>2. CASE UNCHANGED run
    BY <2>1, <2>2
  <2>3. CASE Start("select", IF selected = None THEN <<x>> ELSE <<selected, x>>, x,
                   AppsOf(ram), FALSE, 0)
    <3> DEFINE calls == IF selected = None THEN <<x>> ELSE <<selected, x>>
    <3>1. calls \in CallLists /\ calls # <<>>
      BY <1>2, StartLists
    <3>2. Start("select", calls, x, AppsOf(ram), FALSE, 0)
      BY <2>3
    <3> HIDE DEF calls
    <3> QED BY <1>2, <2>1, <3>1, <3>2, StartType, ZenonT(60) DEF Starting
  <2> QED BY <1>5, <2>2, <2>3 DEF Select
<1>6. ASSUME NEW x \in Domains, Install(x) \/ Uninstall(x)
      PROVE  Starting
  <2>1. PICK kind \in {"install", "uninstall"} :
          /\ ~Running /\ tx' = NoTx /\ UNCHANGED <<flash, ram, poisoned, selected, wrong, doubt>>
          /\ Start(kind, <<x>>, x, AppsOf(ram), FALSE, 0)
    BY <1>6 DEF Install, Uninstall
  <2>2. <<x>> \in CallLists /\ <<x>> # <<>>
    BY StartLists
  <2>3. /\ run' \in Commands /\ run' # Idle /\ run'.at = "run" /\ run'.kind = kind
        /\ run'.calls = <<x>> /\ run'.order = <<x>> /\ run'.goal = x
        /\ run'.next = AppsOf(ram)
        /\ run'.snap = Empty /\ run'.floor = [y \in Domains |-> NoFloor]
        /\ run'.active = FALSE /\ run'.left = 0 /\ run'.disp = "Inactive"
    <3>1. kind \in {"process", "select", "isd", "install", "uninstall"} /\ x \in Domains \cup {None}
      OBVIOUS
    <3>2. Start(kind, <<x>>, x, AppsOf(ram), FALSE, 0)
      BY <2>1
    <3> QED BY <1>2, <2>2, <3>1, <3>2, StartType, ZenonT(60)
  <2> QED BY <2>1, <2>2, <2>3 DEF Starting
<1> QED BY <1>3, <1>4, <1>5, <1>6
\* A command that starts finds RAM in agreement with flash.
LEMMA StartingInv ==
  ASSUME AppInv, Starting
  PROVE  AppInv'
<1>1. TypeOK /\ TxInv /\ AgreeInv /\ ~Running /\ ram \in States
  BY DEF AppInv, Starting, TypeOK, States
<1>2. /\ tx' = NoTx /\ UNCHANGED <<flash, poisoned, selected, doubt>>
      /\ run' \in Commands /\ Running' /\ run'.at = "run" /\ run'.calls # <<>>
  BY DEF Starting, Running
<1>3. AppsOf(ram) \in [Domains -> Applications] /\ \A x \in Domains : AppsOf(ram)[x] = ram[x].app
  BY <1>1, AppsType
<1>4. ~doubt => \A x \in Domains : ram[x].inst = flash[x].inst /\ ram[x].app.store = flash[x].app.store
  BY <1>1 DEF AgreeInv, Processing, Agrees
<1>5. CASE run'.kind # "process"
  <2>1. ram' = ram /\ (run'.kind # "isd" => run'.goal \in Domains)
    BY <1>5 DEF Starting
  <2>2. TypeOK' /\ TxInv'
    BY <1>1, <1>2, <2>1 DEF TypeOK, TxInv
  <2>3. ShapeInv'
    BY <1>2, <1>5, <2>1 DEF ShapeInv
  <2>4. AgreeInv'
    BY <1>2, <1>4, <1>5, <2>1 DEF AgreeInv, Processing, Agrees
  <2> QED BY <2>2, <2>3, <2>4 DEF AppInv
<1>6. CASE run'.kind = "process"
  <2>1. selected \in Domains /\ run'.calls = <<selected>> /\ ram[selected].inst
    BY <1>6 DEF Starting
  <2>2. CASE /\ tx # NoTx /\ tx.d = selected
             /\ run'.active /\ run'.disp = "Active" /\ run'.left = tx.left /\ ram' = ram
    <3>1. run'.left >= 1 /\ run'.left < TxCommands
      BY <1>1, <2>2, Limits DEF TxInv
    <3>2. TypeOK' /\ TxInv'
      BY <1>1, <1>2, <2>2 DEF TypeOK, TxInv
    <3>3. ShapeInv'
      BY <1>2, <1>6, <2>1, <2>2, <3>1 DEF ShapeInv
    <3>4. AgreeInv'
      BY <1>2, <1>4, <2>1, <2>2 DEF AgreeInv, Agrees, Processing
    <3> QED BY <3>2, <3>3, <3>4 DEF AppInv
  <2>3. CASE /\ run'.next = AppsOf(ram) /\ ~run'.active /\ run'.disp = "Inactive"
             /\ run'.left = TxCommands /\ ram' = WithApp(ram, selected, Empty)
    <3>1. /\ ram' \in States /\ \A x \in Domains : ram'[x].inst = ram[x].inst
          /\ \A x \in Domains \ {selected} : ram'[x] = ram[x]
      BY <1>1, <2>1, <2>3, WithAppType, EmptyType
    <3>2. TypeOK' /\ TxInv'
      BY <1>1, <1>2, <3>1 DEF TypeOK, TxInv, States
    <3>3. ShapeInv'
      <4>1. TxCommands >= 1
        BY Limits
      <4> QED BY <1>2, <1>6, <2>1, <2>3, <3>1, <4>1 DEF ShapeInv
    <3>4. AgreeInv'
      <4>1. Processing' /\ ~Involved'
        BY <1>2, <1>6, <2>3 DEF Processing, Involved
      <4>2. ASSUME ~doubt
            PROVE  /\ \A x \in Domains : ram'[x].inst = flash[x].inst
                   /\ \A x \in Domains \ {selected} : ram'[x].app.store = flash[x].app.store
                   /\ run'.next[selected].store = flash[selected].app.store
        BY <1>3, <1>4, <2>1, <2>3, <3>1, <4>2
      <4> QED BY <1>2, <2>3, <4>1, <4>2 DEF AgreeInv, Agrees
    <3> QED BY <3>2, <3>3, <3>4 DEF AppInv
  <2> QED BY <1>6, <2>2, <2>3 DEF Starting
<1> QED BY <1>5, <1>6

\* A command starts with the room RAM and the parked transaction have.
LEMMA StartingGuess ==
  ASSUME AppInv, GuessInv, Starting
  PROVE  GuessInv'
<1>1. TypeOK /\ TxInv /\ ~Running /\ ram \in States /\ wrong \in [Domains -> 0 .. MaxTries]
  BY DEF AppInv, Starting, TypeOK, States, GuessInv
<1>2. /\ tx' = NoTx /\ UNCHANGED <<flash, selected, wrong>>
      /\ run' \in Commands /\ Running' /\ run'.at = "run" /\ run'.order = run'.calls
      /\ run'.floor = [x \in Domains |-> NoFloor] /\ run'.snap = Empty
  BY DEF Starting, Running
<1>3. /\ AppsOf(ram) \in [Domains -> Applications]
      /\ \A x \in Domains : AppsOf(ram)[x] = ram[x].app /\ ram[x].app.pin \in Tries
  BY <1>1, AppsType, TriesType
<1>4. /\ \A x \in Domains : Fits(wrong[x], ram[x].app.pin)
      /\ tx # NoTx => Fits(wrong[tx.d], tx.app.pin)
  BY <1>1 DEF GuessInv, RestRoom
<1>5. \A x \in Domains : run'.floor[x] = NoFloor /\ run'.floor[x].pin = MaxTries
  BY <1>2, EmptyType
<1>6. \A w : Fits(w, -1)
  BY DEF Fits
<1>7. \A x \in Domains : Fits(wrong[x], run'.next[x].pin) /\ Fits(wrong[x], ram'[x].app.pin)
                         /\ ram'[x].app.pin \in Tries
  <2>1. CASE run'.kind # "process"
    BY <1>3, <1>4, <2>1 DEF Starting
  <2>2. CASE run'.kind = "process"
    <3>1. selected \in Domains
      BY <2>2 DEF Starting
    <3>2. CASE /\ tx # NoTx /\ tx.d = selected /\ run'.next = [AppsOf(ram) EXCEPT ![selected] = tx.app]
               /\ ram' = ram
      BY <1>3, <1>4, <3>1, <3>2
    <3>3. CASE /\ run'.next = AppsOf(ram) /\ ram' = WithApp(ram, selected, Empty)
      <4>1. ram' \in States /\ ram'[selected].app = Empty
            /\ \A x \in Domains \ {selected} : ram'[x] = ram[x]
        BY <1>1, <3>1, <3>3, WithAppType, EmptyType
      <4>2. \A x \in Domains : Fits(wrong[x], ram'[x].app.pin) /\ ram'[x].app.pin \in Tries
        BY <1>3, <1>4, <1>6, <4>1, EmptyType, TriesType
      <4> QED BY <1>3, <1>4, <3>3, <4>2
    <3> QED BY <2>2, <3>2, <3>3 DEF Starting
  <2> QED BY <2>1, <2>2
<1>8. RunRoom'
  <2>1. \A x \in Domains : Uncounted(x)' = 0 /\ wrong[x] + 0 = wrong[x]
    BY <1>1, <1>2 DEF Uncounted
  <2>2. \A x \in Domains : Fits(wrong[x] + Uncounted(x), run.next[x].pin)'
    BY <1>2, <1>7, <2>1
  <2>3. \A x \in Domains : Fits(wrong[x], Least(ram[x].app.pin, run.floor[x].pin))'
    BY <1>2, <1>5, <1>7, FitsLeast
  <2>4. ASSUME run'.kind = "process"
        PROVE  Fits(wrong'[selected'], Least(run'.snap.pin, run'.floor[selected'].pin))
    <3>1. selected \in Domains /\ selected' = selected
      BY <1>2, <2>4 DEF Starting
    <3>2. -1 \in Tries
      BY Limits DEF Tries
    <3>3. Least(run'.snap.pin, run'.floor[selected].pin) = -1
      BY <1>2, <1>5, <3>1, <3>2, EmptyType, FitsLeast
    <3> QED BY <1>6, <3>1, <3>3
  <2> QED BY <2>2, <2>3, <2>4 DEF RunRoom
<1>9. FloorInv'
  BY <1>2, <1>5 DEF FloorInv
<1>10. RestRoom'
  BY <1>2 DEF RestRoom
<1> QED BY <1>1, <1>2, <1>8, <1>9, <1>10 DEF GuessInv

-----------------------------------------------------------------------------
(* Lifecycle commands *)

\* A callback that returns or is refused leaves the staged copies.
LEMMA CallbackSteps ==
  ASSUME AppInv, CallbackReturns \/ CallbackFails
  PROVE  /\ Running /\ run.kind # "process" /\ run.at # "checkpoint"
         /\ RunOnly /\ UNCHANGED wrong
         /\ run' \in Commands /\ run'.kind = run.kind /\ run'.order = run.order
         /\ run'.goal = run.goal /\ run'.next = run.next /\ run'.floor = run.floor
         /\ \/ run'.at \in {"floors", "end"}
            \/ run'.at = "run" /\ run'.calls # <<>>
         /\ run'.calls = <<>> \/ (run.calls # <<>> /\ run'.calls = Tail(run.calls))
<1>1. TypeOK /\ ShapeInv /\ Running /\ run.kind # "process" /\ run.at \in {"run", "faulted"}
  BY DEF AppInv, CallbackReturns, CallbackFails, Lifecycle
<1>2. run \in Commands /\ run.calls \in CallLists /\ run.calls # <<>>
  BY <1>1, Fields DEF ShapeInv
<1>3. RunOnly /\ UNCHANGED wrong
  BY DEF CallbackReturns, CallbackFails
<1>4. CASE Refuse
  <2>1. run' = [run EXCEPT !.at = "floors", !.calls = <<>>]
    BY <1>4 DEF Refuse
  <2>2. <<>> \in CallLists
    <3>1. <<>> \in [1 .. 0 -> Domains]
      OBVIOUS
    <3> QED BY <3>1 DEF CallLists
  <2>3. /\ run' \in Commands /\ run'.kind = run.kind /\ run'.order = run.order
        /\ run'.goal = run.goal /\ run'.next = run.next /\ run'.floor = run.floor
        /\ run'.at = "floors" /\ run'.calls = <<>>
    BY <1>2, <2>1, <2>2 DEF Commands, CallLists
  <2> QED BY <1>1, <1>3, <2>3
<1>5. CASE run' = [run EXCEPT !.calls = Tail(@), !.auth = FALSE, !.output = FALSE,
                              !.dirty = FALSE, !.ops = Budget,
                              !.at = IF Len(run.calls) = 1 THEN "end" ELSE "run"]
  <2>1. Tail(run.calls) \in CallLists /\ Len(Tail(run.calls)) = Len(run.calls) - 1
        /\ Len(run.calls) \in 1 .. 2
    BY <1>2, CallListType
  <2>2. Len(run.calls) # 1 => Tail(run.calls) # <<>>
    <3>1. Len(<<>>) = 0
      OBVIOUS
    <3>2. ASSUME Tail(run.calls) = <<>>
          PROVE  Len(run.calls) - 1 = 0
      BY <2>1, <3>1, <3>2
    <3>3. \A n \in 1 .. 2 : n - 1 = 0 => n = 1
      OBVIOUS
    <3> QED BY <2>1, <3>2, <3>3
  <2>3. /\ (IF Len(run.calls) = 1 THEN "end" ELSE "run") \in {"run", "end"}
        /\ Budget \in 0 .. Budget
    BY Limits
  <2>4. /\ run' \in Commands /\ run'.kind = run.kind /\ run'.order = run.order
        /\ run'.goal = run.goal /\ run'.next = run.next /\ run'.floor = run.floor
        /\ run'.at = (IF Len(run.calls) = 1 THEN "end" ELSE "run")
        /\ run'.calls = Tail(run.calls)
    BY <1>2, <1>5, <2>1, <2>3 DEF Commands, CallLists
  <2> QED BY <1>1, <1>2, <1>3, <2>2, <2>4
<1> QED BY <1>4, <1>5 DEF CallbackReturns, CallbackFails

\* A callback moves neither RAM nor flash.
LEMMA CallbackInv ==
  ASSUME AppInv, CallbackReturns \/ CallbackFails
  PROVE  AppInv'
<1>1. TypeOK /\ ShapeInv /\ AgreeInv
  BY DEF AppInv
<1>2. /\ Running /\ run.kind # "process" /\ UNCHANGED <<flash, ram, poisoned, selected, tx, doubt>>
      /\ run' \in Commands /\ run'.kind = run.kind /\ run'.goal = run.goal
      /\ run'.at \in {"floors", "end"} \/ (run'.at = "run" /\ run'.calls # <<>>)
  BY CallbackSteps DEF RunOnly
<1>3. Running' /\ tx = NoTx
  BY <1>1, <1>2, CommandRuns, NothingParked DEF Running
<1>4. TypeOK' /\ TxInv'
  BY <1>1, <1>2, <1>3 DEF TypeOK, TxInv
<1>5. ShapeInv'
  BY <1>1, <1>2, <1>3 DEF ShapeInv
<1>6. AgreeInv'
  BY <1>1, <1>2, <1>3 DEF AgreeInv, Processing, Agrees
<1> QED BY <1>4, <1>5, <1>6 DEF AppInv

\* A callback keeps the tries and the floors.
LEMMA CallbackGuess ==
  ASSUME AppInv, GuessInv, CallbackReturns \/ CallbackFails
  PROVE  GuessInv'
<1>1. TypeOK
  BY DEF AppInv
<1>2. /\ Running /\ run.kind # "process" /\ UNCHANGED <<flash, ram, selected, tx, wrong>>
      /\ run.at # "checkpoint"
      /\ run' \in Commands /\ run'.kind = run.kind /\ run'.order = run.order
      /\ run'.next = run.next /\ run'.floor = run.floor
      /\ run'.at # "checkpoint"
      /\ run'.calls = <<>> \/ (run.calls # <<>> /\ run'.calls = Tail(run.calls))
  BY CallbackSteps DEF RunOnly
<1>3. Running' /\ tx = NoTx
  BY <1>1, <1>2, CommandRuns, NothingParked DEF Running
<1>4. \A x \in Domains : Uncounted(x) = 0 /\ Uncounted(x)' = 0
  BY <1>2 DEF Uncounted
<1>5. RunRoom'
  BY <1>2, <1>4 DEF GuessInv, RunRoom
<1>6. \A i \in 1 .. Len(run'.calls) : \E j \in 1 .. Len(run.order) : run.order[j] = run'.calls[i]
  <2>1. CASE run'.calls = <<>>
    BY <2>1
  <2>2. CASE run.calls # <<>> /\ run'.calls = Tail(run.calls)
    <3>1. run.calls \in Seq(Domains) /\ Len(Tail(run.calls)) = Len(run.calls) - 1
          /\ Len(run.calls) \in 1 .. 2
      BY <1>1, <1>2, <2>2, Fields, CallListType
    <3>2. ASSUME NEW i \in 1 .. Len(run'.calls)
          PROVE  i + 1 \in 1 .. Len(run.calls) /\ run'.calls[i] = run.calls[i + 1]
      BY <2>2, <3>1
    <3>3. \A i \in 1 .. Len(run.calls) : \E j \in 1 .. Len(run.order) : run.order[j] = run.calls[i]
      BY <1>2 DEF GuessInv, FloorInv
    <3> QED BY <3>2, <3>3
  <2> QED BY <1>2, <2>1, <2>2
<1>7. FloorInv'
  BY <1>2, <1>6 DEF GuessInv, FloorInv
<1>8. RestRoom'
  BY <1>2, <1>3 DEF RestRoom, NoTx
<1> QED BY <1>2, <1>5, <1>7, <1>8 DEF GuessInv
\* What a lifecycle commit, or a floor commit, may leave behind.
Committing ==
  /\ Running /\ run.kind # "process" /\ run.at \in {"floors", "end"}
  /\ UNCHANGED <<tx, wrong>>
  /\ flash' \in States /\ ram' \in States /\ poisoned' \in BOOLEAN /\ doubt' \in BOOLEAN
  /\ ~doubt' => ram' = flash' \/ (~doubt /\ ram' = ram /\ flash' = flash)
  /\ selected' \in Domains \cup {None}
  /\ run' = Idle \/ (/\ run' \in Commands /\ run'.kind = run.kind /\ run'.goal = run.goal
                     /\ run'.at = "floors" /\ run'.order = run.order
                     /\ run'.next = run.next /\ run'.floor = run.floor /\ run'.calls \in {<<>>, run.calls})

\* A refused command owes its floors.
LEMMA RefuseType ==
  ASSUME TypeOK, Running, Refuse
  PROVE  /\ run' \in Commands /\ run'.kind = run.kind /\ run'.goal = run.goal
         /\ run'.at = "floors" /\ run'.order = run.order
         /\ run'.next = run.next /\ run'.floor = run.floor /\ run'.calls = <<>>
<1>1. run' = [run EXCEPT !.at = "floors", !.calls = <<>>] /\ run \in Commands
  BY Fields DEF Refuse
<1>2. <<>> \in CallLists
  <2>1. <<>> \in [1 .. 0 -> Domains]
    OBVIOUS
  <2> QED BY <2>1 DEF CallLists
<1> QED BY <1>1, <1>2 DEF Commands, CallLists

\* A lifecycle commit publishes the staged copies, or leaves RAM as it was.
LEMMA LifecycleSteps ==
  ASSUME AppInv, LifecycleCommits
  PROVE  /\ Committing
         /\ GuessInv => /\ \A x \in Domains : Fits(wrong[x], flash'[x].app.pin)
                        /\ \A x \in Domains : Fits(wrong[x], Least(ram'[x].app.pin, run.floor[x].pin))
                        /\ run' = Idle => \A x \in Domains : Fits(wrong[x], ram'[x].app.pin)
<1> DEFINE new == WithApps(ram, run.next)
           out == CASE run.kind = "install" -> MetadataOutcomes(Flagged(new, TRUE))
                    [] run.kind = "uninstall" -> MetadataOutcomes(Flagged(new, FALSE))
                    [] OTHER -> IF new = ram THEN {Unwritten(ram)} ELSE ApplicationOutcomes(new)
<1>1. TypeOK /\ ShapeInv /\ Running /\ run.kind # "process" /\ run.at = "end" /\ UNCHANGED <<tx, wrong>>
  BY DEF AppInv, LifecycleCommits, Lifecycle
<1>2. /\ ram \in States /\ flash \in States /\ run.next \in [Domains -> Applications]
      /\ run.floor \in [Domains -> Floors] /\ run.goal \in Domains \cup {None}
      /\ poisoned \in BOOLEAN /\ doubt \in BOOLEAN /\ selected \in Domains \cup {None}
      /\ run.kind \in {"select", "isd", "install", "uninstall"}
  <2>1. run.kind \in {"process", "select", "isd", "install", "uninstall"}
    BY <1>1, Fields DEF Commands
  <2> QED BY <1>1, <2>1, Fields DEF TypeOK, States
<1>3. new \in States /\ \A x \in Domains : new[x].app = run.next[x]
  BY <1>2, AppsType
<1>4. PICK o \in out :
        /\ Adopt(o)
        /\ IF o.ok THEN run' = Idle ELSE Refuse
        /\ selected' = CASE o.ok /\ run.kind = "select" -> run.goal
                         [] o.ok /\ run.kind = "isd" -> None
                         [] OTHER -> selected
  BY DEF LifecycleCommits
<1>5. PICK s \in States :
        /\ \A x \in Domains : s[x].app = run.next[x]
        /\ o.flash \in {flash, s} /\ o.ram \in {ram, s, o.flash}
        /\ o.bad \in BOOLEAN /\ o.lost \in BOOLEAN /\ o.ok \in BOOLEAN
        /\ ~o.lost => o.ram = o.flash \/ (o.ram = ram /\ o.flash = flash)
        /\ o.ok => o.ram = s
  <2> HIDE DEF new
  <2>1. ASSUME NEW b \in BOOLEAN, run.kind \in {"install", "uninstall"},
               o \in MetadataOutcomes(Flagged(new, b))
        PROVE  \E s \in States :
                 /\ \A x \in Domains : s[x].app = run.next[x]
                 /\ o.flash \in {flash, s} /\ o.ram \in {ram, s, o.flash}
                 /\ o.bad \in BOOLEAN /\ o.lost \in BOOLEAN /\ o.ok \in BOOLEAN
                 /\ ~o.lost => o.ram = o.flash \/ (o.ram = ram /\ o.flash = flash)
                 /\ o.ok => o.ram = s
    <3>1. run.goal \in Domains
      BY <1>1, <2>1 DEF ShapeInv
    <3>2. Flagged(new, b) \in States /\ \A x \in Domains : Flagged(new, b)[x].app = run.next[x]
      BY <1>3, <3>1, FlaggedType
    <3>3. /\ o.flash \in {flash, Flagged(new, b)}
          /\ o.bad \in BOOLEAN /\ o.lost \in BOOLEAN /\ o.ok \in BOOLEAN
          /\ o.ok => o.ram = Flagged(new, b) /\ o.flash = Flagged(new, b)
          /\ ~o.ok => o.ram = ram
          /\ ~o.ok /\ ~o.lost => o.flash = flash
      BY <1>2, <2>1, MetadataCommit
    <3> QED BY <3>2, <3>3
  <2>2. CASE run.kind = "install"
    BY <2>1, <2>2
  <2>3. CASE run.kind = "uninstall"
    <3>1. o \in MetadataOutcomes(Flagged(new, FALSE))
      BY <1>4, <2>3
    <3> QED BY <2>1, <2>3, <3>1
  <2>4. CASE run.kind \in {"select", "isd"} /\ new = ram
    <3>1. o = Unwritten(ram)
      BY <1>4, <2>4
    <3>2. o.flash = flash /\ o.ram = ram /\ o.bad = poisoned /\ o.lost = FALSE /\ o.ok = TRUE
      BY <3>1 DEF Unwritten
    <3> QED BY <1>2, <1>3, <2>4, <3>2
  <2>5. CASE run.kind \in {"select", "isd"} /\ new # ram
    <3>1. o \in ApplicationOutcomes(new)
      BY <1>4, <2>5
    <3>2. /\ o.flash \in {flash, new} /\ o.ram \in {new, o.flash}
          /\ o.bad \in BOOLEAN /\ o.lost \in BOOLEAN /\ o.ok \in BOOLEAN
          /\ ~o.lost => o.ram = o.flash
          /\ o.ok => o.ram = new /\ o.flash = new /\ ~o.lost
      BY <1>2, <3>1, ApplicationCommit
    <3> QED BY <1>3, <3>2
  <2> QED BY <1>2, <2>2, <2>3, <2>4, <2>5
<1> HIDE DEF new, out
<1>6. /\ flash' = o.flash /\ ram' = o.ram /\ poisoned' = o.bad
      /\ doubt' = ((doubt \/ o.lost) /\ o.ram # o.flash)
  BY <1>4 DEF Adopt
<1>7. selected' \in Domains \cup {None}
  BY <1>2, <1>4
<1>8. run' = Idle \/ (/\ run' \in Commands /\ run'.kind = run.kind /\ run'.goal = run.goal
                      /\ run'.at = "floors" /\ run'.order = run.order
                      /\ run'.next = run.next /\ run'.floor = run.floor /\ run'.calls = <<>>)
  BY <1>1, <1>4, RefuseType
<1>9. Committing
  <2>1. flash' \in States /\ ram' \in States
    BY <1>2, <1>5, <1>6
  <2>2. poisoned' \in BOOLEAN /\ doubt' \in BOOLEAN
    BY <1>5, <1>6
  <2>3. ~doubt' => ram' = flash' \/ (~doubt /\ ram' = ram /\ flash' = flash)
    BY <1>5, <1>6
  <2> QED BY <1>1, <1>7, <1>8, <2>1, <2>2, <2>3 DEF Committing
<1>10. ASSUME GuessInv
       PROVE  /\ \A x \in Domains : Fits(wrong[x], flash'[x].app.pin)
              /\ \A x \in Domains : Fits(wrong[x], Least(ram'[x].app.pin, run.floor[x].pin))
              /\ run' = Idle => \A x \in Domains : Fits(wrong[x], ram'[x].app.pin)
  <2>1. \A x \in Domains :
          /\ Fits(wrong[x], flash[x].app.pin)
          /\ Fits(wrong[x], Least(ram[x].app.pin, run.floor[x].pin))
          /\ wrong[x] \in Nat /\ run.floor[x].pin \in 0 .. MaxTries
          /\ flash[x].app.pin \in Tries /\ s[x].app.pin \in Tries
    BY <1>1, <1>2, <1>10, TriesType DEF GuessInv, RunRoom
  <2>2. \A x \in Domains : Fits(wrong[x], s[x].app.pin)
    <3>1. \A x \in Domains : Uncounted(x) = 0 /\ wrong[x] + 0 = wrong[x]
      BY <1>1, <2>1 DEF Uncounted
    <3> QED BY <1>1, <1>5, <1>10, <3>1 DEF GuessInv, RunRoom
  <2>3. \A x \in Domains : /\ Fits(wrong[x], Least(flash[x].app.pin, run.floor[x].pin))
                           /\ Fits(wrong[x], Least(s[x].app.pin, run.floor[x].pin))
    BY <2>1, <2>2, FitsLeast
  <2>4. run' = Idle => o.ok
    <3>1. ASSUME ~o.ok PROVE run' # Idle
      BY <1>1, <1>4, <3>1, RefuseType, CommandRuns
    <3> QED BY <3>1
  <2> QED BY <1>5, <1>6, <2>1, <2>2, <2>3, <2>4
<1> QED BY <1>9, <1>10
\* No floor changes nothing.
LEMMA NoFloorSame ==
  ASSUME NEW s \in States, NEW x \in Domains
  PROVE  FloorIn(s, x, NoFloor) = s
<1>1. s[x].app \in Applications
  BY DEF States, DomainStates
<1>2. Floored(s[x].app, NoFloor) = s[x].app
  <2>1. s[x].app.pin \in -1 .. MaxTries /\ s[x].app.puk \in 0 .. MaxPuk
    BY <1>1 DEF Applications
  <2>2. Least(s[x].app.pin, MaxTries) = s[x].app.pin /\ Least(s[x].app.puk, MaxPuk) = s[x].app.puk
    BY <2>1, Limits DEF Least
  <2> QED BY <1>1, <2>2 DEF Floored, NoFloor, Applications
<1> QED BY <1>2 DEF FloorIn, States, DomainStates

\* The floors of a failed lifecycle command are committed one owner after the
\* other; with one domain that holds a PIN nothing is published without its
\* floor.
LEMMA FloorSteps ==
  ASSUME AppInv, CommitFloors
  PROVE  /\ Committing
         /\ GuessInv /\ OnePinDomain =>
              /\ \A x \in Domains : Fits(wrong[x], flash'[x].app.pin)
              /\ \A x \in Domains : Fits(wrong[x], Least(ram'[x].app.pin, run.floor[x].pin))
              /\ run' = Idle => \A x \in Domains : Fits(wrong[x], ram'[x].app.pin)
<1>1. TypeOK /\ Running /\ run.kind # "process" /\ run.at = "floors" /\ UNCHANGED <<selected, tx, wrong>>
  BY DEF AppInv, CommitFloors, Lifecycle
<1>2. /\ ram \in States /\ flash \in States /\ run \in Commands
      /\ run.floor \in [Domains -> Floors] /\ run.order \in CallLists
      /\ poisoned \in BOOLEAN /\ doubt \in BOOLEAN /\ selected \in Domains \cup {None}
  BY <1>1, Fields DEF TypeOK, States
<1>3. /\ run.order \in Seq(Domains)
      /\ \A i \in 1 .. Len(run.order) : run.order[i] \in Domains
  BY <1>2, CallListType
<1>4. ASSUME GuessInv
      PROVE  \A x \in Domains :
               /\ Fits(wrong[x], flash[x].app.pin)
               /\ Fits(wrong[x], Least(ram[x].app.pin, run.floor[x].pin))
               /\ wrong[x] \in Nat /\ run.floor[x].pin \in 0 .. MaxTries
               /\ ram[x].app.pin \in Tries /\ ram[x].app \in Applications
               /\ flash[x].app.pin \in Tries
               /\ run.floor[x] # NoFloor => HoldsPin(x) /\ \E i \in 1 .. Len(run.order) : run.order[i] = x
  BY <1>1, <1>2, <1>4, TriesType DEF GuessInv, RunRoom, FloorInv
<1>5. CASE /\ \A i \in 1 .. Len(run.order) : ~Owes(run.order[i])
           /\ run' = Idle /\ UNCHANGED <<flash, ram, poisoned, doubt>>
  <2>1. Committing
    BY <1>1, <1>2, <1>5 DEF Committing
  <2>2. ASSUME GuessInv, NEW x \in Domains
        PROVE  Fits(wrong[x], ram[x].app.pin)
    <3>1. CASE run.floor[x] = NoFloor
      BY <1>4, <2>2, <3>1, FitsLeast, EmptyType
    <3>2. CASE run.floor[x] # NoFloor
      <4>1. ~Owes(x)
        BY <1>4, <1>5, <2>2, <3>2
      <4>2. FloorIn(ram, x, run.floor[x])[x].app = Floored(ram[x].app, run.floor[x])
            /\ run.floor[x] \in Floors
        BY <1>2, FloorInType
      <4>3. Floored(ram[x].app, run.floor[x]).pin = Least(ram[x].app.pin, run.floor[x].pin)
        BY <1>4, <2>2, <4>2, FlooredType
      <4> QED BY <1>4, <2>2, <4>1, <4>2, <4>3 DEF Owes
    <3> QED BY <3>1, <3>2
  <2> QED BY <1>4, <1>5, <2>1, <2>2
<1>6. ASSUME NEW i \in 1 .. Len(run.order), Owes(run.order[i]),
             NEW o \in ApplicationOutcomes(FloorIn(ram, run.order[i], run.floor[run.order[i]])),
             Adopt(o), run' = IF o.ok THEN run ELSE Idle
      PROVE  /\ Committing
             /\ GuessInv /\ OnePinDomain =>
                  /\ \A x \in Domains : Fits(wrong[x], flash'[x].app.pin)
                  /\ \A x \in Domains : Fits(wrong[x], Least(ram'[x].app.pin, run.floor[x].pin))
                  /\ run' = Idle => \A x \in Domains : Fits(wrong[x], ram'[x].app.pin)
  <2> DEFINE x == run.order[i]
             new == FloorIn(ram, x, run.floor[x])
  <2>1. x \in Domains /\ run.floor[x] \in Floors
    BY <1>2, <1>3
  <2>2. /\ new \in States /\ new[x].app = Floored(ram[x].app, run.floor[x])
        /\ \A y \in Domains \ {x} : new[y] = ram[y]
    BY <1>2, <2>1, FloorInType
  <2>3. Owes(x) /\ o \in ApplicationOutcomes(new)
    BY <1>6
  <2>4. run.floor[x] # NoFloor
    BY <1>2, <2>1, <2>3, NoFloorSame DEF Owes
  <2> HIDE DEF x, new
  <2>5. /\ o.flash \in {flash, new} /\ o.ram \in {new, o.flash}
        /\ o.bad \in BOOLEAN /\ o.lost \in BOOLEAN /\ o.ok \in BOOLEAN
        /\ ~o.lost => o.ram = o.flash
        /\ o.ok => o.ram = new /\ o.flash = new
    BY <1>2, <2>3, ApplicationCommit
  <2>6. /\ flash' = o.flash /\ ram' = o.ram /\ poisoned' = o.bad
        /\ doubt' = ((doubt \/ o.lost) /\ o.ram # o.flash)
    BY <1>6 DEF Adopt
  <2>7. Committing
    BY <1>1, <1>2, <1>6, <2>2, <2>5, <2>6 DEF Committing
  <2>8. ASSUME GuessInv, OnePinDomain
        PROVE  \A y \in Domains : Fits(wrong[y], new[y].app.pin) /\ new[y].app.pin \in Tries
    <3>1. Floored(ram[x].app, run.floor[x]).pin = Least(ram[x].app.pin, run.floor[x].pin)
      BY <1>4, <2>1, <2>8, FlooredType
    <3>2. Fits(wrong[x], new[x].app.pin)
      BY <1>4, <2>1, <2>2, <2>8, <3>1
    <3>3. ASSUME NEW y \in Domains \ {x}
          PROVE  Fits(wrong[y], ram[y].app.pin)
      <4>1. HoldsPin(x)
        BY <1>4, <2>1, <2>4, <2>8
      <4>2. run.floor[y] = NoFloor
        BY <1>4, <2>1, <2>8, <4>1 DEF OnePinDomain
      <4> QED BY <1>4, <2>8, <4>2, FitsLeast, EmptyType
    <3>4. \A y \in Domains : new[y].app.pin \in Tries
      BY <2>2, TriesType
    <3> QED BY <2>2, <3>2, <3>3, <3>4
  <2>9. ASSUME GuessInv, OnePinDomain
        PROVE  \A y \in Domains :
                 /\ Fits(wrong[y], flash'[y].app.pin) /\ Fits(wrong[y], ram'[y].app.pin)
                 /\ Fits(wrong[y], Least(ram'[y].app.pin, run.floor[y].pin))
    <3>1. \A y \in Domains :
            /\ Fits(wrong[y], flash'[y].app.pin) /\ Fits(wrong[y], ram'[y].app.pin)
            /\ ram'[y].app.pin \in Tries
      BY <1>4, <2>5, <2>6, <2>8, <2>9
    <3> QED BY <1>4, <2>9, <3>1, FitsLeast
  <2> QED BY <2>7, <2>9
<1>7. ASSUME NEW i \in 1 .. Len(run.order),
             LET x == run.order[i] IN
             /\ Owes(x) /\ \A j \in 1 .. i - 1 : ~Owes(run.order[j])
             /\ \E o \in ApplicationOutcomes(FloorIn(ram, x, run.floor[x])) :
                  Adopt(o) /\ run' = IF o.ok THEN run ELSE Idle
      PROVE  /\ Committing
             /\ GuessInv /\ OnePinDomain =>
                  /\ \A x \in Domains : Fits(wrong[x], flash'[x].app.pin)
                  /\ \A x \in Domains : Fits(wrong[x], Least(ram'[x].app.pin, run.floor[x].pin))
                  /\ run' = Idle => \A x \in Domains : Fits(wrong[x], ram'[x].app.pin)
  BY <1>6, <1>7
<1> QED BY <1>5, <1>7 DEF CommitFloors

\* A commit of a lifecycle command keeps RAM and flash related.
LEMMA CommittingInv ==
  ASSUME AppInv, Committing
  PROVE  AppInv'
<1>1. TypeOK /\ ShapeInv /\ AgreeInv /\ Running /\ run.kind # "process" /\ tx = NoTx
  BY NothingParked DEF AppInv, Committing
<1>2. tx' = NoTx
  BY <1>1 DEF Committing
<1>3. run' # Idle => run' \in Commands /\ run'.kind = run.kind /\ run'.goal = run.goal /\ run'.at = "floors"
  BY DEF Committing
<1>4. TypeOK'
  BY <1>2, <1>3 DEF TypeOK, Committing, States, Running
<1>5. TxInv'
  BY <1>2 DEF TxInv, NoTx
<1>6. ShapeInv'
  BY <1>1, <1>3 DEF ShapeInv, Running
<1>7. AgreeInv'
  <2>1. ~Processing /\ ~Processing'
    BY <1>1, <1>3 DEF Processing, Running, Idle
  <2>2. ~doubt' => ram' = flash' \/ (~doubt /\ ram' = ram /\ flash' = flash)
    BY DEF Committing
  <2> QED BY <1>1, <2>1, <2>2 DEF AgreeInv, Agrees
<1> QED BY <1>4, <1>5, <1>6, <1>7 DEF AppInv

\* A commit of a lifecycle command keeps room for the guesses.
LEMMA CommittingGuess ==
  ASSUME AppInv, GuessInv, Committing,
         \A x \in Domains : Fits(wrong[x], flash'[x].app.pin),
         \A x \in Domains : Fits(wrong[x], Least(ram'[x].app.pin, run.floor[x].pin)),
         run' = Idle => \A x \in Domains : Fits(wrong[x], ram'[x].app.pin)
  PROVE  GuessInv'
<1>1. TypeOK /\ Running /\ run.kind # "process" /\ tx = NoTx /\ run.at # "checkpoint"
  BY NothingParked DEF AppInv, Committing
<1>2. tx' = NoTx /\ wrong' = wrong
  BY <1>1 DEF Committing
<1>3. run' # Idle =>
        /\ run'.kind = run.kind /\ run'.at = "floors" /\ run'.order = run.order
        /\ run'.next = run.next /\ run'.floor = run.floor /\ run'.calls \in {<<>>, run.calls}
  BY DEF Committing
<1>4. \A x \in Domains : Uncounted(x) = 0 /\ (run' # Idle => Uncounted(x)' = 0)
  BY <1>1, <1>3 DEF Uncounted
<1>5. RunRoom'
  BY <1>1, <1>2, <1>3, <1>4 DEF RunRoom, GuessInv, Running
<1>6. FloorInv'
  <2>1. Len(<<>>) = 0
    OBVIOUS
  <2> QED BY <1>1, <1>3, <2>1 DEF FloorInv, GuessInv, Running
<1>7. RestRoom'
  BY <1>2 DEF RestRoom, Running
<1> QED BY <1>2, <1>5, <1>6, <1>7 DEF GuessInv
-----------------------------------------------------------------------------
(* The theorems *)

\* The card starts with RAM read from flash.
LEMMA InitInv ==
  ASSUME Init
  PROVE  AppInv /\ GuessInv
<1>1. /\ flash = [x \in Domains |->
                    [inst |-> TRUE, app |-> IF "create" \in Code[x] THEN Empty ELSE Fresh]]
      /\ ram = flash /\ poisoned = FALSE /\ selected = None /\ tx = NoTx /\ run = Idle
      /\ wrong = [x \in Domains |-> 0] /\ doubt = FALSE
  BY DEF Init
<1>2. flash \in States
  BY <1>1, EmptyType DEF States, DomainStates
<1>3. ~Running
  BY <1>1 DEF Running
<1>4. AppInv
  BY <1>1, <1>2, <1>3 DEF AppInv, TypeOK, TxInv, ShapeInv, AgreeInv, Processing, Agrees, States
<1>5. \A x \in Domains : Fits(wrong[x], flash[x].app.pin)
  BY <1>1, <1>2, TriesType, FitsZero
<1>6. wrong \in [Domains -> 0 .. MaxTries]
  BY <1>1, Limits
<1> QED BY <1>1, <1>3, <1>4, <1>5, <1>6 DEF GuessInv, RestRoom, RunRoom, FloorInv

\* A power cut, and the steps between commands.
LEMMA QuietSteps ==
  ASSUME AppInv, \/ PowerLoss \/ AbortTransaction \/ ProcessMissing \/ UNCHANGED vars
                 \/ ~Running /\ tx' = NoTx /\ UNCHANGED <<flash, ram, poisoned, selected, run, wrong, doubt>>
  PROVE  AppInv' /\ (GuessInv => GuessInv')
<1>1. TypeOK /\ TxInv /\ ShapeInv /\ AgreeInv
  BY DEF AppInv
<1>2. CASE PowerLoss
  <2>1. /\ ram' = flash /\ flash' = flash /\ poisoned' = FALSE /\ selected' = None
        /\ tx' = NoTx /\ run' = Idle /\ doubt' = FALSE /\ wrong' = wrong
    BY <1>2 DEF PowerLoss
  <2>2. ~Running'
    BY <2>1 DEF Running
  <2>3. AppInv'
    BY <1>1, <2>1, <2>2 DEF AppInv, TypeOK, TxInv, ShapeInv, AgreeInv, Processing, Agrees
  <2>4. GuessInv => GuessInv'
    BY <2>1, <2>2 DEF GuessInv, RestRoom, RunRoom, FloorInv
  <2> QED BY <2>3, <2>4
<1>3. CASE ~Running /\ tx' = NoTx /\ UNCHANGED <<flash, ram, poisoned, selected, run, wrong, doubt>>
  <2>1. ~Running'
    BY <1>3 DEF Running
  <2>2. AppInv'
    BY <1>1, <1>3, <2>1 DEF AppInv, TypeOK, TxInv, ShapeInv, AgreeInv, Processing, Agrees
  <2>3. GuessInv => GuessInv'
    BY <1>3, <2>1 DEF GuessInv, RestRoom, RunRoom, FloorInv
  <2> QED BY <2>2, <2>3
<1>4. CASE AbortTransaction
  BY <1>3, <1>4 DEF AbortTransaction
<1>5. CASE ProcessMissing
  <2>1. /\ ~Running /\ selected \in Domains /\ ~ram[selected].inst /\ selected' = None
        /\ UNCHANGED <<flash, ram, poisoned, tx, run, wrong, doubt>>
    BY <1>1, <1>5 DEF ProcessMissing, TypeOK
  <2>2. ~Running' /\ tx = NoTx
    BY <1>1, <2>1 DEF Running, TxInv
  <2>3. AppInv'
    BY <1>1, <2>1, <2>2 DEF AppInv, TypeOK, TxInv, ShapeInv, AgreeInv, Processing, Agrees
  <2>4. GuessInv => GuessInv'
    BY <2>1, <2>2 DEF GuessInv, RestRoom, RunRoom, FloorInv
  <2> QED BY <2>3, <2>4
<1>6. CASE UNCHANGED vars
  <2>1. UNCHANGED <<flash, ram, poisoned, selected, tx, run, wrong, doubt>>
    BY <1>6 DEF vars
  <2>2. AppInv'
    BY <1>1, <2>1 DEF AppInv, TypeOK, TxInv, ShapeInv, AgreeInv, Processing, Agrees, Running, Involved
  <2>3. GuessInv => GuessInv'
    BY <2>1 DEF GuessInv, RestRoom, RunRoom, FloorInv, Running, Involved, Uncounted, d
  <2> QED BY <2>2, <2>3
<1> QED BY <1>2, <1>3, <1>4, <1>5, <1>6

\* Every step keeps the relation of RAM, flash and the staged copies, and with
\* one PIN domain the room for guesses.
LEMMA StepInv ==
  ASSUME AppInv, [Next]_vars
  PROVE  AppInv' /\ (GuessInv /\ OnePinDomain => GuessInv')
<1>1. TypeOK /\ ShapeInv
  BY DEF AppInv
<1>2. CASE \/ PowerLoss \/ AbortTransaction \/ ProcessMissing \/ UNCHANGED vars
  BY <1>2, QuietSteps
<1>3. CASE \/ Process \/ SelectIsd
           \/ \E x \in Domains : Select(x) \/ Install(x) \/ Uninstall(x)
  <2>1. CASE Starting
    BY <2>1, StartingInv, StartingGuess
  <2>2. CASE ~Running /\ tx' = NoTx /\ UNCHANGED <<flash, ram, poisoned, selected, run, wrong, doubt>>
    BY <2>2, QuietSteps
  <2> QED BY <1>3, <2>1, <2>2, StartSteps
<1>4. CASE StoreInt \/ KeyCall \/ BufferCall \/ HardwareOutput \/ Begin \/ End
             \/ CreateCredential \/ VerifyRight \/ ChangePin \/ Unblock
  <2>1. Staging
    BY <1>1, <1>4, StagingSteps
  <2>2. AppInv'
    BY <2>1, StagedInv DEF Staging
  <2> QED BY <2>1, <2>2, StagingGuess
<1>5. CASE VerifyWrong \/ UnblockWrong
  <2>1. Guessing
    BY <1>1, <1>5, GuessingSteps
  <2>2. AppInv'
    BY <2>1, StagedInv DEF Guessing
  <2> QED BY <2>1, <2>2, GuessingGuess
<1>6. CASE Checkpoint
  BY <1>6, CheckpointInv, CheckpointGuess
<1>7. CASE Return \/ ManagedException \/ Fault
  <2>1. PICK o, pending : Processing /\ run.at # "checkpoint" /\ Closing(o, pending)
    BY <1>7, EndSteps
  <2> QED BY <2>1, ClosingInv, ClosingGuess
<1>8. CASE CallbackReturns \/ CallbackFails
  BY <1>8, CallbackInv, CallbackGuess
<1>9. CASE LifecycleCommits
  <2>1. Committing /\
        (GuessInv => /\ \A x \in Domains : Fits(wrong[x], flash'[x].app.pin)
                     /\ \A x \in Domains : Fits(wrong[x], Least(ram'[x].app.pin, run.floor[x].pin))
                     /\ run' = Idle => \A x \in Domains : Fits(wrong[x], ram'[x].app.pin))
    BY <1>9, LifecycleSteps
  <2> QED BY <2>1, CommittingInv, CommittingGuess
<1>10. CASE CommitFloors
  <2>1. Committing /\
        (GuessInv /\ OnePinDomain =>
           /\ \A x \in Domains : Fits(wrong[x], flash'[x].app.pin)
           /\ \A x \in Domains : Fits(wrong[x], Least(ram'[x].app.pin, run.floor[x].pin))
           /\ run' = Idle => \A x \in Domains : Fits(wrong[x], ram'[x].app.pin))
    BY <1>10, FloorSteps
  <2> QED BY <2>1, CommittingInv, CommittingGuess
<1> QED BY <1>2, <1>3, <1>4, <1>5, <1>6, <1>7, <1>8, <1>9, <1>10 DEF Next

\* For any domains, code and limits, every state relates RAM, flash, the
\* staged copies and the snapshot of a transaction as AppInv says.
THEOREM ApplicationInvariantHolds == Spec => []AppInv
<1>1. Init => AppInv
  BY InitInv
<1>2. AppInv /\ [Next]_vars => AppInv'
  BY StepInv
<1> QED BY <1>1, <1>2, PTL DEF Spec

\* Between commands, with a journal that accepts commits and every failed
\* commit resolved, RAM holds the stores and instances a reboot would find
\* (commit_application_snapshot, commit_metadata_snapshot and the undo of
\* their callers).
THEOREM ApplicationRamAgrees == Spec => []RamAgrees
<1>1. AppInv => RamAgrees
  BY DEF AppInv, RamAgrees, AgreeInv, Agrees, Processing
<1> QED BY <1>1, ApplicationInvariantHolds, PTL

\* While a transaction is open, or was aborted, no step writes its stores to
\* flash: the credential checkpoint is the only commit, and changes tries.
THEOREM ApplicationTransactionIsInvisible == Spec => TransactionIsInvisible
<1> DEFINE Hidden == (/\ Processing /\ run.disp \in {"Active", "Begun", "Abort"}
                      => \A x \in Domains : flash'[x].app.store = flash[x].app.store)
<1>1. ASSUME AppInv, Next, Processing, run.disp \in {"Active", "Begun", "Abort"}
      PROVE  \A x \in Domains : flash'[x].app.store = flash[x].app.store
  <2>1. TypeOK /\ ShapeInv /\ Running /\ run.kind = "process"
    BY <1>1 DEF AppInv, Processing
  <2>2. CASE \/ PowerLoss \/ AbortTransaction \/ ProcessMissing
             \/ Process \/ SelectIsd
             \/ \E x \in Domains : Select(x) \/ Install(x) \/ Uninstall(x)
    BY <2>2 DEF PowerLoss, AbortTransaction, ProcessMissing, Process, SelectIsd, Select, Install, Uninstall
  <2>3. CASE StoreInt \/ KeyCall \/ BufferCall \/ HardwareOutput \/ Begin \/ End
               \/ CreateCredential \/ VerifyRight \/ ChangePin \/ Unblock
    BY <2>1, <2>3, StagingSteps DEF Staging, SameCommand, RunOnly
  <2>4. CASE VerifyWrong \/ UnblockWrong
    BY <2>1, <2>4, GuessingSteps DEF Guessing, SameCommand, RunOnly
  <2>5. CASE Checkpoint
    BY <2>1, <2>5, CheckpointStep, DurableType
  <2>6. CASE Return \/ ManagedException \/ Fault
    <3>1. PICK o, pending : Closing(o, pending)
      BY <1>1, <2>6, EndSteps
    <3>2. flash' = flash
      BY <1>1, <3>1 DEF Closing, Close, Adopt
    <3> QED BY <3>2
  <2>7. CASE CallbackReturns \/ CallbackFails \/ LifecycleCommits \/ CommitFloors
    BY <2>1, <2>7 DEF CallbackReturns, CallbackFails, LifecycleCommits, CommitFloors, Lifecycle
  <2> QED BY <1>1, <2>2, <2>3, <2>4, <2>5, <2>6, <2>7 DEF Next
<1>2. AppInv /\ [Next]_vars => [Hidden]_vars
  BY <1>1
<1> HIDE DEF Hidden
<1>3. Spec => [][Hidden]_vars
  BY <1>2, ApplicationInvariantHolds, PTL DEF Spec
<1> QED BY <1>3 DEF Hidden, TransactionIsInvisible

\* On a card where one domain holds a PIN or a PUK, at most MaxTries wrong
\* PINs are answered without the right one, over any mix of transactions,
\* aborts, faults, failing commits and power cuts.
THEOREM ApplicationGuessesAreBounded ==
  ASSUME OnePinDomain
  PROVE  Spec => []GuessesAreBounded
<1>1. Init => AppInv /\ GuessInv
  BY InitInv
<1>2. AppInv /\ GuessInv /\ [Next]_vars => (AppInv /\ GuessInv)'
  BY StepInv
<1>3. GuessInv => GuessesAreBounded
  BY Limits DEF GuessInv, GuessesAreBounded
<1> QED BY <1>1, <1>2, <1>3, PTL DEF Spec
=============================================================================
