--------------------------- MODULE JcvmCardProofs ---------------------------
(***************************************************************************)
(* Proofs about the storage ownership of the JCVM card (module JcvmCard):  *)
(* for any number of applets and banks, any counter sizes and any number   *)
(* of flash errors and power cuts, a boot finds every installed applet in  *)
(* the state its last heap commit left, no heap key is started twice, and  *)
(* identities only move forward.                                           *)
(***************************************************************************)
EXTENDS JcvmCard, TLAPS

-----------------------------------------------------------------------------
(* The inductive invariant *)

\* Identities are taken in order from the registry's nonces.
IdInv ==
  /\ \A a \in Aids : reg.inst[a] # None => reg.inst[a].id <= nonces
  /\ \A i \in executed : i <= nonces
  /\ sel # None => sel.id <= nonces
  /\ reg.renewal # None => reg.renewal.record.id <= nonces

\* A registry that needs no recovery is the durable one; power states.
ViewInv ==
  /\ regOK => view = reg
  /\ pc # "idle" => regOK
  /\ power = "off" => pc = "idle"
  /\ power # "on" => sel = None /\ ~upload /\ regOK

\* Every installed applet owns its bank and, unless it is being renewed, finds
\* its state there; while it is renewed, the staged record holds it.  A stale
\* session may have spoilt the record, but not the identity a bank is seeded for.
BankInv ==
  /\ \A a, b \in Aids : a # b /\ reg.inst[a] # None /\ reg.inst[b] # None =>
       reg.inst[a].bank # reg.inst[b].bank
  /\ \A a \in Aids :
       reg.inst[a] # None /\ (reg.renewal # None => reg.renewal.aid # a) =>
         /\ bank[reg.inst[a].bank].id = reg.inst[a].id
         /\ ~stale => Opens(reg.inst[a].bank, reg.inst[a].id) /\ bank[reg.inst[a].bank].data = ack[a]

\* A pending renewal: nothing overwrites the staged record.
RenewalInv ==
  reg.renewal # None =>
    LET r == reg.renewal IN
    /\ reg.inst[r.aid] # None /\ r.bank = reg.inst[r.aid].bank
    /\ reg.inst[r.aid].id < r.record.id /\ r.record.id \notin executed
    /\ staged = r.record /\ ~upload
    /\ ~stale => r.record.data = ack[r.aid]

\* One of the session's counters has at most one word left.
Low(s, b) == HeapCap - s.anchor <= 1 \/ HeapCap - bank[b].used <= 1

\* The selected session.  One that outlives a failed renewal does not commit under
\* its identity: its bank no longer opens, or it is still told to renew first.
SessionInv ==
  sel # None =>
    LET a == sel.aid
        i == reg.inst[a] IN
    /\ i # None /\ view.inst[a] # None /\ view.inst[a].bank = i.bank
    /\ sel.id <= i.id
    /\ ~stale /\ sel.id = i.id => sel.data = ack[a]
    /\ reg.renewal # None =>
         /\ reg.renewal.aid = a /\ sel.id = i.id
         /\ Opens(i.bank, sel.id) => Low(sel, i.bank)

\* The operation in flight, step by step.
Renewing == {"stage", "publish", "erase", "seed", "finish", "handoff"}
Installing == {"prepare", "heap", "register"}
OpInv ==
  /\ pc \in {"stage", "publish"} =>
       /\ reg.renewal = None /\ sel # None /\ sel.aid = op.aid
       /\ reg.inst[op.aid] # None /\ sel.id = reg.inst[op.aid].id /\ ~upload
       /\ op.bank = reg.inst[op.aid].bank /\ op.record.data = sel.data
       /\ op.record \in Records /\ op.record.id <= nonces
       /\ op.record.id \notin executed /\ op.record.id > sel.id
       /\ Low(sel, op.bank)
  /\ pc = "publish" => staged = op.record
  /\ pc \in {"erase", "seed", "finish"} =>
       /\ reg.renewal # None /\ op.aid = reg.renewal.aid
       /\ op.bank = reg.renewal.bank /\ op.record = reg.renewal.record
  /\ pc = "handoff" =>
       /\ reg.renewal = None /\ sel # None /\ sel.aid = op.aid
       /\ reg.inst[op.aid] # None /\ op.bank = reg.inst[op.aid].bank
  /\ pc \in {"prepare", "heap", "register"} =>
       /\ op.path = "install" /\ sel = None /\ power = "on"
       /\ op.aid \in Aids /\ op.bank \in Banks /\ op.record \in Records
       /\ reg.renewal = None /\ reg.inst[op.aid] = None
       /\ \A a \in Aids : reg.inst[a] # None => reg.inst[a].bank # op.bank
       /\ op.record.data = Fresh /\ op.record.id <= nonces /\ op.record.id \notin executed
  /\ pc \in {"finish", "register"} => bank[op.bank] = SeededBank(op.record)
  /\ pc \in Renewing =>
       IF power = "boot" THEN op.path = "boot"
       ELSE op.path \in {"command", "management"} /\ sel # None

CardInv == TypeOK /\ IdInv /\ ViewInv /\ BankInv /\ RenewalInv /\ SessionInv /\ OpInv

-----------------------------------------------------------------------------
(* Types *)

\* An entry of a registry is None or names an identity and a bank.
LEMMA InstanceType ==
  ASSUME NEW r \in Registries, NEW a \in Aids, r.inst[a] # None
  PROVE  r.inst[a] \in Instances /\ r.inst[a].id \in Ids /\ r.inst[a].bank \in Banks
  BY DEF Registries, Instances

\* So is its renewal.
LEMMA RenewalType ==
  ASSUME NEW r \in Registries, r.renewal # None
  PROVE  /\ r.renewal \in Renewals /\ r.renewal.aid \in Aids /\ r.renewal.bank \in Banks
         /\ r.renewal.record \in Records
         /\ r.renewal.record.id \in Ids /\ r.renewal.record.data \in Data
  BY DEF Registries, Renewals, Records

\* A selected session has the fields of a session.
LEMMA SessionType ==
  ASSUME TypeOK, sel # None
  PROVE  /\ sel \in Sessions /\ sel.aid \in Aids /\ sel.id \in Ids /\ sel.data \in Data
         /\ sel.anchor \in 0 .. HeapCap /\ sel.ok \in BOOLEAN
  BY DEF TypeOK, Sessions

\* A record describing a session is not None.
LEMMA SessionNotNone ==
  ASSUME NEW s \in Sessions
  PROVE  s # None
  BY JcvmCardConstants

-----------------------------------------------------------------------------
(* Steps that leave flash alone *)

\* The initial state satisfies the invariant.
LEMMA InitInv == Init => CardInv
<1> SUFFICES ASSUME Init PROVE CardInv
  OBVIOUS
<1>1. reg \in Registries /\ reg.renewal = None /\ \A a \in Aids : reg.inst[a] = None
  BY DEF Init, Registries
<1>2. ErasedBank \in BankStates /\ 1 \in 0 .. NonceCap
  BY JcvmCardConstants DEF ErasedBank, BankStates, Ids
<1>3. /\ bank \in [Banks -> BankStates] /\ ack \in [Aids -> Data] /\ faults \in 0 .. MaxFaults
      /\ nonces \in 0 .. NonceCap /\ view \in Registries
  BY <1>1, <1>2, JcvmCardConstants DEF Init
<1>4. TypeOK
  BY <1>1, <1>3 DEF Init, TypeOK
<1> QED BY <1>1, <1>4 DEF Init, CardInv, IdInv, ViewInv, BankInv, RenewalInv, SessionInv, OpInv, Renewing

\* Power is lost between operations.
LEMMA PowerOffStep ==
  ASSUME CardInv, PowerOff
  PROVE  CardInv'
<1>1. /\ UNCHANGED <<reg, nonces, bank, staged, pc, op, ack, executed, stale, faults>>
      /\ power' = "off" /\ view' = reg /\ regOK' = TRUE /\ stageLen' = FALSE
      /\ upload' = FALSE /\ sel' = None /\ pc = "idle"
  BY DEF PowerOff, PowerLost, durable
<1>2. TypeOK'
  BY <1>1 DEF CardInv, TypeOK
<1>3. IdInv' /\ ViewInv' /\ SessionInv' /\ OpInv'
  BY <1>1 DEF CardInv, IdInv, ViewInv, SessionInv, OpInv, Renewing
<1>4. BankInv'
  BY <1>1 DEF CardInv, BankInv, Opens
<1>5. RenewalInv'
  BY <1>1 DEF CardInv, RenewalInv
<1> QED BY <1>2, <1>3, <1>4, <1>5 DEF CardInv

\* The reader resets the card.
LEMMA CardResetStep ==
  ASSUME CardInv, CardReset
  PROVE  CardInv'
<1>1. /\ UNCHANGED <<reg, nonces, bank, staged, power, view, regOK, pc, op, ack,
                     executed, stale, faults>>
      /\ upload' = FALSE /\ sel' = None /\ pc = "idle" /\ stageLen' \in {FALSE, stageLen}
  BY DEF CardReset, Reset, AbortStaging, durable, Idle
<1>2. TypeOK'
  BY <1>1 DEF CardInv, TypeOK
<1>3. IdInv' /\ ViewInv' /\ SessionInv' /\ OpInv'
  BY <1>1 DEF CardInv, IdInv, ViewInv, SessionInv, OpInv, Renewing
<1>4. BankInv'
  BY <1>1 DEF CardInv, BankInv, Opens
<1>5. RenewalInv'
  BY <1>1 DEF CardInv, RenewalInv
<1> QED BY <1>2, <1>3, <1>4, <1>5 DEF CardInv

\* A boot starts, or goes back to a renewal it finds pending.
LEMMA BootStep ==
  ASSUME CardInv, Boot
  PROVE  CardInv'
<1>1. /\ UNCHANGED <<reg, nonces, bank, staged, regOK, stageLen, upload, sel, ack,
                     executed, stale, faults>>
      /\ power = "off" /\ power' = "boot" /\ view' = reg
  BY DEF Boot, durable
<1>2. /\ reg.renewal = None => pc' = "open"
      /\ reg.renewal # None =>
           /\ pc' = "erase" /\ op'.path = "boot" /\ op'.aid = reg.renewal.aid
           /\ op'.bank = reg.renewal.bank /\ op'.record = reg.renewal.record
  BY DEF Boot, RenewalOp
<1>3. TypeOK'
  BY <1>1, <1>2 DEF CardInv, TypeOK
<1>4. IdInv' /\ ViewInv' /\ SessionInv'
  BY <1>1 DEF CardInv, IdInv, ViewInv, SessionInv
<1>5. BankInv'
  BY <1>1 DEF CardInv, BankInv, Opens
<1>6. RenewalInv'
  BY <1>1 DEF CardInv, RenewalInv
<1>7. OpInv'
  BY <1>1, <1>2 DEF OpInv, Renewing
<1> QED BY <1>3, <1>4, <1>5, <1>6, <1>7 DEF CardInv

\* The card is open for commands.
LEMMA OpenAllStep ==
  ASSUME CardInv, OpenAll
  PROVE  CardInv'
<1>1. /\ UNCHANGED <<reg, nonces, bank, staged, view, regOK, upload, sel, ack,
                     executed, stale, faults>>
      /\ power' = "on" /\ stageLen' = FALSE /\ pc' = "idle"
  BY DEF OpenAll, Done, durable
<1>2. TypeOK'
  BY <1>1 DEF CardInv, TypeOK
<1>3. IdInv' /\ ViewInv' /\ OpInv'
  BY <1>1 DEF CardInv, IdInv, ViewInv, OpInv, Renewing
<1>4. SessionInv'
  BY <1>1 DEF CardInv, SessionInv, Opens, Low
<1>5. BankInv'
  BY <1>1 DEF CardInv, BankInv, Opens
<1>6. RenewalInv'
  BY <1>1 DEF CardInv, RenewalInv
<1> QED BY <1>2, <1>3, <1>4, <1>5, <1>6 DEF CardInv

\* SELECT opens the applet's bank under its identity.
LEMMA SelectStep ==
  ASSUME CardInv, NEW a \in Aids, Select(a)
  PROVE  CardInv'
<1> DEFINE i == reg.inst[a]
<1>1. /\ UNCHANGED <<reg, nonces, bank, staged, power, view, regOK, pc, op, ack,
                     executed, stale, faults>>
      /\ upload' = FALSE /\ stageLen' \in {FALSE, stageLen} /\ pc = "idle" /\ power = "on"
      /\ regOK /\ view.renewal = None
  BY DEF Select, AbortStaging, durable, Idle, StateOK
<1>2. view = reg /\ reg.renewal = None
  BY <1>1 DEF CardInv, ViewInv
<1>3. /\ i # None /\ Opens(i.bank, i.id)
      /\ sel' = [aid |-> a, id |-> i.id, data |-> bank[i.bank].data,
                 anchor |-> bank[i.bank].mono, ok |-> TRUE]
  BY <1>2 DEF Select
<1>4. i.id \in Ids /\ i.bank \in Banks /\ bank[i.bank] \in BankStates
  BY <1>3, InstanceType DEF CardInv, TypeOK
<1>5. sel' \in Sessions
  BY <1>3, <1>4 DEF Sessions, BankStates
<1>6. TypeOK'
  BY <1>1, <1>5 DEF CardInv, TypeOK
<1>7. IdInv' /\ ViewInv' /\ OpInv'
  BY <1>1, <1>2, <1>3 DEF CardInv, IdInv, ViewInv, OpInv, Renewing
<1>8. ~stale => bank[i.bank].data = ack[a]
  BY <1>2, <1>3 DEF CardInv, BankInv
<1>9. SessionInv'
  <2> HIDE DEF i
  <2>1. i \in Instances /\ i.id \in Nat /\ i = reg.inst[a]
    BY <1>3, <1>4, InstanceType, JcvmCardConstants DEF i, CardInv, TypeOK, Ids
  <2> QED BY <1>1, <1>2, <1>3, <1>8, <2>1 DEF SessionInv
<1>10. BankInv' /\ RenewalInv'
  BY <1>1, <1>2 DEF CardInv, BankInv, Opens, RenewalInv
<1> QED BY <1>6, <1>7, <1>9, <1>10 DEF CardInv

\* A management command parks the selected session.
LEMMA ParkStep ==
  ASSUME CardInv, Park
  PROVE  CardInv'
<1>1. /\ UNCHANGED <<reg, nonces, bank, staged, power, view, regOK, stageLen, upload, pc, op,
                     ack, executed, stale, faults>>
      /\ sel' = None /\ pc = "idle"
  BY DEF Park, durable, Idle
<1>2. TypeOK'
  BY <1>1 DEF CardInv, TypeOK
<1>3. IdInv' /\ ViewInv' /\ SessionInv' /\ OpInv'
  BY <1>1 DEF CardInv, IdInv, ViewInv, SessionInv, OpInv, Renewing
<1>4. BankInv'
  BY <1>1 DEF CardInv, BankInv, Opens
<1>5. RenewalInv'
  BY <1>1 DEF CardInv, RenewalInv
<1> QED BY <1>2, <1>3, <1>4, <1>5 DEF CardInv

\* The steps of an upload: none happens while a renewal owns the staging area.
LEMMA UploadStep ==
  ASSUME CardInv, StartUpload \/ ReceiveBlock \/ FinishUpload \/ FinishUploadFails
  PROVE  CardInv'
<1>0. /\ nonces \in Nat /\ nonces <= NonceCap /\ faults \in Nat /\ faults <= MaxFaults
      /\ NonceCap \in Nat /\ MaxFaults \in Nat /\ upload \in BOOLEAN /\ stageLen \in BOOLEAN
      /\ regOK \in BOOLEAN /\ (regOK => view = reg)
  BY JcvmCardConstants DEF CardInv, TypeOK, ViewInv
<1>1. /\ UNCHANGED <<reg, bank, pc, op, ack, executed, stale>>
      /\ nonces' \in {nonces, nonces + 1} /\ nonces' <= NonceCap
      /\ sel = None /\ sel' = None /\ pc = "idle" /\ power = "on"
      /\ power' \in {"on", "off"} /\ stageLen' \in BOOLEAN /\ upload' \in BOOLEAN
      /\ faults' \in {faults, faults + 1} /\ faults' <= MaxFaults
      /\ staged' \in {staged, Other}
  <2>1. CASE StartUpload
    BY <1>0, <2>1 DEF StartUpload, Managing, Idle, durable
  <2>2. CASE ReceiveBlock
    <3>1. /\ UNCHANGED <<reg, bank, pc, op, ack, executed, stale, nonces, sel, faults, power>>
          /\ sel = None /\ pc = "idle" /\ power = "on" /\ upload' = upload /\ stageLen' = TRUE
          /\ staged' = Other
      BY <2>2 DEF ReceiveBlock, Idle
    <3> QED BY <1>0, <3>1
  <2>3. CASE FinishUpload
    <3>1. /\ UNCHANGED <<reg, bank, pc, op, ack, executed, stale, staged, sel, faults, power>>
          /\ sel = None /\ pc = "idle" /\ power = "on" /\ upload' = FALSE /\ stageLen' = FALSE
          /\ nonces' = nonces + 1 /\ nonces < NonceCap
      BY <2>3 DEF FinishUpload, Idle
    <3>2. nonces' <= NonceCap
      BY <1>0, <3>1
    <3>3. stageLen' \in BOOLEAN /\ upload' \in BOOLEAN
      BY <3>1
    <3> QED BY <1>0, <3>1, <3>2, <3>3
  <2>4. CASE FinishUploadFails
    <3>1. /\ sel' = None /\ power' \in {"on", "off"} /\ upload' = FALSE
          /\ stageLen' \in {FALSE, stageLen}
      BY <2>4 DEF FinishUploadFails, Idle, AbortStaging, PowerLost
    <3>2. /\ UNCHANGED <<reg, bank, pc, op, ack, executed, stale, staged>>
          /\ sel = None /\ pc = "idle" /\ power = "on" /\ faults' = faults + 1 /\ faults < MaxFaults
          /\ nonces' \in {nonces, nonces + 1} /\ nonces < NonceCap
      BY <2>4 DEF FinishUploadFails, Idle
    <3>3. nonces' <= NonceCap /\ faults' <= MaxFaults
      BY <1>0, <3>2
    <3>4. stageLen' \in BOOLEAN /\ upload' \in BOOLEAN
      BY <1>0, <3>1
    <3> QED BY <3>1, <3>2, <3>3, <3>4
  <2> QED BY <2>1, <2>2, <2>3, <2>4
<1>2. reg.renewal = None \/ (staged' = staged /\ ~upload')
  BY DEF CardInv, RenewalInv, ViewInv, StartUpload, ReceiveBlock, FinishUpload, FinishUploadFails,
         Managing, StateOK
<1>3. /\ regOK' \in BOOLEAN /\ view' \in {view, reg} /\ (regOK' => view' = reg)
      /\ power' = "off" => ~upload' /\ regOK'
  <2>1. CASE UNCHANGED <<power, view, regOK>>
    BY <1>0, <1>1, <2>1
  <2>2. CASE FinishUploadFails
    <3>1. upload' = FALSE /\ reg' = reg
      BY <2>2 DEF FinishUploadFails, AbortStaging, PowerLost
    <3>2. CASE ResolveRegistry /\ UNCHANGED power
      BY <1>1, <3>1, <3>2 DEF ResolveRegistry
    <3>3. CASE PowerLost
      BY <3>1, <3>3 DEF PowerLost
    <3> QED BY <2>2, <3>2, <3>3 DEF FinishUploadFails
  <2> QED BY <2>1, <2>2 DEF StartUpload, ReceiveBlock, FinishUpload
<1>4. TypeOK'
  BY <1>1, <1>3, JcvmCardConstants DEF CardInv, TypeOK
<1>5. IdInv'
  BY <1>1, JcvmCardConstants, InstanceType, RenewalType DEF CardInv, IdInv, TypeOK, Ids
<1>6. ViewInv' /\ SessionInv' /\ OpInv'
  BY <1>1, <1>3 DEF CardInv, ViewInv, SessionInv, OpInv, Renewing
<1>7. BankInv'
  BY <1>1 DEF CardInv, BankInv, Opens
<1>8. RenewalInv'
  BY <1>1, <1>2 DEF CardInv, RenewalInv
<1> QED BY <1>4, <1>5, <1>6, <1>7, <1>8 DEF CardInv

-----------------------------------------------------------------------------
(* Heap commits *)

\* The least of two counts.
LEMMA LeastOfTwo ==
  ASSUME NEW x \in Int, NEW y \in Int
  PROVE  LET least == CHOOSE n \in {x, y} : \A m \in {x, y} : n <= m
         IN  least \in {x, y} /\ least <= x /\ least <= y
<1>1. \E n \in {x, y} : \A m \in {x, y} : n <= m
  <2>1. CASE x <= y
    BY <2>1
  <2>2. CASE y <= x
    BY <2>2
  <2> QED BY <2>1, <2>2
<1> QED BY <1>1

\* The bank a session writes is the one the registry names for its applet, and
\* the session is told to renew exactly when one of its counters runs out.
LEMMA SessionBank ==
  ASSUME CardInv, sel # None
  PROVE  LET b == reg.inst[sel.aid].bank IN
         /\ BankOf(sel.aid) = b /\ b \in Banks /\ bank[b] \in BankStates
         /\ sel.aid \in Aids /\ reg.inst[sel.aid] # None
         /\ Remaining(sel) <= 1 <=> Low(sel, b)
<1> DEFINE b == reg.inst[sel.aid].bank
<1>1. sel.aid \in Aids /\ sel.anchor \in Int /\ HeapCap \in Int
  BY SessionType, JcvmCardConstants DEF CardInv
<1>2. BankOf(sel.aid) = b /\ reg.inst[sel.aid] # None
  BY DEF CardInv, SessionInv, BankOf
<1>3. b \in Banks /\ bank[b] \in BankStates
  BY <1>1, <1>2, InstanceType DEF CardInv, TypeOK
<1>4. bank[b].used \in Int
  BY <1>3, JcvmCardConstants DEF BankStates
<1> DEFINE x == HeapCap - sel.anchor
           y == HeapCap - bank[b].used
<1>5. x \in Int /\ y \in Int
  BY <1>1, <1>4
<1>6. Remaining(sel) = CHOOSE n \in {x, y} : \A m \in {x, y} : n <= m
  BY <1>2 DEF Remaining
<1>7. Low(sel, b) <=> (x <= 1 \/ y <= 1)
  BY DEF Low
<1> HIDE DEF x, y, b
<1>8. Remaining(sel) \in {x, y} /\ Remaining(sel) <= x /\ Remaining(sel) <= y
  BY <1>5, <1>6, LeastOfTwo
<1>9. Remaining(sel) <= 1 <=> Low(sel, b)
  BY <1>5, <1>7, <1>8
<1> QED BY <1>1, <1>2, <1>3, <1>9 DEF b

\* A session that commits to a bank it can open owns that bank: no renewal is
\* pending, since a pending one of its applet would first be finished.
LEMMA CommitOwned ==
  ASSUME CardInv, sel # None, ~NeedsRenewal(sel), Opens(BankOf(sel.aid), sel.id)
  PROVE  reg.renewal = None /\ sel.id = reg.inst[sel.aid].id
<1>1. reg.renewal = None
  <2> SUFFICES ASSUME reg.renewal # None PROVE FALSE
    OBVIOUS
  <2>1. Low(sel, reg.inst[sel.aid].bank)
    BY SessionBank DEF CardInv, SessionInv
  <2>2. ~upload
    BY DEF CardInv, RenewalInv
  <2> QED BY <2>1, <2>2, SessionBank DEF NeedsRenewal
<1>2. bank[reg.inst[sel.aid].bank].id = reg.inst[sel.aid].id
  BY <1>1, SessionBank DEF CardInv, BankInv
<1> QED BY <1>1, <1>2, SessionBank DEF Opens

\* Writing the bank of the session's own applet leaves every other applet's
\* state alone, and keeps the written one readable.
LEMMA HeapWritten ==
  ASSUME CardInv, sel # None, reg.renewal = None, sel.id = reg.inst[sel.aid].id,
         NEW c \in BankStates, bank' = [bank EXCEPT ![BankOf(sel.aid)] = c],
         c.state = bank[BankOf(sel.aid)].state, c.id = bank[BankOf(sel.aid)].id,
         reg' = reg, stale' = stale, ack' \in [Aids -> Data],
         \A x \in Aids : x # sel.aid => ack'[x] = ack[x],
         ~stale => c.data = ack'[sel.aid]
  PROVE  BankInv' /\ bank' \in [Banks -> BankStates]
<1> DEFINE b == reg.inst[sel.aid].bank
<1>1. BankOf(sel.aid) = b /\ b \in Banks /\ sel.aid \in Aids /\ reg.inst[sel.aid] # None
  BY SessionBank
<1>2. bank \in [Banks -> BankStates] /\ reg \in Registries
  BY DEF CardInv, TypeOK
<1>3. bank' \in [Banks -> BankStates]
  BY <1>1, <1>2
<1> HIDE DEF b
<1>4. ASSUME NEW a \in Aids, reg.inst[a] # None
      PROVE  bank'[reg.inst[a].bank].id = reg.inst[a].id
             /\ (~stale' => Opens(reg.inst[a].bank, reg.inst[a].id)'
                             /\ bank'[reg.inst[a].bank].data = ack'[a])
  <2>1. reg.inst[a].bank \in Banks
    BY <1>2, <1>4, InstanceType
  <2>2. /\ bank[reg.inst[a].bank].id = reg.inst[a].id
        /\ ~stale => Opens(reg.inst[a].bank, reg.inst[a].id) /\ bank[reg.inst[a].bank].data = ack[a]
    BY <1>4 DEF CardInv, BankInv
  <2>3. CASE a = sel.aid
    BY <1>1, <1>2, <2>1, <2>2, <2>3 DEF Opens, b
  <2>4. CASE a # sel.aid
    <3>1. reg.inst[a].bank # b
      BY <1>1, <1>4, <2>4 DEF CardInv, BankInv, b
    <3>2. bank'[reg.inst[a].bank] = bank[reg.inst[a].bank]
      BY <1>1, <1>2, <2>1, <3>1
    <3> QED BY <2>2, <2>4, <3>2 DEF Opens
  <2> QED BY <2>3, <2>4
<1> QED BY <1>3, <1>4 DEF CardInv, BankInv

\* What a heap commit makes of a bank.
LEMMA HeapCommitType ==
  ASSUME NEW b \in BankStates, NEW v \in Data, NEW c \in Commits,
         b.mono + Word(c.anchored) <= HeapCap, b.used + Word(c.snapshot) <= HeapCap
  PROVE  /\ HeapCommit(b, v, c) \in BankStates /\ LostCommit(b, c) \in BankStates
         /\ HeapCommit(b, v, c).state = b.state /\ HeapCommit(b, v, c).id = b.id
         /\ HeapCommit(b, v, c).data = v
         /\ LostCommit(b, c).state = b.state /\ LostCommit(b, c).id = b.id
         /\ LostCommit(b, c).data = b.data
<1>1. Word(c.anchored) \in {0, 1} /\ Word(c.snapshot) \in {0, 1}
  BY DEF Word
<1>2. b.mono \in Nat /\ b.used \in Nat /\ HeapCap \in Nat
  BY JcvmCardConstants DEF BankStates
<1> DEFINE m == b.mono + Word(c.anchored)
           u == b.used + Word(c.snapshot)
<1>3. m \in 0 .. HeapCap /\ u \in 0 .. HeapCap
  BY <1>1, <1>2
<1>4. HeapCommit(b, v, c) = [b EXCEPT !.data = v, !.mono = m, !.used = u]
      /\ LostCommit(b, c) = [b EXCEPT !.used = u]
  BY DEF HeapCommit, LostCommit
<1> HIDE DEF m, u
<1> QED BY <1>3, <1>4 DEF BankStates

\* What a committing session may rely on.
LEMMA CommitReady ==
  ASSUME CardInv, NEW c \in Commits, NEW v \in Data, Execute(v, c) \/ ExecuteFails(v, c)
  PROVE  LET b == bank[BankOf(sel.aid)] IN
         /\ sel # None /\ power = "on" /\ pc = "idle" /\ sel.aid \in Aids /\ b \in BankStates
         /\ reg.renewal = None /\ sel.id = reg.inst[sel.aid].id
         /\ b.mono + Word(c.anchored) <= HeapCap /\ b.used + Word(c.snapshot) <= HeapCap
         /\ b.mono = sel.anchor
<1> DEFINE b == bank[BankOf(sel.aid)]
<1>1. /\ sel # None /\ power = "on" /\ pc = "idle" /\ ~NeedsRenewal(sel)
      /\ Opens(BankOf(sel.aid), sel.id) /\ b.mono = sel.anchor
      /\ Word(c.anchored) <= HeapCap - sel.anchor /\ Word(c.snapshot) <= HeapCap - b.used
  BY DEF Execute, ExecuteFails, Idle, Usable, CountersAgree
<1>2. sel.aid \in Aids /\ b \in BankStates
  BY <1>1, SessionBank
<1>3. b.mono \in Nat /\ b.used \in Nat /\ HeapCap \in Nat /\ Word(c.anchored) \in Nat
      /\ Word(c.snapshot) \in Nat
  BY <1>2, JcvmCardConstants DEF BankStates, Word
<1>4. reg.renewal = None /\ sel.id = reg.inst[sel.aid].id
  BY <1>1, CommitOwned
<1> HIDE DEF b
<1>5. b.mono + Word(c.anchored) <= HeapCap /\ b.used + Word(c.snapshot) <= HeapCap
  BY <1>1, <1>3
<1> QED BY <1>1, <1>2, <1>4, <1>5 DEF b

\* A command commits the heap of the selected applet.
LEMMA ExecuteStep ==
  ASSUME CardInv, NEW v \in Data, NEW c \in Commits, Execute(v, c)
  PROVE  CardInv'
<1> DEFINE b == bank[BankOf(sel.aid)]
           n == HeapCommit(b, v, c)
<1>1. /\ sel # None /\ power = "on" /\ pc = "idle" /\ sel.aid \in Aids /\ b \in BankStates
      /\ reg.renewal = None /\ sel.id = reg.inst[sel.aid].id
      /\ b.mono + Word(c.anchored) <= HeapCap /\ b.used + Word(c.snapshot) <= HeapCap
      /\ b.mono = sel.anchor
  BY CommitReady
<1>2. /\ UNCHANGED <<reg, nonces, staged, power, view, regOK, pc, op, stale, faults>>
      /\ upload' = FALSE /\ stageLen' \in {FALSE, stageLen}
      /\ bank' = [bank EXCEPT ![BankOf(sel.aid)] = n]
      /\ sel' = [sel EXCEPT !.data = v, !.anchor = @ + Word(c.anchored)]
      /\ ack' = [ack EXCEPT ![sel.aid] = v] /\ executed' = executed \cup {sel.id}
  BY SessionBank, <1>1 DEF Execute, AbortStaging, CardInv, TypeOK
<1>3. n \in BankStates /\ n.state = b.state /\ n.id = b.id /\ n.data = v
  BY <1>1, HeapCommitType
<1> HIDE DEF n
<1>4. ack' \in [Aids -> Data] /\ ack'[sel.aid] = v /\ \A x \in Aids : x # sel.aid => ack'[x] = ack[x]
  BY <1>1, <1>2 DEF CardInv, TypeOK
<1>5. BankInv' /\ bank' \in [Banks -> BankStates]
  BY <1>1, <1>2, <1>3, <1>4, HeapWritten
<1> HIDE DEF b
<1>6. /\ sel' \in Sessions /\ sel'.aid = sel.aid /\ sel'.id = sel.id /\ sel'.data = v
      /\ sel.id \in Ids
  <2>1. sel \in Sessions /\ sel.anchor \in Nat /\ HeapCap \in Nat /\ Word(c.anchored) \in Nat
    BY <1>1, SessionType, JcvmCardConstants DEF CardInv, Word
  <2>2. sel.anchor + Word(c.anchored) \in 0 .. HeapCap
    BY <1>1, <2>1
  <2> QED BY <1>2, <2>1, <2>2 DEF Sessions
<1>7. TypeOK'
  BY <1>2, <1>4, <1>5, <1>6 DEF CardInv, TypeOK
<1>8. IdInv'
  BY <1>1, <1>2, <1>6 DEF CardInv, IdInv
<1>9. ViewInv' /\ RenewalInv' /\ OpInv'
  BY <1>1, <1>2 DEF CardInv, ViewInv, RenewalInv, OpInv, Renewing
<1>10. SessionInv'
  BY <1>1, <1>2, <1>4, <1>6 DEF CardInv, SessionInv
<1> QED BY <1>5, <1>7, <1>8, <1>9, <1>10 DEF CardInv

\* The same commit fails: the old or the new heap is durable, nothing else.
LEMMA ExecuteFailsStep ==
  ASSUME CardInv, NEW v \in Data, NEW c \in Commits, ExecuteFails(v, c)
  PROVE  CardInv'
<1> DEFINE b == bank[BankOf(sel.aid)]
<1>1. /\ sel # None /\ power = "on" /\ pc = "idle" /\ sel.aid \in Aids /\ b \in BankStates
      /\ reg.renewal = None /\ sel.id = reg.inst[sel.aid].id
      /\ b.mono + Word(c.anchored) <= HeapCap /\ b.used + Word(c.snapshot) <= HeapCap
  BY CommitReady
<1>2. /\ UNCHANGED <<reg, nonces, staged, pc, op, stale>> /\ faults' = faults + 1 /\ faults < MaxFaults
      /\ upload' = FALSE /\ stageLen' \in {FALSE, stageLen} /\ sel' = None
      /\ executed' = executed \cup {sel.id}
  BY DEF ExecuteFails, Reset, AbortStaging, PowerLost
<1>3. \/ UNCHANGED <<power, view, regOK>>
      \/ power' = "off" /\ view' = reg /\ regOK' = TRUE
  BY <1>2 DEF ExecuteFails, PowerLost
<1>4. BankInv' /\ bank' \in [Banks -> BankStates] /\ ack' \in [Aids -> Data]
  <2>1. CASE /\ bank' = [bank EXCEPT ![BankOf(sel.aid)] = HeapCommit(@, v, c)]
             /\ ack' = [ack EXCEPT ![sel.aid] = v]
    <3> DEFINE n == HeapCommit(b, v, c)
    <3>1. bank' = [bank EXCEPT ![BankOf(sel.aid)] = n]
      BY <2>1
    <3>2. n \in BankStates /\ n.state = b.state /\ n.id = b.id /\ n.data = v
      BY <1>1, HeapCommitType
    <3> HIDE DEF n
    <3>3. ack' \in [Aids -> Data] /\ ack'[sel.aid] = v /\ \A x \in Aids : x # sel.aid => ack'[x] = ack[x]
      BY <1>1, <2>1 DEF CardInv, TypeOK
    <3> QED BY <1>1, <1>2, <3>1, <3>2, <3>3, HeapWritten
  <2>2. CASE /\ bank' = [bank EXCEPT ![BankOf(sel.aid)] = LostCommit(@, c)]
             /\ UNCHANGED ack
    <3> DEFINE n == LostCommit(b, c)
    <3>1. bank' = [bank EXCEPT ![BankOf(sel.aid)] = n]
      BY <2>2
    <3>2. n \in BankStates /\ n.state = b.state /\ n.id = b.id /\ n.data = b.data
      BY <1>1, HeapCommitType
    <3>3. ~stale => b.data = ack[sel.aid]
      BY <1>1, SessionBank DEF CardInv, BankInv
    <3> HIDE DEF n
    <3>4. ack' \in [Aids -> Data] /\ ack' = ack
      BY <2>2 DEF CardInv, TypeOK
    <3> QED BY <1>1, <1>2, <3>1, <3>2, <3>3, <3>4, HeapWritten
  <2> QED BY <2>1, <2>2 DEF ExecuteFails
<1> HIDE DEF b
<1>5. sel.id \in Ids /\ sel.id <= nonces /\ faults' \in 0 .. MaxFaults
  BY <1>1, <1>2, SessionType, JcvmCardConstants DEF CardInv, IdInv, TypeOK
<1>6. TypeOK'
  BY <1>2, <1>3, <1>4, <1>5 DEF CardInv, TypeOK
<1>7. IdInv'
  BY <1>1, <1>2, <1>5 DEF CardInv, IdInv
<1>8. ViewInv' /\ RenewalInv' /\ OpInv' /\ SessionInv'
  BY <1>1, <1>2, <1>3 DEF CardInv, ViewInv, RenewalInv, OpInv, SessionInv, Renewing
<1> QED BY <1>4, <1>6, <1>7, <1>8 DEF CardInv

\* What a stale commit, whole or torn, may make of a bank.
StaleResult(b, c) ==
  StaleCommit(b, c) \cup {LostCommit(b, c), [LostCommit(b, c) EXCEPT !.state = "partial"]}

\* It is a bank with its old identity, which opens no more than before.
LEMMA StaleResultType ==
  ASSUME NEW b \in BankStates, NEW c \in Commits, NEW n \in StaleResult(b, c),
         b.mono + Word(c.anchored) <= HeapCap, b.used + Word(c.snapshot) <= HeapCap
  PROVE  n \in BankStates /\ n.id = b.id /\ n.state \in {b.state, "partial"}
<1>1. Word(c.anchored) \in {0, 1} /\ Word(c.snapshot) \in {0, 1}
  BY DEF Word
<1>2. b.mono + Word(c.anchored) \in 0 .. HeapCap /\ b.used + Word(c.snapshot) \in 0 .. HeapCap
      /\ b.used \in Nat
  BY <1>1, JcvmCardConstants DEF BankStates
<1>3. PICK s \in {b.state, "partial"}, m \in {b.mono, b.mono + Word(c.anchored)} :
        n = [b EXCEPT !.state = s, !.mono = m, !.used = @ + Word(c.snapshot)]
  BY DEF StaleResult, StaleCommit, LostCommit, BankStates
<1> DEFINE u == b.used + Word(c.snapshot)
<1>4. s \in {"erased", "partial", "whole"} /\ m \in 0 .. HeapCap /\ u \in 0 .. HeapCap
  BY <1>2 DEF BankStates
<1>5. n = [b EXCEPT !.state = s, !.mono = m, !.used = u]
  BY <1>3
<1> HIDE DEF u
<1> QED BY <1>3, <1>4, <1>5 DEF BankStates

\* A commit to a bank that was reseeded under another identity: it may spoil the
\* bank of the session's own applet and touches no other.
LEMMA StaleWritten ==
  ASSUME CardInv, sel # None, NEW c \in Commits, NEW n \in StaleResult(bank[BankOf(sel.aid)], c),
         Usable(sel), Word(c.anchored) <= HeapCap - sel.anchor,
         Word(c.snapshot) <= HeapCap - bank[BankOf(sel.aid)].used,
         bank' = [bank EXCEPT ![BankOf(sel.aid)] = n], reg' = reg, stale' = TRUE
  PROVE  /\ BankInv' /\ bank' \in [Banks -> BankStates]
         /\ n.id = bank[BankOf(sel.aid)].id /\ n.state \in {bank[BankOf(sel.aid)].state, "partial"}
<1> DEFINE b == bank[BankOf(sel.aid)]
<1>1. b \in BankStates /\ BankOf(sel.aid) \in Banks /\ b.mono = sel.anchor
  BY SessionBank DEF Usable, CountersAgree
<1>2. bank \in [Banks -> BankStates] /\ reg \in Registries
  BY DEF CardInv, TypeOK
<1>3. b.mono + Word(c.anchored) <= HeapCap /\ b.used + Word(c.snapshot) <= HeapCap
  <2>1. b.mono \in Nat /\ b.used \in Nat /\ HeapCap \in Nat /\ Word(c.anchored) \in Nat
        /\ Word(c.snapshot) \in Nat
    BY <1>1, JcvmCardConstants DEF BankStates, Word
  <2>2. Word(c.anchored) <= HeapCap - b.mono /\ Word(c.snapshot) <= HeapCap - b.used
    BY <1>1
  <2> HIDE DEF b
  <2> QED BY <2>1, <2>2
<1>4. n \in BankStates /\ n.id = b.id /\ n.state \in {b.state, "partial"}
  BY <1>1, <1>3, StaleResultType
<1>5. bank' \in [Banks -> BankStates] /\ \A x \in Banks : bank'[x].id = bank[x].id
  BY <1>1, <1>2, <1>4
<1>6. BankInv'
  BY <1>2, <1>5, InstanceType DEF CardInv, BankInv
<1> QED BY <1>4, <1>5, <1>6

\* It is acknowledged.
LEMMA ExecuteStaleStep ==
  ASSUME CardInv, NEW v \in Data, NEW c \in Commits, ExecuteStale(v, c)
  PROVE  CardInv'
<1> DEFINE b == bank[BankOf(sel.aid)]
<1>1. /\ UNCHANGED <<reg, nonces, staged, power, view, regOK, pc, op, executed, faults>>
      /\ upload' = FALSE /\ stageLen' \in {FALSE, stageLen} /\ stale' = TRUE
      /\ sel # None /\ pc = "idle" /\ power = "on" /\ ~Opens(BankOf(sel.aid), sel.id)
      /\ Usable(sel) /\ Word(c.anchored) <= HeapCap - sel.anchor /\ Word(c.snapshot) <= HeapCap - b.used
      /\ sel' = [sel EXCEPT !.data = v, !.anchor = @ + Word(c.anchored)]
      /\ ack' = [ack EXCEPT ![sel.aid] = v]
  BY DEF ExecuteStale, AbortStaging, Idle
<1>2. PICK n \in StaleResult(b, c) : bank' = [bank EXCEPT ![BankOf(sel.aid)] = n]
  BY DEF ExecuteStale, StaleResult
<1>3. /\ BankInv' /\ bank' \in [Banks -> BankStates]
      /\ n.id = b.id /\ n.state \in {b.state, "partial"}
  BY <1>1, <1>2, StaleWritten
<1>4. BankOf(sel.aid) = reg.inst[sel.aid].bank /\ BankOf(sel.aid) \in Banks /\ sel.aid \in Aids
  BY <1>1, SessionBank
<1>5. sel' \in Sessions /\ sel'.aid = sel.aid /\ sel'.id = sel.id
  <2>1. sel \in Sessions /\ sel.anchor \in 0 .. HeapCap /\ Word(c.anchored) \in {0, 1}
    BY <1>1, SessionType DEF CardInv, Sessions, Word
  <2>2. sel.anchor + Word(c.anchored) \in 0 .. HeapCap
    BY <1>1, <2>1, JcvmCardConstants
  <2> QED BY <1>1, <2>1, <2>2 DEF Sessions
<1>6. ack' \in [Aids -> Data]
  BY <1>1, <1>4 DEF CardInv, TypeOK
<1>7. TypeOK'
  BY <1>1, <1>3, <1>5, <1>6 DEF CardInv, TypeOK
<1>8. IdInv' /\ ViewInv' /\ OpInv'
  BY <1>1, <1>5 DEF CardInv, IdInv, ViewInv, OpInv, Renewing
<1>9. RenewalInv'
  BY <1>1 DEF CardInv, RenewalInv
<1>10. ~Opens(reg.inst[sel.aid].bank, sel.id)'
  <2>1. bank'[BankOf(sel.aid)] = n
    BY <1>2, <1>4 DEF CardInv, TypeOK
  <2> QED BY <1>1, <1>3, <1>4, <1>5, <2>1 DEF Opens
<1>11. SessionInv'
  <2> HIDE DEF b
  <2> QED BY <1>1, <1>5, <1>10 DEF CardInv, SessionInv
<1> QED BY <1>3, <1>7, <1>8, <1>9, <1>11 DEF CardInv

\* Or it fails, and the session ends.
LEMMA ExecuteStaleFailsStep ==
  ASSUME CardInv, NEW c \in Commits, ExecuteStaleFails(c)
  PROVE  CardInv'
<1> DEFINE b == bank[BankOf(sel.aid)]
<1>1. /\ UNCHANGED <<reg, nonces, staged, pc, op, ack, executed>> /\ stale' = TRUE
      /\ faults' = faults + 1 /\ faults < MaxFaults /\ sel # None /\ pc = "idle" /\ power = "on"
      /\ upload' = FALSE /\ stageLen' \in {FALSE, stageLen} /\ sel' = None
      /\ Usable(sel) /\ Word(c.anchored) <= HeapCap - sel.anchor /\ Word(c.snapshot) <= HeapCap - b.used
  BY DEF ExecuteStaleFails, Reset, AbortStaging, PowerLost, Idle
<1>2. \/ UNCHANGED <<power, view, regOK>>
      \/ power' = "off" /\ view' = reg /\ regOK' = TRUE
  BY <1>1 DEF ExecuteStaleFails, PowerLost
<1>3. PICK n \in StaleResult(b, c) : bank' = [bank EXCEPT ![BankOf(sel.aid)] = n]
  BY DEF ExecuteStaleFails, StaleResult
<1>4. BankInv' /\ bank' \in [Banks -> BankStates]
  BY <1>1, <1>3, StaleWritten
<1> HIDE DEF b
<1>5. faults' \in 0 .. MaxFaults
  BY <1>1, JcvmCardConstants DEF CardInv, TypeOK
<1>6. TypeOK'
  BY <1>1, <1>2, <1>4, <1>5 DEF CardInv, TypeOK
<1>7. IdInv'
  BY <1>1 DEF CardInv, IdInv
<1>8. ViewInv' /\ RenewalInv' /\ OpInv' /\ SessionInv'
  BY <1>1, <1>2 DEF CardInv, ViewInv, RenewalInv, OpInv, SessionInv, Renewing
<1> QED BY <1>4, <1>6, <1>7, <1>8 DEF CardInv

\* An idle snapshot takes a nonce and changes nothing else.
LEMMA CompactStep ==
  ASSUME CardInv, Compact
  PROVE  CardInv'
<1> DEFINE b == bank[BankOf(sel.aid)]
           c == [anchored |-> FALSE, snapshot |-> TRUE]
           n == HeapCommit(b, b.data, c)
<1>1. /\ UNCHANGED <<reg, nonces, staged, power, view, regOK, stageLen, upload, sel, pc, op, ack,
                     executed, stale, faults>>
      /\ sel # None /\ pc = "idle" /\ power = "on" /\ Remaining(sel) > 1
      /\ Opens(BankOf(sel.aid), sel.id) /\ bank' = [bank EXCEPT ![BankOf(sel.aid)] = n]
  BY DEF Compact, ram, Idle
<1>2. b \in BankStates /\ sel.aid \in Aids
  BY <1>1, SessionBank
<1>3. ~NeedsRenewal(sel) /\ ~Low(sel, reg.inst[sel.aid].bank)
  <2>1. ~(Remaining(sel) <= 1)
    <3>1. sel.anchor \in Int /\ bank[BankOf(sel.aid)].used \in Int /\ HeapCap \in Int
      BY <1>1, <1>2, SessionType, JcvmCardConstants DEF CardInv, BankStates
    <3> DEFINE x == HeapCap - sel.anchor
               y == HeapCap - bank[BankOf(sel.aid)].used
    <3>2. x \in Int /\ y \in Int /\ Remaining(sel) = CHOOSE k \in {x, y} : \A m \in {x, y} : k <= m
      BY <3>1 DEF Remaining
    <3> HIDE DEF x, y
    <3>3. Remaining(sel) \in Int
      BY <3>2, LeastOfTwo
    <3> QED BY <1>1, <3>3
  <2> QED BY <1>1, <2>1, SessionBank DEF NeedsRenewal
<1>4. reg.renewal = None /\ sel.id = reg.inst[sel.aid].id
  BY <1>1, <1>3, CommitOwned
<1>5. c \in Commits /\ b.data \in Data
      /\ b.mono + Word(c.anchored) <= HeapCap /\ b.used + Word(c.snapshot) <= HeapCap
  <2>1. b.used < HeapCap /\ b.mono <= HeapCap /\ b.used \in Nat /\ b.mono \in Nat /\ HeapCap \in Nat
    BY <1>1, <1>2, <1>3, SessionBank, JcvmCardConstants DEF Low, BankStates
  <2>2. Word(c.anchored) = 0 /\ Word(c.snapshot) = 1
    BY DEF Word
  <2>3. c \in Commits /\ b.data \in Data
    BY <1>2 DEF Commits, BankStates
  <2> HIDE DEF b, c
  <2> QED BY <2>1, <2>2, <2>3
<1>6. n \in BankStates /\ n.state = b.state /\ n.id = b.id /\ n.data = b.data
  <2> DEFINE d == b.data
  <2> HIDE DEF c, d
  <2>1. d \in Data /\ c \in Commits /\ b.mono + Word(c.anchored) <= HeapCap
        /\ b.used + Word(c.snapshot) <= HeapCap
    BY <1>5 DEF d
  <2>2. HeapCommit(b, d, c) \in BankStates /\ HeapCommit(b, d, c).state = b.state
        /\ HeapCommit(b, d, c).id = b.id /\ HeapCommit(b, d, c).data = d
    BY <1>2, <2>1, HeapCommitType
  <2> QED BY <2>2 DEF d
<1>7. ~stale => b.data = ack[sel.aid]
  BY <1>1, <1>2, <1>4, SessionBank DEF CardInv, BankInv
<1> HIDE DEF n
<1>8. BankInv' /\ bank' \in [Banks -> BankStates]
  <2>1. ack' \in [Aids -> Data]
    BY <1>1 DEF CardInv, TypeOK
  <2> QED BY <1>1, <1>2, <1>4, <1>6, <1>7, <2>1, HeapWritten
<1> HIDE DEF b
<1>9. TypeOK'
  BY <1>1, <1>8 DEF CardInv, TypeOK
<1>10. IdInv' /\ ViewInv' /\ RenewalInv' /\ OpInv'
  BY <1>1, <1>4 DEF CardInv, IdInv, ViewInv, RenewalInv, OpInv, Renewing
<1>11. SessionInv'
  BY <1>1, <1>4 DEF CardInv, SessionInv
<1> QED BY <1>8, <1>9, <1>10, <1>11 DEF CardInv

-----------------------------------------------------------------------------
(* Heap renewal *)

\* A fresh identity is reserved for the selected applet.
LEMMA BeginRenewalStep ==
  ASSUME CardInv, NEW path \in {"command", "management"}, BeginRenewal(path)
  PROVE  CardInv'
<1>1. /\ UNCHANGED <<reg, bank, staged, power, view, regOK, stageLen, upload, sel, ack, executed,
                     stale, faults>>
      /\ sel # None /\ power = "on" /\ NeedsRenewal(sel) /\ regOK /\ view.renewal = None
      /\ NonceCap - nonces >= 2 /\ nonces' = nonces + 1 /\ sel.id = view.inst[sel.aid].id
      /\ pc' = "stage" /\ op'.aid = sel.aid /\ op'.bank = BankOf(sel.aid) /\ op'.path = path
      /\ op'.record = [id |-> nonces', data |-> sel.data]
  BY DEF BeginRenewal, ram, Idle, StateOK
<1>2. view = reg /\ reg.renewal = None /\ ~upload
  BY <1>1 DEF CardInv, ViewInv, NeedsRenewal
<1>3. nonces \in Nat /\ nonces' \in Ids /\ nonces' \in 0 .. NonceCap
  BY <1>1, JcvmCardConstants DEF CardInv, TypeOK, Ids
<1>4. sel.aid \in Aids /\ sel.id \in Nat /\ sel.id <= nonces /\ sel.data \in Data
  BY <1>1, SessionType, JcvmCardConstants DEF CardInv, IdInv, Ids
<1>5. op'.record \in Records /\ op'.record.id = nonces' /\ op'.record.data = sel.data
  BY <1>1, <1>3, <1>4 DEF Records
<1>6. TypeOK'
  BY <1>1, <1>3 DEF CardInv, TypeOK
<1>7. \A i \in executed : i \in Nat /\ i <= nonces
  <2>1. executed \subseteq 0 .. NonceCap /\ NonceCap \in Nat /\ \A i \in executed : i <= nonces
    BY JcvmCardConstants DEF CardInv, TypeOK, IdInv, Ids
  <2> QED BY <2>1
<1>8. IdInv'
  <2>1. \A a \in Aids : reg.inst[a] # None => reg.inst[a].id <= nonces'
    <3> SUFFICES ASSUME NEW a \in Aids, reg.inst[a] # None PROVE reg.inst[a].id <= nonces'
      OBVIOUS
    <3>1. reg.inst[a].id \in Nat
      BY InstanceType, JcvmCardConstants DEF CardInv, TypeOK, Ids
    <3> QED BY <1>1, <1>3, <3>1 DEF CardInv, IdInv
  <2> QED BY <1>1, <1>2, <1>3, <1>4, <1>7, <2>1 DEF IdInv
<1>9. ViewInv' /\ RenewalInv'
  BY <1>1, <1>2 DEF CardInv, ViewInv, RenewalInv
<1>10. BankInv' /\ SessionInv'
  BY <1>1, <1>2 DEF CardInv, BankInv, SessionInv, Opens
<1>11. OpInv'
  <2>1. Low(sel, BankOf(sel.aid)) /\ BankOf(sel.aid) = reg.inst[sel.aid].bank /\ reg.inst[sel.aid] # None
    BY <1>1, SessionBank DEF NeedsRenewal
  <2>2. Low(sel, op.bank)'
    BY <1>1, <2>1 DEF Low
  <2>3. op'.record.id \notin executed /\ op'.record.id > sel.id /\ op'.record.id <= nonces'
    BY <1>1, <1>3, <1>4, <1>5, <1>7
  <2> QED BY <1>1, <1>2, <1>5, <2>1, <2>2, <2>3 DEF OpInv, Renewing
<1> QED BY <1>6, <1>8, <1>9, <1>10, <1>11 DEF CardInv

\* The record under the new key is staged.
LEMMA StageRecordStep ==
  ASSUME CardInv, StageRecord
  PROVE  CardInv'
<1>1. /\ UNCHANGED <<reg, nonces, bank, power, view, regOK, upload, sel, op, ack, executed, stale,
                     faults>>
      /\ staged' = op.record /\ stageLen' = TRUE /\ pc = "stage" /\ pc' = "publish"
  BY DEF StageRecord
<1>2. reg.renewal = None /\ op.record \in Records
  BY <1>1 DEF CardInv, OpInv
<1>3. TypeOK'
  BY <1>1, <1>2 DEF CardInv, TypeOK
<1>4. IdInv' /\ ViewInv' /\ RenewalInv'
  BY <1>1, <1>2 DEF CardInv, IdInv, ViewInv, RenewalInv
<1>5. BankInv' /\ SessionInv'
  BY <1>1, <1>2 DEF CardInv, BankInv, SessionInv, Opens
<1>6. OpInv'
  BY <1>1 DEF CardInv, OpInv, Renewing, Low
<1> QED BY <1>3, <1>4, <1>5, <1>6 DEF CardInv

\* What is known when the pending renewal is published.
LEMMA PublishFacts ==
  ASSUME CardInv, pc = "publish"
  PROVE  /\ view = reg /\ reg.renewal = None /\ sel # None /\ op.aid \in Aids /\ op.bank \in Banks
         /\ op.record \in Records /\ reg.inst[op.aid] # None
         /\ PendingRegistry \in Registries /\ PendingRegistry.inst = reg.inst
         /\ PendingRegistry.renewal # None /\ PendingRegistry.renewal.aid = op.aid
         /\ PendingRegistry.renewal.bank = op.bank /\ PendingRegistry.renewal.record = op.record
<1>1. /\ view = reg /\ reg.renewal = None /\ sel # None /\ op.aid = sel.aid /\ reg.inst[op.aid] # None
      /\ op.bank = reg.inst[op.aid].bank /\ op.record \in Records /\ reg \in Registries
  BY DEF CardInv, ViewInv, OpInv, TypeOK
<1>2. op.aid \in Aids
  BY <1>1, SessionType DEF CardInv
<1>3. reg.inst[op.aid].id \in Ids /\ op.bank \in Banks
  BY <1>1, <1>2, InstanceType
<1> DEFINE w == [aid |-> op.aid, bank |-> op.bank, old |-> view.inst[op.aid].id, record |-> op.record]
<1>4. w \in Renewals /\ w.aid = op.aid /\ w.bank = op.bank /\ w.record = op.record
  BY <1>1, <1>2, <1>3 DEF Renewals
<1>5. PendingRegistry = [reg EXCEPT !.renewal = w]
  BY <1>1 DEF PendingRegistry
<1> HIDE DEF w
<1>6. w # None
  BY <1>4, JcvmCardConstants
<1>7. PendingRegistry \in Registries /\ PendingRegistry.inst = reg.inst /\ PendingRegistry.renewal = w
  BY <1>1, <1>4, <1>5 DEF Registries
<1> QED BY <1>1, <1>2, <1>3, <1>4, <1>6, <1>7

\* From the publication on, the staged record is the applet's state.
LEMMA Published ==
  ASSUME CardInv, pc = "publish", reg' = PendingRegistry,
         UNCHANGED <<nonces, bank, staged, ack, executed, stale>>
  PROVE  /\ reg' \in Registries /\ BankInv'
         /\ ~upload' => RenewalInv'
         /\ sel' \in {sel, None} => IdInv'
         /\ sel' \in {sel, None} /\ view' \in {view, reg'} => SessionInv'
<1>1. /\ view = reg /\ reg.renewal = None /\ sel # None /\ op.aid \in Aids /\ op.bank \in Banks
      /\ op.record \in Records /\ reg.inst[op.aid] # None
      /\ reg' \in Registries /\ reg'.inst = reg.inst /\ reg'.renewal # None
      /\ reg'.renewal.aid = op.aid /\ reg'.renewal.bank = op.bank /\ reg'.renewal.record = op.record
  BY PublishFacts
<1>2. /\ sel.aid = op.aid /\ sel.id = reg.inst[op.aid].id /\ op.bank = reg.inst[op.aid].bank
      /\ op.record.data = sel.data /\ op.record.id <= nonces /\ op.record.id \notin executed
      /\ op.record.id > sel.id /\ staged = op.record /\ Low(sel, op.bank)
  BY DEF CardInv, OpInv
<1>3. BankInv'
  BY <1>1 DEF CardInv, BankInv, Opens
<1>4. ~stale => sel.data = ack[op.aid]
  BY <1>1, <1>2 DEF CardInv, SessionInv
<1>5. ~upload' => RenewalInv'
  <2>1. sel.id \in Int /\ op.record.id \in Int
    BY <1>1, SessionType, JcvmCardConstants DEF CardInv, Records, Ids
  <2> QED BY <1>1, <1>2, <1>4, <2>1 DEF RenewalInv
<1>6. sel' \in {sel, None} => IdInv'
  BY <1>1, <1>2 DEF CardInv, IdInv
<1>7. sel' \in {sel, None} /\ view' \in {view, reg'} => SessionInv'
  <2> SUFFICES ASSUME sel' = sel, view' \in {view, reg'} PROVE SessionInv'
    BY DEF SessionInv
  <2>1. view'.inst = reg.inst
    BY <1>1
  <2>2. HeapCap - sel.anchor <= 1 \/ HeapCap - bank'[op.bank].used <= 1
    BY <1>2 DEF Low
  <2> QED BY <1>1, <1>2, <2>1, <2>2 DEF CardInv, SessionInv, Low
<1> QED BY <1>1, <1>3, <1>5, <1>6, <1>7

\* The pending renewal is published.
LEMMA PublishRenewalStep ==
  ASSUME CardInv, PublishRenewal
  PROVE  CardInv'
<1>1. /\ UNCHANGED <<nonces, bank, staged, power, regOK, stageLen, upload, sel, op, ack, executed,
                     stale, faults>>
      /\ reg' = PendingRegistry /\ view' = reg' /\ pc = "publish" /\ pc' = "erase"
  BY DEF PublishRenewal
<1>2. ~upload /\ regOK
  BY <1>1 DEF CardInv, OpInv, ViewInv
<1>3. reg' \in Registries /\ BankInv' /\ RenewalInv' /\ IdInv' /\ SessionInv'
  BY <1>1, <1>2, Published
<1>4. TypeOK'
  BY <1>1, <1>3 DEF CardInv, TypeOK
<1>5. ViewInv'
  BY <1>1 DEF CardInv, ViewInv
<1>6. OpInv'
  <2>1. /\ reg'.renewal # None
        /\ reg'.renewal.aid = op.aid /\ reg'.renewal.bank = op.bank /\ reg'.renewal.record = op.record
    BY <1>1, PublishFacts
  <2> QED BY <1>1, <2>1 DEF CardInv, OpInv, Renewing
<1> QED BY <1>3, <1>4, <1>5, <1>6 DEF CardInv

\* The bank an operation erases or seeds holds the state of no applet.
LEMMA SpareBank ==
  ASSUME CardInv, pc \in {"erase", "seed", "prepare", "heap", "finish", "register"}
  PROVE  /\ op.bank \in Banks /\ op.record \in Records /\ op.aid \in Aids /\ view = reg
         /\ \A a \in Aids : reg.inst[a] # None /\ (reg.renewal # None => reg.renewal.aid # a) =>
              reg.inst[a].bank # op.bank
<1>0. reg \in Registries /\ view = reg
  BY DEF CardInv, TypeOK, ViewInv
<1>1. CASE pc \in {"erase", "seed", "finish"}
  <2>1. /\ reg.renewal # None /\ op.aid = reg.renewal.aid /\ op.bank = reg.renewal.bank
        /\ op.record = reg.renewal.record
    BY <1>1 DEF CardInv, OpInv
  <2>2. reg.inst[op.aid] # None /\ op.bank = reg.inst[op.aid].bank
    BY <2>1 DEF CardInv, RenewalInv
  <2>3. op.aid \in Aids /\ op.bank \in Banks /\ op.record \in Records
    BY <1>0, <2>1, RenewalType
  <2> QED BY <1>0, <2>1, <2>2, <2>3 DEF CardInv, BankInv
<1>2. CASE pc \in {"prepare", "heap", "register"}
  BY <1>0, <1>2 DEF CardInv, OpInv
<1> QED BY <1>1, <1>2

\* Erasing or seeding that bank loses nothing, and the session that a failed
\* renewal leaves behind can no longer open it.
LEMMA SpareBankWritten ==
  ASSUME CardInv, pc \in {"erase", "seed", "prepare", "heap"}, NEW c \in BankStates,
         c.state # "whole" \/ c.id = op.record.id, bank' = [bank EXCEPT ![op.bank] = c],
         UNCHANGED <<reg, ack, stale>>
  PROVE  /\ bank' \in [Banks -> BankStates] /\ bank'[op.bank] = c /\ BankInv'
         /\ sel' \in {sel, None} /\ view' = view => SessionInv'
<1>1. op.bank \in Banks /\ bank \in [Banks -> BankStates] /\ reg \in Registries
  BY SpareBank DEF CardInv, TypeOK
<1>2. bank' \in [Banks -> BankStates] /\ bank'[op.bank] = c
  BY <1>1
<1>3. ASSUME NEW a \in Aids, reg.inst[a] # None, reg.renewal # None => reg.renewal.aid # a
      PROVE  bank'[reg.inst[a].bank] = bank[reg.inst[a].bank]
  <2>1. reg.inst[a].bank # op.bank /\ reg.inst[a].bank \in Banks
    BY <1>1, <1>3, SpareBank, InstanceType
  <2> QED BY <1>1, <2>1
<1>4. BankInv'
  BY <1>3 DEF CardInv, BankInv, Opens
<1>5. sel' \in {sel, None} /\ view' = view => SessionInv'
  <2> SUFFICES ASSUME sel' = sel, sel # None, view' = view PROVE SessionInv'
    BY DEF SessionInv
  <2>1. /\ reg.renewal # None /\ op.aid = reg.renewal.aid /\ op.bank = reg.renewal.bank
        /\ op.record = reg.renewal.record
    BY DEF CardInv, OpInv
  <2>2. /\ reg.inst[op.aid] # None /\ op.bank = reg.inst[op.aid].bank
        /\ reg.inst[op.aid].id < op.record.id
    BY <2>1 DEF CardInv, RenewalInv
  <2>3. sel.aid = op.aid /\ sel.id = reg.inst[op.aid].id
    BY <2>1 DEF CardInv, SessionInv
  <2>4. sel.id \in Int /\ op.record.id \in Int
    BY SpareBank, SessionType, JcvmCardConstants DEF CardInv, Records, Ids
  <2>5. ~(bank'[op.bank].state = "whole" /\ bank'[op.bank].id = sel.id)
    BY <1>2, <2>2, <2>3, <2>4
  <2> QED BY <2>1, <2>2, <2>3, <2>5 DEF CardInv, SessionInv, Opens
<1> QED BY <1>2, <1>4, <1>5

\* The two states an operation gives its bank.
LEMMA BankTypes ==
  /\ ErasedBank \in BankStates /\ ErasedBank.state # "whole"
  /\ \A r \in Records : /\ SeededBank(r) \in BankStates /\ SeededBank(r).state = "whole"
                        /\ SeededBank(r).id = r.id /\ SeededBank(r).data = r.data
<1>1. 0 \in 0 .. HeapCap /\ 1 \in 0 .. HeapCap /\ 0 \in Ids /\ Fresh \in Data
  BY JcvmCardConstants DEF Ids
<1> QED BY <1>1 DEF ErasedBank, SeededBank, BankStates, Records

\* The bank is erased, and seeded from the staged record or by a fresh install.
LEMMA BankStep ==
  ASSUME CardInv, EraseBank \/ SeedBank \/ PrepareBank \/ CommitFreshHeap
  PROVE  CardInv'
<1> DEFINE c == IF pc \in {"erase", "prepare"} THEN ErasedBank ELSE SeededBank(op.record)
<1>1. /\ UNCHANGED <<reg, nonces, staged, power, view, regOK, stageLen, upload, sel, op, ack, executed,
                     stale, faults>>
      /\ pc \in {"erase", "seed", "prepare", "heap"}
      /\ pc = "erase" => pc' = "seed"
      /\ pc = "seed" => pc' = "finish"
      /\ pc = "prepare" => pc' = "heap"
      /\ pc = "heap" => pc' = "register"
  BY DEF EraseBank, SeedBank, PrepareBank, CommitFreshHeap, ram
<1>2. bank' = [bank EXCEPT ![op.bank] = c]
  <2>1. CASE SeedBank
    <3>1. staged = op.record
      BY <2>1 DEF SeedBank, CardInv, OpInv, RenewalInv
    <3> QED BY <2>1, <3>1 DEF SeedBank
  <2> QED BY <2>1 DEF EraseBank, PrepareBank, CommitFreshHeap
<1>3. c \in BankStates /\ (c.state # "whole" \/ c.id = op.record.id)
  BY <1>1, SpareBank, BankTypes
<1>4. pc \in {"seed", "heap"} => c = SeededBank(op.record)
  OBVIOUS
<1> HIDE DEF c
<1>5. bank' \in [Banks -> BankStates] /\ bank'[op.bank] = c /\ BankInv' /\ SessionInv'
  BY <1>1, <1>2, <1>3, SpareBankWritten
<1>6. TypeOK'
  BY <1>1, <1>5 DEF CardInv, TypeOK
<1>7. IdInv' /\ RenewalInv'
  BY <1>1 DEF CardInv, IdInv, RenewalInv
<1>8. ViewInv'
  BY <1>1 DEF CardInv, ViewInv
<1>9. SeededBank(op.record)' = SeededBank(op.record)
  BY <1>1 DEF SeededBank
<1>10. OpInv'
  BY <1>1, <1>4, <1>5, <1>9 DEF CardInv, OpInv, Renewing
<1> QED BY <1>5, <1>6, <1>7, <1>8, <1>10 DEF CardInv

\* The registry that ends a renewal differs from the pending one in the
\* identity of the renewed applet.
LEMMA RenewedFacts ==
  ASSUME CardInv, pc = "finish"
  PROVE  /\ RenewedRegistry \in Registries /\ RenewedRegistry.renewal = None
         /\ \A a \in Aids : a # op.aid => RenewedRegistry.inst[a] = reg.inst[a]
         /\ RenewedRegistry.inst[op.aid] # None
         /\ RenewedRegistry.inst[op.aid].id = op.record.id
         /\ RenewedRegistry.inst[op.aid].bank = reg.inst[op.aid].bank
<1>1. reg \in Registries /\ view = reg /\ op.aid \in Aids /\ op.record \in Records
  BY SpareBank DEF CardInv, TypeOK
<1>2. reg.inst[op.aid] # None
  BY DEF CardInv, OpInv, RenewalInv
<1>3. reg.inst[op.aid] \in Instances /\ op.record.id \in Ids
  BY <1>1, <1>2, InstanceType DEF Records
<1> DEFINE i == [reg.inst[op.aid] EXCEPT !.id = op.record.id]
           f == [reg.inst EXCEPT ![op.aid] = i]
<1>4. i \in Instances /\ i.id = op.record.id /\ i.bank = reg.inst[op.aid].bank
  BY <1>3 DEF Instances
<1>5. RenewedRegistry = [reg EXCEPT !.inst = f, !.renewal = None]
  BY <1>1 DEF RenewedRegistry, Registries
<1> HIDE DEF i
<1>6. f \in [Aids -> Instances \cup {None}] /\ f[op.aid] = i /\ \A a \in Aids : a # op.aid => f[a] = reg.inst[a]
  BY <1>1, <1>4 DEF Registries
<1> HIDE DEF f
<1>7. RenewedRegistry \in Registries /\ RenewedRegistry.inst = f /\ RenewedRegistry.renewal = None
  BY <1>1, <1>5, <1>6 DEF Registries
<1>8. i # None
  BY <1>4, JcvmCardConstants
<1> QED BY <1>4, <1>6, <1>7, <1>8

\* The seeded bank carries what the staged record held.
LEMMA Renewed ==
  ASSUME CardInv, pc = "finish", reg' = RenewedRegistry, nonces' = nonces + 1,
         UNCHANGED <<bank, staged, ack, executed, stale>>
  PROVE  /\ reg' \in Registries /\ BankInv' /\ RenewalInv'
         /\ sel' \in {sel, None} => IdInv'
         /\ sel' \in {sel, None} /\ view' \in {view, reg'} => SessionInv'
<1>1. /\ reg' \in Registries /\ reg'.renewal = None
      /\ \A a \in Aids : a # op.aid => reg'.inst[a] = reg.inst[a]
      /\ reg'.inst[op.aid] # None /\ reg'.inst[op.aid].id = op.record.id
      /\ reg'.inst[op.aid].bank = reg.inst[op.aid].bank
  BY RenewedFacts
<1>2. /\ reg.renewal # None /\ op.aid = reg.renewal.aid /\ op.bank = reg.renewal.bank
      /\ op.record = reg.renewal.record /\ bank[op.bank] = SeededBank(op.record)
  BY DEF CardInv, OpInv
<1>3. /\ reg.inst[op.aid] # None /\ op.bank = reg.inst[op.aid].bank
      /\ reg.inst[op.aid].id < op.record.id /\ (~stale => op.record.data = ack[op.aid])
  BY <1>2 DEF CardInv, RenewalInv
<1>4. op.bank \in Banks /\ op.record \in Records /\ op.aid \in Aids /\ view = reg
  BY SpareBank
<1>5. bank[op.bank].state = "whole" /\ bank[op.bank].id = op.record.id /\ bank[op.bank].data = op.record.data
  BY <1>2, <1>4, BankTypes
<1>6. BankInv'
  <2>1. \A a, b \in Aids : a # b /\ reg'.inst[a] # None /\ reg'.inst[b] # None =>
          reg'.inst[a].bank # reg'.inst[b].bank
    BY <1>1, <1>3 DEF CardInv, BankInv
  <2>2. \A a \in Aids : reg'.inst[a] # None =>
          /\ bank'[reg'.inst[a].bank].id = reg'.inst[a].id
          /\ ~stale' => Opens(reg.inst[a].bank, reg.inst[a].id)' /\ bank'[reg'.inst[a].bank].data = ack'[a]
    <3> SUFFICES ASSUME NEW a \in Aids, reg'.inst[a] # None
                 PROVE  /\ bank'[reg'.inst[a].bank].id = reg'.inst[a].id
                        /\ ~stale' => Opens(reg.inst[a].bank, reg.inst[a].id)' /\ bank'[reg'.inst[a].bank].data = ack'[a]
      OBVIOUS
    <3>1. CASE a = op.aid
      BY <1>1, <1>3, <1>5, <3>1 DEF Opens
    <3>2. CASE a # op.aid
      BY <1>1, <1>2, <3>2 DEF CardInv, BankInv, Opens
    <3> QED BY <3>1, <3>2
  <2> QED BY <2>1, <2>2 DEF BankInv
<1>7. RenewalInv'
  BY <1>1 DEF RenewalInv
<1>8. nonces \in Nat /\ op.record.id \in Nat /\ op.record.id <= nonces
  BY <1>2, <1>4, JcvmCardConstants DEF CardInv, TypeOK, Records, Ids, IdInv
<1>9. sel' \in {sel, None} => IdInv'
  <2>1. \A a \in Aids : reg.inst[a] # None => reg.inst[a].id \in Nat /\ reg.inst[a].id <= nonces
    <3> SUFFICES ASSUME NEW a \in Aids, reg.inst[a] # None PROVE reg.inst[a].id \in Nat /\ reg.inst[a].id <= nonces
      OBVIOUS
    <3> QED BY InstanceType, JcvmCardConstants DEF CardInv, TypeOK, IdInv, Ids
  <2>2. \A a \in Aids : reg'.inst[a] # None => reg'.inst[a].id <= nonces'
    BY <1>1, <1>8, <2>1
  <2>3. \A i \in executed : i <= nonces'
    <3>1. executed \subseteq Nat /\ \A i \in executed : i <= nonces
      BY JcvmCardConstants DEF CardInv, TypeOK, IdInv, Ids
    <3> QED BY <1>8, <3>1
  <2>4. sel # None => sel.id <= nonces'
    <3>1. sel # None => sel.id \in Nat /\ sel.id <= nonces
      BY SessionType, JcvmCardConstants DEF CardInv, IdInv, Ids
    <3> QED BY <1>8, <3>1
  <2> QED BY <1>1, <2>2, <2>3, <2>4 DEF IdInv
<1>10. sel' \in {sel, None} /\ view' \in {view, reg'} => SessionInv'
  <2> SUFFICES ASSUME sel' = sel, sel # None, view' \in {view, reg'} PROVE SessionInv'
    BY DEF SessionInv
  <2>1. sel.aid = op.aid /\ sel.id = reg.inst[op.aid].id /\ sel.id \in Int
    BY <1>2, SessionType, JcvmCardConstants DEF CardInv, SessionInv, Ids
  <2>2. view'.inst[op.aid] # None /\ view'.inst[op.aid].bank = reg.inst[op.aid].bank
    BY <1>1, <1>3, <1>4
  <2> QED BY <1>1, <1>3, <1>8, <2>1, <2>2 DEF SessionInv
<1> QED BY <1>1, <1>6, <1>7, <1>9, <1>10

\* The renewed identity is published.
LEMMA FinishRenewalStep ==
  ASSUME CardInv, FinishRenewal
  PROVE  CardInv'
<1>1. /\ UNCHANGED <<bank, staged, power, regOK, stageLen, upload, sel, op, ack, executed, stale, faults>>
      /\ reg' = RenewedRegistry /\ view' = reg' /\ pc = "finish" /\ nonces' = nonces + 1
      /\ nonces < NonceCap /\ pc' = IF power = "boot" THEN "open" ELSE "handoff"
  BY DEF FinishRenewal
<1>2. reg' \in Registries /\ BankInv' /\ RenewalInv' /\ IdInv' /\ SessionInv'
  BY <1>1, Renewed
<1>3. nonces' \in 0 .. NonceCap
  BY <1>1, JcvmCardConstants DEF CardInv, TypeOK
<1>4. TypeOK'
  BY <1>1, <1>2, <1>3 DEF CardInv, TypeOK
<1>5. ViewInv'
  BY <1>1 DEF CardInv, ViewInv
<1>6. OpInv'
  <2>1. /\ reg'.renewal = None /\ reg'.inst[op.aid] # None
        /\ reg'.inst[op.aid].bank = reg.inst[op.aid].bank
    BY <1>1, RenewedFacts
  <2>2. reg.renewal # None /\ op.aid = reg.renewal.aid /\ op.bank = reg.inst[op.aid].bank
    BY <1>1 DEF CardInv, OpInv, RenewalInv
  <2>3. power # "boot" => sel # None /\ sel.aid = op.aid /\ op.path \in {"command", "management"}
    BY <1>1, <2>2 DEF CardInv, OpInv, SessionInv, Renewing
  <2> QED BY <1>1, <2>1, <2>2, <2>3 DEF OpInv, Renewing
<1> QED BY <1>2, <1>4, <1>5, <1>6 DEF CardInv

\* The live session moves to the renewed heap.
LEMMA HandoffStep ==
  ASSUME CardInv, Handoff
  PROVE  CardInv'
<1>1. /\ UNCHANGED <<reg, nonces, bank, staged, power, view, regOK, upload, ack, executed, stale, faults>>
      /\ stageLen' = FALSE /\ pc = "handoff" /\ pc' = "idle"
      /\ Opens(op.bank, view.inst[op.aid].id) /\ bank[op.bank].data = sel.data
      /\ sel' = [sel EXCEPT !.id = view.inst[op.aid].id, !.anchor = bank[op.bank].mono]
  BY DEF Handoff, Done, durable
<1>2. /\ view = reg /\ reg.renewal = None /\ sel # None /\ sel.aid = op.aid /\ reg.inst[op.aid] # None
      /\ op.bank = reg.inst[op.aid].bank
  BY <1>1 DEF CardInv, ViewInv, OpInv
<1>3. sel \in Sessions /\ op.aid \in Aids
  BY <1>2, SessionType DEF CardInv
<1>4. reg.inst[op.aid].id \in Ids /\ op.bank \in Banks /\ bank[op.bank] \in BankStates
  BY <1>2, <1>3, InstanceType DEF CardInv, TypeOK
<1>5. /\ sel' \in Sessions /\ sel'.aid = op.aid /\ sel'.id = reg.inst[op.aid].id
      /\ sel'.data = bank[op.bank].data
  BY <1>1, <1>2, <1>3, <1>4 DEF Sessions, BankStates
<1>6. TypeOK'
  BY <1>1, <1>5 DEF CardInv, TypeOK
<1>7. IdInv' /\ RenewalInv' /\ OpInv'
  BY <1>1, <1>2, <1>3, <1>5 DEF CardInv, IdInv, RenewalInv, OpInv, Renewing
<1>8. ViewInv'
  BY <1>1, <1>2 DEF CardInv, ViewInv
<1>9. BankInv'
  BY <1>1 DEF CardInv, BankInv, Opens
<1>10. SessionInv'
  <2>1. ~stale => bank[op.bank].data = ack[op.aid]
    BY <1>2, <1>3 DEF CardInv, BankInv
  <2>2. reg.inst[op.aid].id \in Int
    BY <1>4, JcvmCardConstants DEF Ids
  <2> QED BY <1>1, <1>2, <1>5, <2>1, <2>2 DEF SessionInv
<1> QED BY <1>6, <1>7, <1>8, <1>9, <1>10 DEF CardInv

-----------------------------------------------------------------------------
(* Installation and deletion *)

\* Identities stay below the counter when it advances.
LEMMA IdsBelow ==
  ASSUME CardInv, reg' = reg, executed' = executed, sel' \in {sel, None},
         nonces' \in {nonces, nonces + 1}
  PROVE  IdInv'
<1>1. nonces \in Nat
  BY JcvmCardConstants DEF CardInv, TypeOK
<1>2. ASSUME NEW a \in Aids, reg.inst[a] # None
      PROVE  reg.inst[a].id <= nonces'
  <2>1. reg.inst[a].id \in Nat /\ reg.inst[a].id <= nonces
    BY <1>2, InstanceType, JcvmCardConstants DEF CardInv, TypeOK, IdInv, Ids
  <2> QED BY <1>1, <2>1
<1>3. \A i \in executed : i <= nonces'
  <2>1. executed \subseteq Nat /\ \A i \in executed : i <= nonces
    BY JcvmCardConstants DEF CardInv, TypeOK, IdInv, Ids
  <2> QED BY <1>1, <2>1
<1>4. sel # None => sel.id <= nonces'
  <2>1. sel # None => sel.id \in Nat /\ sel.id <= nonces
    BY SessionType, JcvmCardConstants DEF CardInv, IdInv, Ids
  <2> QED BY <1>1, <2>1
<1>5. reg.renewal # None => reg.renewal.record.id <= nonces'
  <2>1. reg.renewal # None => reg.renewal.record.id \in Nat /\ reg.renewal.record.id <= nonces
    BY RenewalType, JcvmCardConstants DEF CardInv, TypeOK, IdInv, Ids
  <2> QED BY <1>1, <2>1
<1> QED BY <1>2, <1>3, <1>4, <1>5 DEF IdInv

\* A free bank and a fresh identity are taken for a new applet.
LEMMA BeginInstallStep ==
  ASSUME CardInv, NEW a \in Aids, BeginInstall(a)
  PROVE  CardInv'
<1>1. /\ UNCHANGED <<reg, bank, staged, power, view, regOK, sel, ack, executed, stale, faults>>
      /\ upload' = FALSE /\ stageLen' \in {FALSE, stageLen} /\ sel = None /\ power = "on"
      /\ regOK /\ view.renewal = None /\ view.inst[a] = None
      /\ FreeBanks(view) # {} /\ nonces < NonceCap /\ nonces' = nonces + 1 /\ pc' = "prepare"
      /\ op'.aid = a /\ op'.bank = CHOOSE b \in FreeBanks(view) : TRUE
      /\ op'.record = [id |-> nonces', data |-> Fresh] /\ op'.path = "install"
  BY DEF BeginInstall, Managing, Idle, StateOK, AbortStaging
<1>2. view = reg /\ reg.renewal = None /\ reg.inst[a] = None
  BY <1>1 DEF CardInv, ViewInv
<1>3. op'.bank \in FreeBanks(reg)
  BY <1>1, <1>2
<1>4. nonces \in Nat /\ nonces' \in 0 .. NonceCap
  BY <1>1, JcvmCardConstants DEF CardInv, TypeOK
<1>5. op'.record \in Records /\ op'.record.id = nonces' /\ op'.record.data = Fresh
  BY <1>1, <1>4, JcvmCardConstants DEF Records, Ids
<1>6. TypeOK'
  BY <1>1, <1>4 DEF CardInv, TypeOK
<1>7. IdInv'
  BY <1>1, IdsBelow
<1>8. ViewInv' /\ RenewalInv' /\ SessionInv'
  BY <1>1, <1>2 DEF CardInv, ViewInv, RenewalInv, SessionInv
<1>9. BankInv'
  BY <1>1 DEF CardInv, BankInv, Opens
<1>10. OpInv'
  <2>1. op'.bank \in Banks /\ \A x \in Aids : reg.inst[x] # None => reg.inst[x].bank # op'.bank
    BY <1>3 DEF FreeBanks, Installed
  <2>2. nonces' \notin executed
    <3>1. \A i \in executed : i <= nonces
      BY DEF CardInv, IdInv
    <3> QED BY <1>1, <1>4, <3>1
  <2> QED BY <1>1, <1>2, <1>4, <1>5, <2>1, <2>2 DEF OpInv, Renewing
<1> QED BY <1>6, <1>7, <1>8, <1>9, <1>10 DEF CardInv

\* The registry that names the new applet.
LEMMA InstalledFacts ==
  ASSUME CardInv, pc = "register"
  PROVE  /\ InstalledRegistry \in Registries /\ InstalledRegistry.renewal = None
         /\ \A a \in Aids : a # op.aid => InstalledRegistry.inst[a] = reg.inst[a]
         /\ InstalledRegistry.inst[op.aid] # None
         /\ InstalledRegistry.inst[op.aid].id = op.record.id
         /\ InstalledRegistry.inst[op.aid].bank = op.bank
<1>1. reg \in Registries /\ view = reg /\ op.aid \in Aids /\ op.bank \in Banks /\ op.record \in Records
      /\ reg.renewal = None
  BY SpareBank DEF CardInv, TypeOK, OpInv
<1> DEFINE i == [id |-> op.record.id, bank |-> op.bank]
           f == [reg.inst EXCEPT ![op.aid] = i]
<1>2. i \in Instances /\ i.id = op.record.id /\ i.bank = op.bank
  BY <1>1 DEF Instances, Records
<1>3. InstalledRegistry = [reg EXCEPT !.inst = f]
  BY <1>1 DEF InstalledRegistry, Registries
<1> HIDE DEF i
<1>4. f \in [Aids -> Instances \cup {None}] /\ f[op.aid] = i /\ \A a \in Aids : a # op.aid => f[a] = reg.inst[a]
  BY <1>1, <1>2 DEF Registries
<1> HIDE DEF f
<1>5. InstalledRegistry \in Registries /\ InstalledRegistry.inst = f /\ InstalledRegistry.renewal = None
  BY <1>1, <1>3, <1>4 DEF Registries
<1>6. i # None
  BY <1>2, JcvmCardConstants
<1> QED BY <1>2, <1>4, <1>5, <1>6

\* Naming the new applet leaves the others alone.
LEMMA Registered ==
  ASSUME CardInv, pc = "register", reg' = InstalledRegistry,
         ack' = [ack EXCEPT ![op.aid] = Fresh], sel' = None,
         UNCHANGED <<nonces, bank, staged, executed, stale>>
  PROVE  /\ reg' \in Registries /\ ack' \in [Aids -> Data]
         /\ BankInv' /\ RenewalInv' /\ IdInv' /\ SessionInv'
<1>1. /\ reg' \in Registries /\ reg'.renewal = None
      /\ \A a \in Aids : a # op.aid => reg'.inst[a] = reg.inst[a]
      /\ reg'.inst[op.aid] # None /\ reg'.inst[op.aid].id = op.record.id
      /\ reg'.inst[op.aid].bank = op.bank
  BY InstalledFacts
<1>2. /\ op.bank \in Banks /\ op.record \in Records /\ op.aid \in Aids /\ reg.renewal = None
      /\ \A a \in Aids : reg.inst[a] # None => reg.inst[a].bank # op.bank
      /\ op.record.data = Fresh /\ op.record.id <= nonces /\ bank[op.bank] = SeededBank(op.record)
  BY DEF CardInv, OpInv
<1>3. bank[op.bank].state = "whole" /\ bank[op.bank].id = op.record.id /\ bank[op.bank].data = Fresh
  BY <1>2, BankTypes
<1>4. ack' \in [Aids -> Data] /\ ack'[op.aid] = Fresh /\ \A a \in Aids : a # op.aid => ack'[a] = ack[a]
  BY <1>2, JcvmCardConstants DEF CardInv, TypeOK
<1>5. BankInv'
  <2>1. \A a, b \in Aids : a # b /\ reg'.inst[a] # None /\ reg'.inst[b] # None =>
          reg'.inst[a].bank # reg'.inst[b].bank
    BY <1>1, <1>2 DEF CardInv, BankInv
  <2>2. \A a \in Aids : reg'.inst[a] # None =>
          /\ bank'[reg'.inst[a].bank].id = reg'.inst[a].id
          /\ ~stale' => Opens(reg.inst[a].bank, reg.inst[a].id)' /\ bank'[reg'.inst[a].bank].data = ack'[a]
    <3> SUFFICES ASSUME NEW a \in Aids, reg'.inst[a] # None
                 PROVE  /\ bank'[reg'.inst[a].bank].id = reg'.inst[a].id
                        /\ ~stale' => Opens(reg.inst[a].bank, reg.inst[a].id)' /\ bank'[reg'.inst[a].bank].data = ack'[a]
      OBVIOUS
    <3>1. CASE a = op.aid
      BY <1>1, <1>3, <1>4, <3>1 DEF Opens
    <3>2. CASE a # op.aid
      BY <1>1, <1>2, <1>4, <3>2 DEF CardInv, BankInv, Opens
    <3> QED BY <3>1, <3>2
  <2> QED BY <2>1, <2>2 DEF BankInv
<1>6. RenewalInv' /\ SessionInv'
  BY <1>1 DEF RenewalInv, SessionInv
<1>7. IdInv'
  BY <1>1, <1>2 DEF CardInv, IdInv
<1> QED BY <1>1, <1>4, <1>5, <1>6, <1>7

\* The new applet is registered.
LEMMA RegisterStep ==
  ASSUME CardInv, Register
  PROVE  CardInv'
<1>1. /\ UNCHANGED <<nonces, bank, staged, power, regOK, stageLen, upload, sel, executed, stale, faults>>
      /\ reg' = InstalledRegistry /\ view' = reg' /\ pc = "register" /\ pc' = "idle"
      /\ ack' = [ack EXCEPT ![op.aid] = Fresh]
  BY DEF Register, Done
<1>2. sel = None /\ regOK
  BY <1>1 DEF CardInv, OpInv, ViewInv
<1>3. /\ reg' \in Registries /\ ack' \in [Aids -> Data]
      /\ BankInv' /\ RenewalInv' /\ IdInv' /\ SessionInv'
  BY <1>1, <1>2, Registered
<1>4. TypeOK'
  BY <1>1, <1>3 DEF CardInv, TypeOK
<1>5. ViewInv' /\ OpInv'
  BY <1>1 DEF CardInv, ViewInv, OpInv, Renewing
<1> QED BY <1>3, <1>4, <1>5 DEF CardInv

\* The registry without a deleted applet.
LEMMA Deleted ==
  ASSUME CardInv, NEW a \in Aids, reg.renewal = None, view = reg, reg' = DeletedRegistry(a), sel' = None,
         nonces' = nonces + 1, UNCHANGED <<bank, staged, ack, executed, stale>>
  PROVE  /\ reg' \in Registries /\ reg'.inst[a] = None /\ reg'.renewal = None
         /\ \A x \in Aids : x # a => reg'.inst[x] = reg.inst[x]
         /\ BankInv' /\ RenewalInv' /\ IdInv' /\ SessionInv'
<1> DEFINE f == [reg.inst EXCEPT ![a] = None]
<1>1. reg \in Registries
  BY DEF CardInv, TypeOK
<1>2. reg' = [reg EXCEPT !.inst = f]
  BY <1>1 DEF DeletedRegistry, Registries
<1>3. f \in [Aids -> Instances \cup {None}] /\ f[a] = None /\ \A x \in Aids : x # a => f[x] = reg.inst[x]
  BY <1>1 DEF Registries
<1> HIDE DEF f
<1>4. reg' \in Registries /\ reg'.inst = f /\ reg'.renewal = None
  BY <1>1, <1>2, <1>3 DEF Registries
<1>5. BankInv'
  BY <1>3, <1>4 DEF CardInv, BankInv, Opens
<1>6. RenewalInv' /\ SessionInv'
  BY <1>4 DEF RenewalInv, SessionInv
<1>7. IdInv'
  <2>1. nonces \in Nat
    BY JcvmCardConstants DEF CardInv, TypeOK
  <2>2. \A x \in Aids : reg'.inst[x] # None => reg'.inst[x].id <= nonces'
    <3> SUFFICES ASSUME NEW x \in Aids, reg'.inst[x] # None PROVE reg'.inst[x].id <= nonces'
      OBVIOUS
    <3>1. reg.inst[x] # None /\ reg'.inst[x] = reg.inst[x]
      BY <1>3, <1>4
    <3>2. reg.inst[x].id \in Nat /\ reg.inst[x].id <= nonces
      BY <3>1, InstanceType, JcvmCardConstants DEF CardInv, TypeOK, IdInv, Ids
    <3> QED BY <2>1, <3>1, <3>2
  <2>3. \A i \in executed : i <= nonces'
    <3>1. executed \subseteq Nat /\ \A i \in executed : i <= nonces
      BY JcvmCardConstants DEF CardInv, TypeOK, IdInv, Ids
    <3> QED BY <2>1, <3>1
  <2> QED BY <1>4, <2>2, <2>3 DEF IdInv
<1> QED BY <1>3, <1>4, <1>5, <1>6, <1>7

\* DELETE, whether its registry commit succeeds or fails.
LEMMA DeleteStep ==
  ASSUME CardInv, NEW a \in Aids, Delete(a) \/ DeleteFails(a)
  PROVE  CardInv'
<1>1. /\ UNCHANGED <<bank, staged, pc, op, ack, executed, stale>>
      /\ nonces' = nonces + 1 /\ nonces < NonceCap /\ upload' = FALSE
      /\ sel = None /\ sel' = None /\ pc = "idle" /\ power = "on" /\ power' \in {"on", "off"}
      /\ stageLen' \in {FALSE, stageLen} /\ faults' \in {faults, faults + 1}
      /\ faults' # faults => faults < MaxFaults
      /\ reg' \in {reg, DeletedRegistry(a)} /\ regOK /\ view.renewal = None
  BY DEF Delete, DeleteFails, Managing, Idle, StateOK, AbortStaging, PowerLost
<1>2. view = reg /\ reg.renewal = None
  BY <1>1 DEF CardInv, ViewInv
<1>3. /\ view' \in {view, reg'} /\ regOK' \in BOOLEAN /\ (regOK' => view' = reg')
      /\ power' = "off" => regOK'
  <2>1. CASE Delete(a)
    BY <1>1, <2>1 DEF Delete
  <2>2. CASE DeleteFails(a)
    <3>1. CASE ResolveRegistry /\ UNCHANGED power
      BY <1>1, <3>1 DEF ResolveRegistry
    <3>2. CASE PowerLost
      BY <3>2 DEF PowerLost
    <3> QED BY <2>2, <3>1, <3>2 DEF DeleteFails
  <2> QED BY <2>1, <2>2
<1>4. reg' \in Registries /\ BankInv' /\ RenewalInv' /\ IdInv' /\ SessionInv'
  <2>1. CASE reg' = reg
    <3>1. IdInv'
      BY <1>1, <2>1, IdsBelow
    <3>2. BankInv'
      BY <1>1, <2>1 DEF CardInv, BankInv, Opens
    <3> QED BY <1>1, <1>2, <2>1, <3>1, <3>2 DEF CardInv, TypeOK, RenewalInv, SessionInv
  <2>2. CASE reg' = DeletedRegistry(a)
    BY <1>1, <1>2, <2>2, Deleted
  <2> QED BY <1>1, <2>1, <2>2
<1>5. nonces' \in 0 .. NonceCap /\ faults' \in 0 .. MaxFaults
  BY <1>1, JcvmCardConstants DEF CardInv, TypeOK
<1>6. TypeOK'
  BY <1>1, <1>3, <1>4, <1>5 DEF CardInv, TypeOK
<1>7. ViewInv' /\ OpInv'
  BY <1>1, <1>3 DEF CardInv, ViewInv, OpInv, Renewing
<1> QED BY <1>4, <1>6, <1>7 DEF CardInv

-----------------------------------------------------------------------------
(* Errors and power cuts *)

\* What an interrupted operation leaves in RAM.
LEMMA FailsRam ==
  ASSUME CardInv, Fails
  PROVE  /\ pc \notin {"idle", "open"} /\ pc' = "idle" /\ faults' \in 0 .. MaxFaults
         /\ UNCHANGED <<executed, stale>> /\ view = reg
         /\ power' \in {power, "off"} /\ regOK' \in BOOLEAN /\ view' \in {view, reg'}
         /\ regOK' => view' = reg'
         /\ power' # "on" => sel' = None /\ upload' = FALSE /\ regOK' = TRUE
         /\ \/ sel' \in {sel, None}
            \/ pc = "handoff" /\ sel # None /\ sel' = [sel EXCEPT !.ok = FALSE]
         /\ pc # "handoff" => ~upload'
         /\ pc \in Installing => sel' = None
         /\ stageLen' \in {FALSE, stageLen} /\ upload' \in {FALSE, upload}
<1>1. /\ pc \notin {"idle", "open"} /\ pc' = "idle" /\ faults' = faults + 1 /\ faults < MaxFaults
      /\ UNCHANGED <<executed, stale>>
  BY DEF Fails, Done
<1>2. view = reg /\ regOK /\ faults' \in 0 .. MaxFaults /\ power # "off" /\ pc \in Renewing \cup Installing
  BY <1>1, JcvmCardConstants DEF CardInv, TypeOK, ViewInv, Renewing, Installing
<1>3. pc \notin {"publish", "finish", "register"} => reg' = reg
  BY DEF Fails, Leftover, durable
<1>4. pc \in Installing => op.path = "install" /\ sel = None /\ power = "on"
  BY DEF CardInv, OpInv, Installing
<1>5. /\ pc \in Renewing /\ op.path # "boot" => op.path \in {"command", "management"} /\ sel # None /\ power # "boot"
      /\ pc \in Renewing /\ pc # "handoff" => ~upload
  <2>1. pc \in Renewing /\ op.path # "boot" => op.path \in {"command", "management"} /\ sel # None /\ power # "boot"
    BY DEF CardInv, OpInv
  <2>2. pc \in {"stage", "publish"} => ~upload
    BY DEF CardInv, OpInv
  <2>3. pc \in {"erase", "seed", "finish"} => ~upload
    BY DEF CardInv, OpInv, RenewalInv
  <2> QED BY <2>1, <2>2, <2>3 DEF Renewing
<1>6. CASE PowerLost
  BY <1>1, <1>2, <1>6 DEF PowerLost
<1>7. CASE op.path # "boot" /\ Resolve /\ ErrorPath /\ UNCHANGED power
  <2>1. power = "on"
    <3>1. power # "boot"
      BY <1>2, <1>4, <1>5, <1>7
    <3> QED BY <1>2, <3>1 DEF CardInv, TypeOK
  <2>2. regOK' \in BOOLEAN /\ view' \in {view, reg'} /\ (regOK' => view' = reg')
    <3>1. CASE pc \in {"publish", "finish", "register"}
      BY <1>7, <3>1 DEF Resolve, ResolveRegistry
    <3>2. CASE pc \notin {"publish", "finish", "register"}
      <4>1. view' = view /\ regOK' = regOK /\ reg' = reg
        BY <1>3, <1>7, <3>2 DEF Resolve
      <4>2. regOK \in BOOLEAN
        BY DEF CardInv, TypeOK
      <4> QED BY <1>2, <4>1, <4>2
    <3> QED BY <3>1, <3>2
  <2>3. CASE pc \in Installing
    <3>1. AbortStaging /\ sel' = sel
      BY <1>4, <1>7, <2>3 DEF ErrorPath
    <3>2. upload' = FALSE /\ stageLen' \in {FALSE, stageLen}
      BY <3>1 DEF AbortStaging
    <3> QED BY <1>1, <1>2, <1>4, <1>7, <2>1, <2>2, <2>3, <3>1, <3>2
  <2>4. CASE pc \in Renewing /\ op.path = "command"
    <3>1. Reset
      BY <1>7, <2>4 DEF ErrorPath
    <3>2. upload' = FALSE /\ stageLen' \in {FALSE, stageLen} /\ sel' = None
      BY <3>1 DEF Reset, AbortStaging
    <3> QED BY <1>1, <1>2, <1>7, <2>1, <2>2, <3>2
  <2>5. CASE pc \in Renewing /\ op.path = "management"
    <3>1. /\ sel' \in {sel} \cup (IF pc = "handoff" THEN {[sel EXCEPT !.ok = FALSE]} ELSE {})
          /\ stageLen' \in {FALSE, stageLen} /\ upload' = upload
      BY <1>7, <2>5 DEF ErrorPath
    <3>2. pc \notin Installing
      BY <2>5 DEF Renewing, Installing
    <3>3. sel # None
      BY <1>5, <2>5
    <3>4. sel' = sel \/ (pc = "handoff" /\ sel' = [sel EXCEPT !.ok = FALSE])
      BY <3>1
    <3>5. pc # "handoff" => ~upload'
      BY <1>5, <2>5, <3>1
    <3> QED BY <1>1, <1>2, <1>7, <2>1, <2>2, <3>1, <3>2, <3>3, <3>4, <3>5
  <2> QED BY <1>2, <1>5, <1>7, <2>3, <2>4, <2>5
<1> QED BY <1>6, <1>7 DEF Fails

\* What it leaves in flash.
LEMMA FailsFlash ==
  ASSUME CardInv, Fails
  PROVE  /\ reg' \in Registries /\ nonces' \in 0 .. NonceCap /\ bank' \in [Banks -> BankStates]
         /\ staged' \in Records \cup {None, Other} /\ ack' \in [Aids -> Data]
         /\ sel' \in Sessions \cup {None}
         /\ IdInv' /\ BankInv' /\ RenewalInv' /\ SessionInv'
<1>1. /\ pc \notin {"idle", "open"} /\ UNCHANGED <<executed, stale>> /\ view = reg
      /\ view' \in {view, reg'}
      /\ \/ sel' \in {sel, None}
         \/ pc = "handoff" /\ sel # None /\ sel' = [sel EXCEPT !.ok = FALSE]
      /\ pc # "handoff" => ~upload'
      /\ pc \in Installing => sel' = None
      /\ upload' \in {FALSE, upload}
  BY FailsRam
<1>2. /\ reg \in Registries /\ nonces \in 0 .. NonceCap /\ bank \in [Banks -> BankStates]
      /\ staged \in Records \cup {None, Other} /\ ack \in [Aids -> Data] /\ sel \in Sessions \cup {None}
  BY DEF CardInv, TypeOK
<1>3. Leftover
  BY DEF Fails
<1>4. CASE pc = "handoff"
  <2>1. UNCHANGED <<reg, nonces, bank, staged, ack>>
    BY <1>3, <1>4 DEF Leftover, durable
  <2>2. reg.renewal = None
    BY <1>4 DEF CardInv, OpInv
  <2>3. BankInv' /\ RenewalInv'
    BY <1>1, <2>1, <2>2 DEF CardInv, BankInv, RenewalInv, Opens
  <2>4. CASE sel' \in {sel, None}
    BY <1>1, <1>2, <2>1, <2>2, <2>3, <2>4 DEF CardInv, IdInv, SessionInv
  <2>5. CASE sel # None /\ sel' = [sel EXCEPT !.ok = FALSE]
    <3>1. sel' \in Sessions /\ sel'.aid = sel.aid /\ sel'.id = sel.id /\ sel'.data = sel.data
      BY <2>5, SessionType DEF CardInv, Sessions
    <3> QED BY <1>1, <1>2, <2>1, <2>2, <2>3, <2>5, <3>1 DEF CardInv, IdInv, SessionInv
  <2> QED BY <1>1, <2>4, <2>5
<1> SUFFICES ASSUME pc # "handoff"
             PROVE  /\ reg' \in Registries /\ nonces' \in 0 .. NonceCap /\ bank' \in [Banks -> BankStates]
                    /\ staged' \in Records \cup {None, Other} /\ ack' \in [Aids -> Data]
                    /\ IdInv' /\ BankInv' /\ RenewalInv' /\ SessionInv'
  BY <1>1, <1>2, <1>4
<1>5. sel' \in {sel, None} /\ ~upload'
  BY <1>1
<1>6. CASE UNCHANGED <<reg, bank, staged, ack>> /\ nonces' \in {nonces, nonces + 1} /\ nonces' <= NonceCap
  <2>1. IdInv'
    BY <1>1, <1>5, <1>6, IdsBelow
  <2>2. BankInv' /\ RenewalInv'
    BY <1>1, <1>5, <1>6 DEF CardInv, BankInv, RenewalInv, Opens
  <2>3. SessionInv'
    BY <1>1, <1>5, <1>6 DEF CardInv, SessionInv, Opens, Low
  <2>4. nonces' \in 0 .. NonceCap
    BY <1>2, <1>6, JcvmCardConstants
  <2> QED BY <1>2, <1>6, <2>1, <2>2, <2>3, <2>4
<1>7. nonces <= NonceCap
  BY <1>2, JcvmCardConstants
<1>8. CASE pc \in {"erase", "prepare", "seed", "heap"}
  <2>1. UNCHANGED <<reg, nonces, staged, ack>>
    BY <1>3, <1>8 DEF Leftover
  <2>2. CASE UNCHANGED bank
    BY <1>6, <1>7, <2>1, <2>2
  <2>3. op.bank \in Banks /\ op.record \in Records
    BY <1>8, SpareBank
  <2>4. ASSUME NEW c \in BankStates, c.state # "whole" \/ c.id = op.record.id,
               bank' = [bank EXCEPT ![op.bank] = c]
        PROVE  bank' \in [Banks -> BankStates] /\ BankInv' /\ SessionInv'
    BY <1>1, <1>5, <1>8, <2>1, <2>4, SpareBankWritten
  <2>5. bank' # bank => bank' \in [Banks -> BankStates] /\ BankInv' /\ SessionInv'
    <3>1. CASE bank' = [bank EXCEPT ![op.bank].state = "partial"]
      <4> DEFINE c == [bank[op.bank] EXCEPT !.state = "partial"]
      <4>1. bank' = [bank EXCEPT ![op.bank] = c]
        BY <3>1
      <4>2. c \in BankStates /\ c.state = "partial"
        BY <1>2, <2>3 DEF BankStates
      <4> HIDE DEF c
      <4> QED BY <2>4, <4>1, <4>2
    <3>2. CASE bank' = [bank EXCEPT ![op.bank] = SeededBank(op.record)]
      <4> DEFINE c == SeededBank(op.record)
      <4>1. c \in BankStates /\ c.id = op.record.id
        BY <2>3, BankTypes
      <4> HIDE DEF c
      <4>2. bank' = [bank EXCEPT ![op.bank] = c]
        BY <3>2 DEF c
      <4> QED BY <2>4, <4>1, <4>2
    <3>3. CASE bank' = [bank EXCEPT ![op.bank] = ErasedBank]
      BY <2>4, <3>3, BankTypes
    <3> QED BY <1>3, <1>8, <3>1, <3>2, <3>3 DEF Leftover
  <2>6. IdInv' /\ RenewalInv'
    BY <1>1, <1>5, <2>1 DEF CardInv, IdInv, RenewalInv
  <2> QED BY <1>2, <2>1, <2>2, <2>5, <2>6
<1>9. CASE pc = "stage"
  <2>1. staged' \in {staged, Other, op.record} /\ UNCHANGED <<reg, nonces, bank, ack>>
    BY <1>3, <1>9 DEF Leftover
  <2>2. reg.renewal = None /\ op.record \in Records
    BY <1>9 DEF CardInv, OpInv
  <2>3. IdInv' /\ RenewalInv'
    BY <1>1, <1>5, <2>1, <2>2 DEF CardInv, IdInv, RenewalInv
  <2>4. BankInv'
    BY <1>1, <2>1 DEF CardInv, BankInv, Opens
  <2>5. SessionInv'
    BY <1>1, <1>5, <2>1, <2>2 DEF CardInv, SessionInv
  <2> QED BY <1>2, <2>1, <2>2, <2>3, <2>4, <2>5
<1>10. CASE pc = "publish"
  <2>1. reg' \in {reg, PendingRegistry} /\ UNCHANGED <<nonces, bank, staged, ack>>
    BY <1>3, <1>10 DEF Leftover
  <2>2. CASE reg' = reg
    BY <1>6, <1>7, <2>1, <2>2
  <2>3. CASE reg' = PendingRegistry
    <3>1. reg' \in Registries /\ BankInv' /\ RenewalInv' /\ IdInv' /\ SessionInv'
      BY <1>1, <1>5, <1>10, <2>1, <2>3, Published
    <3> QED BY <1>2, <2>1, <3>1
  <2> QED BY <2>1, <2>2, <2>3
<1>11. CASE pc = "finish"
  <2>1. /\ nonces < NonceCap /\ nonces' \in {nonces, nonces + 1} /\ UNCHANGED <<bank, staged, ack>>
        /\ reg' = reg \/ (reg' = RenewedRegistry /\ nonces' # nonces)
    BY <1>3, <1>11 DEF Leftover
  <2>2. nonces \in Nat /\ nonces' <= NonceCap
    BY <1>2, <2>1, JcvmCardConstants
  <2>3. CASE reg' = reg
    BY <1>6, <2>1, <2>2, <2>3
  <2>4. CASE reg' = RenewedRegistry /\ nonces' # nonces
    <3>1. reg' \in Registries /\ BankInv' /\ RenewalInv' /\ IdInv' /\ SessionInv'
      BY <1>1, <1>5, <1>11, <2>1, <2>4, Renewed
    <3>2. nonces' \in 0 .. NonceCap
      BY <2>1, <2>2
    <3> QED BY <1>2, <2>1, <3>1, <3>2
  <2> QED BY <2>1, <2>3, <2>4
<1>12. CASE pc = "register"
  <2>1. /\ reg' \in {reg, InstalledRegistry} /\ UNCHANGED <<nonces, bank, staged>>
        /\ ack' = IF reg' = reg THEN ack ELSE [ack EXCEPT ![op.aid] = Fresh]
    BY <1>3, <1>12 DEF Leftover
  <2>2. CASE reg' = reg
    BY <1>6, <1>7, <2>1, <2>2
  <2>3. CASE reg' # reg
    <3>1. sel' = None
      BY <1>1, <1>12 DEF Installing
    <3>2. reg' \in Registries /\ ack' \in [Aids -> Data] /\ BankInv' /\ RenewalInv' /\ IdInv' /\ SessionInv'
      BY <1>1, <1>12, <2>1, <2>3, <3>1, Registered
    <3> QED BY <1>2, <2>1, <3>2
  <2> QED BY <2>2, <2>3
<1> QED BY <1>1, <1>8, <1>9, <1>10, <1>11, <1>12 DEF CardInv, TypeOK

\* An error or a power cut in the middle of an operation.
LEMMA FailsStep ==
  ASSUME CardInv, Fails
  PROVE  CardInv'
<1>1. /\ pc' = "idle" /\ faults' \in 0 .. MaxFaults /\ UNCHANGED <<executed, stale>>
      /\ power' \in {power, "off"} /\ regOK' \in BOOLEAN /\ view' \in {view, reg'}
      /\ regOK' => view' = reg'
      /\ power' # "on" => sel' = None /\ upload' = FALSE /\ regOK' = TRUE
      /\ stageLen' \in {FALSE, stageLen} /\ upload' \in {FALSE, upload}
  BY FailsRam
<1>2. /\ reg' \in Registries /\ nonces' \in 0 .. NonceCap /\ bank' \in [Banks -> BankStates]
      /\ staged' \in Records \cup {None, Other} /\ ack' \in [Aids -> Data]
      /\ sel' \in Sessions \cup {None}
      /\ IdInv' /\ BankInv' /\ RenewalInv' /\ SessionInv'
  BY FailsFlash
<1>3. TypeOK'
  BY <1>1, <1>2 DEF CardInv, TypeOK
<1>4. ViewInv' /\ OpInv'
  BY <1>1 DEF ViewInv, OpInv, Renewing
<1> QED BY <1>2, <1>3, <1>4 DEF CardInv

-----------------------------------------------------------------------------
(* The invariant holds, and what follows from it *)

\* Every step keeps the invariant.
LEMMA NextInv == CardInv /\ [Next]_vars => CardInv'
<1> SUFFICES ASSUME CardInv, [Next]_vars PROVE CardInv'
  OBVIOUS
<1>1. CASE UNCHANGED vars
  <2>1. /\ UNCHANGED <<reg, nonces, bank, staged, power, view, regOK, stageLen, upload, sel>>
        /\ UNCHANGED <<pc, op, ack, executed, stale, faults>>
    BY <1>1 DEF vars
  <2>2. TypeOK' /\ IdInv' /\ ViewInv' /\ RenewalInv'
    BY <2>1 DEF CardInv, TypeOK, IdInv, ViewInv, RenewalInv
  <2>3. BankInv' /\ SessionInv'
    BY <2>1 DEF CardInv, BankInv, SessionInv, Opens, Low
  <2>4. OpInv'
    BY <2>1 DEF CardInv, OpInv, Renewing, Low, SeededBank
  <2> QED BY <2>2, <2>3, <2>4 DEF CardInv
<1>2. CASE PowerOff \/ CardReset \/ Boot \/ OpenAll
  BY <1>2, PowerOffStep, CardResetStep, BootStep, OpenAllStep
<1>3. ASSUME NEW a \in Aids, Select(a) \/ BeginInstall(a) \/ Delete(a) \/ DeleteFails(a)
      PROVE  CardInv'
  BY <1>3, SelectStep, BeginInstallStep, DeleteStep
<1>4. ASSUME NEW v \in Data, NEW c \in Commits, Execute(v, c) \/ ExecuteFails(v, c)
      PROVE  CardInv'
  BY <1>4, ExecuteStep, ExecuteFailsStep
<1>5. ASSUME NEW c \in Commits, ExecuteStaleFails(c) \/ \E v \in Data : ExecuteStale(v, c)
      PROVE  CardInv'
  BY <1>5, ExecuteStaleStep, ExecuteStaleFailsStep
<1>6. CASE Compact \/ Park
  BY <1>6, CompactStep, ParkStep
<1>7. ASSUME NEW path \in {"command", "management"}, BeginRenewal(path)
      PROVE  CardInv'
  BY <1>7, BeginRenewalStep
<1>8. CASE \/ StageRecord \/ PublishRenewal \/ EraseBank \/ SeedBank \/ FinishRenewal \/ Handoff
           \/ PrepareBank \/ CommitFreshHeap \/ Register
  BY <1>8, StageRecordStep, PublishRenewalStep, BankStep, FinishRenewalStep, HandoffStep, RegisterStep
<1>9. CASE \/ StartUpload \/ ReceiveBlock \/ FinishUpload \/ FinishUploadFails \/ Fails
  BY <1>9, UploadStep, FailsStep
<1> QED BY <1>1, <1>2, <1>3, <1>4, <1>5, <1>6, <1>7, <1>8, <1>9 DEF Next

\* The storage of the card is consistent at every instant of every behaviour.
THEOREM CardInvariantHolds == Spec => []CardInv
<1>1. Init => CardInv
  BY InitInv
<1>2. CardInv /\ [Next]_vars => CardInv'
  BY NextInv
<1> QED BY <1>1, <1>2, PTL DEF Spec

\* Whatever is installed, uploaded, renewed or deleted, and wherever a flash
\* error or a power cut falls, a boot finds every installed applet in the state
\* its last heap commit left (Store::renew_epoch, Store::install).
THEOREM CardHeapNeverLost == Spec => []HeapNeverLost
<1>1. CardInv => HeapNeverLost
  <2> SUFFICES ASSUME CardInv PROVE HeapNeverLost
    OBVIOUS
  <2>1. ASSUME ~stale, NEW a \in Aids, reg.inst[a] # None
        PROVE  BootState(a) = ack[a]
    <3>1. CASE reg.renewal # None /\ reg.renewal.aid = a
      <4>1. staged = reg.renewal.record /\ reg.renewal.record.data = ack[a]
        BY <2>1, <3>1 DEF CardInv, RenewalInv
      <4> QED BY <3>1, <4>1 DEF BootState
    <3>2. CASE ~(reg.renewal # None /\ reg.renewal.aid = a)
      <4>1. Opens(reg.inst[a].bank, reg.inst[a].id) /\ bank[reg.inst[a].bank].data = ack[a]
        BY <2>1, <3>2 DEF CardInv, BankInv
      <4> QED BY <3>2, <4>1 DEF BootState
    <3> QED BY <3>1, <3>2
  <2> QED BY <2>1 DEF HeapNeverLost, Installed, CardInv
<1> QED BY <1>1, CardInvariantHolds, PTL

\* The identity whose first heap record an install or a renewal is writing has
\* never committed anything: its key's nonces are all unused (begin_renewal).
THEOREM CardEpochNeverRestarts == Spec => []EpochNeverRestarts
<1>1. CardInv => EpochNeverRestarts
  <2> SUFFICES ASSUME CardInv, pc \in {"erase", "seed", "prepare", "heap"}
               PROVE  op.record.id \notin executed
    BY DEF EpochNeverRestarts
  <2>1. CASE pc \in {"erase", "seed"}
    BY <2>1 DEF CardInv, OpInv, RenewalInv
  <2>2. CASE pc \in {"prepare", "heap"}
    BY <2>2 DEF CardInv, OpInv
  <2> QED BY <2>1, <2>2
<1> QED BY <1>1, CardInvariantHolds, PTL

\* How a step may change the durable registry.
LEMMA RegistrySteps ==
  ASSUME CardInv, [Next]_vars
  PROVE  \/ reg' = reg
         \/ pc = "publish" /\ reg' = PendingRegistry
         \/ pc = "finish" /\ reg' = RenewedRegistry
         \/ pc = "register" /\ reg' = InstalledRegistry
         \/ regOK /\ \E a \in Aids : reg' = DeletedRegistry(a)
<1>1. CASE UNCHANGED vars
  BY <1>1 DEF vars
<1>2. CASE \/ PowerOff \/ CardReset \/ Boot \/ OpenAll \/ Compact \/ Park
           \/ StageRecord \/ EraseBank \/ SeedBank \/ Handoff \/ PrepareBank \/ CommitFreshHeap
           \/ StartUpload \/ ReceiveBlock \/ FinishUpload \/ FinishUploadFails
  BY <1>2 DEF PowerOff, CardReset, Boot, OpenAll, Compact, Park, StageRecord, EraseBank, SeedBank,
              Handoff, PrepareBank, CommitFreshHeap, StartUpload, ReceiveBlock, FinishUpload,
              FinishUploadFails, durable
<1>3. ASSUME NEW a \in Aids, Select(a) \/ BeginInstall(a)
      PROVE  reg' = reg
  BY <1>3 DEF Select, BeginInstall, durable
<1>4. ASSUME NEW a \in Aids, Delete(a) \/ DeleteFails(a)
      PROVE  reg' = reg \/ (regOK /\ reg' = DeletedRegistry(a))
  BY <1>4 DEF Delete, DeleteFails, Managing, StateOK
<1>5. ASSUME NEW v \in Data, NEW c \in Commits, Execute(v, c) \/ ExecuteFails(v, c) \/ ExecuteStale(v, c)
      PROVE  reg' = reg
  BY <1>5 DEF Execute, ExecuteFails, ExecuteStale
<1>6. ASSUME NEW c \in Commits, ExecuteStaleFails(c)
      PROVE  reg' = reg
  BY <1>6 DEF ExecuteStaleFails
<1>7. ASSUME NEW path \in {"command", "management"}, BeginRenewal(path)
      PROVE  reg' = reg
  BY <1>7 DEF BeginRenewal
<1>8. CASE PublishRenewal \/ FinishRenewal \/ Register
  BY <1>8 DEF PublishRenewal, FinishRenewal, Register
<1>9. CASE Fails
  BY <1>9 DEF Fails, Leftover, durable
<1> QED BY <1>1, <1>2, <1>3, <1>4, <1>5, <1>6, <1>7, <1>8, <1>9 DEF Next

\* An applet's identity only moves forward, and never to one under which an
\* applet has run, whatever a failed registry commit left behind.
THEOREM CardIdentityAdvances == Spec => IdentityAdvances
<1> DEFINE Advance(a) ==
      reg'.inst[a] \notin {None, reg.inst[a]} =>
        /\ reg'.inst[a].id \notin executed
        /\ reg.inst[a] # None => reg'.inst[a].id > reg.inst[a].id
<1>1. CardInv /\ [Next]_vars => [\A a \in Aids : Advance(a)]_vars
  <2> SUFFICES ASSUME CardInv, [Next]_vars, NEW a \in Aids PROVE Advance(a)
    OBVIOUS
  <2>1. CASE reg' = reg
    BY <2>1
  <2>2. CASE pc = "publish" /\ reg' = PendingRegistry
    BY <2>2, PublishFacts
  <2>3. CASE pc = "finish" /\ reg' = RenewedRegistry
    <3>1. /\ \A x \in Aids : x # op.aid => reg'.inst[x] = reg.inst[x]
          /\ reg'.inst[op.aid].id = op.record.id
      BY <2>3, RenewedFacts
    <3>2. /\ reg.renewal # None /\ op.aid = reg.renewal.aid /\ op.record = reg.renewal.record
          /\ reg.inst[op.aid] # None
          /\ reg.inst[op.aid].id < op.record.id /\ op.record.id \notin executed
      BY <2>3 DEF CardInv, OpInv, RenewalInv
    <3>3. op.aid \in Aids /\ op.record.id \in Int /\ reg.inst[op.aid].id \in Int
      BY <2>3, <3>2, SpareBank, InstanceType, JcvmCardConstants DEF CardInv, TypeOK, Records, Ids
    <3> QED BY <3>1, <3>2, <3>3
  <2>4. CASE pc = "register" /\ reg' = InstalledRegistry
    <3>1. /\ \A x \in Aids : x # op.aid => reg'.inst[x] = reg.inst[x]
          /\ reg'.inst[op.aid].id = op.record.id
      BY <2>4, InstalledFacts
    <3>2. reg.inst[op.aid] = None /\ op.record.id \notin executed
      BY <2>4 DEF CardInv, OpInv
    <3> QED BY <3>1, <3>2
  <2>5. CASE regOK /\ \E x \in Aids : reg' = DeletedRegistry(x)
    <3>1. view = reg /\ reg \in Registries
      BY <2>5 DEF CardInv, ViewInv, TypeOK
    <3>2. PICK x \in Aids : reg' = [reg EXCEPT !.inst[x] = None]
      BY <2>5, <3>1 DEF DeletedRegistry
    <3>3. reg'.inst[a] \in {None, reg.inst[a]}
      BY <3>1, <3>2 DEF Registries
    <3> QED BY <3>3
  <2> QED BY <2>1, <2>2, <2>3, <2>4, <2>5, RegistrySteps
<1>2. Spec => [][\A a \in Aids : Advance(a)]_vars
  BY <1>1, CardInvariantHolds, PTL DEF Spec
<1> QED BY <1>2 DEF IdentityAdvances
=============================================================================
