----------------------------- MODULE Mc04VmProofs -----------------------------
(***************************************************************************)
(* Proofs about the MC04 virtual machine (module Mc04Vm): for any program, *)
(* however its units call each other, no frame of a transactional method   *)
(* is on the call stack when an instruction writes hardware.               *)
(***************************************************************************)
EXTENDS Mc04Vm, TLAPS

-----------------------------------------------------------------------------
(* The inductive invariant *)

IsSeq(s) == \E S : s \in Seq(S)

\* Calls within a unit name its methods; bound calls name methods of the program.
CallsNamed ==
  \A u \in Units : \A m \in DOMAIN prog[u].methods : \A pc \in DOMAIN Code(u, m) :
    LET i == Code(u, m)[pc] IN IsCall(i) /\ i[2] = "def" => i[3] \in DOMAIN prog[u].methods
CallsBound ==
  \A u \in Units : \A m \in DOMAIN prog[u].methods : \A pc \in DOMAIN Code(u, m) :
    LET i == Code(u, m)[pc]
        to == prog[u].members[i[3]].to
    IN IsCall(i) /\ i[2] = "ref" /\ to[1] = "lib" => <<to[2], to[3]>> \in AllMethods

\* The method a frame runs, and a set of methods that calls do not leave.
Method(f) == <<f.unit, f.method>>
Closed(S) == \A e \in Edges : e[1] \in S => e[2] \in S

Framed(f) ==
  f = [unit |-> f.unit, method |-> f.method, pc |-> f.pc, arg |-> f.arg, eval |-> f.eval,
       ret |-> f.ret, lbase |-> f.lbase, lcount |-> f.lcount]

\* Each frame of the call stack is reached from those below it.
Chained(fs) ==
  /\ IsSeq(fs) /\ Len(fs) > 0
  /\ \A k \in DOMAIN fs : Framed(fs[k]) /\ Method(fs[k]) \in AllMethods
  /\ \A S : Closed(S) =>
       \A k, l \in DOMAIN fs : k <= l /\ Method(fs[k]) \in S => Method(fs[l]) \in S

VmInv ==
  /\ phase # "done" => CallsNamed /\ <<1, 1>> \in AllMethods
  /\ phase = "run" => CallsBound /\ Effects /\ Chained(frames)

-----------------------------------------------------------------------------
(* The call stack *)

LEMMA SeqDomain ==
  ASSUME NEW s, IsSeq(s)
  PROVE  DOMAIN s = 1 .. Len(s) /\ Len(s) \in Nat
BY DEF IsSeq

\* A row of a unit's method table is a method of the program.
LEMMA NamesMethod ==
  ASSUME NEW v \in Units, NEW w \in DOMAIN prog[v].methods
  PROVE  <<v, w>> \in AllMethods
<1>1. <<v, w>> \in {<<v, m>> : m \in DOMAIN prog[v].methods}
  OBVIOUS
<1> QED BY <1>1 DEF AllMethods

\* The program does not change.
LEMMA SameProgram ==
  ASSUME prog' = prog
  PROVE  /\ AllMethods' = AllMethods /\ Edges' = Edges /\ (Effects' <=> Effects)
         /\ (CallsNamed' <=> CallsNamed) /\ (CallsBound' <=> CallsBound)
<1>1. AllMethods' = AllMethods
  BY DEF AllMethods, Units
<1>2. \A u, m : Code(u, m)' = Code(u, m)
  BY DEF Code, MethodOf
<1>3. Edges' = Edges
  BY <1>1, <1>2 DEF Edges, Invokes
<1>4. Irreversible' = Irreversible /\ Transactional' = Transactional
  BY <1>1, <1>2 DEF Irreversible, Transactional, MethodOf
<1>5. Effects' <=> Effects
  BY <1>1, <1>3, <1>4 DEF Effects
<1>6. CallsNamed' <=> CallsNamed
  BY <1>2 DEF CallsNamed, Units
<1>7. CallsBound' <=> CallsBound
  BY <1>1, <1>2 DEF CallsBound, Units
<1> QED BY <1>1, <1>3, <1>5, <1>6, <1>7

\* The position of the top frame moves.
LEMMA MovedChain ==
  ASSUME Chained(frames), NEW x
  PROVE  LET fs == Moved(x) IN Chained(fs) /\ Len(fs) = Len(frames)
<1> DEFINE fs == Moved(x)
           n == Len(frames)
<1>1. DOMAIN frames = 1 .. n /\ n \in Nat /\ n > 0 /\ n \in DOMAIN frames
  BY SeqDomain DEF Chained
<1>2. Framed(frames[n])
  BY <1>1 DEF Chained
<1>3. fs = [frames EXCEPT ![n] = [frames[n] EXCEPT !.pc = x]]
  BY DEF Moved
<1>4. PICK S : frames \in Seq(S)
  BY DEF Chained, IsSeq
<1> DEFINE g == [frames[n] EXCEPT !.pc = x]
<1>5. Framed(g) /\ Method(g) = Method(frames[n])
  BY <1>2 DEF Framed, Method
<1> HIDE DEF g
<1>6. /\ fs \in Seq(S \cup {g}) /\ Len(fs) = n /\ DOMAIN fs = DOMAIN frames
      /\ fs[n] = g /\ \A k \in DOMAIN frames : k # n => fs[k] = frames[k]
  BY <1>1, <1>3, <1>4 DEF g
<1> HIDE DEF fs
<1>7. \A k \in DOMAIN fs : Framed(fs[k]) /\ Method(fs[k]) = Method(frames[k])
  BY <1>1, <1>5, <1>6 DEF Chained
<1>8. IsSeq(fs)
  BY <1>6 DEF IsSeq
<1>9. Chained(fs)
  BY <1>1, <1>6, <1>7, <1>8 DEF Chained
<1> QED BY <1>6, <1>9 DEF fs, n

\* A method is called that the top frame's method has an edge to.
LEMMA PushedChain ==
  ASSUME NEW fs, Chained(fs), NEW f, Framed(f), Method(f) \in AllMethods,
         <<Method(fs[Len(fs)]), Method(f)>> \in Edges
  PROVE  Chained(Append(fs, f))
<1> DEFINE n == Len(fs)
           gs == Append(fs, f)
<1>1. DOMAIN fs = 1 .. n /\ n \in Nat /\ n > 0
  BY SeqDomain DEF Chained
<1>2. PICK S : fs \in Seq(S)
  BY DEF Chained, IsSeq
<1>3. /\ gs \in Seq(S \cup {f}) /\ Len(gs) = n + 1 /\ DOMAIN gs = 1 .. n + 1
      /\ gs[n + 1] = f /\ \A k \in 1 .. n : gs[k] = fs[k]
  BY <1>1, <1>2
<1> HIDE DEF gs
<1>4. ASSUME NEW T, Closed(T), NEW k \in DOMAIN gs, NEW l \in DOMAIN gs, k <= l, Method(gs[k]) \in T
      PROVE  Method(gs[l]) \in T
  <2>1. CASE l <= n
    BY <1>1, <1>3, <1>4, <2>1 DEF Chained
  <2>2. CASE l = n + 1 /\ k <= n
    <3>1. Method(fs[n]) \in T
      BY <1>1, <1>3, <1>4, <2>2 DEF Chained
    <3>2. Method(f) \in T
      BY <1>4, <3>1 DEF Closed
    <3> QED BY <1>3, <2>2, <3>2
  <2>3. CASE l = n + 1 /\ k = n + 1
    BY <1>4, <2>3
  <2> QED BY <1>1, <1>3, <2>1, <2>2, <2>3
<1>5. \A k \in DOMAIN gs : Framed(gs[k]) /\ Method(gs[k]) \in AllMethods
  BY <1>1, <1>3 DEF Chained
<1>6. IsSeq(gs) /\ Len(gs) > 0
  BY <1>1, <1>3 DEF IsSeq
<1>7. Chained(gs)
  BY <1>4, <1>5, <1>6 DEF Chained
<1> QED BY <1>7 DEF gs

\* The top frame returns to the one below.
LEMMA PoppedChain ==
  ASSUME Chained(frames), Len(frames) # 1
  PROVE  Chained(Front(frames))
<1> DEFINE n == Len(frames)
           gs == Front(frames)
<1>1. DOMAIN frames = 1 .. n /\ n \in Nat /\ n > 1
  <2>1. IsSeq(frames) /\ n > 0 /\ n # 1
    BY DEF Chained
  <2>2. DOMAIN frames = 1 .. n /\ n \in Nat
    BY <2>1, SeqDomain
  <2> QED BY <2>1, <2>2
<1>2. PICK S : frames \in Seq(S)
  BY DEF Chained, IsSeq
<1>3. gs = SubSeq(frames, 1, n - 1)
  BY DEF Front
<1>4. /\ gs \in Seq(S) /\ Len(gs) = n - 1 /\ DOMAIN gs = 1 .. n - 1
      /\ \A k \in 1 .. n - 1 : gs[k] = frames[k]
  BY <1>1, <1>2, <1>3
<1> HIDE DEF gs
<1>5. \A k \in DOMAIN gs : k \in DOMAIN frames /\ gs[k] = frames[k]
  BY <1>1, <1>4
<1>6. IsSeq(gs) /\ Len(gs) > 0
  BY <1>1, <1>4 DEF IsSeq
<1>7. Chained(gs)
  BY <1>5, <1>6 DEF Chained
<1> QED BY <1>7 DEF gs

\* What is left to show of a step of the interpreter.
LEMMA RunStep ==
  ASSUME VmInv, phase = "run", prog' = prog, phase' \in {"run", "done"},
         phase' = "run" => Chained(frames')
  PROVE  VmInv'
<1>1. /\ AllMethods' = AllMethods /\ Edges' = Edges /\ (Effects' <=> Effects)
      /\ (CallsNamed' <=> CallsNamed) /\ (CallsBound' <=> CallsBound)
  BY SameProgram
<1>2. Chained(frames') => Chained(frames)'
  BY <1>1 DEF Chained, Closed
<1> QED BY <1>1, <1>2 DEF VmInv

\* The frame and the instruction that run.
LEMMA TopFrame ==
  ASSUME VmInv, phase = "run"
  PROVE  /\ Top1 = frames[Len(frames)] /\ Len(frames) \in DOMAIN frames
         /\ Method(Top1) \in AllMethods /\ Top1.unit \in Units
         /\ Top1.method \in DOMAIN prog[Top1.unit].methods
<1>1. Chained(frames)
  BY DEF VmInv
<1>2. DOMAIN frames = 1 .. Len(frames) /\ Len(frames) \in Nat /\ Len(frames) > 0
  BY <1>1, SeqDomain DEF Chained
<1>3. Len(frames) \in DOMAIN frames
  BY <1>2
<1>4. Top1 = frames[Len(frames)]
  BY DEF Top1, Last
<1>5. Method(Top1) \in AllMethods
  BY <1>1, <1>3, <1>4 DEF Chained
<1>6. Top1.unit \in Units /\ Top1.method \in DOMAIN prog[Top1.unit].methods
  BY <1>5 DEF AllMethods, Method
<1> QED BY <1>3, <1>4, <1>5, <1>6

\* A call goes along an edge of the graph that was checked when linking.
LEMMA CallEdge ==
  ASSUME VmInv, phase = "run", Fetched, IsCall(Instr), NEW u, NEW m,
         \/ Instr[2] = "def" /\ u = Top1.unit /\ m = Instr[3]
         \/ LET to == prog[Top1.unit].members[Instr[3]].to IN
            Instr[2] = "ref" /\ to[1] = "lib" /\ u = to[2] /\ m = to[3]
  PROVE  <<u, m>> \in AllMethods /\ <<Method(Top1), <<u, m>>>> \in Edges
<1> DEFINE a == Method(Top1)
           b == <<u, m>>
           i == Instr
<1>1. /\ a \in AllMethods /\ Top1.unit \in Units /\ Top1.method \in DOMAIN prog[Top1.unit].methods
      /\ a[1] = Top1.unit /\ a[2] = Top1.method
  BY TopFrame DEF Method
<1>2. i \in Range(Code(a[1], a[2]))
  BY <1>1 DEF Fetched, Instr, Range
<1>3. b \in AllMethods
  <2>1. CASE i[2] = "def"
    <3>1. i[3] \in DOMAIN prog[Top1.unit].methods
      BY <1>1, <2>1 DEF VmInv, CallsNamed, Fetched, Instr
    <3> QED BY <1>1, <2>1, <3>1 DEF AllMethods
  <2>2. CASE i[2] # "def"
    BY <1>1, <2>2 DEF VmInv, CallsBound, Fetched, Instr
  <2> QED BY <2>1, <2>2
<1>4. Invokes(a, b)
  BY <1>1, <1>2 DEF Invokes
<1>5. <<a, b>> \in Edges
  BY <1>1, <1>3, <1>4 DEF Edges
<1> QED BY <1>3, <1>5

\* So the frame it pushes is chained to those below.
LEMMA CallChain ==
  ASSUME VmInv, phase = "run", Fetched, IsCall(Instr), NEW u, NEW m, NEW base, NEW x,
         \/ Instr[2] = "def" /\ u = Top1.unit /\ m = Instr[3]
         \/ LET to == prog[Top1.unit].members[Instr[3]].to IN
            Instr[2] = "ref" /\ to[1] = "lib" /\ u = to[2] /\ m = to[3]
  PROVE  Chained(Append(Moved(x), NewFrame(u, m, base)))
<1> DEFINE fs == Moved(x)
           f == NewFrame(u, m, base)
           n == Len(frames)
<1>1. Chained(frames)
  BY DEF VmInv
<1>2. Chained(fs) /\ Len(fs) = n
  BY <1>1, MovedChain
<1>3. Framed(f) /\ Method(f) = <<u, m>>
  BY DEF NewFrame, Framed, Method
<1>4. Method(fs[n]) = Method(Top1)
  <2>1. n \in DOMAIN frames /\ Top1 = frames[n]
    BY TopFrame
  <2>2. fs[n] = [frames[n] EXCEPT !.pc = x]
    BY <2>1 DEF Moved
  <2>3. Framed(frames[n])
    BY <1>1, <2>1 DEF Chained
  <2>4. ASSUME NEW g, Framed(g)
        PROVE  Method([g EXCEPT !.pc = x]) = Method(g)
    BY <2>4 DEF Framed, Method
  <2> QED BY <2>1, <2>2, <2>3, <2>4
<1>5. <<u, m>> \in AllMethods /\ <<Method(Top1), <<u, m>>>> \in Edges
  BY CallEdge
<1> HIDE DEF fs, f
<1>6. Chained(Append(fs, f))
  BY <1>2, <1>3, <1>4, <1>5, PushedChain
<1> QED BY <1>6 DEF fs, f

-----------------------------------------------------------------------------
(* Steps *)

\* Verification starts no frame.
LEMMA VerifierStep ==
  ASSUME VmInv, HeightStep \/ HeightsDone \/ WalkBegin \/ WalkStep \/ TypesDone
  PROVE  VmInv'
<1>1. phase # "done" /\ prog' = prog
  BY DEF HeightStep, HeightsDone, WalkBegin, WalkStep, TypesDone
<1>2. phase' # "run"
  <2>1. CASE HeightStep
    BY <2>1 DEF HeightStep, Ended
  <2>2. CASE HeightsDone \/ WalkBegin
    BY <2>2 DEF HeightsDone, WalkBegin
  <2>3. CASE WalkStep
    BY <2>3 DEF WalkStep, Ended
  <2>4. CASE TypesDone
    BY <2>4 DEF TypesDone, Ended
  <2> QED BY <2>1, <2>2, <2>3, <2>4
<1> QED BY <1>1, <1>2, SameProgram DEF VmInv

\* Linking checks the call graph before the entry runs.
LEMMA LinkStep ==
  ASSUME VmInv, Link
  PROVE  VmInv'
<1>1. phase = "link" /\ prog' = prog /\ <<1, 1>> \in AllMethods
  BY DEF Link, VmInv
<1>2. CASE phase' # "run"
  BY <1>1, <1>2, SameProgram DEF VmInv
<1>3. CASE phase' = "run"
  <2>1. Linkable /\ frames' = <<NewFrame(1, 1, 0)>>
    BY <1>3 DEF Link, Ended
  <2>2. Effects
    BY <2>1 DEF Linkable
  <2>3. CallsBound
    <3> SUFFICES ASSUME NEW u \in Units, NEW m \in DOMAIN prog[u].methods, NEW pc \in DOMAIN Code(u, m),
                        NEW i, i = Code(u, m)[pc], IsCall(i), i[2] = "ref",
                        NEW to, to = prog[u].members[i[3]].to, to[1] = "lib"
                 PROVE  <<to[2], to[3]>> \in AllMethods
      BY DEF CallsBound
    <3>1. i \in Range(Code(u, m))
      BY DEF Range
    <3>2. <<i[3], i[1]>> \in MemberUses(u)
      BY <3>1 DEF MemberUses
    <3>3. Binds(u, i[3], i[1])
      <4> DEFINE a == <<i[3], i[1]>>
      <4>1. Binds(u, a[1], a[2])
        BY <2>1, <3>2 DEF Linkable
      <4> QED BY <4>1
    <3>4. to[2] \in Units /\ to[3] \in DOMAIN prog[to[2]].methods
      BY <3>3 DEF Binds, BindsProvider
    <3> QED BY <3>4, NamesMethod
  <2>4. Chained(frames')
    <3> DEFINE f == NewFrame(1, 1, 0)
    <3>1. Framed(f) /\ Method(f) = <<1, 1>>
      BY DEF NewFrame, Framed, Method
    <3> HIDE DEF f
    <3>2. /\ frames' \in Seq({f}) /\ Len(frames') = 1 /\ DOMAIN frames' = {1} /\ frames'[1] = f
      BY <2>1 DEF f
    <3> QED BY <1>1, <3>1, <3>2 DEF Chained, IsSeq
  <2>5. Chained(frames)'
    BY <1>1, <2>4, SameProgram DEF Chained, Closed
  <2> QED BY <1>1, <1>3, <2>2, <2>3, <2>5, SameProgram DEF VmInv
<1> QED BY <1>2, <1>3

\* Instructions within a method.
LEMMA InstructionStep ==
  ASSUME VmInv, Operate \/ StoreLocal \/ Branch \/ NoInstruction \/ Cancel
  PROVE  VmInv'
<1>1. phase = "run" /\ prog' = prog
  BY DEF Operate, StoreLocal, Branch, NoInstruction, Cancel, Running
<1>2. phase' = "done" \/ (phase' = phase /\ \E x : frames' = Moved(x))
  <2>1. CASE Operate
    BY <2>1 DEF Operate, Fault, Finish, Ended
  <2>2. CASE StoreLocal
    BY <2>2 DEF StoreLocal, Fault, Finish, Ended
  <2>3. CASE Branch
    BY <2>3 DEF Branch, Fault, Finish, Ended
  <2>4. CASE NoInstruction \/ Cancel
    BY <2>4 DEF NoInstruction, Cancel, Fault, Ended
  <2> QED BY <2>1, <2>2, <2>3, <2>4
<1>3. phase' = "run" => Chained(frames')
  BY <1>1, <1>2, MovedChain DEF VmInv
<1> QED BY <1>1, <1>2, <1>3, RunStep

\* Calls of methods of the unit, and constructions.
LEMMA CallStep ==
  ASSUME VmInv, CallLocal \/ NewObj
  PROVE  VmInv'
<1>1. phase = "run" /\ prog' = prog /\ Fetched /\ IsCall(Instr)
  BY DEF CallLocal, NewObj, Running, IsCall
<1>2. \/ phase' = "done"
      \/ /\ phase' = phase /\ Instr[2] = "def"
         /\ \E base : frames' = Append(Moved(Top1.pc + 1), NewFrame(Top1.unit, Instr[3], base))
  <2>1. CASE CallLocal
    BY <2>1 DEF CallLocal, Enters, Fault, Finish, Ended
  <2>2. CASE NewObj
    BY <2>2 DEF NewObj, Enters, Fault, Finish, Ended
  <2> QED BY <2>1, <2>2
<1>3. phase' = "run" => Chained(frames')
  BY <1>1, <1>2, CallChain
<1> QED BY <1>1, <1>2, <1>3, RunStep

\* Calls of bound members: methods of another unit, or the framework.
LEMMA BoundStep ==
  ASSUME VmInv, CallBound
  PROVE  VmInv'
<1> DEFINE to == prog[Top1.unit].members[Instr[3]].to
<1>1. phase = "run" /\ prog' = prog /\ Fetched /\ IsCall(Instr) /\ Instr[2] = "ref"
  BY DEF CallBound, Running, IsCall
<1>2. \/ phase' = "done"
      \/ phase' = phase /\ frames' = Moved(Top1.pc + 1)
      \/ /\ phase' = phase /\ to[1] = "lib"
         /\ \E base : frames' = Append(Moved(Top1.pc + 1), NewFrame(to[2], to[3], base))
  BY DEF CallBound, Fault, Ended
<1>3. CASE phase' = "done"
  BY <1>1, <1>3, RunStep
<1>4. CASE phase' = phase /\ frames' = Moved(Top1.pc + 1)
  <2>1. Chained(frames')
    BY <1>1, <1>4, MovedChain DEF VmInv
  <2> QED BY <1>1, <1>4, <2>1, RunStep
<1>5. CASE /\ phase' = phase /\ to[1] = "lib"
           /\ \E base : frames' = Append(Moved(Top1.pc + 1), NewFrame(to[2], to[3], base))
  <2>1. Chained(frames')
    BY <1>1, <1>5, CallChain
  <2> QED BY <1>1, <1>5, <2>1, RunStep
<1> QED BY <1>2, <1>3, <1>4, <1>5

\* Returning.
LEMMA ReturnStep ==
  ASSUME VmInv, Return
  PROVE  VmInv'
<1>1. phase = "run" /\ prog' = prog
  BY DEF Return, Running
<1>2. phase' = "done" \/ (phase' = phase /\ frames' = Front(frames) /\ Len(frames) # 1)
  BY DEF Return, Fault, Finish, Ended
<1>3. phase' = "run" => Chained(frames')
  BY <1>1, <1>2, PoppedChain DEF VmInv
<1> QED BY <1>1, <1>2, <1>3, RunStep

-----------------------------------------------------------------------------
(* The theorem *)

\* A program whose tables are well formed is verified; any other is refused.
LEMMA VmInit == Init => VmInv
<1> SUFFICES ASSUME Init PROVE VmInv
  OBVIOUS
<1>1. phase # "run" /\ prog \in Programs
  BY DEF Init
<1>2. ASSUME phase # "done"
      PROVE  CallsNamed /\ <<1, 1>> \in AllMethods
  <2>1. \A u \in Units : WellFormed(u)
    BY <1>2 DEF Init
  <2>2. CallsNamed
    BY <2>1 DEF WellFormed, HasTargets, CallsNamed
  <2>3. 1 \in Units /\ HasTables(1)
    BY <1>1, <2>1, ProgramTables DEF Units, WellFormed
  <2> DEFINE rows == prog[1].methods
  <2>4. Len(rows) \in Nat /\ rows = [m \in 1 .. Len(rows) |-> rows[m]] /\ rows # <<>>
    BY <1>1, <2>3, ProgramTables DEF Units, HasTables
  <2>5. 1 \in DOMAIN rows
    <3> HIDE DEF rows
    <3>1. DOMAIN rows = 1 .. Len(rows)
      BY <2>4
    <3>2. Len(rows) # 0
      <4> SUFFICES ASSUME Len(rows) = 0 PROVE FALSE
        OBVIOUS
      <4>1. rows \in Seq({rows[m] : m \in 1 .. Len(rows)})
        BY <2>4
      <4> QED BY <2>4, <4>1
    <3> QED BY <2>4, <3>1, <3>2
  <2>6. <<1, 1>> \in AllMethods
    BY <2>3, <2>5 DEF AllMethods
  <2> QED BY <2>2, <2>6
<1> QED BY <1>1, <1>2 DEF VmInv

\* Every step of verifier, linker and interpreter keeps the invariant.
LEMMA VmNext == VmInv /\ [Next]_vars => VmInv'
<1> SUFFICES ASSUME VmInv, [Next]_vars PROVE VmInv'
  OBVIOUS
<1>1. CASE HeightStep \/ HeightsDone \/ WalkBegin \/ WalkStep \/ TypesDone
  BY <1>1, VerifierStep
<1>2. CASE Link
  BY <1>2, LinkStep
<1>3. CASE Operate \/ StoreLocal \/ Branch \/ NoInstruction \/ Cancel
  BY <1>3, InstructionStep
<1>4. CASE CallLocal \/ NewObj
  BY <1>4, CallStep
<1>5. CASE CallBound
  BY <1>5, BoundStep
<1>6. CASE Return
  BY <1>6, ReturnStep
<1>7. CASE UNCHANGED vars
  <2>1. prog' = prog /\ phase' = phase /\ frames' = frames
    BY <1>7 DEF vars
  <2>2. CASE phase = "run"
    BY <2>1, <2>2, RunStep DEF VmInv
  <2>3. CASE phase # "run"
    BY <2>1, <2>3, SameProgram DEF VmInv
  <2> QED BY <2>2, <2>3
<1> QED BY <1>1, <1>2, <1>3, <1>4, <1>5, <1>6, <1>7 DEF Next

\* The invariant is as strong as the property the runs check.
LEMMA VmInvReversible == VmInv => IrreversibleOutsideTransaction
<1> SUFFICES ASSUME VmInv, phase = "run", Fetched, IsCall(Instr), Instr[2] = "ref",
                    prog[Top1.unit].members[Instr[3]].to = <<"native", 6>>,
                    NEW k \in DOMAIN frames, MethodOf(frames[k].unit, frames[k].method).tx
             PROVE  FALSE
  BY DEF IrreversibleOutsideTransaction
<1> DEFINE a == Method(Top1)
           b == Method(frames[k])
           n == Len(frames)
<1>1. Top1 = frames[n] /\ n \in DOMAIN frames /\ a \in AllMethods /\ a[1] = Top1.unit /\ a[2] = Top1.method
  BY TopFrame DEF Method
<1>2. a \in Irreversible
  <2>1. Instr \in Range(Code(a[1], a[2]))
    BY <1>1 DEF Fetched, Instr, Range
  <2> QED BY <1>1, <2>1 DEF Irreversible
<1>3. b \in Transactional
  <2>1. b \in AllMethods /\ b[1] = frames[k].unit /\ b[2] = frames[k].method
    BY DEF VmInv, Chained, Method
  <2> QED BY <2>1 DEF Transactional
<1>4. PICK free \in SUBSET AllMethods :
        /\ Transactional \subseteq free /\ free \cap Irreversible = {}
        /\ \A e \in Edges : e[1] \in free => e[2] \in free
  BY DEF VmInv, Effects
<1>5. k <= n
  BY SeqDomain DEF VmInv, Chained
<1>6. a \in free
  BY <1>1, <1>3, <1>4, <1>5 DEF VmInv, Chained, Closed
<1> QED BY <1>2, <1>4, <1>6

\* Hardware is never written under a frame of a transactional method
\* (validate_program_graph of linking.rs): for any verified program, any
\* number of units and any depth of calls, whatever path the calls take.
THEOREM VmIrreversibleOutsideTransaction == Spec => []IrreversibleOutsideTransaction
<1>1. Init => VmInv
  BY VmInit
<1>2. VmInv /\ [Next]_vars => VmInv'
  BY VmNext
<1>3. VmInv => IrreversibleOutsideTransaction
  BY VmInvReversible
<1> QED BY <1>1, <1>2, <1>3, PTL DEF Spec

=============================================================================
