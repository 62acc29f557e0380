------------------------------- MODULE JcvmVm -------------------------------
(***************************************************************************)
(* The Java Card virtual machine: load-time verification of a package's    *)
(* Method component, and the dispatch loop that runs one applet callback   *)
(* on it (vm/exec.rs, vm/frame.rs, code.rs, verify.rs, link.rs).           *)
(*                                                                         *)
(* Bytecode is bytes, because decoding, branch offsets and instruction     *)
(* boundaries are what the verifier is about: opcodes have their numbers.  *)
(* Offsets count from the first method; the handler table that precedes it *)
(* in the component is the field "handlers".  Data is abstract: a number   *)
(* is Zero or Number, an int is two such words, a comparison goes either   *)
(* way, a divisor may be zero, an index may be out of range.  A reference  *)
(* is NULL or the number of an object.  A word keeps its bits when it      *)
(* changes its tag: fields and statics have none, so a number written there*)
(* may come back as a reference, which then names null, any object or      *)
(* nothing, and a reference may come back as a number.  Every object       *)
(* belongs to the package's one context, so the firewall only stops stores *)
(* of what the runtime owns.  Natives are external here (JcvmApplet,       *)
(* JcvmCrypto): they take and leave words of the frame, throw, or are not  *)
(* implemented.                                                            *)
(***************************************************************************)
EXTENDS Integers, Sequences, FiniteSets, SequencesExt, FiniteSetsExt

CONSTANTS Packages,     \* what may be offered for loading
          ArenaWords,   \* words one command's frames are carved out of
          ArenaTags,    \* bytes of reference tags
          MaxDepth,     \* nested invocations
          MaxBudget,    \* instructions one command may run
          MaxObjects    \* heap size, in objects

VARIABLES package,      \* the package under verification or running
          phase,        \* "load", "idle", "run", then how it ended
          callback,     \* the applet method the runtime called
          frames,       \* invocations, innermost last
          arena,        \* words with their reference tags
          thrown,       \* an exception no frame has dealt with yet, or NULL
          objects,      \* the heap
          statics,      \* the static field image
          budget        \* instructions left

vars == <<package, phase, callback, frames, arena, thrown, objects, statics, budget>>

NULL == 0
Zero == 0
Number == -1
Word(v) == [ref |-> FALSE, v |-> v]
Reference(v) == [ref |-> TRUE, v |-> v]
Numbers(n) == [i \in 1..n |-> Word(Number)]
NoMethod == 65535

-----------------------------------------------------------------------------
(* Decoding, code.rs. *)

Byte(p, a) == p.bytes[a + 1]
Signed(v, bits) == IF v >= 2^(bits - 1) THEN v - 2^bits ELSE v
Short(p, a) == Signed(256 * Byte(p, a) + Byte(p, a + 1), 16)
Half(p, a) == Short(p, a) % 65536
Size(p) == Len(p.bytes)

Undefined == 185..255
Subroutines == {113, 114}
IntOnly ==
  9..15 \cup {20, 23, 39, 42, 58, 90, 116, 118, 121, 126, 130, 134, 138, 151, 172, 176, 180, 184}
  \cup 32..35 \cup 51..54 \cup {66, 68, 70, 72, 74, 76, 78, 80, 82, 84, 86, 88} \cup 92..95

Allows(p, op) == op \notin Undefined \cup Subroutines /\ (op \in IntOnly => p.int)

\* The generated length table, without the switches.  istore (42) really has
\* length one there, although it reads an operand byte.
FixedLength(op) ==
  CASE op \in {16, 18, 40, 41, 63, 64, 114, 144} \cup 21..23 \cup 96..112 \cup 131..138
              \cup 173..176 \cup 181..184 -> 2
    [] op \in {17, 19, 89, 90, 113, 143, 145} \cup 123..130 \cup 139..141 \cup 152..172
              \cup 177..180 -> 3
    [] op \in 148..151 -> 4
    [] op \in {20, 142} -> 5
    [] OTHER -> 1

\* The switches.  Keys are two bytes wide or, for the int forms, four.
Switches == 115..118
Tables == {115, 116}
KeyWidth(p, a) == IF Byte(p, a) \in {116, 118} THEN 4 ELSE 2
Key(p, a, width) ==
  IF width = 2 THEN Short(p, a) ELSE 65536 * Short(p, a) + Half(p, a + 2)
\* Values in low..high; the count is cut off where no method can hold it.
TableEntries(p, a, width) ==
  LET spread == IF width = 2 THEN 0 ELSE Short(p, a + 7) - Short(p, a + 3)
  IN  CASE spread > 1 -> 65536
        [] spread < -1 -> 0
        [] width = 2 -> Short(p, a + 5) - Short(p, a + 3) + 1
        [] OTHER -> 65536 * spread + Half(p, a + 9) - Half(p, a + 5) + 1
Entries(p, a) ==
  IF Byte(p, a) \in Tables THEN TableEntries(p, a, KeyWidth(p, a)) ELSE Half(p, a + 3)
SwitchHeader(p, a) == IF Byte(p, a) \in Tables THEN 3 + 2 * KeyWidth(p, a) ELSE 5
EntryWidth(p, a) == IF Byte(p, a) \in Tables THEN 2 ELSE KeyWidth(p, a) + 2
Length(p, a) ==
  IF Byte(p, a) \in Switches
    THEN SwitchHeader(p, a) + EntryWidth(p, a) * Entries(p, a)
    ELSE FixedLength(Byte(p, a))

\* instruction_length succeeds: every byte of the instruction is inside.
Fits(p, a, limit) ==
  /\ a < limit
  /\ Byte(p, a) \notin Undefined
  /\ Byte(p, a) \in Switches => a + SwitchHeader(p, a) <= limit
  /\ Byte(p, a) \in Tables => Entries(p, a) > 0
  /\ a + Length(p, a) <= limit

BranchTarget(p, a) ==
  a + (IF Byte(p, a) \in 152..168 THEN Short(p, a + 1) ELSE Signed(Byte(p, a + 1), 8))
\* An entry ends with its offset; a lookup entry starts with its key.
EntryAt(p, a, i) == a + SwitchHeader(p, a) + EntryWidth(p, a) * i
CaseTargets(p, a) ==
  {a + Short(p, a + 1)} \cup
  {a + Short(p, EntryAt(p, a, i + 1) - 2) : i \in 0..Entries(p, a) - 1}
Targets(p, a) ==
  CASE Byte(p, a) \in 96..112 \cup 152..168 -> {BranchTarget(p, a)}
    [] Byte(p, a) \in Switches -> CaseTargets(p, a)
    [] OTHER -> {}
KeysSorted(p, a) ==
  Byte(p, a) \in Switches \ Tables =>
    \A i \in 1..Entries(p, a) - 1 :
      Key(p, EntryAt(p, a, i - 1), KeyWidth(p, a)) < Key(p, EntryAt(p, a, i), KeyWidth(p, a))
FallsThrough(op) == op \notin {112, 147, 168} \cup 114..122

\* Pool index named by an instruction.
PoolWide == 123..130 \cup 139..143 \cup {145, 148, 149} \cup 169..172 \cup 177..180
PoolNarrow == 131..138 \cup 173..176 \cup 181..184
PrimitiveCast(p, a) == Byte(p, a) \in {148, 149} /\ Byte(p, a + 1) \in 10..13
NamesPool(p, a) == Byte(p, a) \in PoolWide \cup PoolNarrow /\ ~PrimitiveCast(p, a)
PoolIndex(p, a) ==
  IF Byte(p, a) \in PoolNarrow THEN Byte(p, a + 1)
  ELSE Half(p, IF Byte(p, a) \in {142, 148, 149} THEN a + 2 ELSE a + 1)

\* The local an instruction names, and how many words it covers.
Indexed == 21..23 \cup 40..42 \cup {89, 90, 150, 151}
NamesLocal(op) == op \in Indexed \cup 24..35 \cup 43..54
LocalIndex(p, a) ==
  LET op == Byte(p, a)
  IN  IF op \in Indexed THEN Byte(p, a + 1)
      ELSE IF op < 40 THEN (op - 24) % 4 ELSE (op - 43) % 4
LocalWidth(op) == IF op \in {23, 42, 90, 151} \cup 32..35 \cup 51..54 THEN 2 ELSE 1

-----------------------------------------------------------------------------
(* Methods and their verification, cap/method.rs and verify.rs. *)

Header(p, m) ==
  LET flags == Byte(p, m) \div 16 IN
  IF flags \in {8, 12}
    THEN [stack |-> Byte(p, m + 1), nargs |-> Byte(p, m + 2), locals |-> Byte(p, m + 3),
          length |-> 4, abstract |-> flags = 12]
    ELSE [stack |-> Byte(p, m) % 16, nargs |-> Byte(p, m + 1) \div 16,
          locals |-> Byte(p, m + 1) % 16, length |-> 2, abstract |-> flags = 4]
HeaderOK(p, m) ==
  /\ m + 1 < Size(p)
  /\ Byte(p, m) \div 16 \in {0, 4, 8, 12}
  /\ Byte(p, m) \div 16 \in {8, 12} => Byte(p, m) % 16 = 0 /\ m + 3 < Size(p)
FrameWords(h) == h.nargs + h.locals
Body(p, m) == m + Header(p, m).length

MethodOffsets(p) ==
  (UNION {Range(p.classes[c].table) : c \in DOMAIN p.classes} \ {NoMethod})
  \cup {p.pool[i].method : i \in {j \in DOMAIN p.pool : p.pool[j].tag = "static"}}
  \cup {p.install}
End(p, m) == Min({n \in MethodOffsets(p) : n > m} \cup {Size(p)})

\* Control enters at the first instruction and at any handler inside.
Entrances(p, body, end) ==
  {body} \cup ({p.handlers[i].target : i \in DOMAIN p.handlers} \cap body..end - 1)
Decodes(p, body, end, a) ==
  /\ a \in body..end - 1
  /\ Allows(p, Byte(p, a))
  /\ Fits(p, a, end)
  /\ KeysSorted(p, a)
Successors(p, a) ==
  Targets(p, a) \cup IF FallsThrough(Byte(p, a)) THEN {a + Length(p, a)} ELSE {}

\* Everything control reaches from the entrances; what does not decode is kept
\* and refused by VerifyMethod.
Reachable(p, body, end) ==
  LET walk[seen \in SUBSET Int, pending \in SUBSET Int] ==
        IF pending = {} THEN seen
        ELSE LET found == UNION {Successors(p, a) :
                                   a \in {b \in pending : Decodes(p, body, end, b)}}
             IN  walk[seen \cup pending, found \ (seen \cup pending)]
  IN  walk[{}, Entrances(p, body, end)]

\* The second pass steps over the length of each boundary it finds, so a
\* boundary inside another instruction is not looked at again.
Visited(p, body, end, boundaries) ==
  LET sweep[a \in body..end] ==
        IF a = end THEN {}
        ELSE IF a \in boundaries THEN {a} \cup sweep[a + Length(p, a)]
        ELSE sweep[a + 1]
  IN  sweep[body]
PoolAccessOK(p, a) ==
  /\ PrimitiveCast(p, a) => Half(p, a + 2) = 0
  /\ NamesPool(p, a) => PoolIndex(p, a) < Len(p.pool)
LocalAccessOK(p, a, words) ==
  NamesLocal(Byte(p, a)) => LocalIndex(p, a) + LocalWidth(Byte(p, a)) <= words
VerifyMethod(p, body, end, words) ==
  LET boundaries == Reachable(p, body, end) IN
  /\ \A a \in boundaries : Decodes(p, body, end, a)
  /\ \A a \in Visited(p, body, end, boundaries) :
       PoolAccessOK(p, a) /\ LocalAccessOK(p, a, words)

Entry(p, i) == p.pool[i + 1]
\* Superclasses inside the package, the first one outside it included.
Chain(p, c) ==
  LET up[n \in 0..Cardinality(DOMAIN p.classes)] ==
        IF n = 0 THEN {c}
        ELSE up[n - 1] \cup {p.classes[d].super : d \in up[n - 1] \cap DOMAIN p.classes}
  IN  up[Cardinality(DOMAIN p.classes)]
Acyclic(p) == \A c \in DOMAIN p.classes : c \notin Chain(p, p.classes[c].super)

Verify(p) ==
  /\ \A i \in DOMAIN p.handlers : p.handlers[i].catch = 0 \/ p.handlers[i].catch < Len(p.pool)
  /\ Acyclic(p)
  /\ \A m \in MethodOffsets(p) :
       /\ m < Size(p) /\ HeaderOK(p, m) /\ Body(p, m) <= End(p, m)
       /\ IF Header(p, m).abstract THEN Body(p, m) = End(p, m)
          ELSE VerifyMethod(p, Body(p, m), End(p, m), FrameWords(Header(p, m)))
  /\ \E m \in MethodOffsets(p) : ~Header(p, m).abstract

-----------------------------------------------------------------------------
(* Resolution, link.rs. *)

Internal(p, c) == c \in DOMAIN p.classes
\* Walk the class chain for the body of a virtual method token.
Lookup(p, class, token) ==
  LET at[c \in Chain(p, class)] ==
        IF ~Internal(p, c) THEN NoMethod
        ELSE IF token \in DOMAIN p.classes[c].table /\ p.classes[c].table[token] # NoMethod
             THEN p.classes[c].table[token]
        ELSE at[p.classes[c].super]
  IN  at[class]
InterfaceMethod(p, interface, token, class) ==
  LET owners == {c \in Chain(p, class) \cap DOMAIN p.classes :
                   interface \in DOMAIN p.classes[c].interfaces}
      nearest == CHOOSE c \in owners : \A d \in owners : d \in Chain(p, c)
  IN  IF owners = {} \/ token + 1 \notin DOMAIN p.classes[nearest].interfaces[interface]
        THEN NoMethod
        ELSE Lookup(p, class, p.classes[nearest].interfaces[interface][token + 1])

\* A library class answers through its export file, a class of the package by
\* the classes it extends up to the first one outside, and their interfaces.
ClassMatches(p, class, target) ==
  IF Internal(p, class)
    THEN \/ target \in Chain(p, class)
         \/ \E c \in Chain(p, class) \cap DOMAIN p.classes :
              target \in DOMAIN p.classes[c].interfaces
    ELSE target \in {class} \cup p.supers[class]

InstanceWords(p, class) ==
  LET total[c \in Chain(p, class)] ==
        IF ~Internal(p, c) THEN 0 ELSE p.classes[c].words + total[p.classes[c].super]
  IN  total[class]
FieldIndex(p, i) ==
  InstanceWords(p, p.classes[Entry(p, i).class].super) + Entry(p, i).token

-----------------------------------------------------------------------------
(* Frames, vm/frame.rs.  A frame is a slice of the arena: its locals, then    *)
(* its operand stack, of which "depth" words are live.                        *)

WordsFor(h) == FrameWords(h) + h.stack
TagBytesFor(h) == (WordsFor(h) + 7) \div 8
Top == Last(frames)
Shape(f) == Header(package, f.method)
StackBase(f) == f.base + FrameWords(Shape(f))
StackOf(f) == SubSeq(arena, StackBase(f) + 1, StackBase(f) + f.depth)
LocalsOf(f) == SubSeq(arena, f.base + 1, StackBase(f))
Local(i) == arena[Top.base + i + 1]
HasLocals(i, n) == i + n <= FrameWords(Shape(Top))
Written(at, ws) ==
  [i \in DOMAIN arena |-> IF i \in at + 1..at + Len(ws) THEN ws[i - at] ELSE arena[i]]

\* The top words of the operand stack, lowest first, have these tags.
Takes(tags) ==
  /\ Len(tags) <= Top.depth
  /\ \A i \in DOMAIN tags : StackOf(Top)[Top.depth - Len(tags) + i].ref = tags[i]
Shorts(n) == [i \in 1..n |-> FALSE]
Peek(below) == StackOf(Top)[Top.depth - below]

-----------------------------------------------------------------------------
(* How an instruction ends, vm/exec.rs. *)

At == Top.pc
Op == Byte(package, At)
NextPc == At + Length(package, At)
\* Mutant: only calls are counted.
Spent_ByCalls == IF Op \in 139..142 THEN budget - 1 ELSE budget
Spent == budget - 1
Running == phase = "run" /\ thrown = NULL
Legal == budget > 0 /\ At < Size(package) /\ Allows(package, Op) /\ Fits(package, At, Size(package))
Executes(ops) == Running /\ Legal /\ Op \in ops

heap == <<objects, statics>>

\* An engine error ends the command: nothing catches it.
Fail ==
  /\ phase' = "failed"
  /\ UNCHANGED <<package, callback, frames, arena, thrown, objects, statics, budget>>

\* Take words off the stack, put others on, go on at one of the places.
Replace(taken, given, places) ==
  \E next \in places :
    IF \/ Top.depth - taken + Len(given) > Shape(Top).stack
       \/ next \notin Body(package, Top.method)..Size(package) - 1
      THEN phase' = "failed" /\ UNCHANGED <<package, callback, frames, arena, thrown, budget>>
      ELSE /\ frames' = [frames EXCEPT ![Len(frames)].pc = next,
                                       ![Len(frames)].depth = @ - taken + Len(given)]
           /\ arena' = Written(StackBase(Top) + Top.depth - taken, given)
           /\ budget' = Spent
           /\ UNCHANGED <<package, phase, callback, thrown>>
Step(tags, given, places) ==
  IF Takes(tags) THEN Replace(Len(tags), given, places) /\ UNCHANGED heap ELSE Fail

\* One runtime exception object per class, made on first use.
RaiseAfter(heaped, class) ==
  LET old == {i \in DOMAIN heaped : heaped[i].runtime /\ heaped[i].class = class} IN
  IF old = {} /\ Len(heaped) >= MaxObjects THEN Fail
  ELSE /\ thrown' = IF old = {} THEN Len(heaped) + 1 ELSE Min(old)
       /\ objects' = IF old # {} THEN heaped
                     ELSE Append(heaped, [class |-> class, kind |-> "object",
                                          slots |-> <<Number>>, runtime |-> TRUE])
       /\ budget' = Spent
       /\ UNCHANGED <<package, phase, callback, frames, arena, statics>>
Raise(class) == RaiseAfter(objects, class)

Handle(r) == r \in DOMAIN objects
\* What a word used as a reference names; bits made as a number may name anything.
Denotes(v) == IF v = Number THEN {NULL, Number} \cup DOMAIN objects ELSE {v}
IsArray(r) == objects[r].kind # "object"

-----------------------------------------------------------------------------
(* Instructions on numbers and on the frame alone. *)

\* Number words taken and given.
Arithmetic(op) ==
  CASE op = 0 -> <<0, 0>>
    [] op \in 2..8 \cup {16, 17} -> <<0, 1>>
    [] op \in 9..15 \cup 18..20 -> <<0, 2>>
    [] op \in {75, 91} -> <<1, 1>>
    [] op = 76 -> <<2, 2>>
    [] op \in {78, 80, 82} -> <<3, 2>>
    [] op = 92 -> <<1, 2>>
    [] op \in {93, 94} -> <<2, 1>>
    [] op = 95 -> <<4, 1>>
    [] op % 2 = 1 -> <<2, 1>>
    [] OTHER -> <<4, 2>>
Compute ==
  /\ Executes({0} \cup 2..20 \cup 65..88 \cup 91..95)
  /\ \/ Step(Shorts(Arithmetic(Op)[1]), Numbers(Arithmetic(Op)[2]), {NextPc})
     \/ /\ Op \in 71..74
        /\ Takes(Shorts(Arithmetic(Op)[1]))
        /\ Raise("ArithmeticException")
PushNull == Executes({1}) /\ Step(<<>>, <<Reference(NULL)>>, {NextPc})

RefLocal == {21, 40} \cup 24..27 \cup 43..46
LocalWords(i, n) == SubSeq(arena, Top.base + i + 1, Top.base + i + n)
LoadLocal ==
  /\ Executes(21..35)
  /\ LET i == LocalIndex(package, At)
         n == LocalWidth(Op)
     IN  IF HasLocals(i, n) /\ \A k \in 0..n - 1 : Local(i + k).ref = (Op \in RefLocal)
           THEN Step(<<>>, LocalWords(i, n), {NextPc})
           ELSE Fail
StoreLocal ==
  /\ Executes(40..54)
  /\ LET i == LocalIndex(package, At)
         n == LocalWidth(Op)
     IN  IF ~Takes([k \in 1..n |-> Op \in RefLocal]) \/ ~HasLocals(i, n) THEN Fail
         ELSE /\ frames' = [frames EXCEPT ![Len(frames)].pc = NextPc,
                                          ![Len(frames)].depth = @ - n]
              /\ arena' = Written(Top.base + i, SubSeq(StackOf(Top), Top.depth - n + 1, Top.depth))
              /\ budget' = Spent
              /\ UNCHANGED <<package, phase, callback, thrown, objects, statics>>
Increment ==
  /\ Executes({89, 90, 150, 151})
  /\ LET i == LocalIndex(package, At)
         n == LocalWidth(Op)
     IN  IF ~HasLocals(i, n) \/ \E k \in 0..n - 1 : Local(i + k).ref THEN Fail
         ELSE /\ frames' = [frames EXCEPT ![Len(frames)].pc = NextPc]
              /\ arena' = Written(Top.base + i, Numbers(n))
              /\ budget' = Spent
              /\ UNCHANGED <<package, phase, callback, thrown, objects, statics>>

\* duplicate: copies of the top words go in below the ones under them.
Duplicate(s, count, below) ==
  LET cut == IF below = 0 THEN Len(s) ELSE Len(s) - below
  IN  SubSeq(s, 1, cut) \o SubSeq(s, Len(s) - count + 1, Len(s)) \o SubSeq(s, cut + 1, Len(s))
Swap(s, count, below) ==
  LET under == Len(s) - count - below
  IN  SubSeq(s, 1, under) \o SubSeq(s, under + below + 1, Len(s))
                         \o SubSeq(s, under + 1, under + below)
Operand == Byte(package, At + 1)
Counts ==
  CASE Op = 61 -> <<1, 0>> [] Op = 62 -> <<2, 0>>
    [] OTHER -> <<Operand \div 16, Operand % 16>>
Shuffle ==
  /\ Executes(59..64)
  /\ LET s == StackOf(Top)
         m == Counts[1]
         n == Counts[2]
     IN  CASE Op \in {59, 60} ->
                IF Op - 58 <= Len(s) THEN Replace(Op - 58, <<>>, {NextPc}) /\ UNCHANGED heap
                ELSE Fail
           [] Op \in 61..63 ->
                IF m \in 1..4 /\ m <= Len(s) /\ n <= Len(s)
                  THEN Replace(Len(s), Duplicate(s, m, n), {NextPc}) /\ UNCHANGED heap
                  ELSE Fail
           [] OTHER ->
                IF m \in 1..2 /\ n \in 1..2 /\ m + n <= Len(s)
                  THEN Replace(Len(s), Swap(s, m, n), {NextPc}) /\ UNCHANGED heap
                  ELSE Fail

\* Mutant: offsets count from the next instruction.
Branch_FromNext(p, a) ==
  NextPc + (IF Byte(p, a) >= 152 THEN Short(p, a + 1) ELSE Signed(Byte(p, a + 1), 8))
\* branch and the switch arms: offsets count from the opcode.
Branch(p, a) ==
  a + (IF Byte(p, a) >= 152 THEN Short(p, a + 1) ELSE Signed(Byte(p, a + 1), 8))
Conditions(op) ==
  CASE op \in {112, 168} -> <<>>
    [] op \in {102, 103, 158, 159} -> <<TRUE>>
    [] op \in {104, 105, 160, 161} -> <<TRUE, TRUE>>
    [] op \in 96..101 \cup 152..157 -> <<FALSE>>
    [] OTHER -> <<FALSE, FALSE>>
Jump ==
  /\ Executes(96..112 \cup 152..168)
  /\ Step(Conditions(Op), <<>>,
          {Branch(package, At)} \cup IF Op \in {112, 168} THEN {} ELSE {NextPc})
Switch ==
  /\ Executes(Switches)
  /\ Step(Shorts(KeyWidth(package, At) \div 2), <<>>, CaseTargets(package, At))

-----------------------------------------------------------------------------
(* Instructions on objects. *)

\* check_access on a reference taken from the frame, then the instruction.
Guarded(r) == r = NULL \/ ~Handle(r)
Refuse(r) == IF r = NULL THEN Raise("NullPointerException") ELSE Fail

ArrayLength ==
  /\ Executes({146})
  /\ IF ~Takes(<<TRUE>>) THEN Fail
     ELSE \E r \in Denotes(Peek(0).v) :
            IF Guarded(r) THEN Refuse(r)
            ELSE IF IsArray(r) THEN Step(<<TRUE>>, Numbers(1), {NextPc}) ELSE Fail

\* Element kinds an array instruction accepts, and the words of an element.
ElementKinds(op) ==
  CASE op \in {36, 55} -> {"reference"} [] op \in {37, 56} -> {"boolean", "byte"}
    [] op \in {38, 57} -> {"short"} [] OTHER -> {"int"}
ElementTags(op) ==
  CASE op \in {36, 55} -> <<TRUE>> [] op \in {39, 58} -> <<FALSE, FALSE>> [] OTHER -> <<FALSE>>
ArrayLoad ==
  /\ Executes(36..39)
  /\ IF ~Takes(<<TRUE, FALSE>>) THEN Fail
     ELSE \E r \in Denotes(Peek(1).v) :
            IF Guarded(r) THEN Refuse(r)
            ELSE IF objects[r].kind \notin ElementKinds(Op) THEN Fail
            ELSE \/ Raise("ArrayIndexOutOfBoundsException")
                 \/ Step(<<TRUE, FALSE>>,
                         IF Op = 36 THEN <<Reference(objects[r].slots[1])>>
                         ELSE Numbers(Len(ElementTags(Op))), {NextPc})

Instance == 1
Apdu == 2
Buffer == 3
\* check_reference_store: the buffer, the APDU object and the runtime's own
\* exceptions are not to be kept.
Storable(r) == r \notin {Buffer, Apdu} /\ (r # NULL => ~objects[r].runtime)
ArrayAccepts(array, r) ==
  \/ r = NULL
  \/ IF IsArray(r) THEN objects[array].class = "Object"
     ELSE ClassMatches(package, objects[r].class, objects[array].class)
\* A store may find the transaction's undo log full.
Store(tags, r, slot, values) ==
  \/ /\ objects' = [objects EXCEPT ![r].slots =
                       [i \in DOMAIN @ |-> IF i \in slot..slot + Len(values) - 1
                                           THEN values[i - slot + 1] ELSE @[i]]]
     /\ Replace(Len(tags), <<>>, {NextPc})
     /\ UNCHANGED statics
  \/ Raise("TransactionException")
ArrayStore ==
  /\ Executes(55..58)
  /\ LET tags == <<TRUE, FALSE>> \o ElementTags(Op)
     IN  IF ~Takes(tags) THEN Fail
         ELSE \E r \in Denotes(Peek(Len(tags) - 1).v), value \in Denotes(Peek(0).v) :
                IF Guarded(r) THEN Refuse(r)
                ELSE IF objects[r].kind \notin ElementKinds(Op) THEN Fail
                ELSE IF Op # 55
                  THEN Raise("ArrayIndexOutOfBoundsException") \/ Store(tags, r, 1, <<Number>>)
                ELSE IF value # NULL /\ ~Handle(value) THEN Fail
                ELSE IF ~Storable(value) THEN Raise("SecurityException")
                ELSE IF ~ArrayAccepts(r, value) THEN Raise("ArrayStoreException")
                ELSE Raise("ArrayIndexOutOfBoundsException") \/ Store(tags, r, 1, <<Peek(0).v>>)

\* Where an instruction names a class: any entry that starts with one.
NamesClass(e) == e.tag \in {"class", "virtual", "super", "field"}
Named == Entry(package, PoolIndex(package, At))
PoolOK == PoolIndex(package, At) < Len(package.pool)
\* The heap is full, or the operand stack is: both are Error::Quota.
New(object, tags) ==
  \/ /\ Len(objects) < MaxObjects
     /\ Top.depth - Len(tags) < Shape(Top).stack
     /\ objects' = Append(objects, object)
     /\ Replace(Len(tags), <<Reference(Len(objects) + 1)>>, {NextPc})
     /\ UNCHANGED statics
  \/ Raise("SystemException")
  \/ /\ Len(objects) < MaxObjects
     /\ Top.depth - Len(tags) >= Shape(Top).stack
     /\ RaiseAfter(Append(objects, object), "SystemException")
NativeWords == 2      \* of an object the card provides: enough for every field named here
NewObject ==
  /\ Executes({143})
  /\ IF ~PoolOK \/ ~NamesClass(Named) THEN Fail
     ELSE LET words == IF Internal(package, Named.class) THEN InstanceWords(package, Named.class)
                      ELSE NativeWords
          IN  New([class |-> Named.class, kind |-> "object", runtime |-> FALSE,
                   slots |-> [i \in 1..words |-> Zero]], <<>>)
ArrayKind(atype) ==
  CASE atype = 10 -> "boolean" [] atype = 11 -> "byte" [] atype = 12 -> "short"
    [] atype = 13 -> "int" [] OTHER -> "none"
\* Arrays hold one element here; a negative length is refused.  An array of
\* numbers has class word zero, which is the package's first class.
NewArray ==
  /\ Executes({144, 145})
  /\ LET kind == IF Op = 145 THEN "reference" ELSE ArrayKind(Operand)
         class == IF Op = 145 THEN Named.class ELSE package.first
     IN  IF \/ kind = "none" \/ ~Takes(<<FALSE>>)
            \/ Op = 145 /\ (~PoolOK \/ Named.tag # "class") THEN Fail
         ELSE \/ Raise("NegativeArraySizeException")
              \/ New([class |-> class, kind |-> kind, runtime |-> FALSE, slots |-> <<Zero>>],
                     <<FALSE>>)

\* assignable: what a cast asks of an object.
Assignable(r, atype) ==
  CASE atype \in 10..13 -> objects[r].kind = ArrayKind(atype)
    [] atype = 14 -> objects[r].kind = "reference"
    [] OTHER -> ~IsArray(r) /\ ClassMatches(package, objects[r].class, Named.class)
Cast ==
  /\ Executes({148, 149})
  /\ IF ~Takes(<<TRUE>>) THEN Fail
     ELSE \E r \in Denotes(Peek(0).v) :
            LET given == IF Op = 149 THEN Numbers(1) ELSE <<Peek(0)>> IN
            IF r = NULL THEN Step(<<TRUE>>, given, {NextPc})
            ELSE IF \/ ~Handle(r)
                    \/ Operand \in 10..13 /\ Half(package, At + 2) # 0
                    \/ Operand \notin 10..13 /\ ~PoolOK
                    \/ Operand \notin 10..14 /\ ~IsArray(r) /\ Named.tag # "class" THEN Fail
            ELSE IF Op = 148 /\ ~Assignable(r, Operand) THEN Raise("ClassCastException")
            ELSE Step(<<TRUE>>, given, {NextPc})

\* Fields and statics: kind 0 is a reference, 1 a byte, 2 a short, 3 an int.
FieldKind(op) == (IF op < 169 THEN op - 123 ELSE op - 169) % 4
FieldTags(op) ==
  CASE FieldKind(op) = 0 -> <<TRUE>> [] FieldKind(op) = 3 -> <<FALSE, FALSE>> [] OTHER -> <<FALSE>>
\* Words carry no tag outside a frame.  A byte is too narrow for a reference.
ReadAs(op, words) ==
  IF FieldKind(op) = 0 THEN <<Reference(words[1])>>
  ELSE [i \in DOMAIN words |-> Word(IF FieldKind(op) # 1 /\ words[i] > NULL THEN words[i]
                                    ELSE Number)]
Given(op) ==
  LET n == Len(FieldTags(op)) IN
  [i \in 1..n |-> IF FieldKind(op) = 1 THEN Number ELSE Peek(n - i).v]
StaticOK ==
  /\ PoolOK /\ Named.tag = "staticField"
  /\ Named.slot..Named.slot + Len(FieldTags(Op)) - 1 \subseteq DOMAIN statics
GetStatic ==
  /\ Executes(123..126)
  /\ IF StaticOK
       THEN Step(<<>>, ReadAs(Op, SubSeq(statics, Named.slot,
                                         Named.slot + Len(FieldTags(Op)) - 1)), {NextPc})
       ELSE Fail
PutStatic ==
  /\ Executes(127..130)
  /\ LET n == Len(FieldTags(Op)) IN
     IF ~StaticOK \/ ~Takes(FieldTags(Op)) THEN Fail
     ELSE \E value \in Denotes(Peek(0).v) :
            IF FieldKind(Op) = 0 /\ value # NULL /\ ~Handle(value) THEN Fail
            ELSE IF FieldKind(Op) = 0 /\ ~Storable(value) THEN Raise("SecurityException")
            ELSE \/ /\ statics' = [i \in DOMAIN statics |->
                                    IF i \in Named.slot..Named.slot + n - 1
                                    THEN Given(Op)[i - Named.slot + 1] ELSE statics[i]]
                    /\ Replace(n, <<>>, {NextPc})
                    /\ UNCHANGED objects
                 \/ Raise("TransactionException")

FieldOK == PoolOK /\ Named.tag = "field" /\ Internal(package, Named.class)
Slot == FieldIndex(package, PoolIndex(package, At)) + 1
\* The slot is inside the object; a reference to an array has no fields.
SlotOK(r) ==
  ~IsArray(r) /\ Slot + Len(FieldTags(Op)) - 1 <= Len(objects[r].slots)
This == Op \in 173..176 \cup 181..184
\* The receiver is under the value, or local zero.
Receiver(tags) == IF This THEN Local(0) ELSE Peek(Len(tags))
FieldFrame(tags) == IF This THEN tags ELSE <<TRUE>> \o tags
HasReceiver == This => HasLocals(0, 1) /\ Local(0).ref
GetField ==
  /\ Executes(131..134 \cup 169..176)
  /\ IF ~FieldOK \/ ~HasReceiver \/ ~Takes(FieldFrame(<<>>)) THEN Fail
     ELSE \E r \in Denotes(Receiver(<<>>).v) :
            IF Guarded(r) THEN Refuse(r)
            ELSE IF ~SlotOK(r) THEN Fail
            ELSE Step(FieldFrame(<<>>),
                      ReadAs(Op, SubSeq(objects[r].slots, Slot, Slot + Len(FieldTags(Op)) - 1)),
                      {NextPc})
PutField ==
  /\ Executes(135..138 \cup 177..184)
  /\ LET tags == FieldTags(Op)
     IN  IF ~FieldOK \/ ~HasReceiver \/ ~Takes(FieldFrame(tags)) THEN Fail
         ELSE \E r \in Denotes(Receiver(tags).v), value \in Denotes(Peek(0).v) :
                IF Guarded(r) THEN Refuse(r)
                ELSE IF FieldKind(Op) = 0 /\ value # NULL /\ ~Handle(value) THEN Fail
                ELSE IF FieldKind(Op) = 0 /\ ~Storable(value) THEN Raise("SecurityException")
                ELSE IF ~SlotOK(r) THEN Fail
                ELSE Store(FieldFrame(tags), r, Slot, Given(Op))

-----------------------------------------------------------------------------
(* Calls, exceptions and returns. *)

\* A method of the card: external, from how the loop uses its answer.
CallNative(e, static) ==
  IF e.static # static \/ ~Takes(e.takes) THEN Fail
  ELSE \/ \E r \in {NULL, Buffer} :
            Step(e.takes, [i \in DOMAIN e.gives |-> IF e.gives[i] THEN Reference(r)
                                                   ELSE Word(Number)], {NextPc})
       \/ \E class \in e.raises : Raise(class)
       \/ Fail

\* The callee's frame comes out of what is left of the arena, zeroed, with
\* the arguments moved over with their tags.
FrameFor(m, base, tags) == [method |-> m, pc |-> Body(package, m), base |-> base,
                            tags |-> tags, depth |-> 0]
Callable(m, base, tags) ==
  /\ m < Size(package) /\ HeaderOK(package, m) /\ ~Header(package, m).abstract
  /\ base + WordsFor(Header(package, m)) <= ArenaWords
  /\ tags + TagBytesFor(Header(package, m)) <= ArenaTags
\* Mutant: the arena is not cleared for a new frame.
Fresh_Uncleared(m, args) == args
Fresh(m, args) ==
  args \o [i \in 1..WordsFor(Header(package, m)) - Len(args) |-> Word(Zero)]
NextBase(f) == f.base + WordsFor(Shape(f))
Invoke(m) ==
  LET base == NextBase(Top)
      tags == Top.tags + TagBytesFor(Shape(Top))
  IN  IF \/ Len(frames) >= MaxDepth \/ ~Callable(m, base, tags)
         \/ Header(package, m).nargs > Top.depth THEN Fail
      ELSE LET n == Header(package, m).nargs
               args == SubSeq(StackOf(Top), Top.depth - n + 1, Top.depth)
           IN  /\ frames' = Append([frames EXCEPT ![Len(frames)].depth = @ - n],
                                   FrameFor(m, base, tags))
               /\ arena' = Written(base, Fresh(m, args))
               /\ budget' = Spent
               /\ UNCHANGED <<package, phase, callback, thrown, objects, statics>>

\* invokespecial finds a superclass method through its own constant type; for
\* a virtual constant, of the package or of the card, it starts at the first
\* class of the package.
SpecialMethod(e) ==
  CASE e.tag = "static" -> e.method
    [] Op = 140 /\ e.tag = "super" -> Lookup(package, package.classes[e.class].super, e.token)
    [] Op = 140 /\ (e.tag = "virtual" \/ (e.tag = "native" /\ ~e.static)) ->
         Lookup(package, package.first, e.token)
    [] OTHER -> NoMethod
InvokeStatic ==
  /\ Executes({140, 141})
  /\ IF ~PoolOK THEN Fail
     ELSE IF Named.tag = "native" /\ Named.static THEN CallNative(Named, TRUE)
     ELSE Invoke(SpecialMethod(Named))
\* The declared class gives the argument count, the receiver's the body.
InvokeVirtual ==
  /\ Executes({139})
  /\ IF ~PoolOK THEN Fail
     ELSE IF Named.tag = "native" THEN CallNative(Named, FALSE)
     ELSE IF Named.tag \notin {"virtual", "super"} THEN Fail
     ELSE LET signature == Lookup(package, Named.class, Named.token)
              n == Header(package, signature).nargs
          IN  IF \/ signature = NoMethod \/ ~HeaderOK(package, signature)
                 \/ n \notin 1..Top.depth THEN Fail
              ELSE IF ~Peek(n - 1).ref THEN Fail
              ELSE \E r \in Denotes(Peek(n - 1).v) :
                     IF Guarded(r) THEN Refuse(r)
                     ELSE Invoke(Lookup(package, objects[r].class, Named.token))
InvokeInterface ==
  /\ Executes({142})
  /\ LET n == Operand
         token == Byte(package, At + 4)
     IN  IF \/ ~PoolOK \/ n \notin 1..Top.depth THEN Fail
         ELSE IF ~NamesClass(Named) \/ ~Peek(n - 1).ref THEN Fail
         ELSE \E r \in Denotes(Peek(n - 1).v) :
                IF Guarded(r) THEN Refuse(r)
                ELSE IF ~Internal(package, objects[r].class)
                  THEN IF /\ Named.class \in DOMAIN package.api
                          /\ token \in DOMAIN package.api[Named.class]
                         THEN CallNative(package.api[Named.class][token], FALSE)
                         ELSE Fail
                ELSE Invoke(InterfaceMethod(package, Named.class, token, objects[r].class))

AThrow ==
  /\ Executes({147})
  /\ IF ~Takes(<<TRUE>>) THEN Fail
     ELSE \E r \in Denotes(Peek(0).v) :
            IF Guarded(r) THEN Refuse(r)
            ELSE /\ thrown' = r
                 /\ budget' = Spent
                 /\ UNCHANGED <<package, phase, callback, frames, arena, objects, statics>>

Covers(h, a) == h.start <= a /\ a < h.start + h.length
Catches(p, h, class) == h.catch = 0 \/ ClassMatches(p, class, Entry(p, h.catch).class)
\* Mutant: the last handler that catches wins.
FindHandler_Outermost(p, a, class) ==
  LET hits == {i \in DOMAIN p.handlers :
                 Covers(p.handlers[i], a) /\ Catches(p, p.handlers[i], class)}
  IN  IF hits = {} THEN 0 ELSE Max(hits)
\* The first handler of the flat table that covers the place and catches, or
\* is the last one of its range; 0 when the search ends without one.
FindHandler(p, a, class) ==
  LET hits == {i \in DOMAIN p.handlers :
                 Covers(p.handlers[i], a) /\ (Catches(p, p.handlers[i], class) \/ p.handlers[i].stop)}
  IN  IF hits = {} THEN 0
      ELSE IF Catches(p, p.handlers[Min(hits)], class) THEN Min(hits) ELSE 0
\* A handler starts with an empty stack holding only the exception.
Unwind ==
  /\ phase = "run" /\ thrown # NULL
  /\ LET i == FindHandler(package, At, objects[thrown].class)
         h == package.handlers[i]
     IN  IF i # 0
         THEN IF \/ h.target \notin Body(package, Top.method)..Size(package) - 1
                 \/ Shape(Top).stack = 0 THEN Fail
              ELSE /\ frames' = [frames EXCEPT ![Len(frames)].pc = h.target,
                                               ![Len(frames)].depth = 1]
                   /\ arena' = Written(StackBase(Top), <<Reference(thrown)>>)
                   /\ thrown' = NULL
                   /\ UNCHANGED <<package, phase, callback, objects, statics, budget>>
         ELSE IF Len(frames) = 1
         THEN phase' = "thrown" /\ UNCHANGED <<package, callback, frames, arena, thrown,
                                               objects, statics, budget>>
         ELSE frames' = Front(frames) /\ UNCHANGED <<package, phase, callback, arena, thrown,
                                                     objects, statics, budget>>

ReturnTags(op) ==
  CASE op = 119 -> <<TRUE>> [] op = 120 -> <<FALSE>> [] op = 121 -> <<FALSE, FALSE>> [] OTHER -> <<>>
\* The result goes back on the caller's stack with its tag.  The runtime
\* takes the answer of select as a number.
Return ==
  /\ Executes(119..122)
  /\ IF ~Takes(ReturnTags(Op)) THEN Fail
     ELSE IF Len(frames) = 1
     THEN /\ phase' = IF callback = "select" /\ Op \notin {120, 121} THEN "failed" ELSE "done"
          /\ UNCHANGED <<package, callback, frames, arena, thrown, objects, statics, budget>>
     ELSE LET n == Len(ReturnTags(Op))
              caller == frames[Len(frames) - 1]
              result == SubSeq(StackOf(Top), Top.depth - n + 1, Top.depth)
          IN  IF caller.depth + n > Shape(caller).stack THEN Fail
              ELSE /\ frames' = [Front(frames) EXCEPT
                                   ![Len(frames) - 1].depth = @ + n,
                                   ![Len(frames) - 1].pc = @ + Length(package, @)]
                   /\ arena' = Written(StackBase(caller) + caller.depth, result)
                   /\ budget' = Spent
                   /\ UNCHANGED <<package, phase, callback, thrown, objects, statics>>

-----------------------------------------------------------------------------
(* Loading a package and calling the applet, verify.rs and applet.rs. *)

Load ==
  /\ phase = "load"
  /\ phase' = IF Verify(package) THEN "idle" ELSE "refused"
  /\ UNCHANGED <<package, callback, frames, arena, thrown, objects, statics, budget>>

AppletToken == [deselect |-> 4, select |-> 6, process |-> 7]
Arguments(name) ==
  CASE name = "install" -> <<Reference(Buffer), Word(Number), Word(Number)>>
    [] name = "process" -> <<Reference(Instance), Reference(Apdu)>>
    [] OTHER -> <<Reference(Instance)>>
\* An inherited select accepts and an inherited deselect does nothing.
Start(name) ==
  LET m == IF name = "install" THEN package.install
           ELSE Lookup(package, package.applet, AppletToken[name])
      args == Arguments(name)
  IN  /\ phase = "idle"
      /\ callback' = name
      /\ UNCHANGED <<package, thrown, objects, statics, budget>>
      /\ IF m = NoMethod
           THEN /\ phase' = IF name \in {"select", "deselect"} THEN "done" ELSE "failed"
                /\ UNCHANGED <<frames, arena>>
         ELSE IF ~Callable(m, 0, 0) \/ Header(package, m).nargs > Len(args)
           THEN phase' = "failed" /\ UNCHANGED <<frames, arena>>
         ELSE /\ phase' = "run"
              /\ frames' = <<FrameFor(m, 0, 0)>>
              /\ arena' = Written(0, Fresh(m, SubSeq(args, Len(args) - Header(package, m).nargs + 1,
                                                          Len(args))))

\* The instruction budget runs out or an opcode is refused ...
Stop == Running /\ ~Legal /\ Fail
\* ... or the transport cancels the command.
Cancel == Running /\ Fail

Init ==
  /\ package \in Packages
  /\ phase = "load" /\ callback = "none"
  /\ frames = <<>> /\ thrown = NULL
  /\ arena = [i \in 1..ArenaWords |-> Reference(Number)]
  /\ objects = <<[class |-> package.applet, kind |-> "object", runtime |-> FALSE,
                  slots |-> [i \in 1..InstanceWords(package, package.applet) |-> Zero]],
                 [class |-> "APDU", kind |-> "object", runtime |-> FALSE, slots |-> <<Number>>],
                 [class |-> package.first, kind |-> "byte", runtime |-> FALSE, slots |-> <<Zero>>]>>
  /\ statics = package.statics
  /\ budget = MaxBudget

Instructions ==
  \/ Compute \/ PushNull \/ LoadLocal \/ StoreLocal \/ Increment \/ Shuffle \/ Jump \/ Switch
  \/ ArrayLength \/ ArrayLoad \/ ArrayStore \/ NewObject \/ NewArray \/ Cast
  \/ GetStatic \/ PutStatic \/ GetField \/ PutField
  \/ InvokeStatic \/ InvokeVirtual \/ InvokeInterface \/ AThrow \/ Return

Next ==
  \/ Load
  \/ \E name \in {"install", "select", "process", "deselect"} : Start(name)
  \/ Instructions \/ Unwind \/ Stop \/ Cancel

Spec == Init /\ [][Next]_vars
\* The dispatch loop does not pause between instructions.
FairSpec == Spec /\ WF_vars(Cancel \/ Stop \/ Unwind \/ Instructions)

-----------------------------------------------------------------------------
(* What the loader takes on trust: the converter keeps a handler inside its   *)
(* method, nests try blocks and marks the last one, and catches classes.      *)

Range_(h) == h.start..h.start + h.length - 1
Supertypes(p, class) ==
  {class} \cup Chain(p, class)
  \cup UNION {p.supers[c] : c \in ({class} \cup Chain(p, class)) \cap DOMAIN p.supers}
  \cup UNION {DOMAIN p.classes[c].interfaces : c \in Chain(p, class) \cap DOMAIN p.classes}
Converted(p) ==
  /\ \A i \in DOMAIN p.handlers :
       LET h == p.handlers[i] IN
       /\ \E m \in MethodOffsets(p) :
            Range_(h) \cup {h.target} \subseteq Body(p, m)..End(p, m) - 1
       /\ h.catch # 0 => Entry(p, h.catch).tag = "class"
       /\ \A j \in i + 1..Len(p.handlers) :
            LET g == p.handlers[j] IN
            \/ Range_(h) \cap Range_(g) = {}
            \/ Range_(h) \subseteq Range_(g) /\ ~h.stop

ASSUME PackagesAreConverted == \A p \in Packages : Converted(p)

-----------------------------------------------------------------------------
(* Properties. *)

Boundaries ==
  [p \in Packages |-> IF Verify(p)
     THEN [m \in {n \in MethodOffsets(p) : ~Header(p, n).abstract} |->
             Reachable(p, Body(p, m), End(p, m))]
     ELSE <<>>]

\* Every frame, running or waiting for a call, is at an instruction that
\* load-time verification decoded for that frame's own method, whatever
\* branches, switches, calls, returns and handlers led there.
RunsVerifiedCode ==
  phase = "run" => \A i \in DOMAIN frames : frames[i].pc \in Boundaries[package][frames[i].method]

\* The reference tag of a word tells how its bits were made, although the
\* bytecode's types are never verified and frames reuse dirty memory: calls,
\* returns, handlers, casts, arrays and natives never make a reference of a
\* number or a number of a reference.  The one place where that can happen is
\* the read of a field or static word, which frame.rs:6-10 rules out: those
\* words have no tag, and nothing compares how they are read with how they
\* were written.
Lies(w) == IF w.ref THEN w.v = Number ELSE w.v > NULL
Words ==
  UNION {Range(LocalsOf(frames[i]) \o StackOf(frames[i])) : i \in DOMAIN frames}
  \cup {Reference(objects[r].slots[1]) : r \in {o \in DOMAIN objects : objects[o].kind = "reference"}}
WordsKeepKind ==
  [][\A w \in Words' : Lies(w) => w \in Words \/ Executes(123..126 \cup 131..134 \cup 169..176)]_vars

\* The flat handler table behaves like nested try blocks: an exception is
\* caught by the innermost block around the failing instruction that accepts
\* its class, in the innermost invocation that has one, and leaves a method
\* only when no block of it does.  One kind of block is passed over although
\* it accepts the class: a class of the applet is not compared with the
\* superclasses of the library class it extends (link.rs:278).
PassedOver(p, class, target) ==
  Internal(p, class) /\ target \in UNION {p.supers[c] : c \in Chain(p, class) \ DOMAIN p.classes}
InnermostHandler ==
  [][phase = "run" /\ thrown # NULL /\ phase' # "failed" =>
       LET hs == package.handlers
           class == objects[thrown].class
           Target(h) == Entry(package, h.catch).class
           around == {i \in DOMAIN hs :
                        /\ At \in Range_(hs[i])
                        /\ \/ hs[i].catch = 0
                           \/ /\ Target(hs[i]) \in Supertypes(package, class)
                              /\ ~PassedOver(package, class, Target(hs[i]))}
       IN  IF around = {} THEN phase' = "thrown" \/ frames' = Front(frames)
           ELSE \E i \in around :
                  /\ \A j \in around \ {i} :
                       \/ Range_(hs[i]) \subseteq Range_(hs[j]) /\ Range_(hs[i]) # Range_(hs[j])
                       \/ Range_(hs[i]) = Range_(hs[j]) /\ i < j
                  /\ Len(frames') = Len(frames) /\ frames'[Len(frames)].pc = hs[i].target]_vars

\* The instruction budget ends every command, loops and endless recursion
\* included, without any help from the bytecode.
CommandsEnd == phase = "run" ~> phase # "run"
=============================================================================
