------------------------------- MODULE Mc04Vm -------------------------------
(***************************************************************************)
(* MC04 assemblies: the verification of CIL method bodies (assembly.rs and *)
(* assembly/validation.rs), the linking of a program's calls               *)
(* (mc04_imports.rs, domains/linking.rs) and the interpreter of verified   *)
(* programs (mc04_vm.rs, mc04_vm/heap.rs).                                 *)
(*                                                                         *)
(* A program is the sequence of its assemblies (units).  A unit has a      *)
(* name, the units its dependencies were bound to, type definitions, each  *)
(* with its name and the first field and the first method of its lists,    *)
(* type references (a name and the assembly that is its scope), Int32      *)
(* fields, methods with a body, and member references.  A name stands for  *)
(* namespace and name, an assembly's name for its name and version.  A     *)
(* byte offset is the number of its instruction, so a decoded branch       *)
(* target is a position; the encodings of tables, heaps and signatures are *)
(* left out.  Instructions that the verifier and the interpreter treat     *)
(* alike (the short and long forms, the comparisons, the arithmetic) are   *)
(* one instruction here.                                                   *)
(***************************************************************************)
EXTENDS Integers, Sequences, FiniteSets, SequencesExt

CONSTANTS
  Programs,    \* the linked programs that are loaded; the first method of
               \* the first unit is the entry
  MaxStack,    \* MAX_EVALUATION_STACK
  MaxFrames,   \* MAX_CALL_FRAMES, and the depth of a call graph
  MaxStates,   \* the block starts the type pass records
  MaxFuel,     \* instructions of one execution
  MaxObjects,  \* MAX_TRANSIENT_OBJECTS
  MaxCells,    \* MAX_TRANSIENT_BYTES, in elements
  Half         \* an Int32 is in -Half .. Half - 1

\* A program has an entry unit, and a table of a unit is a sequence of rows.
ASSUME ProgramTables ==
  \A p \in Programs :
    /\ 1 \in DOMAIN p
    /\ \A u \in DOMAIN p :
         LET rows == p[u].methods IN Len(rows) \in Nat /\ rows = [m \in 1 .. Len(rows) |-> rows[m]]

VARIABLES
  prog,     \* the program
  phase,    \* "heights", "types", "link", "run" or "done"
  at,       \* the method being verified: <<unit, method>>
  heights,  \* the height pass: stack height per instruction, Unset before
  types,    \* the type pass: stack types per block start, <<>> before
  pending,  \* the instructions or block starts to visit, a stack
  walk,     \* the block being walked: <<>> or <<[start, pc, stack]>>
  shapes,   \* history: the stack types the passes accepted, per method and pc
  frames, stack, locals, heap, fuel,   \* the interpreter
  err       \* the error verification, linking or execution ended with

vars == <<prog, phase, at, heights, types, pending, walk, shapes,
          frames, stack, locals, heap, fuel, err>>
verifier == <<at, heights, types, pending, walk, shapes>>
machine == <<frames, stack, locals, heap, fuel>>

Unset == -1

(***************************************************************************)
(* Types.  Every one is a tuple, so that any two compare.  A class is the  *)
(* token of a TypeDef or of a TypeRef, in the tables of the unit at hand.  *)
(***************************************************************************)
Int32 == <<"int">>
Null == <<"null">>
Object == <<"any">>                 \* System.Object
Array(kind) == <<"array", kind>>    \* of "b"ytes or of "i"nts
Class(t) == <<"def", t>>
Imported(r) == <<"import", r>>
IsClass(t) == t[1] \in {"def", "import"}

IsReference(t) == t # Int32

Compatible_AnyReference(actual, expected) ==
  actual = expected \/ (IsReference(actual) /\ IsReference(expected))

\* A reference of any class is accepted as an Object; an array is not.
Compatible(actual, expected) ==
  \/ actual = expected
  \/ actual = Null /\ IsReference(expected)
  \/ IsClass(actual) /\ expected = Object

Default(t) == IF t = Int32 THEN <<"int", 0>> ELSE <<"ref", 0>>

(***************************************************************************)
(* Metadata                                                                *)
(***************************************************************************)
Units == DOMAIN prog
MethodOf(u, m) == prog[u].methods[m]
Code(u, m) == MethodOf(u, m).code
AllMethods == UNION {{<<u, m>> : m \in DOMAIN prog[u].methods} : u \in Units}

\* A type's lists run from its start to the start of the next type's.
ListEnd(u, t, list) ==
  IF t < Len(prog[u].types) THEN prog[u].types[t + 1][list]
  ELSE (IF list = "fields" THEN prog[u].fields ELSE Len(prog[u].methods)) + 1
Listed(u, list, row) ==
  {t \in DOMAIN prog[u].types : prog[u].types[t][list] <= row /\ row < ListEnd(u, t, list)}
HasOwner(u, list, row) == Listed(u, list, row) # {}
Owner(u, list, row) == CHOOSE t \in Listed(u, list, row) : \A s \in Listed(u, list, row) : t <= s

FieldCount(u, t) == ListEnd(u, t, "fields") - prog[u].types[t].fields
FieldSlot(u, f) == f - prog[u].types[Owner(u, "fields", f)].fields + 1

\* The stack types a method takes, top first, and gives.
MethodTypes(u, m) ==
  [recv |-> IF MethodOf(u, m).this THEN <<Class(Owner(u, "methods", m))>> ELSE <<>>,
   params |-> MethodOf(u, m).params, result |-> MethodOf(u, m).result]
Parent(u, x) == prog[u].refs[prog[u].members[x].owner]
MemberTypes(u, x) ==
  LET member == prog[u].members[x]
      class == IF Parent(u, x).name = "Object" THEN Object ELSE Imported(member.owner) IN
  [recv |-> IF member.this THEN <<class>> ELSE <<>>, params |-> member.params, result |-> member.result]

IsCall(i) == i[1] \in {"call", "callvirt", "newobj"}
Callee(u, i) == IF i[2] = "def" THEN MethodTypes(u, i[3]) ELSE MemberTypes(u, i[3])
Branches(i) == CASE i[1] \in {"br", "brtrue", "beq", "blt"} -> <<i[2]>>
                 [] i[1] = "switch" -> i[2]
                 [] OTHER -> <<>>

Arguments(u, m) == MethodTypes(u, m).recv \o MethodTypes(u, m).params

\* The tables a unit must have.
HasTables(u) == prog[u].types # <<>> /\ prog[u].methods # <<>>

\* Every list of a type starts at a row, or just after the last one.
ListsStart(u) ==
  \A t \in DOMAIN prog[u].types :
    /\ prog[u].types[t].fields \in 1 .. prog[u].fields + 1
    /\ prog[u].types[t].methods \in 1 .. Len(prog[u].methods) + 1

\* A method has a body and a declared stack; a receiver needs an owner.
HasBody(u, m) ==
  /\ MethodOf(u, m).this => HasOwner(u, "methods", m)
  /\ Code(u, m) # <<>> /\ MethodOf(u, m).max \in 1 .. MaxStack

\* Tokens name rows and branches go to instructions.
HasTargets(u, body) ==
  \A pc \in DOMAIN body :
    LET i == body[pc] IN
    /\ Range(Branches(i)) \subseteq DOMAIN body
    /\ IsCall(i) => i[3] \in IF i[2] = "def" THEN DOMAIN prog[u].methods
                             ELSE DOMAIN prog[u].members
    /\ i[1] \in {"ldfld", "stfld"} => i[2] \in 1 .. prog[u].fields

\* The classes of a signature, and the parent of a member, are rows.
Signature(x) == Range(x.params) \cup Range(x.result)
HasRows(u) ==
  /\ \A t \in UNION {Signature(x) : x \in Range(prog[u].methods) \cup Range(prog[u].members)} :
       IsClass(t) => t[2] \in DOMAIN (IF t[1] = "def" THEN prog[u].types ELSE prog[u].refs)
  /\ \A x \in DOMAIN prog[u].members : prog[u].members[x].owner \in DOMAIN prog[u].refs

WellFormed(u) ==
  /\ HasTables(u) /\ ListsStart(u) /\ HasRows(u)
  /\ \A m \in DOMAIN prog[u].methods : HasBody(u, m) /\ HasTargets(u, Code(u, m))

(***************************************************************************)
(* The height pass                                                         *)
(***************************************************************************)
Pops(u, m, i) ==
  CASE i[1] \in {"pop", "dup", "stloc", "brtrue", "switch", "conv", "newarr", "ldlen", "ldfld"} -> 1
    [] i[1] \in {"beq", "blt", "add", "ceq", "stfld", "ldelem"} -> 2
    [] i[1] = "stelem" -> 3
    [] i[1] = "ret" -> Len(MethodOf(u, m).result)
    [] i[1] = "newobj" -> Len(Callee(u, i).params)
    [] IsCall(i) -> Len(Callee(u, i).params) + Len(Callee(u, i).recv)
    [] OTHER -> 0
Pushes(u, i) ==
  CASE i[1] \in {"ldarg", "ldloc", "ldnull", "ldc", "add", "conv", "ceq", "newarr", "ldlen",
                 "ldelem", "ldfld", "newobj"} -> 1
    [] i[1] = "dup" -> 2
    [] IsCall(i) -> Len(Callee(u, i).result)
    [] OTHER -> 0

FallsThrough(i) == i[1] \notin {"ret", "br"}
Successors(i, pc) ==
  FoldLeft(LAMBDA found, t : IF t \in Range(found) THEN found ELSE Append(found, t), <<>>,
           Branches(i) \o (IF FallsThrough(i) THEN <<pc + 1>> ELSE <<>>))

\* ldarg, ldloc and stloc name a variable the method has.
HasVariable(u, m, i) ==
  /\ i[1] = "ldarg" => i[2] <= Len(Arguments(u, m))
  /\ i[1] \in {"ldloc", "stloc"} => i[2] <= Len(MethodOf(u, m).locals)

Ended(e) == phase' = "done" /\ err' = e

\* Verification of the next method starts, or of nothing more.
StartMethod(um) ==
  /\ at' = um
  /\ heights' = [pc \in DOMAIN Code(um[1], um[2]) |-> IF pc = 1 THEN 0 ELSE Unset]
  /\ pending' = <<1>>
  /\ types' = <<>> /\ walk' = <<>>

\* Every way into an instruction has the same height.
Joins(i, pc, next) == \A t \in Range(Successors(i, pc)) : heights[t] \in {Unset, next}

HeightStep ==
  LET u == at[1]  m == at[2]  body == Code(u, m)  pc == Last(pending)  i == body[pc]
      next == heights[pc] - Pops(u, m, i) + Pushes(u, i)
      fresh == SelectSeq(Successors(i, pc), LAMBDA t : heights[t] = Unset) IN
  /\ phase = "heights" /\ pending # <<>>
  /\ IF \/ ~HasVariable(u, m, i) \/ heights[pc] < Pops(u, m, i) \/ next > MethodOf(u, m).max
        \/ FallsThrough(i) /\ pc = Len(body)
        \/ i[1] = "ret" /\ next # 0
        \/ ~Joins(i, pc, next)
     THEN Ended("Rejected") /\ UNCHANGED verifier
     ELSE /\ heights' = [t \in DOMAIN body |-> IF t \in Range(fresh) THEN next ELSE heights[t]]
          /\ pending' = Front(pending) \o fresh
          /\ UNCHANGED <<phase, err, at, types, walk, shapes>>
  /\ UNCHANGED <<prog, machine>>

HeightsDone ==
  /\ phase = "heights" /\ pending = <<>>
  /\ phase' = "types" /\ pending' = <<1>>
  /\ types' = [pc \in DOMAIN heights |-> IF pc = 1 THEN <<<<>>>> ELSE <<>>]
  /\ UNCHANGED <<prog, at, heights, walk, shapes, machine, err>>

(***************************************************************************)
(* The type pass walks one block at a time.  A branch records the types it *)
(* brings to its target; a recorded null becomes the reference it meets.   *)
(***************************************************************************)
Top == <<"top">>          \* expectation: anything
Condition == <<"cond">>   \* an int or a reference
Elements == <<"elements">>

Accepts(actual, expected) ==
  CASE expected = Top -> TRUE
    [] expected = Condition -> actual = Int32 \/ IsReference(actual)
    [] expected = Elements -> actual[1] = "array"
    [] OTHER -> Compatible(actual, expected)

FieldOwner(u, f) == Class(Owner(u, "fields", f))

\* What an instruction expects, top of the stack first.
Expects(u, m, i) ==
  CASE i[1] = "stloc" -> <<MethodOf(u, m).locals[i[2]]>>
    [] i[1] \in {"pop", "dup"} -> <<Top>>
    [] i[1] = "brtrue" -> <<Condition>>
    [] i[1] \in {"beq", "ceq"} -> <<Top, Top>>
    [] i[1] \in {"blt", "add"} -> <<Int32, Int32>>
    [] i[1] \in {"switch", "conv", "newarr"} -> <<Int32>>
    [] i[1] = "ret" -> MethodOf(u, m).result
    [] i[1] = "newobj" -> Reverse(Callee(u, i).params)
    [] IsCall(i) -> Reverse(Callee(u, i).params) \o Callee(u, i).recv
    [] i[1] = "ldfld" -> <<FieldOwner(u, i[2])>>
    [] i[1] = "stfld" -> <<Int32, FieldOwner(u, i[2])>>
    [] i[1] = "ldlen" -> <<Elements>>
    [] i[1] = "ldelem" -> <<Int32, Array(i[2])>>
    [] i[1] = "stelem" -> <<Int32, Int32, Array(i[2])>>
    [] OTHER -> <<>>

\* What it leaves, when the types taken were `taken`.
Leaves(u, m, i, taken) ==
  CASE i[1] = "ldarg" -> <<Arguments(u, m)[i[2]]>>
    [] i[1] = "ldloc" -> <<MethodOf(u, m).locals[i[2]]>>
    [] i[1] = "ldnull" -> <<Null>>
    [] i[1] \in {"ldc", "add", "conv", "ceq", "ldfld", "ldlen", "ldelem"} -> <<Int32>>
    [] i[1] = "dup" -> <<taken[1], taken[1]>>
    [] i[1] = "newarr" -> <<Array(i[2])>>
    [] i[1] = "newobj" -> Callee(u, i).recv
    [] IsCall(i) -> Callee(u, i).result
    [] OTHER -> <<>>

\* The top n of s, top first.
Taken(s, n) == Reverse(SubSeq(s, Len(s) - n + 1, Len(s)))
Below(s, n) == SubSeq(s, 1, Len(s) - n)

TypeChecks(u, m, i, s) ==
  LET wanted == Expects(u, m, i)  n == Len(wanted) IN
  /\ i[1] \in {"ldfld", "stfld"} => HasOwner(u, "fields", i[2])
  /\ n <= Len(s)
  /\ \A k \in 1 .. n : Accepts(Taken(s, n)[k], wanted[k])
  /\ i[1] \in {"beq", "ceq"} =>
       LET both == Taken(s, 2) IN Compatible(both[1], both[2]) \/ Compatible(both[2], both[1])
  /\ i[1] = "newobj" => Callee(u, i).recv # <<>>
  /\ i[1] = "ret" => Len(s) = n
AfterTypes(u, m, i, s) ==
  LET n == Len(Expects(u, m, i)) IN Below(s, n) \o Leaves(u, m, i, Taken(s, n))

Mergeable(stored, incoming) ==
  /\ Len(stored) = Len(incoming)
  /\ \A k \in DOMAIN stored : \/ stored[k] = incoming[k]
                              \/ stored[k] = Null /\ IsReference(incoming[k])
                              \/ incoming[k] = Null /\ IsReference(stored[k])
Merged_First(stored, incoming) == stored
Merged(stored, incoming) ==
  [k \in DOMAIN stored |-> IF stored[k] = Null THEN incoming[k] ELSE stored[k]]

Changed_Always(stored, new) == TRUE

\* A block whose recorded types change is visited again.
Changed(stored, new) == stored # new

\* One incoming edge; `acc` carries the tables and whether all edges merged.
MergeTypes(acc, t, s) ==
  IF ~acc.ok THEN acc
  ELSE IF acc.types[t] = <<>>
       THEN [ok |-> Cardinality({p \in DOMAIN acc.types : acc.types[p] # <<>>}) < MaxStates,
             types |-> [acc.types EXCEPT ![t] = <<s>>], pending |-> Append(acc.pending, t)]
       ELSE IF ~Mergeable(acc.types[t][1], s) THEN [acc EXCEPT !.ok = FALSE]
            ELSE LET new == Merged(acc.types[t][1], s) IN
                 [acc EXCEPT !.types[t] = <<new>>,
                             !.pending = IF Changed(acc.types[t][1], new) THEN Append(@, t) ELSE @]
MergeAll(targets, s) ==
  FoldLeft(LAMBDA acc, t : MergeTypes(acc, t, s), [ok |-> TRUE, types |-> types, pending |-> pending],
           targets)

WalkBegin ==
  /\ phase = "types" /\ walk = <<>> /\ pending # <<>>
  /\ walk' = <<[start |-> Last(pending), pc |-> Last(pending), stack |-> types[Last(pending)][1]]>>
  /\ pending' = Front(pending)
  /\ UNCHANGED <<prog, phase, at, heights, types, shapes, machine, err>>

\* The walk arrives at a recorded block start, or types one instruction.
WalkStep ==
  LET u == at[1]  m == at[2]  w == walk[1]  i == Code(u, m)[w.pc]
      joining == w.pc # w.start /\ types[w.pc] # <<>>
      after == AfterTypes(u, m, i, w.stack)
      merge == IF joining THEN MergeAll(<<w.pc>>, w.stack) ELSE MergeAll(Branches(i), after) IN
  /\ phase = "types" /\ walk # <<>>
  /\ IF (~joining /\ ~TypeChecks(u, m, i, w.stack)) \/ ~merge.ok
     THEN Ended("Rejected") /\ UNCHANGED verifier
     ELSE /\ types' = merge.types /\ pending' = merge.pending
          /\ walk' = IF joining \/ ~FallsThrough(i) THEN <<>>
                     ELSE <<[w EXCEPT !.pc = @ + 1, !.stack = after]>>
          /\ shapes' = IF joining THEN shapes ELSE [shapes EXCEPT ![at][w.pc] = @ \cup {w.stack}]
          /\ UNCHANGED <<phase, err, at, heights>>
  /\ UNCHANGED <<prog, machine>>

NextMethod(um) == IF um[2] < Len(prog[um[1]].methods) THEN <<um[1], um[2] + 1>> ELSE <<um[1] + 1, 1>>

\* The last method of a unit is followed by the unit's own call graph.
LocalEdges(u) ==
  {e \in (DOMAIN prog[u].methods) \X (DOMAIN prog[u].methods) :
     \E i \in Range(Code(u, e[1])) : IsCall(i) /\ i[2] = "def" /\ i[3] = e[2]}

\* No recursion, and no chain of calls longer than MaxFrames.
Bounded(nodes, edges) ==
  LET callers[k \in 0 .. MaxFrames] ==   \* the methods that begin a chain of k calls
        IF k = 0 THEN nodes ELSE {e[1] : e \in {d \in edges : d[2] \in callers[k - 1]}}
  IN callers[MaxFrames] = {}

TypesDone ==
  /\ phase = "types" /\ walk = <<>> /\ pending = <<>>
  /\ LET last == at[2] = Len(prog[at[1]].methods)  next == NextMethod(at) IN
     IF last /\ ~Bounded(DOMAIN prog[at[1]].methods, LocalEdges(at[1]))
     THEN Ended("Rejected") /\ UNCHANGED verifier
     ELSE IF next[1] \in Units
          THEN StartMethod(next) /\ phase' = "heights" /\ UNCHANGED <<err, shapes>>
          ELSE phase' = "link" /\ UNCHANGED <<verifier, err>>
  /\ UNCHANGED <<prog, machine>>

(***************************************************************************)
(* Linking.  A member reference binds to the framework member whose shape  *)
(* it has, or to the one visible method of a provider that has its names   *)
(* and types; `to` is what its names say.  Types of different assemblies   *)
(* are compared by name.  All services with the handle Opaque(2) are one.  *)
(***************************************************************************)
FrameworkType(name) == <<"framework", name>>
Entry(owner, this, params, result) ==
  [owner |-> owner, this |-> this, params |-> params, result |-> result]
Framework(to) ==
  CASE to = <<"current">> -> Entry("Context", FALSE, <<>>, <<FrameworkType("Context")>>)
    [] to = <<"accessor">> -> Entry("Context", TRUE, <<>>, <<FrameworkType("Service")>>)
    [] to = <<"ctor">> -> Entry("Object", TRUE, <<>>, <<>>)
    [] to = <<"native", 5>> -> Entry("Service", TRUE, <<>>, <<Int32>>)
    [] to = <<"native", 6>> -> Entry("Service", TRUE, <<Int32, Int32>>, <<>>)
    [] to = <<"native", 23>> -> Entry("Service", TRUE, <<Int32>>, <<FrameworkType("KeyHandle")>>)
    [] to = <<"native", 35>> -> Entry("KeyHandle", TRUE, <<>>, <<Array("b")>>)

\* The type reference's scope is not looked at.
AbiType(u, actual, expected) ==
  IF expected[1] = "framework"
  THEN actual[1] = "import" /\ prog[u].refs[actual[2]].name = expected[2]
  ELSE actual = expected
AbiTypes(u, actual, expected) ==
  Len(actual) = Len(expected) /\ \A k \in DOMAIN expected : AbiType(u, actual[k], expected[k])

\* The name of a class, and of the assembly that defines it.
Named(u, t) ==
  IF t[1] = "def" THEN [name |-> prog[u].types[t[2]].name, scope |-> prog[u].name]
  ELSE prog[u].refs[t[2]]
SameType(u, s, v, t) ==
  IF IsClass(s) /\ IsClass(t) THEN Named(u, s) = Named(v, t) ELSE s = t
SameTypes(u, ss, v, ts) ==
  Len(ss) = Len(ts) /\ \A k \in DOMAIN ss : SameType(u, ss[k], v, ts[k])
SameMethodTypes(u, s, v, t) ==
  /\ SameTypes(u, s.recv, v, t.recv)
  /\ SameTypes(u, s.params, v, t.params)
  /\ SameTypes(u, s.result, v, t.result)

MemberUses(u) ==
  {<<i[3], i[1]>> : i \in {j \in UNION {Range(Code(u, m)) : m \in DOMAIN prog[u].methods} :
                             IsCall(j) /\ j[2] = "ref"}}

BindsFramework(u, x) ==
  LET member == prog[u].members[x]  entry == Framework(member.to) IN
  /\ Parent(u, x) = [name |-> entry.owner,
                     scope |-> IF member.to = <<"ctor">> THEN "system" ELSE "framework"]
  /\ member.this = entry.this
  /\ AbiTypes(u, member.params, entry.params) /\ AbiTypes(u, member.result, entry.result)

\* The methods of unit v that the names and types of the member fit.
Candidates(u, x, v) ==
  {m \in DOMAIN prog[v].methods :
     /\ MethodOf(v, m).visible
     /\ prog[v].types[Owner(v, "methods", m)].name = Parent(u, x).name
     /\ MethodOf(v, m).name = prog[u].members[x].name
     /\ SameMethodTypes(u, MemberTypes(u, x), v, MethodTypes(v, m))}
BindsProvider(u, x, opcode) ==
  LET to == prog[u].members[x].to  scope == Parent(u, x).scope IN
  /\ opcode # "newobj"
  /\ scope \notin {"framework", "system"}
  /\ {v \in prog[u].bound : prog[v].name = scope} = {to[2]} /\ to[2] \in Units
  /\ \A m \in DOMAIN prog[to[2]].methods : HasOwner(to[2], "methods", m)
  /\ Candidates(u, x, to[2]) = {to[3]} /\ to[3] \in DOMAIN prog[to[2]].methods

Binds(u, x, opcode) ==
  IF prog[u].members[x].to[1] = "lib" THEN BindsProvider(u, x, opcode) ELSE BindsFramework(u, x)

\* The calls of the whole program: within a unit, and to the bound methods.
Invokes(a, b) ==
  \E i \in Range(Code(a[1], a[2])) :
    /\ IsCall(i)
    /\ IF i[2] = "def" THEN b = <<a[1], i[3]>>
       ELSE LET to == prog[a[1]].members[i[3]].to IN to[1] = "lib" /\ b = <<to[2], to[3]>>
Edges == {e \in AllMethods \X AllMethods : Invokes(e[1], e[2])}
Irreversible ==
  {a \in AllMethods : \E i \in Range(Code(a[1], a[2])) :
     IsCall(i) /\ i[2] = "ref" /\ prog[a[1]].members[i[3]].to = <<"native", 6>>}
Transactional == {a \in AllMethods : MethodOf(a[1], a[2]).tx}

Effects_Direct == Transactional \cap Irreversible = {}

\* No transactional method reaches an irreversible effect.
Effects ==
  \E free \in SUBSET AllMethods :
    /\ Transactional \subseteq free /\ free \cap Irreversible = {}
    /\ \A e \in Edges : e[1] \in free => e[2] \in free

Linkable ==
  /\ \A u \in Units : LET uses == MemberUses(u) IN
       /\ \A a, b \in uses : a[1] = b[1] => a = b
       /\ \A a \in uses : Binds(u, a[1], a[2])
  /\ Bounded(AllMethods, Edges)
  /\ Effects

\* The entry takes nothing and returns nothing (validate_lifecycle).
IsLifecycle(u, m) == ~MethodOf(u, m).this /\ MethodOf(u, m).params = <<>>
                       /\ MethodOf(u, m).result = <<>>

(***************************************************************************)
(* The interpreter.  A value is <<kind, word>>: an int, a reference (the   *)
(* number of an object, 0 is null), or an opaque framework object.         *)
(***************************************************************************)
NewFrame(u, m, base) ==
  [unit |-> u, method |-> m, pc |-> 1, arg |-> base,
   eval |-> base + Len(Arguments(u, m)), ret |-> base,
   lbase |-> Len(locals), lcount |-> Len(MethodOf(u, m).locals)]
Zeroed(u, m) == [k \in DOMAIN MethodOf(u, m).locals |-> Default(MethodOf(u, m).locals[k])]

Link ==
  /\ phase = "link"
  /\ IF Linkable /\ IsLifecycle(1, 1)
     THEN /\ phase' = "run"
          /\ frames' = <<NewFrame(1, 1, 0)>> /\ locals' = Zeroed(1, 1)
          /\ UNCHANGED <<stack, heap, fuel, err>>
     ELSE Ended("Rejected") /\ UNCHANGED machine
  /\ UNCHANGED <<prog, verifier>>

Top1 == Last(frames)
\* The fetch refuses to read past the end of a body.
Fetched == Top1.pc \in DOMAIN Code(Top1.unit, Top1.method)
Instr == Code(Top1.unit, Top1.method)[Top1.pc]
Floor == Top1.eval
Running(ops) == phase = "run" /\ fuel > 0 /\ Fetched /\ Instr[1] \in ops

Moved(pc) == [frames EXCEPT ![Len(frames)].pc = pc]

\* An instruction ends: its pushes are on the stack before the quota is looked at.
Finish(s) ==
  /\ stack' = s /\ fuel' = fuel - 1
  /\ IF Len(s) > MaxStack THEN Ended("Quota") ELSE UNCHANGED <<phase, err>>
Fault(e) == Ended(e) /\ UNCHANGED machine

Wrap(n) == ((n + Half) % (2 * Half)) - Half
IsInt(v) == v[1] = "int"
Truth(v) == v[1] = "op" \/ v[2] # 0

\* An object of the kind, or the error that looking it up ends with.
Lookup(v, kinds) ==
  IF v[1] # "ref" THEN "Format"
  ELSE IF v[2] \notin DOMAIN heap THEN "Bounds"
  ELSE IF heap[v[2]].kind \notin kinds THEN "Format" ELSE "ok"
Indexed(v, kinds, index) ==
  IF Lookup(v, kinds) # "ok" THEN Lookup(v, kinds)
  ELSE IF index \notin DOMAIN heap[v[2]].data THEN "Bounds" ELSE "ok"

Size(h) == FoldLeft(LAMBDA n, o : n + Len(o.data), 0, h)
Fits(n) == Len(heap) < MaxObjects /\ Size(heap) + n <= MaxCells
Allocated(kind, u, t, n) ==
  Append(heap, [kind |-> kind, unit |-> u, type |-> t, data |-> [k \in 1 .. n |-> 0]])

\* Instructions over the operand stack: what they push and the heap they
\* leave, or an error.  a is what was popped, top first.
Good(push, h) == [err |-> "ok", push |-> push, heap |-> h]
Bad(e) == [err |-> e, push |-> <<>>, heap |-> heap]
WithInts(a, ks, good) == IF \A k \in ks : IsInt(a[k]) THEN good ELSE Bad("Format")

Variable(i) ==
  IF i[1] = "ldarg" THEN stack[Top1.arg + i[2]] ELSE locals[Top1.lbase + i[2]]

FieldAt(v, f) ==
  LET found == Lookup(v, {"s"})  u == Top1.unit IN
  IF found # "ok" THEN found
  ELSE IF heap[v[2]].unit # u \/ heap[v[2]].type # Owner(u, "fields", f) THEN "Format"
  ELSE IF FieldSlot(u, f) \notin DOMAIN heap[v[2]].data THEN "Bounds" ELSE "ok"

Loads(i) ==
  CASE i[1] \in {"ldarg", "ldloc"} -> Good(<<Variable(i)>>, heap)
    [] i[1] = "ldnull" -> Good(<<<<"ref", 0>>>>, heap)
    [] i[1] = "ldc" -> Good(<<<<"int", i[2]>>>>, heap)

\* add, with and without the overflow check.
Arithmetic(i, a) ==
  WithInts(a, 1 .. 2,
    LET sum == a[2][2] + a[1][2] IN
    IF i[2] /\ sum # Wrap(sum) THEN Bad("Arithmetic") ELSE Good(<<<<"int", Wrap(sum)>>>>, heap))
\* A checked conversion to an unsigned type.
Conversion(a) ==
  WithInts(a, {1}, IF a[1][2] < 0 THEN Bad("Arithmetic") ELSE Good(<<a[1]>>, heap))
Comparison(a) == Good(<<<<"int", IF a[1] = a[2] THEN 1 ELSE 0>>>>, heap)

NewArray(i, a) ==
  WithInts(a, {1},
    IF a[1][2] < 0 THEN Bad("Bounds") ELSE IF ~Fits(a[1][2]) THEN Bad("Quota")
    ELSE Good(<<<<"ref", Len(heap) + 1>>>>, Allocated(i[2], 0, 0, a[1][2])))
ArrayLength(a) ==
  LET found == Lookup(a[1], {"b", "i"}) IN
  IF found # "ok" THEN Bad(found) ELSE Good(<<<<"int", Len(heap[a[1][2]].data)>>>>, heap)
ArrayGet(i, a) ==
  WithInts(a, {1},
    LET found == Indexed(a[2], {i[2]}, a[1][2] + 1) IN
    IF found # "ok" THEN Bad(found) ELSE Good(<<<<"int", heap[a[2][2]].data[a[1][2] + 1]>>>>, heap))
ArraySet(i, a) ==
  WithInts(a, 1 .. 2,
    LET found == Indexed(a[3], {i[2]}, a[2][2] + 1) IN
    IF found # "ok" THEN Bad(found)
    ELSE Good(<<>>, [heap EXCEPT ![a[3][2]].data[a[2][2] + 1] =
                                   IF i[2] = "b" THEN a[1][2] % Half ELSE a[1][2]]))

FieldGet(i, a) ==
  LET found == FieldAt(a[1], i[2]) IN
  IF found # "ok" THEN Bad(found)
  ELSE Good(<<<<"int", heap[a[1][2]].data[FieldSlot(Top1.unit, i[2])]>>>>, heap)
FieldSet(i, a) ==
  LET found == FieldAt(a[2], i[2]) IN
  IF found # "ok" THEN Bad(found)
  ELSE WithInts(a, {1},
         Good(<<>>, [heap EXCEPT ![a[2][2]].data[FieldSlot(Top1.unit, i[2])] = a[1][2]]))

Outcome(i, a) ==
  CASE i[1] = "dup" -> Good(<<a[1], a[1]>>, heap)
    [] i[1] = "pop" -> Good(<<>>, heap)
    [] i[1] = "add" -> Arithmetic(i, a)
    [] i[1] = "conv" -> Conversion(a)
    [] i[1] = "ceq" -> Comparison(a)
    [] i[1] = "newarr" -> NewArray(i, a)
    [] i[1] = "ldlen" -> ArrayLength(a)
    [] i[1] = "ldelem" -> ArrayGet(i, a)
    [] i[1] = "stelem" -> ArraySet(i, a)
    [] i[1] = "ldfld" -> FieldGet(i, a)
    [] i[1] = "stfld" -> FieldSet(i, a)
    [] OTHER -> Loads(i)

Popped(i) ==
  CASE i[1] \in {"dup", "pop", "conv", "newarr", "ldlen", "ldfld"} -> 1
    [] i[1] \in {"add", "ceq", "ldelem", "stfld"} -> 2
    [] i[1] = "stelem" -> 3
    [] OTHER -> 0

Operate ==
  /\ Running({"ldarg", "ldloc", "ldnull", "ldc", "dup", "pop", "add", "conv", "ceq", "newarr",
              "ldlen", "ldelem", "stelem", "ldfld", "stfld"})
  /\ LET n == Popped(Instr)
         least == IF Instr[1] = "dup" THEN 0 ELSE Floor   \* dup reads the last slot as it is
     IN IF Len(stack) - n < least THEN Fault("Stack")
        ELSE LET out == Outcome(Instr, Taken(stack, n)) IN
             IF out.err # "ok" THEN Fault(out.err)
             ELSE /\ frames' = Moved(Top1.pc + 1) /\ heap' = out.heap
                  /\ Finish(Below(stack, n) \o out.push) /\ UNCHANGED locals
  /\ UNCHANGED <<prog, verifier>>

StoreLocal ==
  /\ Running({"stloc"})
  /\ IF Len(stack) <= Floor THEN Fault("Stack")
     ELSE /\ locals' = [locals EXCEPT ![Top1.lbase + Instr[2]] = Last(stack)]
          /\ frames' = Moved(Top1.pc + 1) /\ Finish(Front(stack)) /\ UNCHANGED heap
  /\ UNCHANGED <<prog, verifier>>

\* A switch index outside the table falls through.
Target(i, a) ==
  CASE i[1] = "br" -> i[2]
    [] i[1] = "brtrue" -> IF Truth(a[1]) THEN i[2] ELSE Top1.pc + 1
    [] i[1] = "beq" -> IF a[1] = a[2] THEN i[2] ELSE Top1.pc + 1
    [] i[1] = "blt" -> IF a[2][2] < a[1][2] THEN i[2] ELSE Top1.pc + 1
    [] i[1] = "switch" -> IF a[1][2] + 1 \in DOMAIN i[2] THEN i[2][a[1][2] + 1] ELSE Top1.pc + 1

Branch ==
  /\ Running({"br", "brtrue", "beq", "blt", "switch"})
  /\ LET n == CASE Instr[1] = "br" -> 0 [] Instr[1] \in {"brtrue", "switch"} -> 1 [] OTHER -> 2
         a == Taken(stack, n)
     IN IF Len(stack) - n < Floor THEN Fault("Stack")
        ELSE IF Instr[1] \in {"blt", "switch"} /\ ~\A k \in 1 .. n : IsInt(a[k]) THEN Fault("Format")
        ELSE frames' = Moved(Target(Instr, a)) /\ Finish(Below(stack, n)) /\ UNCHANGED <<locals, heap>>
  /\ UNCHANGED <<prog, verifier>>

\* A call enters method m of unit u over the arguments from base.
Enters(u, m, base, s) ==
  /\ frames' = Append(Moved(Top1.pc + 1), NewFrame(u, m, base))
  /\ locals' = locals \o Zeroed(u, m)
  /\ Finish(s)

CallLocal ==
  /\ Running({"call", "callvirt"}) /\ Instr[2] = "def"
  /\ LET u == Top1.unit  m == Instr[3]  base == Len(stack) - Len(Arguments(u, m)) IN
     IF (Instr[1] = "callvirt") # MethodOf(u, m).this THEN Fault("Format")
     ELSE IF base < 0 THEN Fault("Stack")
     ELSE IF base < Floor \/ Len(frames) >= MaxFrames THEN Fault("Quota")
     ELSE Enters(u, m, base, stack) /\ UNCHANGED heap
  /\ UNCHANGED <<prog, verifier>>

\* The object goes under the arguments twice: as `this`, and to stay.
NewObj ==
  /\ Running({"newobj"})
  /\ IF Instr[2] # "def" THEN Fault("Unsupported")
     ELSE LET u == Top1.unit  m == Instr[3]  t == Owner(u, "methods", m)
              base == Len(stack) - Len(MethodOf(u, m).params)  object == <<"ref", Len(heap) + 1>> IN
          IF ~MethodOf(u, m).this \/ MethodOf(u, m).result # <<>> THEN Fault("Format")
          ELSE IF base < 0 THEN Fault("Stack")
          ELSE IF base < Floor \/ Len(frames) >= MaxFrames THEN Fault("Quota")
          ELSE IF FieldCount(u, t) < 0 THEN Fault("Format")
          ELSE IF ~Fits(FieldCount(u, t)) THEN Fault("Quota")
          ELSE /\ heap' = Allocated("s", u, t, FieldCount(u, t))
               /\ Enters(u, m, base + 1, SubSeq(stack, 1, base) \o <<object, object>>
                                           \o SubSeq(stack, base + 1, Len(stack)))
  /\ UNCHANGED <<prog, verifier>>

\* The handles of the context and of the services; a key handle is a byte array.
Context == <<"op", 1>>
Keys == <<"op", 2>>

\* Results a framework member may give: what it pushes and how many bytes it
\* allocates, or its error for the arguments it is given.
Pushed(vs) == [err |-> "ok", push |-> vs, new |-> 0]
Refused(e) == [err |-> e, push |-> <<>>, new |-> 0]
NewBytes == IF Fits(1) THEN [err |-> "ok", push |-> <<<<"ref", Len(heap) + 1>>>>, new |-> 1]
            ELSE Refused("Quota")
OnKeys(a, results) == IF a[1] = Keys THEN results ELSE {Refused("Unauthorized")}
Results(to, a) ==
  CASE to = <<"current">> -> {Pushed(<<Context>>)}
    [] to = <<"accessor">> -> IF a = <<Context>> THEN {Pushed(<<Keys>>)} ELSE {Refused("Format")}
    [] to = <<"ctor">> -> {Pushed(<<>>)}
    [] to = <<"native", 5>> -> OnKeys(a, {Pushed(<<<<"int", 0>>>>), Pushed(<<<<"int", 1>>>>)})
    [] to = <<"native", 6>> -> OnKeys(a, {Pushed(<<>>)})
    [] to = <<"native", 23>> -> OnKeys(a, {NewBytes})
    [] to = <<"native", 35>> ->
         LET found == Lookup(a[1], {"b"}) IN {IF found = "ok" THEN NewBytes ELSE Refused(found)}

\* A bound call.  These paths end their loop iteration before the quota on
\* the evaluation stack is looked at.  A native may fail in its service.
CallBound ==
  /\ Running({"call", "callvirt"}) /\ Instr[2] = "ref"
  /\ LET member == prog[Top1.unit].members[Instr[3]]
         base == Len(stack) - Pops(Top1.unit, Top1.method, Instr) IN
     IF base < Floor THEN Fault("Stack")
     ELSE IF member.to[1] = "lib"
     THEN IF Len(frames) >= MaxFrames THEN Fault("Quota")
          ELSE /\ frames' = Append(Moved(Top1.pc + 1), NewFrame(member.to[2], member.to[3], base))
               /\ locals' = locals \o Zeroed(member.to[2], member.to[3])
               /\ fuel' = fuel - 1 /\ UNCHANGED <<stack, heap, phase, err>>
     ELSE \/ \E r \in Results(member.to, SubSeq(stack, base + 1, Len(stack))) :
               IF r.err # "ok" THEN Fault(r.err)
               ELSE /\ stack' = SubSeq(stack, 1, base) \o r.push
                    /\ heap' = IF r.new > 0 THEN Allocated("b", 0, 0, r.new) ELSE heap
                    /\ frames' = Moved(Top1.pc + 1) /\ fuel' = fuel - 1
                    /\ UNCHANGED <<locals, phase, err>>
          \/ member.to[1] = "native" /\ Fault("Native")
  /\ UNCHANGED <<prog, verifier>>

Return ==
  /\ Running({"ret"})
  /\ LET n == Len(MethodOf(Top1.unit, Top1.method).result)
         left == SubSeq(stack, 1, Top1.ret) \o Taken(stack, n) IN
     IF Len(stack) - n # Floor THEN Fault("Stack")
     ELSE /\ frames' = Front(frames) /\ locals' = SubSeq(locals, 1, Top1.lbase)
          /\ IF Len(frames) = 1 THEN stack' = left /\ fuel' = fuel - 1 /\ Ended("ok") ELSE Finish(left)
          /\ UNCHANGED heap
  /\ UNCHANGED <<prog, verifier>>

NoInstruction ==
  /\ phase = "run" /\ ~(fuel > 0 /\ Fetched)
  /\ Fault(IF fuel = 0 THEN "Budget" ELSE "Bounds") /\ UNCHANGED <<prog, verifier>>
\* The transport's cancellation is polled every 64 instructions.
Cancel == phase = "run" /\ Fault("Cancelled") /\ UNCHANGED <<prog, verifier>>

Init ==
  /\ prog \in Programs
  /\ at = <<1, 1>>
  /\ heights = [pc \in DOMAIN Code(1, 1) |-> IF pc = 1 THEN 0 ELSE Unset]
  /\ types = <<>> /\ pending = <<1>> /\ walk = <<>>
  /\ shapes = [um \in AllMethods |-> [pc \in DOMAIN Code(um[1], um[2]) |-> {}]]
  /\ frames = <<>> /\ stack = <<>> /\ locals = <<>> /\ heap = <<>> /\ fuel = MaxFuel
  /\ IF \A u \in Units : WellFormed(u)
     THEN phase = "heights" /\ err = "none" ELSE phase = "done" /\ err = "Rejected"

Next ==
  \/ HeightStep \/ HeightsDone \/ WalkBegin \/ WalkStep \/ TypesDone \/ Link
  \/ Operate \/ StoreLocal \/ Branch \/ CallLocal \/ NewObj \/ CallBound \/ Return
  \/ NoInstruction \/ Cancel

Spec == Init /\ [][Next]_vars
FairSpec == Spec /\ WF_vars(Next)

(***************************************************************************)
(* Properties                                                              *)
(***************************************************************************)
\* A runtime value is of class t of unit u exactly, or by the name that the
\* linker compares: an object of a class with the same name in an assembly of
\* the same name, or a framework object, whatever the scope.
IsInstance(v, u, t) ==
  v[1] = "ref" /\ v[2] # 0 /\ heap[v[2]].kind = "s" /\ heap[v[2]].unit = u /\ Class(heap[v[2]].type) = t
GoesBy(v, u, t) ==
  CASE v[1] = "op" -> Named(u, t).name = (IF v = Context THEN "Context" ELSE "Service")
    [] heap[v[2]].kind = "s" -> Named(heap[v[2]].unit, Class(heap[v[2]].type)) = Named(u, t)
    [] OTHER -> heap[v[2]].kind = "b" /\ Named(u, t).name = "KeyHandle"
HasType(v, u, t) ==
  CASE t = Int32 -> IsInt(v)
    [] t = Null -> v = <<"ref", 0>>
    [] t = Object -> v[1] = "op" \/ (v[1] = "ref" /\ v[2] \in 0 .. Len(heap))
    [] t[1] = "array" -> v[1] = "ref" /\ (v[2] = 0 \/ heap[v[2]].kind = t[2])
    [] OTHER -> ~IsInt(v) /\ (v = <<"ref", 0>> \/ GoesBy(v, u, t))
HaveTypes(vs, u, ts) == Len(vs) = Len(ts) /\ \A k \in DOMAIN ts : HasType(vs[k], u, ts[k])

\* The tables of the verifier and the frames, locals and evaluation stack of
\* the interpreter fit each other: frames nest, and each has its own locals.
TypeOK ==
  /\ phase \in {"heights", "types", "link", "run", "done"}
  /\ \A k \in DOMAIN frames :
       LET f == frames[k] IN
       /\ <<f.unit, f.method>> \in AllMethods /\ f.pc \in 1 .. Len(Code(f.unit, f.method)) + 1
       /\ f.ret = f.arg /\ f.arg <= f.eval /\ f.eval <= Len(stack)
       /\ f.lbase + f.lcount = IF k < Len(frames) THEN frames[k + 1].lbase ELSE Len(locals)
       /\ k > 1 => frames[k - 1].eval <= f.arg
  /\ \A k \in DOMAIN heap : \A w \in Range(heap[k].data) : w \in -Half .. Half - 1

\* assembly/validation.rs against mc04_vm.rs: whenever an instruction of a
\* verified program runs, its arguments, its locals and its evaluation stack
\* hold values of the types that the verifier gave them at that instruction,
\* and the frames below nest without sharing locals (TypeOK).  A class is
\* only kept by name: the linker compares assembly, version and type name
\* (same_stack_type), and for framework types the type name alone (reference
\* in mc04_imports.rs), so a method verified for its own class can be given
\* an object of a namesake.
StackMatchesVerifier ==
  /\ TypeOK
  /\ phase = "run" =>
       LET f == Top1 IN
       /\ HaveTypes(SubSeq(stack, f.arg + 1, f.eval), f.unit, Arguments(f.unit, f.method))
       /\ HaveTypes(SubSeq(locals, f.lbase + 1, Len(locals)), f.unit, MethodOf(f.unit, f.method).locals)
       /\ \E s \in shapes[<<f.unit, f.method>>][f.pc] :
            HaveTypes(SubSeq(stack, f.eval + 1, Len(stack)), f.unit, s)

\* The receiver of the current instruction is no object of the class the
\* verifier saw, but goes by its name.
Namesake(depth, t) ==
  LET v == stack[Len(stack) - depth] IN
  ~IsInt(v) /\ v # <<"ref", 0>> /\ ~IsInstance(v, Top1.unit, t) /\ GoesBy(v, Top1.unit, t)

\* The interpreter re-checks every operand.  For a verified program its stack
\* and type errors come only from the forms that the verifier and the linker
\* admit and the interpreter refuses: an instance method of the unit under
\* `call` (or a static one under `callvirt`), a constructor token that is no
\* constructor or whose type's field list runs backwards, a field of a
\* namesake's object, and a framework accessor or key operation whose
\* receiver is null or a unit's own object under the framework's name.
OnlyCallFormsFault ==
  phase = "done" /\ err \in {"Stack", "Format"} =>
    \/ Instr[1] = "call" /\ Instr[2] = "def" /\ MethodOf(Top1.unit, Instr[3]).this
    \/ Instr[1] = "callvirt" /\ Instr[2] = "def" /\ ~MethodOf(Top1.unit, Instr[3]).this
    \/ /\ Instr[1] = "newobj"
       /\ \/ MethodOf(Top1.unit, Instr[3]).result # <<>>
          \/ FieldCount(Top1.unit, Owner(Top1.unit, "methods", Instr[3])) < 0
    \/ Instr[1] = "ldfld" /\ Namesake(0, FieldOwner(Top1.unit, Instr[2]))
    \/ Instr[1] = "stfld" /\ Namesake(1, FieldOwner(Top1.unit, Instr[2]))
    \/ /\ IsCall(Instr) /\ Instr[2] = "ref"
       /\ LET to == prog[Top1.unit].members[Instr[3]].to  v == Last(stack) IN
          \/ to = <<"accessor">> /\ v = <<"ref", 0>>
          \/ /\ to \in {<<"accessor">>, <<"native", 35>>}
             /\ v[1] = "ref" /\ v[2] # 0 /\ heap[v[2]].kind = "s"

\* validate_program_graph: hardware is never written under a frame of a
\* transactional method, however many units the calls between them cross.
IrreversibleOutsideTransaction ==
  phase = "run" /\ Fetched /\ IsCall(Instr) /\ Instr[2] = "ref"
      /\ prog[Top1.unit].members[Instr[3]].to = <<"native", 6>>
    => \A k \in DOMAIN frames : ~MethodOf(frames[k].unit, frames[k].method).tx

\* Verification ends, though a loop may send it back to a block, and so does
\* the execution of every verified program.
Terminates == <>(phase = "done")

=============================================================================
