------------------------------ MODULE MCMc04Vm ------------------------------
(***************************************************************************)
(* Programs of two assemblies for Mc04Vm.  The library has a length        *)
(* method, one that writes hardware, and two classes with the name of the  *)
(* framework's context; the application has an entry whose body the suites *)
(* enumerate, a class with a constructor and a method.                     *)
(***************************************************************************)
EXTENDS Mc04Vm

Ret == <<"ret">>
Method(name, this, params, result, locs, max, tx, code) ==
  [name |-> name, this |-> this, params |-> params, result |-> result, locals |-> locs, max |-> max,
   tx |-> tx, visible |-> TRUE, code |-> code]
Member(to, owner, this, params, result) ==
  [to |-> to, name |-> to[1], owner |-> owner, this |-> this, params |-> params, result |-> result]
Provided(m, name, this, owner, params, result) ==
  [to |-> <<"lib", 2, m>>, name |-> name, owner |-> owner, this |-> this, params |-> params,
   result |-> result]
TypeRef(name, scope) == [name |-> name, scope |-> scope]

\* Rows 1 to 4 of either unit's type references.
FrameworkRefs == <<TypeRef("Context", "framework"), TypeRef("Service", "framework"),
                   TypeRef("KeyHandle", "framework"), TypeRef("Object", "system")>>

\* Types 2 and 3 go by the name of the framework's context.
Library ==
  [name |-> "lib", bound |-> {}, refs |-> FrameworkRefs,
   types |-> <<[name |-> "Lib", fields |-> 1, methods |-> 1],
               [name |-> "Context", fields |-> 1, methods |-> 6],
               [name |-> "Context", fields |-> 2, methods |-> 8]>>, fields |-> 2,
   methods |-> <<Method("length", FALSE, <<Array("b")>>, <<Int32>>, <<>>, 1, FALSE,
                        <<<<"ldarg", 1>>, <<"ldlen">>, Ret>>),
                 Method("write", FALSE, <<>>, <<>>, <<>>, 4, FALSE,
                        <<<<"call", "ref", 1>>, <<"callvirt", "ref", 2>>, <<"ldc", 0>>, <<"ldc", 1>>,
                          <<"callvirt", "ref", 3>>, Ret>>),
                 Method("make", FALSE, <<>>, <<Class(3)>>, <<>>, 1, FALSE,
                        <<<<"newobj", "def", 8>>, Ret>>),
                 Method("services", FALSE, <<Imported(1)>>, <<Imported(2)>>, <<>>, 1, FALSE,
                        <<<<"ldarg", 1>>, <<"callvirt", "ref", 2>>, Ret>>),
                 Method("export", FALSE, <<Imported(3)>>, <<Array("b")>>, <<>>, 1, FALSE,
                        <<<<"ldarg", 1>>, <<"callvirt", "ref", 4>>, Ret>>),
                 Method("field", FALSE, <<Class(2)>>, <<Int32>>, <<>>, 1, FALSE,
                        <<<<"ldarg", 1>>, <<"ldfld", 1>>, Ret>>),
                 Method("set", TRUE, <<>>, <<Int32>>, <<>>, 2, FALSE,
                        <<<<"ldarg", 1>>, <<"ldc", 1>>, <<"stfld", 1>>, <<"ldc", 0>>, Ret>>),
                 Method(".ctor", TRUE, <<>>, <<>>, <<>>, 1, FALSE, <<Ret>>)>>,
   members |-> <<Member(<<"current">>, 1, FALSE, <<>>, <<Imported(1)>>),
                 Member(<<"accessor">>, 1, TRUE, <<>>, <<Imported(2)>>),
                 Member(<<"native", 6>>, 2, TRUE, <<Int32, Int32>>, <<>>),
                 Member(<<"native", 35>>, 3, TRUE, <<>>, <<Array("b")>>)>>]

\* Type 2 is the class; its lists start at field 1 and method 2.  Rows 5 and 6
\* are the library's types; member 8 takes its result for the library's.
Thing == Class(2)
EntryLocals == <<Int32, Array("b"), Thing, Object>>
Unit(name, class, entry, tx, fieldsAt, method) ==
  [name |-> name, bound |-> {2},
   refs |-> FrameworkRefs \o <<TypeRef("Lib", "lib"), TypeRef("Context", "lib")>>,
   types |-> <<[name |-> "App", fields |-> 1, methods |-> 1],
               [name |-> class, fields |-> fieldsAt, methods |-> 2]>>,
   fields |-> 1,
   methods |-> <<Method("entry", FALSE, <<>>, <<>>, EntryLocals, 3, tx, entry),
                 Method(".ctor", TRUE, <<Int32>>, <<>>, <<>>, 2, FALSE,
                        <<<<"ldarg", 1>>, <<"ldarg", 2>>, <<"stfld", 1>>, <<"ldarg", 1>>,
                          <<"call", "ref", 1>>, Ret>>),
                 Method("method", TRUE, <<>>, <<Int32>>, <<Int32>>, 3, FALSE, method)>>,
   members |-> <<Member(<<"ctor">>, 4, TRUE, <<>>, <<>>),
                 Member(<<"current">>, 1, FALSE, <<>>, <<Imported(1)>>),
                 Member(<<"accessor">>, 1, TRUE, <<>>, <<Imported(2)>>),
                 Member(<<"native", 5>>, 2, TRUE, <<>>, <<Int32>>),
                 Member(<<"native", 35>>, 3, TRUE, <<>>, <<Array("b")>>),
                 Provided(1, "length", FALSE, 5, <<Array("b")>>, <<Int32>>),
                 Provided(2, "write", FALSE, 5, <<>>, <<>>),
                 Member(<<"current">>, 1, FALSE, <<>>, <<Imported(6)>>),
                 Member(<<"native", 23>>, 2, TRUE, <<Int32>>, <<Imported(3)>>),
                 Provided(3, "make", FALSE, 5, <<>>, <<Imported(6)>>),
                 Provided(6, "field", FALSE, 6, <<Imported(6)>>, <<Int32>>),
                 Provided(7, "set", TRUE, 6, <<>>, <<Int32>>),
                 Provided(4, "services", FALSE, 5, <<IF class = "Context" THEN Thing ELSE Imported(1)>>,
                          <<Imported(2)>>),
                 Provided(5, "export", FALSE, 5, <<IF class = "KeyHandle" THEN Thing ELSE Imported(3)>>,
                          <<Array("b")>>)>>]
Application(entry, tx, fieldsAt, method) == Unit("app", "Thing", entry, tx, fieldsAt, method)
Plain == <<<<"ldarg", 1>>, <<"ldfld", 1>>, Ret>>

Make == <<<<"ldc", 1>>, <<"newobj", "def", 2>>>>
Sequences2(S) == {<<a, b>> : a \in S, b \in S}
Sequences3(S) == {<<a, b, c>> : a \in S, b \in S, c \in S}

\* Two ways into position 7: null, the object, an array, an int.
Diamonds ==
  LET ways == {<<"ldnull">>, <<"ldloc", 3>>, <<"ldloc", 2>>, <<"ldloc", 4>>, <<"ldloc", 1>>} IN
  {Make \o <<<<"stloc", l>>, <<"ldc", c>>, <<"brtrue", 8>>, x, <<"br", 9>>, y, z, w, Ret>> :
     c \in {0, 1}, l \in {3, 4}, x \in ways, y \in ways, z \in {<<"dup">>, <<"ldc", 0>>},
     w \in {<<"ceq">>, <<"beq", 11>>, <<"stfld", 1>>, <<"blt", 1>>}}
  \cup
  {Make \o <<<<"stloc", 3>>, <<"ldc", c>>, <<"brtrue", 8>>, x, <<"br", 9>>, y, z, w, Ret>> :
     c \in {0, 1}, x \in ways, y \in ways,
     z \in {<<"ldlen">>, <<"ldfld", 1>>, <<"stloc", 4>>, <<"callvirt", "def", 3>>, <<"pop">>},
     w \in {<<"stloc", 1>>, <<"pop">>, <<"ldc", 0>>}}

\* A loop over a stack slot that starts as null.
Loops ==
  LET body == {<<"pop">>, <<"ldloc", 3>>, <<"ldloc", 2>>, <<"brtrue", 2>>, <<"br", 2>>, <<"dup">>,
               <<"ldnull">>, <<"ldc", 0>>, <<"ldlen">>} IN
  {<<<<"ldnull">>>> \o b \o <<<<"brtrue", 2>>, Ret>> : b \in Sequences3(body)}
  \cup {<<<<"ldnull">>>> \o b \o <<<<"pop">>, Ret>> : b \in Sequences3(body)}
  \cup {<<<<"ldnull">>>> \o b \o <<<<"brtrue", 2>>, <<"pop">>, Ret>> : b \in Sequences3(body)}
  \cup {<<<<"ldnull">>, <<"pop">>, <<"ldloc", 3>>, <<"ldloc", 1>>, <<"brtrue", 2>>, <<"pop">>, <<"ldnull">>,
          <<"ldloc", 1>>, <<"brtrue", 2>>, <<"pop">>, Ret>>}
  \cup {<<<<"ldc", 1>>, <<"switch", <<4, 1>>>>, <<"br", 5>>, <<"pop">>, Ret>>,
        <<<<"ldc", -1>>, <<"switch", <<1, 4>>>>, Ret, <<"br", 3>>>>,
        <<<<"ldc", 1>>, <<"switch", <<4, 4>>>>, <<"br", 5>>, <<"br", 3>>, Ret>>}

\* Arrays, services and calls.
Calls ==
  LET ops == {<<"ldc", 1>>, <<"newarr", "b">>, <<"ldlen">>, <<"call", "ref", 6>>, <<"call", "ref", 2>>,
              <<"callvirt", "ref", 3>>, <<"callvirt", "ref", 4>>, <<"call", "ref", 13>>, <<"ldnull">>,
              <<"newobj", "def", 2>>, <<"callvirt", "def", 3>>, <<"call", "def", 3>>, <<"stloc", 4>>} IN
  {b \o <<<<"pop">>, Ret>> : b \in Sequences3(ops)}
  \cup {<<<<"ldc", 1>>, <<"newarr", "b">>, <<"ldc", i>>, <<"ldc", 1>>, <<"stelem", "b">>, Ret>> : i \in {0, 1}}
  \cup {<<<<"ldc", 1>>, <<"newarr", k>>, <<"ldc", 0>>, <<"ldelem", k>>, <<"conv">>, <<"stloc", 1>>, Ret>> :
          k \in {"b", "i"}}
  \cup {<<<<"ldc", 1>>, <<"ldc", v>>, <<"add", c>>, <<"newarr", "i">>, <<"pop">>, Ret>> :
          v \in {0, 1, -2}, c \in BOOLEAN}
  \cup {<<<<"ldc", 1>>, <<"ldc", 1>>, <<"newobj", "def", 2>>, <<"pop">>, <<"pop">>, Ret>>,
        <<<<"ldc", 1>>, <<"ldc", 1>>, <<"ldc", 1>>, <<"newarr", "b">>, <<"call", "ref", 6>>, <<"pop">>, <<"pop">>,
          <<"pop">>, Ret>>}

\* The application's own call graph, transactions and type lists.
Linked ==
  {<<Application(<<<<"ldc", 1>>, <<"newobj", "def", 2>>, <<"callvirt", "def", 3>>, <<"stloc", 1>>, Ret>>, tx, 1, m), Library>> :
     tx \in BOOLEAN,
     m \in {Plain, <<<<"call", "ref", 7>>, <<"ldc", 0>>, Ret>>,
            <<<<"ldarg", 1>>, <<"callvirt", "def", 3>>, Ret>>,
            <<<<"ldc", 0>>, <<"newobj", "def", 2>>, <<"ldfld", 1>>, Ret>>,
            <<<<"ldnull">>, <<"ldfld", 1>>, Ret>>,
            <<<<"ldnull">>, <<"call", "ref", 6>>, Ret>>,
            <<<<"ldarg", 1>>, <<"ldc", 1>>, <<"stfld", 1>>, <<"call", "def", 1>>, <<"ldc", 0>>, Ret>>}}
  \cup {<<Application(Make \o <<<<"pop">>, Ret>>, FALSE, f, Plain), Library>> : f \in {1, 2, 3}}
  \cup {<<Application(<<<<"call", "ref", 7>>, Ret>>, tx, 1, Plain), Library>> : tx \in BOOLEAN}

\* Classes across units: the library is given a context, a service, objects of
\* either of its own classes or null; key handles; and an application that is
\* itself named after the framework.
Namesakes ==
  {<<Application(<<x, y, <<"pop">>, Ret>>, FALSE, 1, Plain), Library>> :
     x \in {<<"call", "ref", 2>>, <<"call", "ref", 8>>, <<"call", "ref", 10>>, <<"ldnull">>},
     y \in {<<"call", "ref", 11>>, <<"callvirt", "ref", 12>>, <<"callvirt", "ref", 5>>}}
  \cup
  {<<Application(<<<<"call", "ref", 2>>, <<"callvirt", "ref", 3>>, <<"ldc", 0>>, <<"callvirt", "ref", 9>>,
                   y, <<"pop">>, Ret>>, FALSE, 1, Plain), Library>> :
     y \in {<<"callvirt", "ref", 5>>, <<"call", "ref", 14>>, <<"ldlen">>, <<"dup">>}}
  \cup
  {<<Unit("framework", class, Make \o <<y, <<"pop">>, Ret>>, FALSE, 1, Plain), Library>> :
     class \in {"Context", "KeyHandle", "Thing"}, y \in {<<"call", "ref", 13>>, <<"call", "ref", 14>>}}

AllPrograms ==
  Namesakes \cup
  {<<Application(entry, FALSE, 1, Plain), Library>> : entry \in Diamonds \cup Loops \cup Calls} \cup Linked
=============================================================================
