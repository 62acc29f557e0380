------------------------------ MODULE MCJcvmVm ------------------------------
(***************************************************************************)
(* Packages for JcvmVm: four small applets and all that differ from one of *)
(* them in one byte of code, with the try blocks a converter lays out.     *)
(***************************************************************************)
EXTENDS JcvmVm, TLC

Native(static, token, takes, gives, raises) ==
  [tag |-> "native", static |-> static, token |-> token, takes |-> takes, gives |-> gives,
   raises |-> raises]

Package(bytes, handlers, table, inherited, m1) ==
  [bytes |-> bytes, handlers |-> handlers, int |-> TRUE, install |-> 0, applet |-> "A", first |-> "B",
   statics |-> <<Zero>>,
   pool |-> <<[tag |-> "class", class |-> "A"], [tag |-> "static", method |-> m1],
              [tag |-> "class", class |-> "X"], [tag |-> "field", class |-> "A", token |-> 0],
              [tag |-> "field", class |-> "A", token |-> 1],
              [tag |-> "virtual", class |-> "A", token |-> 8],
              Native(TRUE, 1, <<FALSE>>, <<>>, {"ISOException"}),
              Native(FALSE, 8, <<TRUE>>, <<TRUE>>, {}),
              [tag |-> "class", class |-> "I"], [tag |-> "staticField", slot |-> 1],
              [tag |-> "super", class |-> "A", token |-> 8],
              [tag |-> "class", class |-> "CardRuntimeException"],
              [tag |-> "class", class |-> "CardException"]>>,
   classes |-> "B" :> [super |-> "Applet", words |-> 0, table |-> inherited, interfaces |-> <<>>]
            @@ "A" :> [super |-> "B", words |-> 2, table |-> table, interfaces |-> "I" :> <<9>>]
            @@ "X" :> [super |-> "UserException", words |-> 0, table |-> 0 :> NoMethod,
                       interfaces |-> <<>>],
   api |-> <<>>,
   supers |-> [c \in {"Applet", "APDU", "Object", "ArithmeticException", "NullPointerException",
                      "ArrayIndexOutOfBoundsException", "NegativeArraySizeException",
                      "ClassCastException", "ArrayStoreException", "SecurityException",
                      "SystemException", "TransactionException", "ISOException",
                      "CardRuntimeException", "CardException", "UserException"} |->
                 CASE c \in {"ISOException", "SystemException", "TransactionException"} ->
                        {"Object", "CardRuntimeException"}
                   [] c = "UserException" -> {"Object", "CardException"}
                   [] OTHER -> {"Object"}]]

Calls ==
  Package(<<0, 48, 122, 3, 33, 24, 16, 5, 141, 0, 1, 45, 26, 102, 4, 26, 147, 122, 45, 112, 249, 59,
            122, 2, 32, 29, 99, 4, 24, 119, 143, 0, 2, 147, 1, 16, 24, 103, 255, 122>>,
          <<[start |-> 5, length |-> 7, target |-> 18, catch |-> 2, stop |-> FALSE], [start |-> 5, length |-> 12, target |-> 21, catch |-> 0, stop |-> TRUE]>>,
          7 :> 3 @@ 4 :> 34, 9 :> NoMethod, 23)

Objects ==
  Package(<<0, 48, 122, 4, 34, 25, 139, 0, 7, 45, 24, 26, 135, 3, 24, 4, 63, 18, 137, 4, 144, 11,
            61, 146, 48, 89, 1, 3, 46, 27, 3, 29, 56, 173, 3, 148, 0, 0, 0, 24, 64, 17, 104, 5,
            27, 181, 3, 175, 4, 59, 122, 127, 0, 9, 123, 0, 9, 147>>,
          <<[start |-> 10, length |-> 4, target |-> 51, catch |-> 0, stop |-> TRUE]>>,
          7 :> 3, 9 :> NoMethod, 0)

Dispatch ==
  Package(<<1, 48, 24, 141, 0, 1, 122, 3, 32, 24, 25, 102, 6, 25, 139, 0, 5, 4, 92, 116, 0, 15,
            0, 0, 0, 0, 0, 0, 0, 1, 0, 15, 0, 22, 24, 142, 1, 0, 8, 0, 120, 122, 147, 3,
            32, 24, 61, 25, 140, 0, 10, 139, 0, 5, 122, 59, 122, 1, 16, 3, 117, 0, 9, 0, 1, 0,
            7, 0, 9, 120, 1, 16, 145, 0, 0, 122, 1, 32, 3, 141, 0, 6, 122>>,
          <<[start |-> 14, length |-> 3, target |-> 42, catch |-> 11, stop |-> TRUE], [start |-> 51, length |-> 3, target |-> 55, catch |-> 11, stop |-> TRUE]>>,
          7 :> 7 @@ 8 :> 43 @@ 9 :> 57, 8 :> 76, 70)

Arrays ==
  Package(<<4, 48, 10, 94, 145, 0, 0, 61, 3, 24, 55, 122, 4, 34, 10, 53, 90, 2, 1, 34, 34, 72,
            94, 145, 0, 0, 61, 3, 24, 55, 3, 36, 149, 0, 0, 8, 96, 5, 168, 255, 232, 122, 2, 16,
            24, 149, 11, 0, 0, 120>>,
          <<>>,
          7 :> 12 @@ 6 :> 42, 9 :> NoMethod, 0)

Bytes == {0, 1, 3, 4, 24, 30, 59, 61, 7}
Variants(p) ==
  {p} \cup {[p EXCEPT !.bytes[i] = b] : i \in DOMAIN p.bytes, b \in Bytes}
\* X extends UserException, which extends CardException: legal, and passed over.
CatchesAbove == [Calls EXCEPT !.handlers[1].catch = 12]
SomePackages ==
  {p \in {CatchesAbove} \cup UNION {Variants(q) : q \in {Calls, Objects, Dispatch, Arrays}} : Converted(p)}
=============================================================================
