---------------------------- MODULE DurableCell ----------------------------
(***************************************************************************)
(* What the authenticated journal promises to its callers (the domain      *)
(* manager, the JCVM registry and the JCVM heap session): one durable      *)
(* cell.  A write is announced, and from then until it is resolved the     *)
(* stored value is either the previous value or the announced one.  It     *)
(* changes at one instant, it is never lost afterwards, and versions only  *)
(* grow.                                                                   *)
(***************************************************************************)
EXTENDS Integers

CONSTANTS Values, NoValue

VARIABLES stored,    \* [version, value] a power cut at this instant leaves
          pending    \* the value a writer has announced, or NoValue

cellVars == <<stored, pending>>

Empty == [version |-> 0, value |-> NoValue]

CellInit == stored = Empty /\ pending = NoValue

\* A writer announces a value; nothing durable has happened yet.
Announce(v) ==
  /\ pending = NoValue
  /\ pending' = v
  /\ UNCHANGED stored

\* The announced value becomes durable, all of it, in one step.
Publish ==
  /\ pending # NoValue
  /\ stored' = [version |-> stored.version + 1, value |-> pending]
  /\ pending' = NoValue

\* A power cut or an I/O error before publication drops the announcement.
Abandon ==
  /\ pending # NoValue
  /\ pending' = NoValue
  /\ UNCHANGED stored

CellNext == (\E v \in Values : Announce(v)) \/ Publish \/ Abandon

CellSpec == CellInit /\ [][CellNext]_cellVars
=============================================================================
