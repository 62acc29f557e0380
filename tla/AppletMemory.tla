---------------------------- MODULE AppletMemory ----------------------------
(***************************************************************************)
(* What the JCVM engine promises an applet about its persistent fields     *)
(* (applet.rs, vm/heap.rs, host.rs): writes outside a transaction become   *)
(* durable together at a checkpoint, a transaction is all or nothing, and  *)
(* the few unconditional writes (PIN tries, non-atomic fills) outlive an   *)
(* abort without carrying any conditional write with them.                 *)
(***************************************************************************)

CONSTANTS Fields, Values

VARIABLES live,     \* what the applet reads
          shadow,   \* live with the open transaction undone
          saved,    \* what a power cut leaves
          status    \* "ok", "tx" (transaction open) or "failed" (must recover)

memoryVars == <<live, shadow, saved, status>>
States == [Fields -> Values]

MemoryInit ==
  /\ live \in States /\ shadow = live /\ saved = live
  /\ status = "ok"

\* Conditional writes: an open transaction keeps them out of the shadow.
Update ==
  /\ status # "failed"
  /\ live' \in States
  /\ shadow' = IF status = "tx" THEN shadow ELSE live'
  /\ UNCHANGED <<saved, status>>

\* An unconditional write reaches the live state and the shadow.
Force(f, v) ==
  /\ status # "failed"
  /\ live' = [live EXCEPT ![f] = v]
  /\ shadow' = [shadow EXCEPT ![f] = v]
  /\ UNCHANGED <<saved, status>>

Begin == status = "ok" /\ status' = "tx" /\ UNCHANGED <<live, shadow, saved>>

Commit ==
  /\ status = "tx"
  /\ shadow' = live /\ saved' = live
  /\ status' = "ok" /\ UNCHANGED live

Abort == status = "tx" /\ live' = shadow /\ status' = "ok" /\ UNCHANGED <<shadow, saved>>

\* A checkpoint publishes the shadow, never a part of it.
Checkpoint == status # "failed" /\ saved' = shadow /\ UNCHANGED <<live, shadow, status>>

\* A failed checkpoint or commit leaves the old or the new state.
Fail ==
  /\ status # "failed"
  /\ saved' \in {saved, shadow, live}
  /\ status' = "failed" /\ UNCHANGED <<live, shadow>>

Recover == live' = saved /\ shadow' = saved /\ status' = "ok" /\ UNCHANGED saved

MemoryNext ==
  \/ Update \/ Begin \/ Commit \/ Abort \/ Checkpoint \/ Fail \/ Recover
  \/ \E f \in Fields, v \in Values : Force(f, v)

MemorySpec == MemoryInit /\ [][MemoryNext]_memoryVars
=============================================================================
