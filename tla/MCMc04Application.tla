------------------------- MODULE MCMc04Application -------------------------
(* Instances of Mc04Application for TLC: what each application's code does. *)
EXTENDS Mc04Application, TLC
CONSTANTS d1, d2

Natives == (d1 :> {"store", "tx", "pin", "puk"}) @@ (d2 :> {"create", "output"})
=============================================================================
