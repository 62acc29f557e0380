---------------------------- MODULE MCJcvmApplet ----------------------------
(* Instance of JcvmApplet for TLC: the applets whose code it explores.     *)
EXTENDS JcvmApplet

\* One applet works on arrays, one on its PIN, three delete objects, the last
\* of them with arrays of both kinds, so that one takes the place of another,
\* and one allocates in deselect().
Applets == { {"array", "static", "reference", "bytes", "transaction", "OwnerPIN"},
             {"pin", "update", "transaction", "override"} \cup Pins,
             {"reference", "bytes", "delete", "array", "transient", "OwnerPINx"},
             {"reference", "reset", "delete", "array", "OwnerPINxWithPredecrement"},
             {"bytes", "reset", "delete", "array", "OwnerPIN"},
             {"bytes", "reference", "transaction", "override", "OwnerPIN"} }
=============================================================================
