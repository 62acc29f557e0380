----------------------------- MODULE MCJournal -----------------------------
(* TLC instances of Journal: values are interchangeable. *)
EXTENDS JournalInvariant, TLC

ValueSymmetry == Permutations(Values)
=============================================================================
