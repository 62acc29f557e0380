----------------------------- MODULE MCJcvmCard -----------------------------
(* The board's instance of JcvmCard: two heap banks (board jcvm.rs).       *)
EXTENDS JcvmCard

BoardBanks == {0, 1}
=============================================================================
