--------------------------- MODULE MCBoardRuntime ---------------------------
(* TLC instance of BoardRuntime: the endpoint's reply takes two blocks, the *)
(* last of which fills its packet; a faulted card's is one short block.     *)
EXTENDS BoardRuntime

SomeReplies == {<<2, TRUE>>}
=============================================================================
