--------------------------- MODULE MCDebugPrintf ---------------------------
(***************************************************************************)
(* The instances of DebugPrintf that TLC checks.  Eight bytes are a chunk  *)
(* of seven and a chunk of one, eleven a chunk of seven and one of four,   *)
(* the shortest that needs DMDATA1, five a chunk that leaves some of it    *)
(* unused; 0 is the call of _write that only looks for input.  The stray   *)
(* words: one that says it is the target's turn and announces more bytes   *)
(* than a host's word may have, and one that says it is the host's, with a *)
(* count the two sides read differently (63 - 4 for the target, 15 - 4 for *)
(* the host).                                                              *)
(***************************************************************************)
EXTENDS DebugPrintf

EmptyAndTwoChunks == {0, 8}
EmptyAndEleven    == {0, 11}
Five              == {5}
None              == {}
StrayWords == {Word(FALSE, FALSE, 12, NoBytes), Word(TRUE, FALSE, 63, NoBytes)}
=============================================================================
