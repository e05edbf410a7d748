--------------------------- MODULE MCMemoryAccess ---------------------------
(***************************************************************************)
(* The instances of MemoryAccess that TLC checks: a word of RAM, a word of *)
(* flash after it, a hole, and the two registers.  The current area ends   *)
(* after the hole (it is another one), so a read of the first word         *)
(* prefetches the second and a read of the second runs into the hole.  A   *)
(* program's x10 may point to the RAM word, in the runs that end early past *)
(* the registers too.                                                       *)
(***************************************************************************)
EXTENDS MemoryAccess

OneRam    == {0}
OneFlash  == {1}
TwoValues == {0, 1}
One       == {1}
PastHole  == {3}
RamOrOut  == {0, 5}
=============================================================================
