--------------------------- MODULE MCFlashWriter ---------------------------
(***************************************************************************)
(* The instance of FlashWriter that TLC checks: two sectors of two words,  *)
(* so a blob may cover a sector or half of one, begin in one and end in    *)
(* the other.                                                              *)
(***************************************************************************)
EXTENDS FlashWriter

TwoSectors == {0, 1}
OneDatum   == {2}
SomeBlobs  == {{0, 1, 2}, {1}}
AllFamilies == {"small", "wide", "h41"}
=============================================================================
