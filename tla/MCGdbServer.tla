---------------------------- MODULE MCGdbServer ----------------------------
(***************************************************************************)
(* The instance of GdbServer that TLC checks: a loop of two instructions,  *)
(* the second an ebreak of the program's own, breakpoints at both, and a   *)
(* table with one place.                                                   *)
(***************************************************************************)
EXTENDS GdbServer

TwoAddrs   == {0, 1}
LastBreak  == {1}
OneSlot    == {0}
=============================================================================
