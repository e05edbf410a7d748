----------------------------- MODULE FlashArray -----------------------------
(***************************************************************************)
(* What minichlink's flash functions promise their callers, without a      *)
(* flash controller, pages to merge or remembered erases.                  *)
(*   - A write puts its words in place and an erase blanks its sectors;    *)
(*     nothing else changes.                                               *)
(*   - One that failed, or in which a failure went unnoticed (op.lost),    *)
(*     touches no sector but its own, even if the controller is still at   *)
(*     it when the function returns (open) - unless the address itself     *)
(*     was lost ("addr"), or the chip can only be erased whole ("chip").   *)
(*   - A write whose only unnoticed failure is the reading of the sector   *)
(*     ("read") still puts its own words in place.                         *)
(***************************************************************************)
EXTENDS Integers

CONSTANTS
    Sectors,    \* numbers of the sectors
    Size,       \* words of a sector
    Values,     \* contents of a word
    Blank       \* an erased word

VARIABLES array, open, op

vars == <<array, open, op>>

(* Word w of sector s is cell s * Size + w. *)
Cells == {s * Size + w : s \in Sectors, w \in 0..Size - 1}
SectorOf(c) == c \div Size
Touched(o) == IF o.lost \cap {"addr", "chip"} # {} THEN Sectors
              ELSE {SectorOf(c) : c \in o.cells}

(* Only cells of the sectors S change. *)
OnlyIn(S) == \A c \in Cells : array'[c] # array[c] => SectorOf(c) \in S

Init ==
    /\ array \in [Cells -> Values] /\ open = {}
    /\ op = [kind |-> "none", cells |-> {}, val |-> Blank, done |-> TRUE, lost |-> {}]

(* The operation o ends. *)
Operate(o) ==
    /\ o.kind \in {"write", "erase", "chip"}
    /\ OnlyIn(Touched(o)) /\ open' \subseteq open \cup Touched(o)
    /\ o.done /\ o.lost \subseteq {"read"} => \A c \in o.cells : array'[c] = o.val
    /\ o.done /\ o.lost = {} =>
          \A c \in Cells \ o.cells : array'[c] = array[c]

(* The controller ends an operation nobody waited for. *)
Late == op' = op /\ OnlyIn(open) /\ open' = {}

(* The program on the chip has run and may have written to flash. *)
Run == op'.kind = "run"

Next == array' \in [Cells -> Values] /\ (Operate(op') \/ Late \/ Run)

Spec == Init /\ [][Next]_vars
=============================================================================
