---------------------------- MODULE FlashWriter ----------------------------
(***************************************************************************)
(* How minichlink's generic functions erase and write flash: unlock the    *)
(* controller, then for every sector of the blob merge what the blob does  *)
(* not cover, erase it unless flash_sector_status says it is erased, load  *)
(* the page buffer, start the page program and wait.  Most of the register *)
(* writes and waits on the way are not checked, so a transaction the link  *)
(* loses goes unnoticed; the model keeps account of those in lost.         *)
(*                                                                         *)
(* A step is one call into the programmer's interface, or a run of calls   *)
(* with nothing of interest between them.  The tool is sequential; beside  *)
(* it act the flash controller, which ends an operation when it likes, and *)
(* the program on the chip whenever the hart runs.                         *)
(***************************************************************************)
EXTENDS Integers, FiniteSets

CONSTANTS
    Sectors,    \* numbers of the sectors
    Size,       \* words of a sector
    Blank,      \* an erased word
    Old,        \* a word of the program that is on the chip
    Junk,       \* a word programmed twice, or never read
    Data,       \* words the tool writes
    Blobs,      \* sets of cells a blob covers
    Families,   \* "small" (V003, X035), "wide" (V20x, V30x), "h41"
    MaxPolls,   \* bound: polls of a wait (1000 in the code)
    MaxOps,     \* bound: operations of the tool
    MaxFaults   \* bound: protected sectors and transactions the link loses

Words  == 0..Size - 1
Cells  == {s * Size + w : s \in Sectors, w \in Words}
Values == Data \cup {Blank, Old, Junk}
SectorOf(c) == c \div Size
First == CHOOSE s \in Sectors : \A t \in Sectors : s <= t
Blanked == [c \in Cells |-> Blank]

ASSUME FlashAssumption ==
    /\ IsFiniteSet(Sectors) /\ Sectors # {} /\ Sectors \subseteq Nat /\ Size \in Nat \ {0}
    /\ Blank # Junk /\ Old \notin {Blank, Junk} /\ {Blank, Junk} \cap Data = {}
    /\ Blobs \subseteq SUBSET Cells
    /\ Families \subseteq {"small", "wide", "h41"}
    /\ MaxPolls \in Nat /\ MaxOps \in Nat /\ MaxFaults \in Nat

VARIABLES
    family,         \* which controller the chip has
    block,          \* the programmer has BlockWrite64
    protected,      \* write-protected sectors
    flash,          \* the array
    fc,             \* the controller: mode, addr, buf, busy, locked, wrprt
    flash_unlocked,
    erased,         \* sectors whose flash_sector_status is 1
    pc, job, b,     \* the running operation and its sector
    tempblock,      \* the page to program
    polls,
    lost,           \* history: failures of this operation that went unnoticed
    stale,          \* history: sectors marked erased on such ground
    before,         \* history: the array when the operation began
    open,           \* history: sectors the controller may still be at
    op,             \* history: the last operation
    ops, faults     \* counters for the bounds

config == <<family, block, protected>>
ghosts == <<stale, before, open, op, ops>>
vars   == <<config, flash, fc, flash_unlocked, erased, pc, job, b, tempblock,
            polls, lost, ghosts, faults>>

CellsOf(s) == {s * Size + w : w \in Words}
IsBlank(f, s) == \A c \in CellsOf(s) : f[c] = Blank

Kinds == {"none", "write", "erase", "chip", "run"}
Job(k, cells, v) == [cells |-> cells, kind |-> k, val |-> v]
NoJob == Job("none", {}, Blank)

JobSectors == {SectorOf(c) : c \in job.cells}
Partial(s) == ~(CellsOf(s) \subseteq job.cells)

-----------------------------------------------------------------------------
(* The flash controller (external: the reference manuals as the code uses    *)
(* it).  While it is locked or busy it ignores what is written to it.       *)

NoPage == [w \in Words |-> Blank]
Idle == fc.busy = "none"
Deaf == fc.locked \/ ~Idle

(* CTLR selects an operation; with STRT it also starts it. *)
Select(m) == IF Deaf THEN fc ELSE [fc EXCEPT !.mode = m]
StartAt(m, a) == IF Deaf THEN fc ELSE [fc EXCEPT !.mode = m, !.addr = a, !.busy = m]

(* A word programmed over another is neither. *)
Over(old, new) ==
    IF old = Blank \/ old = new THEN new ELSE IF new = Blank THEN old ELSE Junk

Programmed(s, page) ==
    [c \in Cells |-> IF SectorOf(c) = s THEN Over(flash[c], page[c % Size]) ELSE flash[c]]
Erased(S) == [c \in Cells |-> IF SectorOf(c) \in S THEN Blank ELSE flash[c]]

(* The sectors an operation under way is at. *)
Target(f) == CASE f.busy = "none" -> {} [] f.busy = "MER" -> Sectors [] OTHER -> {f.addr}

(* The operation ends; on a protected sector it has no effect.  One that an  *)
(* earlier call left behind (open) changes the array under the present one.  *)
Complete ==
    /\ ~Idle
    /\ flash' = IF Target(fc) \cap protected # {} THEN flash
                ELSE IF fc.busy = "PG" THEN Programmed(fc.addr, fc.buf)
                ELSE Erased(Target(fc))
    /\ fc' = [fc EXCEPT !.busy = "none", !.wrprt = @ \/ Target(fc) \cap protected # {},
                        !.buf = IF fc.busy = "PG" THEN NoPage ELSE @]
    /\ open' = {}
    /\ before' = IF pc = "idle" THEN before
                 ELSE [c \in Cells |-> IF SectorOf(c) \in open THEN flash'[c] ELSE before[c]]
    /\ lost' = lost \cup (IF open \cap JobSectors # {} THEN {"late"} ELSE {})
    /\ UNCHANGED <<config, flash_unlocked, erased, pc, job, b, tempblock, polls,
                   stale, op, ops, faults>>

-----------------------------------------------------------------------------

Init ==
    /\ family \in Families /\ block \in BOOLEAN /\ protected \in SUBSET Sectors
    /\ Cardinality(protected) <= MaxFaults /\ (block => protected = {} /\ family = "small")
    /\ flash = [c \in Cells |-> Old]
    /\ b = First
    /\ fc = [mode |-> "none", addr |-> First, buf |-> NoPage,
             busy |-> "none", locked |-> TRUE, wrprt |-> FALSE]
    /\ flash_unlocked = FALSE /\ erased = {}
    /\ pc = "idle" /\ job = NoJob /\ tempblock = NoPage
    /\ polls = 0 /\ lost = {} /\ stale = {} /\ before = Blanked /\ open = {}
    /\ op = [kind |-> "none", cells |-> {}, val |-> Blank, done |-> TRUE, lost |-> {}]
    /\ ops = 0 /\ faults = Cardinality(protected)

(* A transaction is lost. *)
Fault == faults < MaxFaults /\ faults' = faults + 1
NoFault == UNCHANGED faults

(* The operation returns to its caller. *)
Return(done) ==
    /\ pc' = "idle" /\ job' = NoJob /\ polls' = 0
    /\ op' = [kind |-> job.kind, cells |-> job.cells, val |-> job.val,
              done |-> done, lost |-> lost']
    /\ open' = open \cup Target(fc')
    /\ b' = First /\ before' = Blanked /\ UNCHANGED ops

Goto(l) == pc' = l /\ polls' = 0 /\ UNCHANGED <<job, b, before, open, op, ops>>

(* Mutant: the loop over the sectors runs one too far. *)
NextSector_TooFar ==
    IF b > SectorOf(CHOOSE c \in job.cells : \A d \in job.cells : d <= c) THEN Return(TRUE)
    ELSE pc' = "sector" /\ polls' = 0 /\ b' = b + 1 /\ UNCHANGED <<job, before, open, op, ops>>

(* On to the next sector of the job, or back to the caller. *)
NextSector ==
    LET later == {s \in JobSectors : s > b} IN
    IF later = {} THEN Return(TRUE)
    ELSE /\ pc' = "sector" /\ polls' = 0
         /\ b' = CHOOSE s \in later : \A t \in later : s <= t
         /\ UNCHANGED <<job, before, open, op, ops>>

(* An operation is called. *)
Begin(j) ==
    /\ pc = "idle" /\ ops < MaxOps /\ ops' = ops + 1
    /\ j.cells # {}
    /\ pc' = "unlock" /\ job' = j /\ lost' = {} /\ before' = flash
    /\ b' \in Sectors /\ \A c \in j.cells : b' <= SectorOf(c)
    /\ \E c \in j.cells : b' = SectorOf(c)
    /\ UNCHANGED <<config, flash, fc, flash_unlocked, erased, tempblock, polls,
                   stale, open, op, faults>>

WriteBinaryBlob == \E cells \in Blobs, v \in Data : Begin(Job("write", cells, v))
Erase == \E s, t \in Sectors :
             Begin(Job("erase", {x \in Cells : s <= SectorOf(x) /\ SectorOf(x) <= t}, Blank))
EraseChip == Begin(Job("chip", Cells, Blank))

(* InternalUnlockFlash: when the first read fails, rw is not initialised. *)
UnlockFlash ==
    /\ pc = "unlock" /\ UNCHANGED lost
    /\ \/ /\ flash_unlocked \/ ~fc.locked
          /\ flash_unlocked' = TRUE /\ NoFault /\ Goto("sector") /\ UNCHANGED fc
       \/ /\ ~flash_unlocked /\ fc.locked
          /\ flash_unlocked' = TRUE /\ NoFault /\ Goto("sector")
          /\ fc' = [fc EXCEPT !.locked = FALSE]
       \/ /\ ~flash_unlocked /\ Fault
          /\ flash_unlocked' = TRUE /\ Goto("sector") /\ UNCHANGED fc
       \/ /\ ~flash_unlocked /\ fc.locked /\ Fault
          /\ \E l \in BOOLEAN : fc' = [fc EXCEPT !.locked = l]
          /\ Return(FALSE) /\ UNCHANGED flash_unlocked
    /\ UNCHANGED <<config, flash, erased, tempblock, stale>>

-----------------------------------------------------------------------------
(* DefaultErase.  A page is marked before it is erased, the chip after.      *)

WholeChip == job.kind = "chip" \/ family = "h41"

(* The erase did not take place, or not where it should. *)
EraseLost(tag) ==
    /\ lost' = lost \cup {tag}
    /\ stale' = stale \cup (IF WholeChip THEN {} ELSE {b})

Mark == erased' = IF WholeChip THEN erased ELSE erased \cup {b}

(* A register write failed and the function returns -93; the writer goes on. *)
EraseError ==
    IF job.kind = "write" THEN EraseLost("erase") /\ Goto("setup")
    ELSE /\ lost' = lost /\ Return(FALSE)
         /\ stale' = IF WholeChip THEN stale ELSE stale \cup {b}

EraseIssue ==
    /\ Mark
    /\ LET mode == IF WholeChip THEN "MER" ELSE "ER" IN
       \/ /\ fc' = StartAt(mode, b) /\ NoFault /\ Goto("eraseWait")
          /\ IF Deaf THEN EraseLost("erase")
             ELSE /\ stale' = stale
                  /\ lost' = lost \cup (IF WholeChip /\ job.kind # "chip" THEN {"chip"} ELSE {})
       \/ /\ Fault /\ fc' = Select(mode) /\ EraseError
       \/ /\ Fault /\ fc' = Select(mode) /\ Goto("eraseWait") /\ EraseLost("erase")
       \/ /\ Fault /\ ~WholeChip /\ fc' = StartAt(mode, fc.addr) /\ fc.addr # b
          /\ Goto("eraseWait") /\ EraseLost(IF Deaf THEN "erase" ELSE "addr")

EraseSector ==
    /\ pc = "sector" /\ job.kind # "write"
    /\ EraseIssue
    /\ UNCHANGED <<config, flash, flash_unlocked, tempblock>>

-----------------------------------------------------------------------------
(* DefaultWriteBinaryBlob. *)

(* Mutant: the words the blob does not cover are not taken from the flash. *)
Merged_BlobOnly == [w \in Words |-> IF b * Size + w \in job.cells THEN job.val ELSE Blank]

Merged == [w \in Words |-> LET c == b * Size + w IN
              IF c \in job.cells THEN job.val ELSE flash[c]]
Unread == [w \in Words |-> IF b * Size + w \in job.cells THEN job.val ELSE Junk]

(* The page to program: the blob, or the sector read back and merged.  The  *)
(* result of reading is not looked at.                                      *)
MakePage ==
    /\ pc = "sector" /\ job.kind = "write"
    /\ \/ tempblock' = Merged /\ NoFault /\ lost' = lost
       \/ /\ Partial(b) /\ Fault
          /\ tempblock' = Unread /\ lost' = lost \cup {"read"}
    /\ Goto(IF block THEN "block" ELSE "erase")
    /\ UNCHANGED <<config, flash, fc, flash_unlocked, erased, stale>>

(* The programmer writes the blocks of a sector, erasing them first unless  *)
(* marked; it clears the mark before it knows the outcome.                  *)
BlockWrite64 ==
    /\ pc = "block" /\ UNCHANGED <<config, fc, flash_unlocked>>
    /\ tempblock' = NoPage
    /\ erased' = erased \ {b} /\ stale' = stale \ {b}
    /\ lost' = lost \cup (IF Deaf THEN {"program"} ELSE {})
                    \cup (IF b \in stale THEN {"stale"} ELSE {})
    /\ \/ /\ NoFault
          /\ flash' = IF Deaf THEN flash
                      ELSE [c \in Cells |->
                              IF SectorOf(c) # b THEN flash[c]
                              ELSE IF b \in erased THEN Over(flash[c], tempblock[c % Size])
                              ELSE tempblock[c % Size]]
          /\ IF Partial(b) THEN Goto("lastWait") ELSE NextSector
       \/ /\ Fault /\ Return(FALSE)
          /\ \E v \in {Blank, Junk} :
                flash' = [c \in Cells |-> IF SectorOf(c) = b THEN v ELSE flash[c]]

(* The sector is erased unless it is marked; the result is not looked at. *)
EraseUnlessMarked ==
    /\ pc = "erase"
    /\ IF b \in erased
       THEN /\ Goto("setup") /\ NoFault /\ UNCHANGED <<fc, erased, stale>>
            /\ lost' = lost \cup (IF b \in stale THEN {"stale"} ELSE {})
       ELSE EraseIssue
    /\ UNCHANGED <<config, flash, flash_unlocked, tempblock>>

(* CTLR is set to page program; the small controllers reset their buffer. *)
SetUp ==
    /\ pc = "setup"
    /\ \/ /\ NoFault
          /\ fc' = IF family = "small" /\ ~Deaf THEN [Select("PG") EXCEPT !.buf = NoPage]
                   ELSE Select("PG")
       \/ Fault /\ fc' = fc
    /\ Goto("setupWait")
    /\ UNCHANGED <<config, flash, flash_unlocked, erased, tempblock, lost, stale>>

(* The words go to the page buffer.  The small controllers' program selects *)
(* page program after every word; the others take the address from it.      *)
Loaded == [fc EXCEPT !.buf = tempblock, !.addr = IF family = "small" THEN @ ELSE b]
LoadPage ==
    /\ pc = "load"
    /\ \/ /\ ~Deaf /\ fc.mode = "PG" /\ NoFault
          /\ fc' = Loaded /\ lost' = lost /\ Goto("start")
       \/ /\ ~Deaf /\ fc.mode = "PG" /\ Fault
          /\ \E w \in Words : fc' = [Loaded EXCEPT !.buf = [tempblock EXCEPT ![w] = fc.buf[w]]]
          /\ lost' = lost \cup {"load"} /\ Goto("start")
       \/ /\ ~Deaf /\ fc.mode # "PG" /\ NoFault
          /\ fc' = IF family = "small"
                   THEN [Loaded EXCEPT !.buf = [tempblock EXCEPT ![0] = fc.buf[0]], !.mode = "PG"]
                   ELSE fc
          /\ lost' = lost \cup {"load"} /\ Goto("start")
       \/ /\ fc.locked /\ Idle /\ NoFault
          /\ fc' = fc /\ lost' = lost \cup {"load"} /\ Goto("start")
       \/ /\ ~Idle /\ NoFault
          /\ fc' = fc /\ lost' = lost /\ Return(FALSE)
       \/ /\ Fault
          /\ fc' = (IF Deaf \/ fc.mode # "PG" THEN fc ELSE Loaded)
          /\ lost' = lost /\ Return(FALSE)
    /\ tempblock' = NoPage
    /\ UNCHANGED <<config, flash, flash_unlocked, erased, stale>>

(* ADDR (small controllers only) and STRT; neither result is looked at. *)
Program ==
    /\ pc = "start"
    /\ \/ /\ NoFault
          /\ fc' = StartAt("PG", IF family = "small" THEN b ELSE fc.addr)
          /\ lost' = lost \cup (IF Deaf THEN {"start"}
                              ELSE IF fc'.addr # b THEN {"addr"} ELSE {})
          /\ stale' = stale \cup (IF fc'.addr # b THEN {fc'.addr} ELSE {})
       \/ /\ Fault /\ family = "small"
          /\ fc' = StartAt("PG", fc.addr)
          /\ lost' = lost \cup (IF Deaf THEN {"start"}
                              ELSE IF fc.addr # b THEN {"addr"} ELSE {})
          /\ stale' = stale \cup (IF fc.addr # b THEN {fc.addr} ELSE {})
       \/ /\ Fault /\ fc' = fc
          /\ lost' = lost \cup {"start"} /\ stale' = stale
    /\ Goto("startWait")
    /\ UNCHANGED <<config, flash, flash_unlocked, erased, tempblock>>

-----------------------------------------------------------------------------
(* DefaultWaitForFlash, and what each caller makes of its result. *)

(* What the tool waits for has not happened. *)
Missing == ~Idle \/ Target([fc EXCEPT !.busy = fc.mode]) \cap protected # {}

EraseWaited(ok) ==
    IF WholeChip
    THEN IF job.kind = "write" \/ ok
         THEN /\ lost' = lost \cup (IF Missing THEN {"erase"} ELSE {})
              /\ erased' = IF ok THEN Sectors ELSE erased
              /\ stale' = IF ~ok THEN stale
                          ELSE IF "erase" \in lost' THEN Sectors ELSE {}
              /\ IF job.kind = "write" THEN Goto("setup") ELSE Return(TRUE)
         ELSE /\ UNCHANGED <<lost, erased, stale>> /\ Return(FALSE)
    ELSE /\ erased' = erased
         /\ stale' = IF Missing THEN stale \cup {b} ELSE stale
         /\ lost' = lost \cup (IF Missing /\ (ok \/ job.kind = "write") THEN {"erase"} ELSE {})
         /\ CASE job.kind = "write" -> Goto("setup")
              [] job.kind = "erase" /\ ok -> NextSector
              [] OTHER -> Return(FALSE)

(* Mutant: the mark stays. *)
ProgramWaited_KeepsMark ==
    /\ UNCHANGED <<erased, stale>>
    /\ lost' = lost \cup (IF Missing /\ ~Partial(b) THEN {"program"} ELSE {})
    /\ IF Partial(b) THEN Goto("lastWait") ELSE NextSector

(* After the program the mark goes, whatever the wait said; only the last   *)
(* wait of a partial sector is heeded.                                      *)
ProgramWaited ==
    /\ erased' = erased \ {b} /\ stale' = stale \ {b}
    /\ lost' = lost \cup (IF Missing /\ ~Partial(b) THEN {"program"} ELSE {})
    /\ IF Partial(b) THEN Goto("lastWait") ELSE NextSector

LastWaited(ok) ==
    /\ lost' = lost \cup (IF Missing THEN {"program"} ELSE {})
    /\ IF ok THEN NextSector ELSE Return(FALSE)
    /\ UNCHANGED <<erased, stale>>

Waited(ok) ==
    CASE pc = "eraseWait" -> EraseWaited(ok)
      [] pc = "setupWait" -> Goto("load") /\ UNCHANGED <<lost, erased, stale>>
      [] pc = "startWait" -> ProgramWaited
      [] OTHER -> LastWaited(ok)

(* Mutant: the wait polls until the controller is done. *)
WaitForFlash_NoTimeout ==
    /\ pc \in {"eraseWait", "setupWait", "startWait", "lastWait"}
    /\ UNCHANGED <<config, flash, fc, flash_unlocked, tempblock>>
    /\ \/ Idle /\ Waited(~fc.wrprt) /\ NoFault
       \/ Waited(TRUE) /\ Fault
       \/ /\ ~Idle /\ polls' = 1 - polls /\ NoFault
          /\ UNCHANGED <<pc, job, b, erased, lost, stale, before, open, op, ops>>

(* A read that fails leaves rw at 0: not busy, no error. *)
WaitForFlash ==
    /\ pc \in {"eraseWait", "setupWait", "startWait", "lastWait"}
    /\ UNCHANGED <<config, flash, fc, flash_unlocked, tempblock>>
    /\ \/ polls = MaxPolls /\ Waited(FALSE) /\ NoFault
       \/ polls < MaxPolls /\ Idle /\ Waited(~fc.wrprt) /\ NoFault
       \/ polls < MaxPolls /\ Waited(TRUE) /\ Fault
       \/ /\ polls < MaxPolls /\ ~Idle /\ polls' = polls + 1 /\ NoFault
          /\ UNCHANGED <<pc, job, b, erased, lost, stale, before, open, op, ops>>

-----------------------------------------------------------------------------
(* DefaultHaltMode and the program on the chip. *)

(* A halt makes the tool unlock again; with a reset the controller locks    *)
(* itself and an operation under way is torn.                               *)
Halt(reset) ==
    /\ pc = "idle" /\ ops < MaxOps /\ ops' = ops + 1
    /\ flash_unlocked' = FALSE
    /\ fc' = IF reset THEN [fc EXCEPT !.mode = "none", !.buf = NoPage, !.busy = "none",
                                     !.locked = TRUE, !.wrprt = FALSE]
             ELSE fc
    /\ open' = IF reset THEN {} ELSE open
    /\ \E torn \in SUBSET (IF reset THEN Target(fc) ELSE {}) :
          /\ flash' = [c \in Cells |-> IF SectorOf(c) \in torn THEN Junk ELSE flash[c]]
          /\ stale' = stale \cup torn
    /\ UNCHANGED <<config, erased, pc, job, b, tempblock, polls, lost, before, op, faults>>

(* The hart is resumed, its program writes a sector, and it is halted.  The *)
(* marks are kept.                                                          *)
RunProgram ==
    /\ pc = "idle" /\ ops < MaxOps /\ ops' = ops + 1 /\ Idle
    /\ flash_unlocked' = FALSE
    /\ \E s \in Sectors :
          /\ flash' = [c \in Cells |-> IF SectorOf(c) = s THEN Old ELSE flash[c]]
          /\ stale' = stale \cup {s}
    /\ \E l \in BOOLEAN : fc' = [fc EXCEPT !.locked = l, !.mode = "none", !.buf = NoPage]
    /\ op' = [kind |-> "run", cells |-> {}, val |-> Blank, done |-> TRUE, lost |-> {}]
    /\ UNCHANGED <<config, erased, pc, job, b, tempblock, polls, lost, before, open, faults>>

-----------------------------------------------------------------------------

Step == UnlockFlash \/ EraseSector \/ MakePage \/ BlockWrite64 \/ EraseUnlessMarked
        \/ SetUp \/ LoadPage \/ Program \/ WaitForFlash

Next == Step \/ Complete \/ WriteBinaryBlob \/ Erase \/ EraseChip \/ RunProgram
        \/ \E reset \in BOOLEAN : Halt(reset)

Spec     == Init /\ [][Next]_vars
FairSpec == Spec /\ WF_vars(Step)

-----------------------------------------------------------------------------

TypeOK ==
    /\ family \in Families /\ block \in BOOLEAN /\ protected \subseteq Sectors
    /\ flash \in [Cells -> Values] /\ before \in [Cells -> Values]
    /\ fc \in [mode : {"none", "ER", "MER", "PG"}, addr : Sectors, buf : [Words -> Values],
                busy : {"none", "ER", "MER", "PG"}, locked : BOOLEAN, wrprt : BOOLEAN]
    /\ flash_unlocked \in BOOLEAN
    /\ erased \subseteq Sectors /\ stale \subseteq Sectors /\ open \subseteq Sectors
    /\ pc \in {"idle", "unlock", "sector", "block", "erase", "eraseWait", "setup",
               "setupWait", "load", "start", "startWait", "lastWait"}
    /\ job.kind \in Kinds /\ job.cells \subseteq Cells /\ job.val \in Values
    /\ b \in Sectors /\ tempblock \in [Words -> Values] /\ polls \in 0..MaxPolls
    /\ lost \subseteq {"read", "erase", "addr", "load", "start", "program", "stale", "late", "chip"}
    /\ op.kind \in Kinds /\ op.cells \subseteq Cells /\ op.done \in BOOLEAN
    /\ ops \in 0..MaxOps /\ faults \in 0..MaxFaults

(* A sector marked erased is erased, so that a write may leave the erase    *)
(* out, unless the erase it was marked for went wrong or the chip's program *)
(* has written to it since (stale).                                         *)
MarksTrue == pc = "idle" => \A s \in erased \ stale : IsBlank(flash, s)

(* Every operation keeps FlashArray's promise. *)
Array == INSTANCE FlashArray WITH array <- IF pc = "idle" THEN flash ELSE before
ImplementsArray == Array!Spec

(* However slow the controller and whatever the link loses, a function      *)
(* returns: no wait is without end.                                         *)
OperationsReturn == (pc # "idle") ~> (pc = "idle")
=============================================================================
