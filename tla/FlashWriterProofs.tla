------------------------- MODULE FlashWriterProofs -------------------------
(***************************************************************************)
(* What holds of FlashWriter for every size of the flash, every blob and   *)
(* every bound: its types, that a sector marked erased is erased, and that *)
(* it keeps the promise FlashArray makes to the callers.                   *)
(***************************************************************************)
EXTENDS FlashWriter, TLAPS, FiniteSetTheorems, LeastNumber

-----------------------------------------------------------------------------
(* Cells, sectors and words. *)

LEMMA Split ==
    ASSUME NEW s \in Nat, NEW n \in Nat \ {0}, NEW w \in 0..n - 1
    PROVE  (s * n + w) \div n = s /\ (s * n + w) % n = w
  OBVIOUS

LEMMA CellFacts ==
    /\ \A s \in Sectors, w \in Words :
          s * Size + w \in Cells /\ SectorOf(s * Size + w) = s /\ (s * Size + w) % Size = w
    /\ \A c \in Cells :
          SectorOf(c) \in Sectors /\ c % Size \in Words /\ SectorOf(c) * Size + (c % Size) = c
<1>1. Sectors \subseteq Nat /\ Size \in Nat \ {0}
  BY FlashAssumption
<1>2. \A s \in Sectors, w \in Words : SectorOf(s * Size + w) = s /\ (s * Size + w) % Size = w
  BY <1>1, Split DEF Words, SectorOf
<1>3. \A s \in Sectors, w \in Words : s * Size + w \in Cells
  BY DEF Cells
<1>4. ASSUME NEW c \in Cells
      PROVE  SectorOf(c) \in Sectors /\ c % Size \in Words
             /\ SectorOf(c) * Size + (c % Size) = c
  <2>1. PICK s \in Sectors, w \in Words : c = s * Size + w
    BY DEF Cells
  <2> QED BY <1>2, <2>1
<1> QED BY <1>2, <1>3, <1>4

(* The cells of a sector, and a blank one, without arithmetic. *)
Bare(f, s) == \A c \in Cells : SectorOf(c) = s => f[c] = Blank

LEMMA SectorCells ==
    ASSUME NEW s \in Sectors
    PROVE  /\ CellsOf(s) = {c \in Cells : SectorOf(c) = s} /\ CellsOf(s) # {}
           /\ \A f : IsBlank(f, s) <=> Bare(f, s)
<1>1. CellsOf(s) = {c \in Cells : SectorOf(c) = s}
  <2>1. \A w \in Words : s * Size + w \in Cells /\ SectorOf(s * Size + w) = s
    BY CellFacts
  <2>2. ASSUME NEW c \in Cells, SectorOf(c) = s
        PROVE  c \in CellsOf(s)
    BY <2>2, CellFacts DEF CellsOf
  <2> QED BY <2>1, <2>2 DEF CellsOf
<1>2. 0 \in Words
  BY FlashAssumption DEF Words
<1>3. CellsOf(s) # {}
  BY <1>2 DEF CellsOf
<1> QED BY <1>1, <1>3 DEF IsBlank, Bare
LEMMA Least ==
    ASSUME NEW S \in SUBSET Sectors, S # {}
    PROVE  LET s == CHOOSE s \in S : \A t \in S : s <= t IN s \in S /\ \A t \in S : s <= t
<1>1. S \in SUBSET Nat
  BY FlashAssumption
<1> QED BY <1>1, LeastMember

-----------------------------------------------------------------------------
(* Types.  The part of the state that Goto, Return and NextSector set, and  *)
(* the rest.                                                                *)

Modes       == {"none", "ER", "MER", "PG"}
Controllers == [mode : Modes, addr : Sectors, buf : [Words -> Values], busy : Modes,
                locked : BOOLEAN, wrprt : BOOLEAN]
Labels  == {"idle", "unlock", "sector", "block", "erase", "eraseWait", "setup", "setupWait",
            "load", "start", "startWait", "lastWait"}
Tags    == {"read", "erase", "addr", "load", "start", "program", "stale", "late", "chip"}
Pages   == [Words -> Values]
Arrays  == [Cells -> Values]

Course ==
    /\ pc \in Labels /\ b \in Sectors /\ polls \in 0..MaxPolls /\ ops \in 0..MaxOps
    /\ job.kind \in Kinds /\ job.cells \subseteq Cells /\ job.val \in Values
    /\ before \in Arrays /\ open \subseteq Sectors
    /\ op.kind \in Kinds /\ op.cells \subseteq Cells /\ op.done \in BOOLEAN

Store ==
    /\ family \in Families /\ block \in BOOLEAN /\ protected \subseteq Sectors
    /\ flash \in Arrays /\ fc \in Controllers /\ flash_unlocked \in BOOLEAN
    /\ erased \subseteq Sectors /\ stale \subseteq Sectors /\ tempblock \in Pages
    /\ lost \subseteq Tags /\ faults \in 0..MaxFaults

LEMMA TypeParts == TypeOK <=> Course /\ Store
  BY DEF TypeOK, Course, Store, Labels, Tags, Pages, Arrays, Controllers, Modes

LEMMA Constants ==
    /\ Blank \in Values /\ Old \in Values /\ Junk \in Values /\ Data \subseteq Values
    /\ NoPage \in Pages /\ Blanked \in Arrays /\ First \in Sectors /\ 0 \in 0..MaxPolls
    /\ "none" \in Kinds /\ "run" \in Kinds /\ NoJob.kind = "none" /\ NoJob.cells = {}
    /\ NoJob.val = Blank
<1>1. Blank \in Values /\ Old \in Values /\ Junk \in Values /\ Data \subseteq Values
  BY DEF Values
<1>2. NoPage \in Pages /\ Blanked \in Arrays
  BY <1>1 DEF NoPage, Pages, Blanked, Arrays
<1>3. First \in Sectors
  BY FlashAssumption, Least DEF First
<1>4. 0 \in 0..MaxPolls
  BY FlashAssumption
<1> QED BY <1>1, <1>2, <1>3, <1>4 DEF Kinds, NoJob, Job

(* What a call leaves of the controller: an operation under way stays what  *)
(* it is, or one has been started on a controller that heeds it.            *)
Heeded(m, a) ==
    /\ ~Deaf /\ fc'.mode = m /\ fc'.addr = a /\ fc'.busy = m /\ fc'.buf = fc.buf
Spared ==
    /\ fc'.busy = fc.busy
    /\ ~Idle => fc'.mode = fc.mode /\ fc'.addr = fc.addr /\ fc'.buf = fc.buf

LEMMA SelectFacts ==
    ASSUME fc \in Controllers, NEW m \in Modes
    PROVE  /\ Select(m) \in Controllers /\ Select(m).busy = fc.busy
           /\ Select(m).addr = fc.addr /\ Select(m).buf = fc.buf
           /\ Select(m).locked = fc.locked
           /\ IF Deaf THEN Select(m) = fc ELSE Select(m).mode = m
<1>1. CASE Deaf
  BY <1>1 DEF Select
<1>2. CASE ~Deaf
  BY <1>2 DEF Select, Controllers, Modes
<1> QED BY <1>1, <1>2

LEMMA StartFacts ==
    ASSUME fc \in Controllers, NEW m \in Modes, NEW a \in Sectors, fc' = StartAt(m, a)
    PROVE  /\ fc' \in Controllers
           /\ Deaf => fc' = fc
           /\ ~Deaf => Heeded(m, a)
<1>1. CASE Deaf
  BY <1>1 DEF StartAt
<1>2. CASE ~Deaf
  BY <1>2 DEF StartAt, Controllers, Modes, Heeded
<1> QED BY <1>1, <1>2

LEMMA TargetType ==
    ASSUME NEW f \in Controllers
    PROVE  Target(f) \subseteq Sectors
  BY DEF Target, Controllers

LEMMA FaultType ==
    ASSUME faults \in 0..MaxFaults, Fault \/ NoFault
    PROVE  faults' \in 0..MaxFaults
  BY FlashAssumption DEF Fault, NoFault

LEMMA GotoType ==
    ASSUME Course, NEW l \in Labels, Goto(l)
    PROVE  Course'
  BY Constants DEF Goto, Course

LEMMA ReturnType ==
    ASSUME Course, fc' \in Controllers, NEW done \in BOOLEAN, Return(done)
    PROVE  Course'
<1>1. open' \subseteq Sectors
  BY TargetType DEF Return, Course
<1>2. pc' \in Labels /\ b' \in Sectors /\ polls' \in 0..MaxPolls /\ ops' \in 0..MaxOps
      /\ before' \in Arrays
  BY Constants DEF Return, Course, Labels
<1>3. job'.kind \in Kinds /\ job'.cells \subseteq Cells /\ job'.val \in Values
  BY Constants DEF Return
<1>4. op'.kind \in Kinds /\ op'.cells \subseteq Cells /\ op'.done \in BOOLEAN
  BY DEF Return, Course
<1> QED BY <1>1, <1>2, <1>3, <1>4 DEF Course

LEMMA JobSectorsType == Course => JobSectors \subseteq Sectors
  BY CellFacts DEF Course, JobSectors

(* The next sector is the least of the job's that are left. *)
LEMMA NextFacts ==
    ASSUME Course, NextSector
    PROVE  \/ Return(TRUE) /\ \A s \in JobSectors : s <= b
           \/ /\ pc' = "sector" /\ polls' = 0 /\ UNCHANGED <<job, before, open, op, ops>>
              /\ b' \in JobSectors /\ b' > b /\ \A s \in JobSectors : s > b => b' <= s
<1> DEFINE later == {s \in JobSectors : s > b}
<1>1. JobSectors \subseteq Nat /\ b \in Nat
  BY JobSectorsType, FlashAssumption DEF Course
<1>2. CASE later = {}
  <2>1. Return(TRUE)
    BY <1>2 DEF NextSector
  <2>2. \A s \in JobSectors : s <= b
    BY <1>1, <1>2
  <2> QED BY <2>1, <2>2
<1>3. CASE later # {}
  <2>1. /\ pc' = "sector" /\ polls' = 0 /\ UNCHANGED <<job, before, open, op, ops>>
        /\ b' = CHOOSE s \in later : \A t \in later : s <= t
    BY <1>3 DEF NextSector
  <2>2. later \in SUBSET Sectors
    BY JobSectorsType
  <2> HIDE DEF later
  <2>3. b' \in later /\ \A t \in later : b' <= t
    BY <1>3, <2>1, <2>2, Least
  <2> QED BY <2>1, <2>3 DEF later
<1> QED BY <1>2, <1>3

LEMMA NextType ==
    ASSUME Course, fc' \in Controllers, NextSector
    PROVE  Course'
<1>1. CASE Return(TRUE)
  BY <1>1, ReturnType
<1>2. CASE pc' = "sector" /\ polls' = 0 /\ UNCHANGED <<job, before, open, op, ops>>
           /\ b' \in JobSectors
  BY <1>2, Constants, JobSectorsType DEF Course, Labels
<1> QED BY <1>1, <1>2, NextFacts

-----------------------------------------------------------------------------
(* What each step does, as far as the invariants tell it. *)

LEMMA UnlockEffect ==
    ASSUME Course, Store, UnlockFlash
    PROVE  /\ Course' /\ Store' /\ pc = "unlock" /\ Spared
           /\ UNCHANGED <<config, flash, erased, stale, tempblock, lost>>
           /\ Goto("sector") \/ Return(FALSE)
<1>1. pc = "unlock" /\ UNCHANGED <<config, flash, erased, stale, tempblock, lost>>
  BY DEF UnlockFlash
<1>2. /\ Goto("sector") \/ Return(FALSE)
      /\ flash_unlocked' \in BOOLEAN /\ (Fault \/ NoFault)
      /\ fc' = fc \/ \E l \in BOOLEAN : fc' = [fc EXCEPT !.locked = l]
  BY DEF UnlockFlash, Store
<1>3. fc' \in Controllers /\ Spared
  BY <1>2 DEF Store, Controllers, Spared
<1>4. faults' \in 0..MaxFaults
  BY <1>2, FaultType DEF Store
<1>5. Store'
  <2>1. flash_unlocked' \in BOOLEAN
    BY <1>2
  <2> QED BY <1>1, <1>3, <1>4, <2>1 DEF Store, config
<1>6. Course'
  <2>1. "sector" \in Labels
    BY DEF Labels
  <2> QED BY <1>2, <1>3, <2>1, GotoType, ReturnType
<1> QED BY <1>1, <1>2, <1>3, <1>5, <1>6

(* An erase is issued: begun, lost unnoticed, gone astray, or given up. *)
EraseMode == IF WholeChip THEN "MER" ELSE "ER"
Doubted   == IF WholeChip THEN {} ELSE {b}

EraseBegun ==
    /\ Heeded(EraseMode, b) /\ Goto("eraseWait") /\ stale' = stale
    /\ lost' = lost \cup (IF WholeChip /\ job.kind # "chip" THEN {"chip"} ELSE {})
EraseMissed ==
    /\ lost' = lost \cup {"erase"} /\ Spared /\ stale' = stale \cup Doubted
    /\ Goto("eraseWait") \/ (Goto("setup") /\ job.kind = "write")
EraseAstray ==
    /\ ~WholeChip /\ lost' = lost \cup {"addr"} /\ Heeded("ER", fc.addr)
    /\ stale' = stale \cup Doubted /\ Goto("eraseWait")
EraseFailed ==
    /\ lost' = lost /\ Spared /\ job.kind # "write" /\ stale' = stale \cup Doubted
    /\ Return(FALSE)

LEMMA EraseIssueCases ==
    ASSUME fc \in Controllers, b \in Sectors, EraseIssue
    PROVE  /\ fc' \in Controllers
           /\ EraseBegun \/ EraseMissed \/ EraseAstray \/ EraseFailed
<1>1. fc.addr \in Sectors /\ EraseMode \in Modes /\ "ER" \in Modes
  BY DEF Controllers, Modes, EraseMode
<1>2. ASSUME fc' = Select(EraseMode)
      PROVE  fc' \in Controllers /\ Spared
  <2>1. Select(EraseMode) \in Controllers /\ Select(EraseMode).busy = fc.busy
        /\ (Deaf => Select(EraseMode) = fc)
    BY <1>1, SelectFacts
  <2> QED BY <1>2, <2>1 DEF Spared, Deaf
<1>3. ASSUME fc' = fc
      PROVE  fc' \in Controllers /\ Spared
  BY <1>3 DEF Spared
<1>4. ASSUME NEW tag, EraseLost(tag)
      PROVE  lost' = lost \cup {tag} /\ stale' = stale \cup Doubted
  BY <1>4 DEF EraseLost, Doubted
<1>5. CASE /\ fc' = StartAt(EraseMode, b) /\ NoFault /\ Goto("eraseWait")
           /\ IF Deaf THEN EraseLost("erase")
              ELSE /\ stale' = stale
                   /\ lost' = lost \cup (IF WholeChip /\ job.kind # "chip" THEN {"chip"} ELSE {})
  <2>1. CASE Deaf
    <3>1. fc' = fc
      BY <1>1, <1>5, <2>1, StartFacts
    <3> QED BY <1>3, <1>4, <1>5, <2>1, <3>1 DEF EraseMissed
  <2>2. CASE ~Deaf
    <3>1. Heeded(EraseMode, b) /\ fc' \in Controllers
      BY <1>1, <1>5, <2>2, StartFacts
    <3> QED BY <1>5, <2>2, <3>1 DEF EraseBegun
  <2> QED BY <2>1, <2>2
<1>6. CASE Fault /\ fc' = Select(EraseMode) /\ EraseError
  <2>1. CASE job.kind = "write"
    <3>1. EraseLost("erase") /\ Goto("setup")
      BY <1>6, <2>1 DEF EraseError
    <3> QED BY <1>2, <1>4, <1>6, <2>1, <3>1 DEF EraseMissed
  <2>2. CASE job.kind # "write"
    <3>1. lost' = lost /\ Return(FALSE) /\ stale' = stale \cup Doubted
      BY <1>6, <2>2 DEF EraseError, Doubted
    <3> QED BY <1>2, <1>6, <2>2, <3>1 DEF EraseFailed
  <2> QED BY <2>1, <2>2
<1>7. CASE Fault /\ fc' = Select(EraseMode) /\ Goto("eraseWait") /\ EraseLost("erase")
  BY <1>2, <1>4, <1>7 DEF EraseMissed
<1>8. CASE /\ Fault /\ ~WholeChip /\ fc' = StartAt(EraseMode, fc.addr) /\ fc.addr # b
           /\ Goto("eraseWait") /\ EraseLost(IF Deaf THEN "erase" ELSE "addr")
  <2>1. CASE Deaf
    <3>1. fc' = fc
      BY <1>1, <1>8, <2>1, StartFacts
    <3> QED BY <1>3, <1>4, <1>8, <2>1, <3>1 DEF EraseMissed
  <2>2. CASE ~Deaf
    <3>1. Heeded("ER", fc.addr) /\ fc' \in Controllers
      BY <1>1, <1>8, <2>2, StartFacts DEF EraseMode
    <3> QED BY <1>4, <1>8, <2>2, <3>1 DEF EraseAstray
  <2> QED BY <2>1, <2>2
<1> QED BY <1>5, <1>6, <1>7, <1>8 DEF EraseIssue, EraseMode

LEMMA EraseIssueType ==
    ASSUME Course, Store, EraseIssue, UNCHANGED <<config, flash, flash_unlocked, tempblock>>
    PROVE  Course' /\ Store'
<1>1. /\ fc' \in Controllers
      /\ EraseBegun \/ EraseMissed \/ EraseAstray \/ EraseFailed
  BY EraseIssueCases DEF Course, Store
<1>2. /\ Goto("eraseWait") \/ Goto("setup") \/ Return(FALSE)
      /\ lost' \subseteq lost \cup {"chip", "erase", "addr"} /\ stale' \subseteq stale \cup {b}
  BY <1>1 DEF EraseBegun, EraseMissed, EraseAstray, EraseFailed, Doubted
<1>3. Course'
  <2>1. "eraseWait" \in Labels /\ "setup" \in Labels
    BY DEF Labels
  <2> QED BY <1>1, <1>2, <2>1, GotoType, ReturnType
<1>4. faults' \in 0..MaxFaults
  BY FaultType DEF EraseIssue, Store
<1>5. erased' \subseteq Sectors /\ stale' \subseteq Sectors /\ lost' \subseteq Tags
  BY <1>2 DEF EraseIssue, Mark, Store, Course, Tags
<1>6. Store'
  BY <1>1, <1>4, <1>5 DEF Store, config
<1> QED BY <1>3, <1>6

LEMMA MakePageEffect ==
    ASSUME Course, Store, MakePage
    PROVE  /\ Course' /\ Store' /\ pc = "sector" /\ job.kind = "write"
           /\ UNCHANGED <<config, flash, fc, erased, stale>>
           /\ (Goto("block") /\ block) \/ Goto("erase")
           /\ \/ /\ lost' = lost
                 /\ \A c \in Cells : SectorOf(c) = b =>
                       tempblock'[c % Size] = IF c \in job.cells THEN job.val ELSE flash[c]
              \/ /\ lost' = lost \cup {"read"}
                 /\ \A c \in job.cells : SectorOf(c) = b => tempblock'[c % Size] = job.val
<1>1. /\ pc = "sector" /\ job.kind = "write" /\ (Fault \/ NoFault)
      /\ UNCHANGED <<config, flash, fc, flash_unlocked, erased, stale>>
      /\ (Goto("block") /\ block) \/ Goto("erase")
  BY DEF MakePage
<1>2. b \in Sectors /\ job.cells \subseteq Cells /\ job.val \in Values /\ flash \in Arrays
  BY DEF Course, Store
<1>3. \A w \in Words : b * Size + w \in Cells
  BY <1>2, CellFacts
<1>4. \A c \in Cells : SectorOf(c) = b => c % Size \in Words /\ b * Size + (c % Size) = c
  BY CellFacts
<1>5. ASSUME tempblock' = Merged
      PROVE  /\ tempblock' \in Pages
             /\ \A c \in Cells : SectorOf(c) = b =>
                   tempblock'[c % Size] = IF c \in job.cells THEN job.val ELSE flash[c]
  <2>1. tempblock' \in Pages
    BY <1>2, <1>3, <1>5 DEF Merged, Pages, Arrays
  <2>2. \A w \in Words : tempblock'[w] = IF b * Size + w \in job.cells THEN job.val
                                        ELSE flash[b * Size + w]
    BY <1>5 DEF Merged
  <2> QED BY <1>4, <2>1, <2>2
<1>6. ASSUME tempblock' = Unread
      PROVE  /\ tempblock' \in Pages
             /\ \A c \in job.cells : SectorOf(c) = b => tempblock'[c % Size] = job.val
  <2>1. tempblock' \in Pages
    BY <1>2, <1>6, Constants DEF Unread, Pages
  <2>2. \A w \in Words : b * Size + w \in job.cells => tempblock'[w] = job.val
    BY <1>6 DEF Unread
  <2> QED BY <1>2, <1>4, <2>1, <2>2
<1>7. tempblock' \in Pages /\ lost' \subseteq Tags
  BY <1>5, <1>6 DEF MakePage, Store, Tags
<1>8. Course'
  <2>1. "block" \in Labels /\ "erase" \in Labels
    BY DEF Labels
  <2> QED BY <1>1, <2>1, GotoType
<1>9. faults' \in 0..MaxFaults
  BY <1>1, FaultType DEF Store
<1>10. Store'
  BY <1>1, <1>7, <1>9 DEF Store, config
<1> QED BY <1>1, <1>5, <1>6, <1>8, <1>10 DEF MakePage
LEMMA OverType ==
    ASSUME NEW u \in Values, NEW v \in Values
    PROVE  Over(u, v) \in Values
  BY Constants DEF Over

LEMMA BlockEffect ==
    ASSUME Course, Store, BlockWrite64
    PROVE  /\ Course' /\ Store' /\ pc = "block"
           /\ UNCHANGED <<config, fc>> /\ erased' = erased \ {b} /\ stale' = stale \ {b}
           /\ lost' = lost \cup (IF Deaf THEN {"program"} ELSE {})
                           \cup (IF b \in stale THEN {"stale"} ELSE {})
           /\ \A c \in Cells : SectorOf(c) # b => flash'[c] = flash[c]
           /\ \/ /\ Goto("lastWait") \/ NextSector
                 /\ ~Deaf => \A c \in Cells : SectorOf(c) = b =>
                       flash'[c] = IF b \in erased THEN Over(flash[c], tempblock[c % Size])
                                   ELSE tempblock[c % Size]
              \/ Return(FALSE)
<1>1. /\ pc = "block" /\ UNCHANGED <<config, fc, flash_unlocked>>
      /\ erased' = erased \ {b} /\ stale' = stale \ {b} /\ tempblock' = NoPage
      /\ lost' = lost \cup (IF Deaf THEN {"program"} ELSE {})
                      \cup (IF b \in stale THEN {"stale"} ELSE {})
  BY DEF BlockWrite64
<1>2. flash \in Arrays /\ tempblock \in Pages /\ \A c \in Cells : c % Size \in Words
  BY CellFacts DEF Store
<1> DEFINE written ==
             [c \in Cells |-> IF SectorOf(c) # b THEN flash[c]
                              ELSE IF b \in erased THEN Over(flash[c], tempblock[c % Size])
                              ELSE tempblock[c % Size]]
           spoilt(v) == [c \in Cells |-> IF SectorOf(c) = b THEN v ELSE flash[c]]
<1>3. /\ Fault \/ NoFault
      /\ \/ /\ flash' = IF Deaf THEN flash ELSE written
            /\ Goto("lastWait") \/ NextSector
         \/ Return(FALSE) /\ \E v \in {Blank, Junk} : flash' = spoilt(v)
  BY DEF BlockWrite64
<1>4. /\ written \in Arrays
      /\ \A c \in Cells : SectorOf(c) # b => written[c] = flash[c]
      /\ \A c \in Cells : SectorOf(c) = b =>
            written[c] = IF b \in erased THEN Over(flash[c], tempblock[c % Size])
                         ELSE tempblock[c % Size]
  BY <1>2, OverType DEF Arrays, Pages
<1>5. \A v \in {Blank, Junk} :
          /\ spoilt(v) \in Arrays
          /\ \A c \in Cells : SectorOf(c) # b => spoilt(v)[c] = flash[c]
  BY <1>2, Constants DEF Arrays
<1> HIDE DEF written, spoilt
<1>6. /\ flash' \in Arrays
      /\ \A c \in Cells : SectorOf(c) # b => flash'[c] = flash[c]
      /\ \/ /\ Goto("lastWait") \/ NextSector
            /\ ~Deaf => \A c \in Cells : SectorOf(c) = b =>
                  flash'[c] = IF b \in erased THEN Over(flash[c], tempblock[c % Size])
                              ELSE tempblock[c % Size]
         \/ Return(FALSE)
  <2>1. CASE flash' = (IF Deaf THEN flash ELSE written) /\ (Goto("lastWait") \/ NextSector)
    <3>1. CASE Deaf
      BY <1>2, <2>1, <3>1
    <3>2. CASE ~Deaf
      <4>1. flash' = written
        BY <2>1, <3>2
      <4> QED BY <1>4, <2>1, <4>1
    <3> QED BY <3>1, <3>2
  <2>2. CASE Return(FALSE) /\ \E v \in {Blank, Junk} : flash' = spoilt(v)
    BY <1>5, <2>2
  <2> QED BY <1>3, <2>1, <2>2
<1>7. faults' \in 0..MaxFaults
  BY <1>3, FaultType DEF Store
<1>8. tempblock' \in Pages /\ erased' \subseteq Sectors /\ stale' \subseteq Sectors
      /\ lost' \subseteq Tags
  BY <1>1, Constants DEF Store, Tags
<1>9. Store'
  <2>1. flash' \in Arrays
    BY <1>6
  <2> QED BY <2>1, <1>1, <1>7, <1>8 DEF Store, config
<1>10. Course'
  <2>1. "lastWait" \in Labels /\ fc' \in Controllers
    BY <1>1 DEF Labels, Store
  <2> QED BY <1>6, <2>1, GotoType, NextType, ReturnType
<1> QED BY <1>1, <1>6, <1>9, <1>10

LEMMA MarkedEffect ==
    ASSUME Course, Store, EraseUnlessMarked
    PROVE  /\ Course' /\ Store' /\ pc = "erase" /\ UNCHANGED <<config, flash, tempblock>>
           /\ \/ /\ b \in erased /\ Goto("setup") /\ UNCHANGED <<fc, erased, stale>>
                 /\ lost' = lost \cup (IF b \in stale THEN {"stale"} ELSE {})
              \/ b \notin erased /\ EraseIssue
<1>1. pc = "erase" /\ UNCHANGED <<config, flash, flash_unlocked, tempblock>>
  BY DEF EraseUnlessMarked
<1>2. CASE b \in erased
  <2>1. /\ Goto("setup") /\ NoFault /\ UNCHANGED <<fc, erased, stale>>
        /\ lost' = lost \cup (IF b \in stale THEN {"stale"} ELSE {})
    BY <1>2 DEF EraseUnlessMarked
  <2>2. faults' \in 0..MaxFaults /\ lost' \subseteq Tags
    BY <2>1 DEF NoFault, Store, Tags
  <2>3. Course'
    <3>1. "setup" \in Labels
      BY DEF Labels
    <3> QED BY <2>1, <3>1, GotoType
  <2>4. Store'
    BY <1>1, <2>1, <2>2 DEF Store, config
  <2> QED BY <1>1, <1>2, <2>1, <2>3, <2>4
<1>3. CASE b \notin erased
  <2>1. EraseIssue
    BY <1>3 DEF EraseUnlessMarked
  <2>2. Course' /\ Store'
    BY <1>1, <2>1, EraseIssueType
  <2> QED BY <1>1, <1>3, <2>1, <2>2
<1> QED BY <1>2, <1>3

LEMMA SetUpEffect ==
    ASSUME Course, Store, SetUp
    PROVE  /\ Course' /\ Store' /\ pc = "setup" /\ Spared /\ Goto("setupWait")
           /\ UNCHANGED <<config, flash, erased, tempblock, lost, stale>>
<1>1. /\ pc = "setup" /\ Goto("setupWait")
      /\ UNCHANGED <<config, flash, flash_unlocked, erased, tempblock, lost, stale>>
  BY DEF SetUp
<1>2. fc \in Controllers /\ "PG" \in Modes
  BY DEF Store, Modes
<1>3. Select("PG") \in Controllers /\ Select("PG").busy = fc.busy
      /\ (Deaf => Select("PG") = fc)
  BY <1>2, SelectFacts
<1>4. fc' \in Controllers /\ Spared
  <2>1. CASE fc' = [Select("PG") EXCEPT !.buf = NoPage] /\ ~Deaf
    BY <1>3, <2>1, Constants DEF Controllers, Pages, Spared, Deaf
  <2>2. CASE fc' = Select("PG")
    BY <1>3, <2>2 DEF Spared, Deaf
  <2>3. CASE fc' = fc
    BY <1>2, <2>3 DEF Spared
  <2> QED BY <2>1, <2>2, <2>3 DEF SetUp
<1>5. faults' \in 0..MaxFaults
  BY FaultType DEF SetUp, Store
<1>6. Store'
  BY <1>1, <1>4, <1>5 DEF Store, config
<1>7. Course'
  <2>1. "setupWait" \in Labels
    BY DEF Labels
  <2> QED BY <1>1, <2>1, GotoType
<1> QED BY <1>1, <1>4, <1>6, <1>7

LEMMA LoadEffect ==
    ASSUME Course, Store, LoadPage
    PROVE  /\ Course' /\ Store' /\ pc = "load" /\ Spared
           /\ UNCHANGED <<config, flash, erased, stale>>
           /\ \/ /\ Goto("start") /\ lost' = lost /\ ~Deaf /\ ~fc'.locked
                 /\ fc'.mode = "PG" /\ fc'.buf = tempblock
              \/ Goto("start") /\ lost' = lost \cup {"load"}
              \/ Return(FALSE) /\ lost' = lost
<1>1. /\ pc = "load" /\ UNCHANGED <<config, flash, flash_unlocked, erased, stale>>
      /\ tempblock' = NoPage /\ (Fault \/ NoFault)
  BY DEF LoadPage
<1>2. fc \in Controllers /\ b \in Sectors /\ tempblock \in Pages
  BY DEF Store, Course
<1>3. /\ Loaded \in Controllers /\ Loaded.busy = fc.busy /\ Loaded.mode = fc.mode
      /\ Loaded.buf = tempblock /\ Loaded.locked = fc.locked
  BY <1>2 DEF Loaded, Controllers, Pages
<1>4. ASSUME NEW w \in Words
      PROVE  /\ [Loaded EXCEPT !.buf = [tempblock EXCEPT ![w] = fc.buf[w]]] \in Controllers
             /\ [Loaded EXCEPT !.buf = [tempblock EXCEPT ![w] = fc.buf[w]], !.mode = "PG"]
                    \in Controllers
  <2>1. [tempblock EXCEPT ![w] = fc.buf[w]] \in Pages
    BY <1>2 DEF Controllers, Pages
  <2> QED BY <1>3, <2>1 DEF Controllers, Pages, Modes
<1> DEFINE Outcome == \/ /\ Goto("start") /\ lost' = lost /\ ~Deaf /\ ~fc'.locked
                         /\ fc'.mode = "PG" /\ fc'.buf = tempblock
                      \/ Goto("start") /\ lost' = lost \cup {"load"}
                      \/ Return(FALSE) /\ lost' = lost
           Result == fc' \in Controllers /\ Spared /\ Outcome
<1>5. ASSUME /\ ~Deaf /\ fc.mode = "PG" /\ NoFault
             /\ fc' = Loaded /\ lost' = lost /\ Goto("start")
      PROVE  Result
  <2>1. fc' \in Controllers /\ Spared /\ ~fc'.locked /\ fc'.mode = "PG" /\ fc'.buf = tempblock
    BY <1>3, <1>5 DEF Spared, Deaf
  <2> QED BY <1>5, <2>1
<1>6. ASSUME /\ ~Deaf /\ fc.mode = "PG" /\ Fault
             /\ \E w \in Words : fc' = [Loaded EXCEPT !.buf = [tempblock EXCEPT ![w] = fc.buf[w]]]
             /\ lost' = lost \cup {"load"} /\ Goto("start")
      PROVE  Result
  <2>1. fc' \in Controllers
    BY <1>4, <1>6
  <2>2. Spared
    BY <1>3, <1>6 DEF Spared, Deaf, Controllers
  <2> QED BY <1>6, <2>1, <2>2
<1>7. ASSUME /\ ~Deaf /\ fc.mode # "PG" /\ NoFault
             /\ fc' = IF family = "small"
                      THEN [Loaded EXCEPT !.buf = [tempblock EXCEPT ![0] = fc.buf[0]], !.mode = "PG"]
                      ELSE fc
             /\ lost' = lost \cup {"load"} /\ Goto("start")
      PROVE  Result
  <2>1. 0 \in Words
    BY FlashAssumption DEF Words
  <2>2. fc' \in Controllers
    BY <1>2, <1>4, <1>7, <2>1
  <2>3. Spared
    BY <1>3, <1>7 DEF Spared, Deaf, Controllers
  <2> QED BY <1>7, <2>2, <2>3
<1>8. ASSUME /\ fc' = fc
             /\ \/ Goto("start") /\ lost' = lost \cup {"load"}
                \/ Return(FALSE) /\ lost' = lost
      PROVE  Result
  <2>1. fc' \in Controllers /\ Spared
    BY <1>2, <1>8 DEF Spared
  <2> QED BY <1>8, <2>1
<1>9. ASSUME /\ fc' = (IF Deaf \/ fc.mode # "PG" THEN fc ELSE Loaded)
             /\ lost' = lost /\ Return(FALSE)
      PROVE  Result
  <2>1. fc' \in Controllers /\ Spared
    BY <1>2, <1>3, <1>9 DEF Spared, Deaf
  <2> QED BY <1>9, <2>1
<1> HIDE DEF Result
<1>10. Result
  <2>1. CASE /\ fc.locked /\ Idle /\ NoFault
             /\ fc' = fc /\ lost' = lost \cup {"load"} /\ Goto("start")
    BY <1>8, <2>1
  <2>2. CASE ~Idle /\ NoFault /\ fc' = fc /\ lost' = lost /\ Return(FALSE)
    BY <1>8, <2>2
  <2> QED BY <1>5, <1>6, <1>7, <1>9, <2>1, <2>2 DEF LoadPage
<1> USE DEF Result
<1>11. faults' \in 0..MaxFaults
  BY <1>1, FaultType DEF Store
<1>12. lost' \subseteq Tags /\ tempblock' \in Pages
  BY <1>1, <1>10, Constants DEF Store, Tags
<1>13. Store'
  BY <1>1, <1>10, <1>11, <1>12 DEF Store, config
<1>14. Course'
  <2>1. "start" \in Labels
    BY DEF Labels
  <2> QED BY <1>10, <2>1, GotoType, ReturnType
<1> QED BY <1>1, <1>10, <1>13, <1>14
(* The program is started, at the right sector or elsewhere, or it is not. *)
ProgramBegun(a) ==
    /\ Heeded("PG", a)
    /\ lost' = lost \cup (IF a # b THEN {"addr"} ELSE {})
    /\ stale' = stale \cup (IF a # b THEN {a} ELSE {})
ProgramMissed == fc' = fc /\ lost' = lost \cup {"start"} /\ stale \subseteq stale'

LEMMA ProgramEffect ==
    ASSUME Course, Store, Program
    PROVE  /\ Course' /\ Store' /\ pc = "start" /\ Goto("startWait")
           /\ UNCHANGED <<config, flash, erased, tempblock>>
           /\ (\E a \in Sectors : ProgramBegun(a)) \/ ProgramMissed
<1>1. /\ pc = "start" /\ Goto("startWait") /\ (Fault \/ NoFault)
      /\ UNCHANGED <<config, flash, flash_unlocked, erased, tempblock>>
  BY DEF Program
<1>2. fc \in Controllers /\ b \in Sectors /\ "PG" \in Modes /\ fc.addr \in Sectors
  BY DEF Store, Course, Controllers, Modes
<1>3. \/ \E a \in Sectors :
            /\ fc' = StartAt("PG", a)
            /\ lost' = lost \cup (IF Deaf THEN {"start"} ELSE IF fc'.addr # b THEN {"addr"} ELSE {})
            /\ stale' = stale \cup (IF fc'.addr # b THEN {fc'.addr} ELSE {})
      \/ fc' = fc /\ lost' = lost \cup {"start"} /\ stale' = stale
  <2>1. CASE /\ fc' = StartAt("PG", fc.addr)
             /\ lost' = lost \cup (IF Deaf THEN {"start"} ELSE IF fc.addr # b THEN {"addr"} ELSE {})
             /\ stale' = stale \cup (IF fc.addr # b THEN {fc.addr} ELSE {})
    <3>1. fc'.addr = fc.addr
      BY <1>2, <2>1 DEF StartAt, Controllers
    <3> QED BY <1>2, <2>1, <3>1
  <2>2. CASE /\ fc' = StartAt("PG", IF family = "small" THEN b ELSE fc.addr)
             /\ lost' = lost \cup (IF Deaf THEN {"start"} ELSE IF fc'.addr # b THEN {"addr"} ELSE {})
             /\ stale' = stale \cup (IF fc'.addr # b THEN {fc'.addr} ELSE {})
    <3>1. (IF family = "small" THEN b ELSE fc.addr) \in Sectors
      BY <1>2
    <3> QED BY <2>2, <3>1
  <2> QED BY <2>1, <2>2 DEF Program
<1> DEFINE Result == /\ fc' \in Controllers /\ stale' \subseteq Sectors
                     /\ (\E a \in Sectors : ProgramBegun(a)) \/ ProgramMissed
<1>4. ASSUME NEW a \in Sectors,
             /\ fc' = StartAt("PG", a)
             /\ lost' = lost \cup (IF Deaf THEN {"start"} ELSE IF fc'.addr # b THEN {"addr"} ELSE {})
             /\ stale' = stale \cup (IF fc'.addr # b THEN {fc'.addr} ELSE {})
      PROVE  Result
  <2>1. fc' \in Controllers /\ (Deaf => fc' = fc) /\ (~Deaf => Heeded("PG", a))
    BY <1>2, <1>4, StartFacts
  <2>2. stale' \subseteq Sectors
    BY <1>4, <2>1 DEF Store, Controllers
  <2>3. CASE Deaf
    <3>1. ProgramMissed
      BY <1>4, <2>1, <2>3 DEF ProgramMissed
    <3> QED BY <2>1, <2>2, <3>1
  <2>4. CASE ~Deaf
    <3>1. fc'.addr = a
      BY <2>1, <2>4 DEF Heeded
    <3>2. ProgramBegun(a)
      BY <1>4, <2>1, <2>4, <3>1 DEF ProgramBegun
    <3> QED BY <2>1, <2>2, <3>2
  <2> QED BY <2>3, <2>4
<1>5. ASSUME fc' = fc /\ lost' = lost \cup {"start"} /\ stale' = stale
      PROVE  Result
  BY <1>2, <1>5 DEF ProgramMissed, Store
<1> HIDE DEF Result
<1>6. Result
  BY <1>3, <1>4, <1>5
<1> USE DEF Result
<1>7. lost' \subseteq Tags
  BY <1>6 DEF ProgramBegun, ProgramMissed, Store, Tags
<1>8. faults' \in 0..MaxFaults
  BY <1>1, FaultType DEF Store
<1>9. Store'
  BY <1>1, <1>6, <1>7, <1>8 DEF Store, config
<1>10. Course'
  <2>1. "startWait" \in Labels
    BY DEF Labels
  <2> QED BY <1>1, <2>1, GotoType
<1> QED BY <1>1, <1>6, <1>9, <1>10

(* A wait ends one way or the other, or polls on. *)
Waiting == {"eraseWait", "setupWait", "startWait", "lastWait"}
Polled  == polls < MaxPolls /\ polls' = polls + 1
           /\ UNCHANGED <<pc, job, b, erased, lost, stale, before, open, op, ops>>

LEMMA WaitCases ==
    ASSUME Store, WaitForFlash
    PROVE  /\ pc \in Waiting /\ UNCHANGED <<config, flash, fc, flash_unlocked, tempblock>>
           /\ (\E ok \in BOOLEAN : Waited(ok)) \/ Polled
           /\ Fault \/ NoFault
<1>1. /\ pc \in Waiting /\ UNCHANGED <<config, flash, fc, flash_unlocked, tempblock>>
      /\ Fault \/ NoFault
  BY DEF WaitForFlash, Waiting
<1>2. (~fc.wrprt) \in BOOLEAN
  OBVIOUS
<1>3. Waited(FALSE) \/ Waited(~fc.wrprt) \/ Waited(TRUE) \/ Polled
  BY DEF WaitForFlash, Polled
<1> QED BY <1>1, <1>2, <1>3

LEMMA WaitEffect ==
    ASSUME Course, Store, WaitForFlash
    PROVE  /\ Course' /\ Store' /\ pc \in Waiting
           /\ UNCHANGED <<config, flash, fc, tempblock>>
           /\ Polled \/ \E ok \in BOOLEAN : Waited(ok)
<1>1. /\ pc \in Waiting /\ UNCHANGED <<config, flash, fc, flash_unlocked, tempblock>>
      /\ (\E ok \in BOOLEAN : Waited(ok)) \/ Polled
      /\ Fault \/ NoFault
  BY WaitCases
<1>2. fc' \in Controllers
  BY <1>1 DEF Store
<1> DEFINE Marked == erased' \subseteq Sectors /\ stale' \subseteq Sectors /\ lost' \subseteq Tags
<1>3. ASSUME NEW ok \in BOOLEAN, Waited(ok)
      PROVE  Course' /\ Marked
  <2>1. ASSUME EraseWaited(ok)
        PROVE  Marked /\ (Goto("setup") \/ NextSector \/ Return(TRUE) \/ Return(FALSE))
    <3>1. lost' = lost \/ lost' = lost \cup {"erase"}
      BY <2>1 DEF EraseWaited
    <3>2. erased' = erased \/ erased' = Sectors
      BY <2>1 DEF EraseWaited
    <3>3. stale' = stale \/ stale' = stale \cup {b} \/ stale' = Sectors \/ stale' = {}
      BY <2>1 DEF EraseWaited
    <3>4. Goto("setup") \/ NextSector \/ Return(TRUE) \/ Return(FALSE)
      BY <2>1 DEF EraseWaited
    <3> QED BY <3>1, <3>2, <3>3, <3>4 DEF Store, Course, Tags
  <2>2. ASSUME ProgramWaited
        PROVE  Marked /\ (Goto("lastWait") \/ NextSector)
    BY <2>2 DEF ProgramWaited, Store, Tags
  <2>3. ASSUME LastWaited(ok)
        PROVE  Marked /\ (NextSector \/ Return(FALSE))
    BY <2>3 DEF LastWaited, Store, Tags
  <2>4. ASSUME Goto("load") /\ UNCHANGED <<lost, erased, stale>>
        PROVE  Marked
    BY <2>4 DEF Store
  <2>5. Marked /\ \/ Goto("setup") \/ Goto("load") \/ Goto("lastWait")
                  \/ NextSector \/ Return(TRUE) \/ Return(FALSE)
    BY <1>3, <2>1, <2>2, <2>3, <2>4 DEF Waited
  <2>6. "setup" \in Labels /\ "load" \in Labels /\ "lastWait" \in Labels
    BY DEF Labels
  <2> QED BY <1>2, <2>5, <2>6, GotoType, NextType, ReturnType
<1>4. ASSUME Polled
      PROVE  Course' /\ Marked
  <2>1. polls' \in 0..MaxPolls
    BY <1>4, FlashAssumption DEF Polled, Course
  <2> QED BY <1>4, <2>1 DEF Polled, Course, Store
<1>5. Course' /\ Marked
  BY <1>1, <1>3, <1>4
<1>6. faults' \in 0..MaxFaults
  BY <1>1, FaultType DEF Store
<1>7. Store'
  BY <1>1, <1>2, <1>5, <1>6 DEF Store, config
<1> QED BY <1>1, <1>5, <1>7

(* An operation of the controller ends. *)
LEMMA CompleteEffect ==
    ASSUME Course, Store, Complete
    PROVE  /\ Course' /\ Store' /\ ~Idle /\ open' = {}
           /\ UNCHANGED <<config, erased, stale, pc, job, b, tempblock, op>>
           /\ fc'.busy = "none" /\ fc'.mode = fc.mode /\ fc'.addr = fc.addr
           /\ fc'.locked = fc.locked
           /\ lost' = lost \cup (IF open \cap JobSectors # {} THEN {"late"} ELSE {})
           /\ before' = IF pc = "idle" THEN before
                        ELSE [c \in Cells |-> IF SectorOf(c) \in open THEN flash'[c] ELSE before[c]]
           /\ \A c \in Cells : SectorOf(c) \notin Target(fc) => flash'[c] = flash[c]
           /\ Target(fc) \cap protected # {} => flash' = flash
           /\ Target(fc) \cap protected = {} /\ fc.busy = "PG" =>
                \A c \in Cells : SectorOf(c) = fc.addr =>
                   flash'[c] = Over(flash[c], fc.buf[c % Size])
           /\ Target(fc) \cap protected = {} /\ fc.busy # "PG" =>
                \A c \in Cells : SectorOf(c) \in Target(fc) => flash'[c] = Blank
<1>1. /\ ~Idle /\ open' = {}
      /\ UNCHANGED <<config, flash_unlocked, erased, stale, pc, job, b, tempblock, polls, op, ops, faults>>
      /\ lost' = lost \cup (IF open \cap JobSectors # {} THEN {"late"} ELSE {})
      /\ before' = IF pc = "idle" THEN before
                   ELSE [c \in Cells |-> IF SectorOf(c) \in open THEN flash'[c] ELSE before[c]]
  BY DEF Complete
<1>2. flash \in Arrays /\ fc \in Controllers /\ \A c \in Cells : c % Size \in Words
  BY CellFacts DEF Store
<1>3. /\ fc' \in Controllers /\ fc'.busy = "none" /\ fc'.mode = fc.mode /\ fc'.addr = fc.addr
      /\ fc'.locked = fc.locked
  <2> DEFINE torn == Target(fc) \cap protected # {}
             page == IF fc.busy = "PG" THEN NoPage ELSE fc.buf
  <2>1. fc' = [fc EXCEPT !.busy = "none", !.wrprt = fc.wrprt \/ torn, !.buf = page]
    BY DEF Complete
  <2>2. page \in Pages /\ (fc.wrprt \/ torn) \in BOOLEAN
    BY <1>2, Constants DEF Controllers, Pages
  <2> HIDE DEF page, torn
  <2> QED BY <1>2, <2>1, <2>2 DEF Controllers, Modes, Pages
<1>4. /\ Target(fc) \cap protected # {} => flash' = flash
      /\ Target(fc) \cap protected = {} /\ fc.busy = "PG" => flash' = Programmed(fc.addr, fc.buf)
      /\ Target(fc) \cap protected = {} /\ fc.busy # "PG" => flash' = Erased(Target(fc))
  BY DEF Complete
<1>5. fc.busy = "PG" => Target(fc) = {fc.addr}
  BY DEF Target
<1>6. /\ Programmed(fc.addr, fc.buf) \in Arrays
      /\ \A c \in Cells : Programmed(fc.addr, fc.buf)[c] =
            IF SectorOf(c) = fc.addr THEN Over(flash[c], fc.buf[c % Size]) ELSE flash[c]
  BY <1>2, OverType DEF Programmed, Arrays, Controllers
<1>7. /\ Erased(Target(fc)) \in Arrays
      /\ \A c \in Cells : Erased(Target(fc))[c] =
            IF SectorOf(c) \in Target(fc) THEN Blank ELSE flash[c]
  BY <1>2, Constants DEF Erased, Arrays
<1>8. /\ flash' \in Arrays
      /\ \A c \in Cells : SectorOf(c) \notin Target(fc) => flash'[c] = flash[c]
      /\ Target(fc) \cap protected = {} /\ fc.busy = "PG" =>
           \A c \in Cells : SectorOf(c) = fc.addr =>
              flash'[c] = Over(flash[c], fc.buf[c % Size])
      /\ Target(fc) \cap protected = {} /\ fc.busy # "PG" =>
           \A c \in Cells : SectorOf(c) \in Target(fc) => flash'[c] = Blank
  <2>1. CASE Target(fc) \cap protected # {}
    BY <1>2, <1>4, <2>1
  <2>2. CASE Target(fc) \cap protected = {} /\ fc.busy = "PG"
    <3>1. flash' = Programmed(fc.addr, fc.buf)
      BY <1>4, <2>2
    <3>2. flash' \in Arrays
      BY <1>6, <3>1
    <3>3. \A c \in Cells : flash'[c] =
             IF SectorOf(c) = fc.addr THEN Over(flash[c], fc.buf[c % Size]) ELSE flash[c]
      BY <1>6, <3>1
    <3> QED BY <1>5, <2>2, <3>2, <3>3
  <2>3. CASE Target(fc) \cap protected = {} /\ fc.busy # "PG"
    <3>1. flash' = Erased(Target(fc))
      BY <1>4, <2>3
    <3>2. flash' \in Arrays
      BY <1>7, <3>1
    <3>3. \A c \in Cells : flash'[c] = IF SectorOf(c) \in Target(fc) THEN Blank ELSE flash[c]
      BY <1>7, <3>1
    <3> QED BY <2>3, <3>2, <3>3
  <2> QED BY <2>1, <2>2, <2>3
<1>9. before' \in Arrays
  <2>1. before \in Arrays
    BY DEF Course
  <2>2. flash' \in Arrays
    BY <1>8
  <2> QED BY <1>1, <2>1, <2>2 DEF Arrays
<1>10. lost' \subseteq Tags
  BY <1>1 DEF Store, Tags
<1>11. Course'
  BY <1>1, <1>9 DEF Course
<1>12. Store'
  <2>1. flash' \in Arrays
    BY <1>8
  <2> QED BY <1>1, <1>3, <1>10, <2>1 DEF Store, config
<1> QED BY <1>1, <1>3, <1>4, <1>8, <1>11, <1>12

(* A job is a blob of one value, or whole sectors to erase. *)
Wanted(j) ==
    /\ j.kind \in {"write", "erase", "chip"} /\ j.cells \subseteq Cells /\ j.val \in Values
    /\ j.kind # "write" => /\ j.val = Blank
                           /\ \A c \in Cells, d \in j.cells :
                                 SectorOf(c) = SectorOf(d) => c \in j.cells
    /\ j.kind = "chip" => j.cells = Cells

LEMMA BeginEffect ==
    ASSUME Course, Store, WriteBinaryBlob \/ Erase \/ EraseChip
    PROVE  /\ Course' /\ Store' /\ pc = "idle" /\ pc' = "unlock" /\ Wanted(job')
           /\ lost' = {} /\ before' = flash /\ b' \in {SectorOf(c) : c \in job'.cells}
           /\ \A c \in job'.cells : b' <= SectorOf(c)
           /\ UNCHANGED <<config, flash, fc, flash_unlocked, erased, stale, tempblock, open, op>>
<1>1. PICK j : Begin(j) /\ Wanted(j)
  <2>1. CASE WriteBinaryBlob
    <3>1. PICK cells \in Blobs, v \in Data : Begin(Job("write", cells, v))
      BY <2>1 DEF WriteBinaryBlob
    <3>2. Wanted(Job("write", cells, v))
      BY FlashAssumption, Constants DEF Wanted, Job
    <3> QED BY <3>1, <3>2
  <2>2. CASE Erase
    <3>1. PICK s \in Sectors, t \in Sectors :
              Begin(Job("erase", {x \in Cells : s <= SectorOf(x) /\ SectorOf(x) <= t}, Blank))
      BY <2>2 DEF Erase
    <3>2. Wanted(Job("erase", {x \in Cells : s <= SectorOf(x) /\ SectorOf(x) <= t}, Blank))
      BY Constants DEF Wanted, Job
    <3> QED BY <3>1, <3>2
  <2>3. CASE EraseChip
    <3>1. Wanted(Job("chip", Cells, Blank))
      BY Constants DEF Wanted, Job
    <3> QED BY <2>3, <3>1 DEF EraseChip
  <2> QED BY <2>1, <2>2, <2>3
<1>2. /\ pc = "idle" /\ pc' = "unlock" /\ job' = j /\ lost' = {} /\ before' = flash
      /\ ops < MaxOps /\ ops' = ops + 1
      /\ b' \in Sectors /\ b' \in {SectorOf(c) : c \in j.cells}
      /\ \A c \in j.cells : b' <= SectorOf(c)
      /\ UNCHANGED <<config, flash, fc, flash_unlocked, erased, tempblock, polls,
                     stale, open, op, faults>>
  BY <1>1 DEF Begin
<1>3. ops' \in 0..MaxOps
  BY <1>2, FlashAssumption DEF Course
<1>4. Course'
  BY <1>1, <1>2, <1>3 DEF Course, Store, Wanted, Labels, Kinds
<1>5. Store'
  BY <1>2 DEF Store, config
<1> QED BY <1>1, <1>2, <1>4, <1>5

LEMMA HaltEffect ==
    ASSUME Course, Store, NEW reset \in BOOLEAN, Halt(reset)
    PROVE  /\ Course' /\ Store' /\ pc = "idle"
           /\ UNCHANGED <<config, erased, pc, job, b, tempblock, lost, before, op>>
           /\ IF reset THEN fc'.busy = "none" /\ open' = {}
              ELSE UNCHANGED <<fc, open, flash, stale>>
           /\ \E torn \in SUBSET Target(fc) :
                 /\ flash' = [c \in Cells |-> IF SectorOf(c) \in torn THEN Junk ELSE flash[c]]
                 /\ stale' = stale \cup torn
<1>1. /\ pc = "idle" /\ ops < MaxOps /\ ops' = ops + 1 /\ flash_unlocked' = FALSE
      /\ open' = IF reset THEN {} ELSE open
      /\ UNCHANGED <<config, erased, pc, job, b, tempblock, polls, lost, before, op, faults>>
  BY DEF Halt
<1>2. flash \in Arrays /\ fc \in Controllers /\ open \subseteq Sectors
  BY DEF Course, Store
<1>3. PICK torn \in SUBSET (IF reset THEN Target(fc) ELSE {}) :
          /\ flash' = [c \in Cells |-> IF SectorOf(c) \in torn THEN Junk ELSE flash[c]]
          /\ stale' = stale \cup torn
  BY DEF Halt
<1>4. torn \subseteq Target(fc) /\ torn \subseteq Sectors /\ (~reset => torn = {})
  BY <1>2, TargetType
<1>5. fc' \in Controllers /\ IF reset THEN fc'.busy = "none" ELSE fc' = fc
  <2>1. CASE reset
    <3>1. fc' = [fc EXCEPT !.mode = "none", !.buf = NoPage, !.busy = "none",
                           !.locked = TRUE, !.wrprt = FALSE]
      BY <2>1 DEF Halt
    <3> QED BY <1>2, <2>1, <3>1, Constants DEF Controllers, Modes, Pages
  <2>2. CASE ~reset
    BY <1>2, <2>2 DEF Halt
  <2> QED BY <2>1, <2>2
<1>6. flash' \in Arrays
  BY <1>2, <1>3, Constants DEF Arrays
<1>7. ~reset => flash' = flash /\ stale' = stale
  BY <1>2, <1>3, <1>4 DEF Arrays
<1>8. stale' \subseteq Sectors /\ ops' \in 0..MaxOps
  BY <1>1, <1>3, <1>4, FlashAssumption DEF Course, Store
<1>9. Course'
  BY <1>1, <1>2, <1>8 DEF Course
<1>10. Store'
  BY <1>1, <1>5, <1>6, <1>8 DEF Store, config
<1>11. IF reset THEN fc'.busy = "none" /\ open' = {} ELSE UNCHANGED <<fc, open, flash, stale>>
  BY <1>1, <1>5, <1>7
<1>12. \E t \in SUBSET Target(fc) :
          /\ flash' = [c \in Cells |-> IF SectorOf(c) \in t THEN Junk ELSE flash[c]]
          /\ stale' = stale \cup t
  BY <1>3, <1>4
<1> QED BY <1>1, <1>9, <1>10, <1>11, <1>12

LEMMA RunEffect ==
    ASSUME Course, Store, RunProgram
    PROVE  /\ Course' /\ Store' /\ pc = "idle" /\ Idle /\ fc'.busy = "none"
           /\ UNCHANGED <<config, erased, pc, job, b, tempblock, lost, before, open>>
           /\ op'.kind = "run" /\ op'.done
           /\ \E s \in Sectors :
                 /\ flash' = [c \in Cells |-> IF SectorOf(c) = s THEN Old ELSE flash[c]]
                 /\ stale' = stale \cup {s}
<1>1. /\ pc = "idle" /\ Idle /\ ops < MaxOps /\ ops' = ops + 1 /\ flash_unlocked' = FALSE
      /\ op' = [kind |-> "run", cells |-> {}, val |-> Blank, done |-> TRUE, lost |-> {}]
      /\ UNCHANGED <<config, erased, pc, job, b, tempblock, polls, lost, before, open, faults>>
  BY DEF RunProgram
<1>2. PICK s \in Sectors :
          /\ flash' = [c \in Cells |-> IF SectorOf(c) = s THEN Old ELSE flash[c]]
          /\ stale' = stale \cup {s}
  BY DEF RunProgram
<1>3. PICK l \in BOOLEAN : fc' = [fc EXCEPT !.locked = l, !.mode = "none", !.buf = NoPage]
  BY DEF RunProgram
<1>4. fc' \in Controllers /\ fc'.busy = fc.busy
  BY <1>3, Constants DEF Store, Controllers, Modes, Pages
<1>5. flash' \in Arrays /\ stale' \subseteq Sectors
  BY <1>2, Constants DEF Store, Arrays
<1>6. ops' \in 0..MaxOps
  BY <1>1, FlashAssumption DEF Course
<1>7. Course'
  BY <1>1, <1>6 DEF Course, Kinds
<1>8. Store'
  BY <1>1, <1>4, <1>5 DEF Store, config
<1> QED BY <1>1, <1>2, <1>4, <1>7, <1>8 DEF Idle

LEMMA EraseSectorEffect ==
    ASSUME Course, Store, EraseSector
    PROVE  /\ Course' /\ Store' /\ pc = "sector" /\ job.kind # "write" /\ EraseIssue
           /\ UNCHANGED <<config, flash, tempblock>>
<1>1. /\ pc = "sector" /\ job.kind # "write" /\ EraseIssue
      /\ UNCHANGED <<config, flash, flash_unlocked, tempblock>>
  BY DEF EraseSector
<1> QED BY <1>1, EraseIssueType

LEMMA TypeInit == Init => Course /\ Store
<1> SUFFICES ASSUME Init PROVE Course /\ Store
  OBVIOUS
<1>1. First \in Sectors /\ NoPage \in Pages /\ Blanked \in Arrays
  BY Constants
<1>2. flash \in Arrays
  BY Constants DEF Init, Arrays
<1>3. fc \in Controllers
  BY <1>1 DEF Init, Controllers, Modes, Pages
<1>4. faults \in 0..MaxFaults
  <2>1. IsFiniteSet(protected)
    BY FlashAssumption, FS_Subset DEF Init
  <2>2. Cardinality(protected) \in Nat
    BY <2>1, FS_CardinalityType
  <2> QED BY <2>2, FlashAssumption DEF Init
<1>5. 0 \in 0..MaxPolls /\ 0 \in 0..MaxOps
  BY FlashAssumption
<1>6. job.kind \in Kinds /\ job.cells \subseteq Cells /\ job.val \in Values
  BY Constants DEF Init
<1>7. op.kind \in Kinds /\ op.cells \subseteq Cells /\ op.done \in BOOLEAN
  BY DEF Init, Kinds
<1>8. Course
  BY <1>1, <1>5, <1>6, <1>7 DEF Init, Course, Labels
<1>9. Store
  BY <1>1, <1>2, <1>3, <1>4 DEF Init, Store
<1> QED BY <1>8, <1>9

LEMMA TypeNext == Course /\ Store /\ [Next]_vars => Course' /\ Store'
<1> SUFFICES ASSUME Course, Store, [Next]_vars
             PROVE  Course' /\ Store'
  OBVIOUS
<1>1. CASE UNCHANGED vars
  BY <1>1 DEF vars, config, ghosts, Course, Store
<1>2. ASSUME Step
      PROVE  Course' /\ Store'
  BY <1>2, UnlockEffect, EraseSectorEffect, MakePageEffect, BlockEffect, MarkedEffect,
     SetUpEffect, LoadEffect, ProgramEffect, WaitEffect DEF Step
<1> QED
  BY <1>1, <1>2, CompleteEffect, BeginEffect, HaltEffect, RunEffect DEF Next

(* Every variable keeps its type. *)
THEOREM FlashTypeCorrect == Spec => []TypeOK
<1>1. Spec => [](Course /\ Store)
  BY TypeInit, TypeNext, PTL DEF Spec
<1>2. Course /\ Store => TypeOK
  BY TypeParts
<1> QED BY <1>1, <1>2, PTL

-----------------------------------------------------------------------------
(* The marks.  A mark is true unless its erase or its program is still on;  *)
(* a program under way is not at a sector whose mark says it is erased; and *)
(* an erase that nothing befell is at its sector until the tool has seen    *)
(* the end of it.                                                           *)

(* Nothing went wrong but that the sector may not have been read. *)
Clean == lost \subseteq {"read"}

(* What is left of earlier calls is what the controller is at. *)
OpenInv == open \in {{}, Target(fc)} /\ (pc = "idle" => open = Target(fc))

MarkInv ==
    \A s \in erased \ stale :
        \/ IsBlank(flash, s)
        \/ s = b /\ pc = "startWait"
        \/ s = b /\ pc = "eraseWait" /\ ~WholeChip

PgInv ==
    fc.busy = "PG" =>
        \/ fc.addr \in stale
        \/ fc.addr \notin erased
        \/ fc.addr = b /\ pc = "startWait"

PageErased ==
    ~WholeChip /\ (b \notin stale \/ Clean) =>
        /\ open = {} /\ fc.mode = "ER" /\ fc.addr = b /\ fc.busy \in {"none", "ER"}
        /\ Idle => IsBlank(flash, b) \/ b \in protected
ChipErased ==
    WholeChip /\ "erase" \notin lost =>
        /\ open = {} /\ fc.mode = "MER" /\ fc.busy \in {"none", "MER"}
        /\ Idle => (\A s \in Sectors : IsBlank(flash, s)) \/ protected # {}
EraseInv ==
    pc = "eraseWait" => PageErased /\ ChipErased /\ (Clean => job.kind = "chip" \/ ~WholeChip)

MarkingInv == OpenInv /\ MarkInv /\ PgInv /\ EraseInv

LEMMA SparedTarget ==
    ASSUME Spared
    PROVE  Target(fc') = Target(fc) /\ (Idle <=> Idle')
  BY DEF Spared, Target, Idle

LEMMA HeededTarget ==
    ASSUME NEW m \in {"ER", "MER", "PG"}, NEW a, Heeded(m, a)
    PROVE  Target(fc) = {} /\ Idle /\ ~Idle' /\ fc'.busy = m
           /\ Target(fc') = IF m = "MER" THEN Sectors ELSE {a}
  BY DEF Heeded, Target, Idle, Deaf

(* Whatever the step, no other operation is left behind. *)
LEMMA OpenKept ==
    ASSUME OpenInv, pc # "idle",
           \/ pc' # "idle" /\ open' = open /\
              \/ Spared
              \/ \E m \in {"ER", "MER", "PG"} : \E a : Heeded(m, a)
           \/ Spared /\ \E done \in BOOLEAN : Return(done)
    PROVE  OpenInv'
<1>1. CASE pc' # "idle" /\ open' = open /\ Spared
  BY <1>1, SparedTarget DEF OpenInv
<1>2. CASE pc' # "idle" /\ open' = open /\ \E m \in {"ER", "MER", "PG"} : \E a : Heeded(m, a)
  <2>1. Target(fc) = {}
    BY <1>2, HeededTarget
  <2> QED BY <1>2, <2>1 DEF OpenInv
<1>3. CASE Spared /\ \E done \in BOOLEAN : Return(done)
  <2>1. open' = open \cup Target(fc')
    BY <1>3 DEF Return
  <2>2. Target(fc') = Target(fc)
    BY <1>3, SparedTarget
  <2> QED BY <2>1, <2>2 DEF OpenInv
<1> QED BY <1>1, <1>2, <1>3

(* A step that leaves the array and the marks alone. *)
LEMMA QuietMarks ==
    ASSUME MarkingInv, pc \notin {"idle", "eraseWait", "startWait"}, pc' # "eraseWait",
           Spared, flash' = flash, erased' = erased, stale \subseteq stale',
           \/ pc' # "idle" /\ open' = open
           \/ \E done \in BOOLEAN : Return(done)
    PROVE  MarkingInv'
<1>1. OpenInv'
  BY OpenKept DEF MarkingInv
<1>2. MarkInv'
  BY DEF MarkingInv, MarkInv
<1>3. PgInv'
  BY DEF MarkingInv, PgInv, Spared, Idle
<1>4. EraseInv'
  BY DEF EraseInv
<1> QED BY <1>1, <1>2, <1>3, <1>4 DEF MarkingInv

LEMMA GotoMoves ==
    ASSUME NEW l \in Labels \ {"idle"}, Goto(l)
    PROVE  pc' = l /\ pc' # "idle" /\ UNCHANGED <<job, b, open, before, op>>
  BY DEF Goto

LEMMA NextMoves ==
    ASSUME NextSector
    PROVE  \/ pc' = "sector" /\ open' = open
           \/ Return(TRUE)
  BY DEF NextSector

LEMMA EraseIssueMarks ==
    ASSUME Course, Store, MarkingInv, pc \in {"sector", "erase"}, EraseIssue,
           UNCHANGED <<config, flash>>
    PROVE  MarkingInv'
<1>1. EraseBegun \/ EraseMissed \/ EraseAstray \/ EraseFailed
  BY EraseIssueCases DEF Course, Store
<1>2. erased' = IF WholeChip THEN erased ELSE erased \cup {b}
  BY DEF EraseIssue, Mark
<1>3. \A s \in erased \ stale : IsBlank(flash, s)
  BY DEF MarkingInv, MarkInv
<1>4. fc.busy = "PG" => fc.addr \in stale \/ fc.addr \notin erased
  BY DEF MarkingInv, PgInv
<1>5. "eraseWait" \in Labels \ {"idle"} /\ "setup" \in Labels \ {"idle"}
  BY DEF Labels
<1>6. ASSUME EraseBegun
      PROVE  MarkingInv'
  <2>1. /\ Heeded(EraseMode, b) /\ pc' = "eraseWait" /\ stale' = stale
        /\ lost' = lost \cup (IF WholeChip /\ job.kind # "chip" THEN {"chip"} ELSE {})
        /\ UNCHANGED <<job, b, open>>
    BY <1>5, <1>6, GotoMoves DEF EraseBegun
  <2>2. EraseMode \in {"ER", "MER", "PG"}
    BY DEF EraseMode
  <2>3. OpenInv'
    BY <2>1, <2>2, OpenKept DEF MarkingInv
  <2>4. /\ ~Idle' /\ fc'.busy = EraseMode /\ fc'.mode = EraseMode /\ fc'.addr = b
        /\ Target(fc) = {}
    BY <2>1, <2>2, HeededTarget DEF Heeded
  <2>5. open' = {}
    BY <2>1, <2>4 DEF MarkingInv, OpenInv
  <2>6. WholeChip' <=> WholeChip
    BY <2>1 DEF WholeChip, config
  <2>7. MarkInv'
    BY <1>2, <1>3, <2>1, <2>6 DEF MarkInv
  <2>8. PgInv'
    BY <2>4 DEF PgInv, EraseMode
  <2>9. PageErased' /\ ChipErased'
    BY <2>1, <2>4, <2>5, <2>6 DEF PageErased, ChipErased, EraseMode
  <2>10. Clean' => job'.kind = "chip" \/ ~WholeChip'
    BY <2>1, <2>6 DEF Clean
  <2> QED BY <2>3, <2>7, <2>8, <2>9, <2>10 DEF MarkingInv, EraseInv
(* Otherwise the sector is doubted. *)
<1>7. ASSUME stale' = stale \cup Doubted
      PROVE  /\ \A s \in erased' \ stale' : IsBlank(flash, s)
             /\ WholeChip \/ b \in stale'
             /\ fc.busy = "PG" => fc.addr \in stale' \/ fc.addr \notin erased'
  BY <1>2, <1>3, <1>4, <1>7 DEF Doubted
<1>8. ASSUME stale' = stale \cup Doubted, Spared
      PROVE  MarkInv' /\ PgInv'
  <2>1. MarkInv'
    BY <1>7, <1>8 DEF MarkInv
  <2>2. PgInv'
    BY <1>7, <1>8 DEF PgInv, Spared, Idle
  <2> QED BY <2>1, <2>2
<1>9. ASSUME EraseMissed
      PROVE  MarkingInv'
  <2>1. /\ lost' = lost \cup {"erase"} /\ Spared /\ stale' = stale \cup Doubted
        /\ pc' # "idle" /\ UNCHANGED <<job, b, open>>
    BY <1>5, <1>9, GotoMoves DEF EraseMissed
  <2>2. OpenInv'
    BY <2>1, OpenKept DEF MarkingInv
  <2>3. WholeChip' <=> WholeChip
    BY <2>1 DEF WholeChip, config
  <2>4. "erase" \in lost' /\ ~Clean'
    BY <2>1 DEF Clean
  <2>5. PageErased' /\ ChipErased'
    BY <1>7, <2>1, <2>3, <2>4 DEF PageErased, ChipErased
  <2> QED BY <1>8, <2>1, <2>2, <2>4, <2>5 DEF MarkingInv, EraseInv
<1>10. ASSUME EraseAstray
       PROVE  MarkingInv'
  <2>1. /\ ~WholeChip /\ lost' = lost \cup {"addr"} /\ Heeded("ER", fc.addr)
        /\ stale' = stale \cup Doubted /\ pc' # "idle" /\ UNCHANGED <<job, b, open>>
    BY <1>5, <1>10, GotoMoves DEF EraseAstray
  <2>2. OpenInv'
    BY <2>1, OpenKept DEF MarkingInv
  <2>3. WholeChip' <=> WholeChip
    BY <2>1 DEF WholeChip, config
  <2>4. ~Clean'
    BY <2>1 DEF Clean
  <2>5. PageErased' /\ ChipErased'
    BY <1>7, <2>1, <2>3, <2>4 DEF PageErased, ChipErased
  <2>6. MarkInv'
    BY <1>7, <2>1 DEF MarkInv
  <2>7. PgInv'
    BY <2>1 DEF PgInv, Heeded
  <2> QED BY <2>2, <2>4, <2>5, <2>6, <2>7 DEF MarkingInv, EraseInv
<1>11. ASSUME EraseFailed
       PROVE  MarkingInv'
  <2>1. Spared /\ stale' = stale \cup Doubted /\ Return(FALSE)
    BY <1>11 DEF EraseFailed
  <2>2. OpenInv'
    BY <2>1, OpenKept DEF MarkingInv
  <2>3. EraseInv'
    BY <2>1 DEF EraseInv, Return
  <2> QED BY <1>8, <2>1, <2>2, <2>3 DEF MarkingInv
<1> QED BY <1>1, <1>6, <1>9, <1>10, <1>11

LEMMA BlankKept ==
    ASSUME NEW s \in Sectors, IsBlank(flash, s),
           \A c \in Cells : SectorOf(c) = s => flash'[c] = flash[c] \/ flash'[c] = Blank
    PROVE  IsBlank(flash', s)
<1>1. Bare(flash, s)
  BY SectorCells
<1>2. Bare(flash', s)
  BY <1>1 DEF Bare
<1> QED BY <1>2, SectorCells

LEMMA FoundFacts ==
    ASSUME Store, ~Missing
    PROVE  /\ Idle
           /\ fc.mode = "MER" => protected = {}
           /\ fc.mode \in {"ER", "PG"} => fc.addr \notin protected
<1> DEFINE f == [fc EXCEPT !.busy = fc.mode]
<1>1. Idle /\ Target(f) \cap protected = {}
  BY DEF Missing
<1>2. f.busy = fc.mode /\ f.addr = fc.addr
  BY DEF Store, Controllers
<1> HIDE DEF f
<1>3. fc.mode = "MER" => Target(f) = Sectors
  BY <1>2 DEF Target
<1>4. fc.mode \in {"ER", "PG"} => Target(f) = {fc.addr}
  BY <1>2 DEF Target
<1>5. protected \subseteq Sectors
  BY DEF Store
<1> QED BY <1>1, <1>3, <1>4, <1>5

LEMMA BlockMarks ==
    ASSUME Course, Store, MarkingInv, BlockWrite64
    PROVE  MarkingInv'
<1>1. /\ pc = "block" /\ fc' = fc /\ erased' = erased \ {b} /\ stale' = stale \ {b}
      /\ \A c \in Cells : SectorOf(c) # b => flash'[c] = flash[c]
      /\ Goto("lastWait") \/ NextSector \/ Return(FALSE)
  BY BlockEffect
<1>2. \/ pc' \in {"lastWait", "sector"} /\ open' = open
      \/ \E done \in BOOLEAN : Return(done)
  BY <1>1, NextMoves DEF Goto
<1>3. OpenInv'
  BY <1>1, <1>2, OpenKept DEF MarkingInv, Spared
<1>4. MarkInv'
  <2>1. ASSUME NEW s \in erased' \ stale'
        PROVE  IsBlank(flash', s)
    <3>1. s \in erased \ stale /\ s # b /\ s \in Sectors
      BY <1>1 DEF Store
    <3>2. IsBlank(flash, s)
      BY <1>1, <3>1 DEF MarkingInv, MarkInv
    <3> QED BY <1>1, <3>1, <3>2, BlankKept
  <2> QED BY <2>1 DEF MarkInv
<1>5. PgInv'
  BY <1>1 DEF MarkingInv, PgInv
<1>6. EraseInv'
  BY <1>2 DEF EraseInv, Return
<1> QED BY <1>3, <1>4, <1>5, <1>6 DEF MarkingInv

LEMMA ProgramMarks ==
    ASSUME Course, Store, MarkingInv, Program
    PROVE  MarkingInv'
<1>1. /\ pc = "start" /\ Goto("startWait") /\ UNCHANGED <<flash, erased>>
      /\ (\E a \in Sectors : ProgramBegun(a)) \/ ProgramMissed
  BY ProgramEffect
<1>2. pc' = "startWait" /\ UNCHANGED <<b, open>>
  BY <1>1 DEF Goto
<1>3. CASE ProgramMissed
  BY <1>1, <1>2, <1>3, QuietMarks DEF ProgramMissed, Spared
<1>4. ASSUME NEW a \in Sectors, ProgramBegun(a)
      PROVE  MarkingInv'
  <2>1. /\ Heeded("PG", a) /\ fc'.addr = a
        /\ stale' = stale \cup (IF a # b THEN {a} ELSE {})
    BY <1>4 DEF ProgramBegun, Heeded
  <2>2. OpenInv'
    BY <1>1, <1>2, <2>1, OpenKept DEF MarkingInv
  <2>3. MarkInv'
    BY <1>1, <1>2, <2>1 DEF MarkingInv, MarkInv
  <2>4. PgInv'
    BY <1>2, <2>1 DEF PgInv
  <2>5. EraseInv'
    BY <1>2 DEF EraseInv
  <2> QED BY <2>2, <2>3, <2>4, <2>5 DEF MarkingInv
<1> QED BY <1>1, <1>3, <1>4

LEMMA EraseWaitedMarks ==
    ASSUME Course, Store, MarkingInv, pc = "eraseWait", NEW ok \in BOOLEAN, EraseWaited(ok),
           UNCHANGED <<config, flash, fc>>
    PROVE  MarkingInv'
<1>1. Goto("setup") \/ NextSector \/ Return(TRUE) \/ Return(FALSE)
  BY DEF EraseWaited
<1>2. \/ pc' \in {"setup", "sector"} /\ open' = open
      \/ \E done \in BOOLEAN : Return(done)
  BY <1>1, NextMoves DEF Goto
<1>3. OpenInv'
  BY <1>2, OpenKept DEF MarkingInv, Spared
<1>4. EraseInv'
  BY <1>2 DEF EraseInv, Return
<1>5. fc.busy = "PG" => ~Idle /\ fc.addr \in Sectors /\ (fc.addr \in stale \/ fc.addr \notin erased)
  BY DEF MarkingInv, PgInv, Idle, Store, Controllers
<1> DEFINE Marked == (\A s \in erased' \ stale' : IsBlank(flash, s))
                     /\ (fc.busy = "PG" => fc.addr \in stale' \/ fc.addr \notin erased')
<1>6. ASSUME WholeChip
      PROVE  Marked
  <2>1. \A s \in erased \ stale : IsBlank(flash, s)
    BY <1>6 DEF MarkingInv, MarkInv
  <2>2. CASE erased' = erased /\ stale' = stale
    BY <1>5, <2>1, <2>2
  <2>3. CASE /\ ok /\ lost' = lost \cup (IF Missing THEN {"erase"} ELSE {})
             /\ erased' = Sectors /\ stale' = IF "erase" \in lost' THEN Sectors ELSE {}
    <3>1. CASE "erase" \in lost'
      BY <1>5, <2>3, <3>1
    <3>2. CASE "erase" \notin lost'
      <4>1. ~Missing /\ "erase" \notin lost
        BY <2>3, <3>2
      <4>2. ChipErased
        BY DEF MarkingInv, EraseInv
      <4>3. Idle /\ \A s \in Sectors : IsBlank(flash, s)
        BY <1>6, <4>1, <4>2, FoundFacts DEF ChipErased
      <4> QED BY <1>5, <2>3, <4>3
    <3> QED BY <3>1, <3>2
  <2>4. \/ erased' = erased /\ stale' = stale
        \/ /\ ok /\ lost' = lost \cup (IF Missing THEN {"erase"} ELSE {})
           /\ erased' = Sectors /\ stale' = IF "erase" \in lost' THEN Sectors ELSE {}
    BY <1>6 DEF EraseWaited
  <2> QED BY <2>2, <2>3, <2>4
<1>7. ASSUME ~WholeChip
      PROVE  Marked
  <2>1. erased' = erased /\ stale' = IF Missing THEN stale \cup {b} ELSE stale
    BY <1>7 DEF EraseWaited
  <2>2. \A s \in erased \ stale : s # b => IsBlank(flash, s)
    BY <1>7 DEF MarkingInv, MarkInv
  <2>3. ~Missing /\ b \notin stale => IsBlank(flash, b)
    <3>1. PageErased
      BY DEF MarkingInv, EraseInv
    <3> QED BY <1>7, <3>1, FoundFacts DEF PageErased
  <2> QED BY <1>5, <2>1, <2>2, <2>3
<1>8. Marked
  BY <1>6, <1>7
<1>9. MarkInv' /\ PgInv'
  BY <1>8 DEF MarkInv, PgInv
<1> QED BY <1>3, <1>4, <1>9 DEF MarkingInv

LEMMA ProgramWaitedMarks ==
    ASSUME Store, MarkingInv, pc = "startWait", ProgramWaited, UNCHANGED <<flash, fc>>
    PROVE  MarkingInv'
<1>1. erased' = erased \ {b} /\ stale' = stale \ {b} /\ (Goto("lastWait") \/ NextSector)
  BY DEF ProgramWaited
<1>2. \/ pc' \in {"lastWait", "sector"} /\ open' = open
      \/ \E done \in BOOLEAN : Return(done)
  BY <1>1, NextMoves DEF Goto
<1>3. OpenInv'
  BY <1>2, OpenKept DEF MarkingInv, Spared
<1>4. MarkInv'
  BY <1>1 DEF MarkingInv, MarkInv
<1>5. PgInv'
  BY <1>1 DEF MarkingInv, PgInv
<1>6. EraseInv'
  BY <1>2 DEF EraseInv, Return
<1> QED BY <1>3, <1>4, <1>5, <1>6 DEF MarkingInv

LEMMA WaitMarks ==
    ASSUME Course, Store, MarkingInv, WaitForFlash
    PROVE  MarkingInv'
<1>1. /\ pc \in Waiting /\ UNCHANGED <<config, flash, fc>>
      /\ Polled \/ \E ok \in BOOLEAN : Waited(ok)
  BY WaitEffect
<1>2. CASE Polled
  BY <1>1, <1>2 DEF Polled, config, MarkingInv, OpenInv, MarkInv, PgInv, EraseInv, PageErased,
     ChipErased, WholeChip, Clean, Idle
<1>3. ASSUME NEW ok \in BOOLEAN, Waited(ok)
      PROVE  MarkingInv'
  <2>1. CASE pc = "eraseWait"
    BY <1>1, <1>3, <2>1, EraseWaitedMarks DEF Waited
  <2>2. CASE pc = "startWait"
    BY <1>1, <1>3, <2>2, ProgramWaitedMarks DEF Waited
  <2>3. CASE pc \in {"setupWait", "lastWait"}
    <3>1. /\ Goto("load") \/ NextSector \/ Return(FALSE)
          /\ UNCHANGED <<erased, stale>>
      BY <1>3, <2>3 DEF Waited, LastWaited
    <3>2. \/ pc' \in {"load", "sector"} /\ open' = open
          \/ Return(TRUE)
          \/ Return(FALSE)
      BY <3>1, NextMoves DEF Goto
    <3>3. pc' # "eraseWait"
      BY <3>2 DEF Return
    <3> QED BY <1>1, <2>3, <3>1, <3>2, <3>3, QuietMarks DEF Spared
  <2> QED BY <1>1, <2>1, <2>2, <2>3 DEF Waiting
<1> QED BY <1>1, <1>2, <1>3

LEMMA CompleteMarks ==
    ASSUME Course, Store, MarkingInv, Complete
    PROVE  MarkingInv'
<1>1. /\ ~Idle /\ open' = {} /\ UNCHANGED <<config, erased, stale, pc, job, b>>
      /\ fc'.busy = "none" /\ fc'.mode = fc.mode /\ fc'.addr = fc.addr
      /\ lost \subseteq lost'
  BY CompleteEffect
<1>2. fc.busy # "none" /\ fc \in Controllers /\ protected \subseteq Sectors
  BY <1>1 DEF Idle, Store
<1>3. OpenInv'
  <2>1. Target(fc') = {}
    BY <1>1 DEF Target
  <2> QED BY <1>1, <2>1 DEF OpenInv
<1>4. WholeChip' <=> WholeChip
  BY <1>1 DEF WholeChip, config
<1>5. ASSUME NEW s \in Sectors, IsBlank(flash, s), fc.busy = "PG" => s # fc.addr
      PROVE  IsBlank(flash', s)
  <2>1. \A c \in Cells : SectorOf(c) = s => flash'[c] = flash[c] \/ flash'[c] = Blank
    <3>1. CASE s \notin Target(fc) \/ Target(fc) \cap protected # {}
      BY <3>1, CompleteEffect
    <3>2. CASE s \in Target(fc) /\ Target(fc) \cap protected = {}
      <4>1. fc.busy # "PG"
        BY <1>5, <3>2 DEF Target
      <4> QED BY <3>2, <4>1, CompleteEffect
    <3> QED BY <3>1, <3>2
  <2> QED BY <1>5, <2>1, BlankKept
<1>6. MarkInv'
  <2>1. ASSUME NEW s \in erased' \ stale'
        PROVE  \/ IsBlank(flash', s)
               \/ s = b' /\ pc' = "startWait"
               \/ s = b' /\ pc' = "eraseWait" /\ ~WholeChip'
    <3>1. s \in erased \ stale /\ s \in Sectors
      BY <1>1 DEF Store
    <3>2. \/ IsBlank(flash, s)
          \/ s = b /\ pc = "startWait"
          \/ s = b /\ pc = "eraseWait" /\ ~WholeChip
      BY <3>1 DEF MarkingInv, MarkInv
    <3>3. CASE fc.busy = "PG" /\ s = fc.addr
      BY <1>1, <3>1, <3>3 DEF MarkingInv, PgInv
    <3>4. CASE IsBlank(flash, s) /\ ~(fc.busy = "PG" /\ s = fc.addr)
      BY <1>5, <3>1, <3>4
    <3> QED BY <1>1, <1>4, <3>2, <3>3, <3>4
  <2> QED BY <2>1 DEF MarkInv
<1>7. PgInv'
  BY <1>1 DEF PgInv
<1>8. EraseInv'
  <2> SUFFICES ASSUME pc' = "eraseWait"
               PROVE  PageErased' /\ ChipErased' /\ (Clean' => job'.kind = "chip" \/ ~WholeChip')
    BY DEF EraseInv
  <2>1. PageErased /\ ChipErased /\ (Clean => job.kind = "chip" \/ ~WholeChip)
    BY <1>1 DEF MarkingInv, EraseInv
  <2>2. Clean' => Clean
    BY <1>1 DEF Clean
  <2>3. PageErased'
    <3> SUFFICES ASSUME ~WholeChip', b' \notin stale' \/ Clean'
                 PROVE  /\ open' = {} /\ fc'.mode = "ER" /\ fc'.addr = b' /\ fc'.busy \in {"none", "ER"}
                        /\ Idle' => IsBlank(flash', b') \/ b' \in protected'
      BY DEF PageErased
    <3>1. fc.mode = "ER" /\ fc.addr = b /\ fc.busy = "ER"
      BY <1>1, <1>2, <1>4, <2>1, <2>2 DEF PageErased
    <3>2. Target(fc) = {b} /\ b \in Sectors
      BY <3>1 DEF Target, Course
    <3>3. b \notin protected => \A c \in Cells : SectorOf(c) = b => flash'[c] = Blank
      BY <3>1, <3>2, CompleteEffect
    <3>4. b \notin protected => IsBlank(flash', b)
      BY <3>2, <3>3, SectorCells DEF Bare
    <3> QED BY <1>1, <3>1, <3>4 DEF config
  <2>4. ChipErased'
    <3> SUFFICES ASSUME WholeChip', "erase" \notin lost'
                 PROVE  /\ open' = {} /\ fc'.mode = "MER" /\ fc'.busy \in {"none", "MER"}
                        /\ Idle' => (\A s \in Sectors : IsBlank(flash', s)) \/ protected' # {}
      BY DEF ChipErased
    <3>1. fc.mode = "MER" /\ fc.busy = "MER"
      BY <1>1, <1>2, <1>4, <2>1 DEF ChipErased
    <3>2. Target(fc) = Sectors
      BY <3>1 DEF Target
    <3>3. protected = {} => \A c \in Cells : flash'[c] = Blank
      <4>1. \A c \in Cells : SectorOf(c) \in Sectors
        BY CellFacts
      <4> QED BY <3>1, <3>2, <4>1, CompleteEffect
    <3>4. protected = {} => \A s \in Sectors : IsBlank(flash', s)
      BY <3>3, SectorCells DEF Bare
    <3> QED BY <1>1, <3>1, <3>4 DEF config
  <2> QED BY <1>1, <1>4, <2>1, <2>2, <2>3, <2>4
<1> QED BY <1>3, <1>6, <1>7, <1>8 DEF MarkingInv

LEMMA HaltMarks ==
    ASSUME Course, Store, MarkingInv, NEW reset \in BOOLEAN, Halt(reset)
    PROVE  MarkingInv'
<1>1. /\ pc = "idle" /\ UNCHANGED <<erased, pc, b>>
      /\ IF reset THEN fc'.busy = "none" /\ open' = {}
         ELSE UNCHANGED <<fc, open, flash, stale>>
  BY HaltEffect
<1>2. PICK torn \in SUBSET Target(fc) :
          /\ flash' = [c \in Cells |-> IF SectorOf(c) \in torn THEN Junk ELSE flash[c]]
          /\ stale' = stale \cup torn
  BY HaltEffect
<1>3. EraseInv'
  BY <1>1 DEF EraseInv
<1>4. MarkInv'
  <2>1. ASSUME NEW s \in erased' \ stale'
        PROVE  IsBlank(flash', s)
    <3>1. s \in erased \ stale /\ s \notin torn /\ s \in Sectors
      BY <1>1, <1>2 DEF Store
    <3>2. IsBlank(flash, s)
      BY <1>1, <3>1 DEF MarkingInv, MarkInv
    <3>3. \A c \in Cells : SectorOf(c) = s => flash'[c] = flash[c]
      BY <1>2, <3>1
    <3> QED BY <3>1, <3>2, <3>3, BlankKept
  <2> QED BY <2>1 DEF MarkInv
<1>5. OpenInv' /\ PgInv'
  <2>1. CASE reset
    <3>1. fc'.busy = "none" /\ open' = {} /\ Target(fc') = {}
      BY <1>1, <2>1 DEF Target
    <3> QED BY <3>1 DEF OpenInv, PgInv
  <2>2. CASE ~reset
    BY <1>1, <2>2 DEF MarkingInv, OpenInv, PgInv
  <2> QED BY <2>1, <2>2
<1> QED BY <1>3, <1>4, <1>5 DEF MarkingInv

LEMMA RunMarks ==
    ASSUME Course, Store, MarkingInv, RunProgram
    PROVE  MarkingInv'
<1>1. pc = "idle" /\ Idle /\ fc'.busy = "none" /\ UNCHANGED <<erased, pc, b, open>>
  BY RunEffect
<1>2. PICK t \in Sectors :
          /\ flash' = [c \in Cells |-> IF SectorOf(c) = t THEN Old ELSE flash[c]]
          /\ stale' = stale \cup {t}
  BY RunEffect
<1>3. MarkInv'
  <2>1. ASSUME NEW s \in erased' \ stale'
        PROVE  IsBlank(flash', s)
    <3>1. s \in erased \ stale /\ s # t /\ s \in Sectors
      BY <1>1, <1>2 DEF Store
    <3>2. IsBlank(flash, s)
      BY <1>1, <3>1 DEF MarkingInv, MarkInv
    <3>3. \A c \in Cells : SectorOf(c) = s => flash'[c] = flash[c]
      BY <1>2, <3>1
    <3> QED BY <3>1, <3>2, <3>3, BlankKept
  <2> QED BY <2>1 DEF MarkInv
<1>4. OpenInv'
  BY <1>1 DEF MarkingInv, OpenInv, Target, Idle
<1>5. PgInv' /\ EraseInv'
  BY <1>1 DEF PgInv, EraseInv
<1> QED BY <1>3, <1>4, <1>5 DEF MarkingInv

LEMMA BeginMarks ==
    ASSUME Course, Store, MarkingInv, WriteBinaryBlob \/ Erase \/ EraseChip
    PROVE  MarkingInv'
<1>1. pc = "idle" /\ pc' = "unlock" /\ UNCHANGED <<flash, fc, erased, stale, open>>
  BY BeginEffect
<1>2. OpenInv' /\ EraseInv'
  BY <1>1 DEF MarkingInv, OpenInv, EraseInv
<1>3. MarkInv' /\ PgInv'
  BY <1>1 DEF MarkingInv, MarkInv, PgInv
<1> QED BY <1>2, <1>3 DEF MarkingInv

LEMMA MarkingInit == Init => MarkingInv
  BY DEF Init, MarkingInv, OpenInv, MarkInv, PgInv, EraseInv, Target

LEMMA MarkingNext == Course /\ Store /\ MarkingInv /\ [Next]_vars => MarkingInv'
<1> SUFFICES ASSUME Course, Store, MarkingInv, [Next]_vars
             PROVE  MarkingInv'
  OBVIOUS
<1>1. CASE UNCHANGED vars
  BY <1>1 DEF vars, config, ghosts, MarkingInv, OpenInv, MarkInv, PgInv, EraseInv, PageErased,
     ChipErased, WholeChip, Clean, Idle
<1>2. CASE UnlockFlash
  <2>1. /\ pc = "unlock" /\ Spared /\ UNCHANGED <<flash, erased, stale>>
        /\ Goto("sector") \/ Return(FALSE)
    BY <1>2, UnlockEffect
  <2> QED BY <2>1, QuietMarks DEF Goto, Return
<1>3. CASE EraseSector
  BY <1>3, EraseSectorEffect, EraseIssueMarks
<1>4. CASE MakePage
  <2>1. /\ pc = "sector" /\ UNCHANGED <<flash, fc, erased, stale>>
        /\ Goto("block") \/ Goto("erase")
    BY <1>4, MakePageEffect
  <2> QED BY <2>1, QuietMarks DEF Goto, Spared
<1>5. CASE EraseUnlessMarked
  <2>1. /\ pc = "erase" /\ UNCHANGED <<config, flash>>
        /\ (Goto("setup") /\ UNCHANGED <<fc, erased, stale>>) \/ EraseIssue
    BY <1>5, MarkedEffect
  <2>2. CASE Goto("setup") /\ UNCHANGED <<fc, erased, stale>>
    BY <2>1, <2>2, QuietMarks DEF Goto, Spared
  <2> QED BY <2>1, <2>2, EraseIssueMarks
<1>6. CASE SetUp
  <2>1. pc = "setup" /\ Spared /\ Goto("setupWait") /\ UNCHANGED <<flash, erased, stale>>
    BY <1>6, SetUpEffect
  <2> QED BY <2>1, QuietMarks DEF Goto
<1>7. CASE LoadPage
  <2>1. /\ pc = "load" /\ Spared /\ UNCHANGED <<flash, erased, stale>>
        /\ Goto("start") \/ Return(FALSE)
    BY <1>7, LoadEffect
  <2> QED BY <2>1, QuietMarks DEF Goto, Return
<1> QED
  BY <1>1, <1>2, <1>3, <1>4, <1>5, <1>6, <1>7, BlockMarks, ProgramMarks, WaitMarks,
     CompleteMarks, BeginMarks, HaltMarks, RunMarks DEF Next, Step

(* A sector marked erased is erased between two calls, unless its erase     *)
(* went wrong or the program on the chip has written to it since.           *)
THEOREM FlashMarksTrue == Spec => []MarksTrue
<1>1. Spec => [](Course /\ Store /\ MarkingInv)
  BY TypeInit, TypeNext, MarkingInit, MarkingNext, PTL DEF Spec
<1>2. MarkingInv => MarksTrue
  BY DEF MarkingInv, MarkInv, MarksTrue
<1> QED BY <1>1, <1>2, PTL

-----------------------------------------------------------------------------
(* FlashArray's promise.  First: what an operation touches.                 *)

Sphere(cells, l) == IF l \cap {"addr", "chip"} # {} THEN Sectors ELSE {SectorOf(c) : c \in cells}

(* A job is under way on one of its sectors; only a write gets past the     *)
(* erase, and what is not a write is whole sectors to blank.                *)
JobInv ==
    pc # "idle" =>
        /\ Wanted(job) /\ b \in JobSectors
        /\ pc \in {"block", "erase", "setup", "setupWait", "load", "start", "startWait",
                   "lastWait"} => job.kind = "write"

(* What has changed, or is about to, is in the operation's sphere, unless   *)
(* an earlier operation of the controller is to blame.                      *)
TouchInv ==
    pc # "idle" =>
        /\ \A c \in Cells : flash[c] # before[c] => SectorOf(c) \in Sphere(job.cells, lost)
        /\ open = {} => Target(fc) \subseteq Sphere(job.cells, lost)

LEMMA SphereGrows ==
    ASSUME NEW cells, NEW l, NEW m, l \subseteq m, cells \subseteq Cells
    PROVE  Sphere(cells, l) \subseteq Sphere(cells, m)
<1>1. \A c \in cells : SectorOf(c) \in Sectors
  BY CellFacts
<1> QED BY <1>1 DEF Sphere

LEMMA JobInSphere ==
    ASSUME NEW l
    PROVE  Course => JobSectors \subseteq Sphere(job.cells, l)
  BY JobSectorsType DEF Sphere, JobSectors

LEMMA NextJob ==
    ASSUME Course, NextSector
    PROVE  \/ Return(TRUE)
           \/ pc' = "sector" /\ job' = job /\ b' \in JobSectors
  BY NextFacts

(* The job stays what it is until the operation returns. *)
LEMMA JobKept ==
    ASSUME Course, JobInv, pc # "idle",
           \/ \E done \in BOOLEAN : Return(done)
           \/ NextSector
           \/ /\ UNCHANGED <<job, b>>
              /\ pc' \in {"block", "erase", "setup", "setupWait", "load", "start", "startWait",
                          "lastWait"} => job.kind = "write"
    PROVE  JobInv'
<1>1. Wanted(job) /\ b \in JobSectors
  BY DEF JobInv
<1>2. CASE \E done \in BOOLEAN : Return(done)
  BY <1>2 DEF Return, JobInv
<1>3. CASE pc' = "sector" /\ job' = job /\ b' \in JobSectors
  BY <1>1, <1>3 DEF JobInv, JobSectors
<1>4. CASE /\ UNCHANGED <<job, b>>
           /\ pc' \in {"block", "erase", "setup", "setupWait", "load", "start", "startWait",
                       "lastWait"} => job.kind = "write"
  BY <1>1, <1>4 DEF JobInv, JobSectors
<1> QED BY <1>2, <1>3, <1>4, NextJob

LEMMA EraseIssueJob ==
    ASSUME Course, Store, JobInv, pc \in {"sector", "erase"}, EraseIssue
    PROVE  JobInv'
<1>1. EraseBegun \/ EraseMissed \/ EraseAstray \/ EraseFailed
  BY EraseIssueCases DEF Course, Store
<1>2. \/ UNCHANGED <<job, b>> /\ pc' = "eraseWait"
      \/ UNCHANGED <<job, b>> /\ pc' = "setup" /\ job.kind = "write"
      \/ Return(FALSE)
  BY <1>1 DEF EraseBegun, EraseMissed, EraseAstray, EraseFailed, Goto
<1> QED BY <1>2, JobKept

LEMMA WaitJob ==
    ASSUME Course, Store, JobInv, WaitForFlash
    PROVE  JobInv'
<1>1. pc \in Waiting /\ (Polled \/ \E ok \in BOOLEAN : Waited(ok))
  BY WaitEffect
<1>2. pc # "idle"
  BY <1>1 DEF Waiting
<1>3. CASE Polled
  BY <1>2, <1>3, JobKept DEF Polled, JobInv
<1>4. ASSUME NEW ok \in BOOLEAN, Waited(ok)
      PROVE  JobInv'
  <2>1. CASE pc = "eraseWait"
    <3>1. \/ Goto("setup") /\ job.kind = "write"
          \/ NextSector
          \/ Return(TRUE)
          \/ Return(FALSE)
      BY <1>4, <2>1 DEF Waited, EraseWaited
    <3> QED BY <1>2, <3>1, JobKept DEF Goto
  <2>2. CASE pc # "eraseWait"
    <3>1. job.kind = "write"
      BY <1>1, <2>2 DEF JobInv, Waiting
    <3>2. Goto("load") \/ Goto("lastWait") \/ NextSector \/ Return(FALSE)
      BY <1>4, <2>2 DEF Waited, ProgramWaited, LastWaited
    <3> QED BY <1>2, <3>1, <3>2, JobKept DEF Goto
  <2> QED BY <2>1, <2>2
<1> QED BY <1>1, <1>3, <1>4

LEMMA JobNext == Course /\ Store /\ JobInv /\ [Next]_vars => JobInv'
<1> SUFFICES ASSUME Course, Store, JobInv, [Next]_vars
             PROVE  JobInv'
  OBVIOUS
<1>1. CASE UNCHANGED vars \/ Complete \/ RunProgram \/ \E reset \in BOOLEAN : Halt(reset)
  <2>1. UNCHANGED <<pc, job, b>>
    BY <1>1 DEF vars, Complete, RunProgram, Halt
  <2> QED BY <2>1 DEF JobInv, JobSectors
<1>2. CASE UnlockFlash
  <2>1. pc = "unlock" /\ (Goto("sector") \/ Return(FALSE))
    BY <1>2, UnlockEffect
  <2> QED BY <2>1, JobKept DEF Goto
<1>3. CASE EraseSector
  BY <1>3, EraseSectorEffect, EraseIssueJob
<1>4. CASE MakePage
  <2>1. pc = "sector" /\ job.kind = "write" /\ (Goto("block") \/ Goto("erase"))
    BY <1>4, MakePageEffect
  <2> QED BY <2>1, JobKept DEF Goto
<1>5. CASE BlockWrite64
  <2>1. pc = "block" /\ (Goto("lastWait") \/ NextSector \/ Return(FALSE))
    BY <1>5, BlockEffect
  <2>2. job.kind = "write"
    BY <2>1 DEF JobInv
  <2> QED BY <2>1, <2>2, JobKept DEF Goto
<1>6. CASE EraseUnlessMarked
  <2>1. pc = "erase" /\ (Goto("setup") \/ EraseIssue)
    BY <1>6, MarkedEffect
  <2>2. job.kind = "write"
    BY <2>1 DEF JobInv
  <2> QED BY <2>1, <2>2, JobKept, EraseIssueJob DEF Goto
<1>7. CASE SetUp
  <2>1. pc = "setup" /\ Goto("setupWait")
    BY <1>7, SetUpEffect
  <2> QED BY <2>1, JobKept DEF Goto, JobInv
<1>8. CASE LoadPage
  <2>1. pc = "load" /\ (Goto("start") \/ Return(FALSE))
    BY <1>8, LoadEffect
  <2>2. job.kind = "write"
    BY <2>1 DEF JobInv
  <2> QED BY <2>1, <2>2, JobKept DEF Goto
<1>9. CASE Program
  <2>1. pc = "start" /\ Goto("startWait")
    BY <1>9, ProgramEffect
  <2> QED BY <2>1, JobKept DEF Goto, JobInv
<1>10. CASE WaitForFlash
  BY <1>10, WaitJob
<1>11. CASE WriteBinaryBlob \/ Erase \/ EraseChip
  <2>1. pc' = "unlock" /\ Wanted(job') /\ b' \in {SectorOf(c) : c \in job'.cells}
    BY <1>11, BeginEffect
  <2> QED BY <2>1 DEF JobInv, JobSectors
<1> QED
  BY <1>1, <1>2, <1>3, <1>4, <1>5, <1>6, <1>7, <1>8, <1>9, <1>10, <1>11 DEF Next, Step

(* A step of an operation goes on with it or returns. *)
Stays == pc' # "idle" /\ UNCHANGED <<job, before, open, op>>

LEMMA NextStays ==
    ASSUME NextSector
    PROVE  Stays \/ Return(TRUE)
  BY DEF NextSector, Stays

LEMMA WaitMoves ==
    ASSUME Course, Store, WaitForFlash
    PROVE  /\ pc # "idle" /\ Spared /\ lost \subseteq lost'
           /\ Stays \/ \E done \in BOOLEAN : Return(done)
<1>1. /\ pc \in Waiting /\ fc' = fc
      /\ Polled \/ \E ok \in BOOLEAN : Waited(ok)
  BY WaitEffect
<1>2. pc # "idle" /\ Spared
  BY <1>1 DEF Waiting, Spared
<1>3. ASSUME NEW ok \in BOOLEAN, Waited(ok)
      PROVE  /\ lost \subseteq lost'
             /\ \/ Goto("setup") \/ Goto("load") \/ Goto("lastWait")
                \/ NextSector \/ Return(TRUE) \/ Return(FALSE)
  <2>1. CASE pc = "eraseWait"
    <3>1. EraseWaited(ok)
      BY <1>3, <2>1 DEF Waited
    <3>2. lost \subseteq lost'
      BY <3>1 DEF EraseWaited
    <3> QED BY <3>1, <3>2 DEF EraseWaited
  <2>2. CASE pc # "eraseWait"
    BY <1>3, <2>2 DEF Waited, ProgramWaited, LastWaited
  <2> QED BY <2>1, <2>2
<1>4. CASE Polled
  BY <1>2, <1>4 DEF Polled, Stays
<1> QED BY <1>1, <1>2, <1>3, <1>4, NextStays DEF Goto, Stays

LEMMA EraseMoves ==
    ASSUME Course, Store, EraseIssue
    PROVE  /\ lost \subseteq lost'
           /\ Stays \/ (Spared /\ Return(FALSE))
<1>1. EraseBegun \/ EraseMissed \/ EraseAstray \/ EraseFailed
  BY EraseIssueCases DEF Course, Store
<1> QED BY <1>1 DEF EraseBegun, EraseMissed, EraseAstray, EraseFailed, Goto, Stays

LEMMA StepMoves ==
    ASSUME Course, Store, Step
    PROVE  /\ pc # "idle" /\ lost \subseteq lost'
           /\ \/ Stays
              \/ Spared /\ \E done \in BOOLEAN : Return(done)
<1>1. CASE UnlockFlash
  BY <1>1, UnlockEffect DEF Goto, Stays
<1>2. CASE EraseSector
  BY <1>2, EraseSectorEffect, EraseMoves
<1>3. CASE MakePage
  BY <1>3, MakePageEffect DEF Goto, Stays
<1>4. CASE BlockWrite64
  <2>1. /\ pc = "block" /\ fc' = fc /\ lost \subseteq lost'
        /\ Goto("lastWait") \/ NextSector \/ Return(FALSE)
    BY <1>4, BlockEffect
  <2> QED BY <2>1, NextStays DEF Goto, Stays, Spared
<1>5. CASE EraseUnlessMarked
  BY <1>5, MarkedEffect, EraseMoves DEF Goto, Stays
<1>6. CASE SetUp
  BY <1>6, SetUpEffect DEF Goto, Stays
<1>7. CASE LoadPage
  BY <1>7, LoadEffect DEF Goto, Stays
<1>8. CASE Program
  BY <1>8, ProgramEffect DEF ProgramBegun, ProgramMissed, Goto, Stays
<1>9. CASE WaitForFlash
  BY <1>9, WaitMoves
<1> QED BY <1>1, <1>2, <1>3, <1>4, <1>5, <1>6, <1>7, <1>8, <1>9 DEF Step

(* What the step leaves changed, and what it leaves the controller at. *)
Touching ==
    /\ \A c \in Cells : flash'[c] # before[c] => SectorOf(c) \in Sphere(job.cells, lost')
    /\ open = {} => Target(fc') \subseteq Sphere(job.cells, lost')

LEMMA SparedTouches ==
    ASSUME Course, TouchInv, pc # "idle", Spared, lost \subseteq lost',
           \A c \in Cells : flash'[c] = flash[c] \/ SectorOf(c) \in JobSectors
    PROVE  Touching
<1>1. Sphere(job.cells, lost) \subseteq Sphere(job.cells, lost')
  BY SphereGrows DEF Course
<1>2. JobSectors \subseteq Sphere(job.cells, lost')
  BY JobInSphere
<1>3. Target(fc') = Target(fc)
  BY SparedTarget
<1>4. ASSUME NEW c \in Cells, flash'[c] # before[c]
      PROVE  SectorOf(c) \in Sphere(job.cells, lost')
  <2>1. CASE flash'[c] = flash[c]
    <3>1. SectorOf(c) \in Sphere(job.cells, lost)
      BY <1>4, <2>1 DEF TouchInv
    <3> QED BY <1>1, <3>1
  <2>2. CASE SectorOf(c) \in JobSectors
    BY <1>2, <2>2
  <2> QED BY <2>1, <2>2
<1> QED BY <1>1, <1>3, <1>4 DEF TouchInv, Touching

(* An operation begins at a sector of the job, or the sphere is the chip. *)
LEMMA HeededTouches ==
    ASSUME Course, TouchInv, pc # "idle", lost \subseteq lost', flash' = flash,
           NEW m \in {"ER", "MER", "PG"}, NEW a \in Sectors, Heeded(m, a),
           m # "MER" => a \in Sphere(job.cells, lost'),
           m = "MER" => Sphere(job.cells, lost') = Sectors
    PROVE  Touching
<1>1. Sphere(job.cells, lost) \subseteq Sphere(job.cells, lost')
  BY SphereGrows DEF Course
<1>2. Target(fc') = IF m = "MER" THEN Sectors ELSE {a}
  BY HeededTarget
<1> QED BY <1>1, <1>2 DEF TouchInv, Touching

LEMMA AllSectors == {SectorOf(c) : c \in Cells} = Sectors
<1>1. \A s \in Sectors : \E c \in Cells : SectorOf(c) = s
  BY SectorCells
<1>2. \A c \in Cells : SectorOf(c) \in Sectors
  BY CellFacts
<1> QED BY <1>1, <1>2

LEMMA EraseTouches ==
    ASSUME Course, Store, JobInv, TouchInv, pc # "idle", EraseIssue, flash' = flash
    PROVE  Touching
<1>1. EraseBegun \/ EraseMissed \/ EraseAstray \/ EraseFailed
  BY EraseIssueCases DEF Course, Store
<1>2. lost \subseteq lost'
  BY EraseMoves
<1>3. b \in Sectors /\ fc.addr \in Sectors
  BY DEF Course, Store, Controllers
<1>4. CASE EraseMissed \/ EraseFailed
  BY <1>2, <1>4, SparedTouches DEF EraseMissed, EraseFailed
<1>5. CASE EraseAstray
  <2>1. Heeded("ER", fc.addr) /\ "addr" \in lost'
    BY <1>5 DEF EraseAstray
  <2>2. Sphere(job.cells, lost') = Sectors
    BY <2>1 DEF Sphere
  <2> QED BY <1>2, <1>3, <2>1, <2>2, HeededTouches
<1>6. CASE EraseBegun
  <2>1. /\ Heeded(EraseMode, b)
        /\ lost' = lost \cup (IF WholeChip /\ job.kind # "chip" THEN {"chip"} ELSE {})
    BY <1>6 DEF EraseBegun
  <2>2. EraseMode \in {"ER", "MER", "PG"} /\ (EraseMode = "MER" <=> WholeChip)
    BY DEF EraseMode
  <2>3. b \in Sphere(job.cells, lost')
    BY JobInSphere DEF JobInv
  <2>4. WholeChip => Sphere(job.cells, lost') = Sectors
    <3>1. CASE WholeChip /\ job.kind # "chip"
      BY <2>1, <3>1 DEF Sphere
    <3>2. CASE job.kind = "chip"
      <4>1. job.cells = Cells
        BY <3>2 DEF JobInv, Wanted
      <4> QED BY <4>1, AllSectors DEF Sphere
    <3> QED BY <3>1, <3>2
  <2> QED BY <1>2, <1>3, <2>1, <2>2, <2>3, <2>4, HeededTouches
<1> QED BY <1>1, <1>4, <1>5, <1>6

LEMMA StepTouches ==
    ASSUME Course, Store, JobInv, TouchInv, Step
    PROVE  Touching
<1>1. pc # "idle" /\ lost \subseteq lost'
  BY StepMoves
<1>2. ASSUME Spared, flash' = flash
      PROVE  Touching
  BY <1>1, <1>2, SparedTouches
<1>3. CASE UnlockFlash
  BY <1>2, <1>3, UnlockEffect
<1>4. CASE EraseSector
  BY <1>1, <1>4, EraseSectorEffect, EraseTouches
<1>5. CASE MakePage
  BY <1>2, <1>5, MakePageEffect DEF Spared
<1>6. CASE BlockWrite64
  <2>1. fc' = fc /\ \A c \in Cells : SectorOf(c) # b => flash'[c] = flash[c]
    BY <1>6, BlockEffect
  <2>2. b \in JobSectors
    BY <1>1 DEF JobInv
  <2>3. \A c \in Cells : flash'[c] = flash[c] \/ SectorOf(c) \in JobSectors
    BY <2>1, <2>2
  <2> QED BY <1>1, <2>1, <2>3, SparedTouches DEF Spared
<1>7. CASE EraseUnlessMarked
  <2>1. flash' = flash /\ (fc' = fc \/ EraseIssue)
    BY <1>7, MarkedEffect
  <2> QED BY <1>1, <1>2, <2>1, EraseTouches DEF Spared
<1>8. CASE SetUp
  BY <1>2, <1>8, SetUpEffect
<1>9. CASE LoadPage
  BY <1>2, <1>9, LoadEffect
<1>10. CASE Program
  <2>1. flash' = flash /\ ((\E a \in Sectors : ProgramBegun(a)) \/ ProgramMissed)
    BY <1>10, ProgramEffect
  <2>2. CASE ProgramMissed
    BY <1>2, <2>1, <2>2 DEF ProgramMissed, Spared
  <2>3. ASSUME NEW a \in Sectors, ProgramBegun(a)
        PROVE  Touching
    <3>1. Heeded("PG", a) /\ lost' = lost \cup (IF a # b THEN {"addr"} ELSE {})
      BY <2>3 DEF ProgramBegun
    <3>2. a \in Sphere(job.cells, lost')
      <4>1. CASE a = b
        BY <1>1, <4>1, JobInSphere DEF JobInv
      <4>2. CASE a # b
        BY <3>1, <4>2 DEF Sphere
      <4> QED BY <4>1, <4>2
    <3> QED BY <1>1, <2>1, <3>1, <3>2, HeededTouches
  <2> QED BY <2>1, <2>2, <2>3
<1>11. CASE WaitForFlash
  BY <1>2, <1>11, WaitEffect DEF Spared
<1> QED BY <1>3, <1>4, <1>5, <1>6, <1>7, <1>8, <1>9, <1>10, <1>11 DEF Step

LEMMA TouchNext ==
    Course /\ Store /\ JobInv /\ OpenInv /\ TouchInv /\ [Next]_vars => TouchInv'
<1> SUFFICES ASSUME Course, Store, JobInv, OpenInv, TouchInv, [Next]_vars
             PROVE  TouchInv'
  OBVIOUS
<1>1. CASE UNCHANGED vars
  BY <1>1 DEF vars, ghosts, TouchInv
<1>2. CASE Step
  <2>1. Touching
    BY <1>2, StepTouches
  <2>2. Stays \/ \E done \in BOOLEAN : Return(done)
    BY <1>2, StepMoves
  <2> QED BY <2>1, <2>2 DEF TouchInv, Touching, Stays, Return
<1>3. CASE Complete
  <2> SUFFICES ASSUME pc' # "idle"
               PROVE  /\ \A c \in Cells : flash'[c] # before'[c] => SectorOf(c) \in Sphere(job'.cells, lost')
                      /\ open' = {} => Target(fc') \subseteq Sphere(job'.cells, lost')
    BY DEF TouchInv
  <2>1. /\ pc # "idle" /\ job' = job /\ lost \subseteq lost' /\ fc'.busy = "none"
        /\ before' = [c \in Cells |-> IF SectorOf(c) \in open THEN flash'[c] ELSE before[c]]
        /\ \A c \in Cells : SectorOf(c) \notin Target(fc) => flash'[c] = flash[c]
    BY <1>3, CompleteEffect
  <2>2. Target(fc') = {}
    BY <2>1 DEF Target
  <2>3. Sphere(job.cells, lost) \subseteq Sphere(job.cells, lost')
    BY <2>1, SphereGrows DEF Course
  <2>4. ASSUME NEW c \in Cells, flash'[c] # before'[c]
        PROVE  SectorOf(c) \in Sphere(job.cells, lost')
    <3>1. SectorOf(c) \notin open /\ before'[c] = before[c]
      BY <2>1, <2>4
    <3>2. CASE SectorOf(c) \in Target(fc)
      <4>1. open = {}
        BY <3>1, <3>2 DEF OpenInv
      <4> QED BY <2>1, <2>3, <3>2, <4>1 DEF TouchInv
    <3>3. CASE SectorOf(c) \notin Target(fc)
      <4>1. flash[c] # before[c]
        BY <2>1, <2>4, <3>1, <3>3
      <4> QED BY <2>1, <2>3, <4>1 DEF TouchInv
    <3> QED BY <3>2, <3>3
  <2> QED BY <2>1, <2>2, <2>4
<1>4. CASE WriteBinaryBlob \/ Erase \/ EraseChip
  <2>1. pc = "idle" /\ before' = flash /\ UNCHANGED <<flash, fc, open>>
    BY <1>4, BeginEffect
  <2> QED BY <2>1 DEF TouchInv, OpenInv
<1>5. CASE RunProgram \/ \E reset \in BOOLEAN : Halt(reset)
  BY <1>5 DEF RunProgram, Halt, TouchInv
<1> QED BY <1>1, <1>2, <1>3, <1>4, <1>5 DEF Next

-----------------------------------------------------------------------------
(* Second: what a write or an erase leaves, if nothing went wrong but that  *)
(* the sector may not have been read.  The sectors up to the present one    *)
(* are as they should be, those after it are untouched, and the page for    *)
(* the present one travels from the tool through the controller's buffer    *)
(* onto a sector that is blank.                                             *)

(* Cell c is to have the value v, of an operation that lost l. *)
Fits(v, c, l) ==
    (c \in job.cells => v = job.val) /\ (c \notin job.cells /\ l = {} => v = before[c])
Desired(p) == \A c \in Cells : SectorOf(c) = b => Fits(p[c % Size], c, lost)

Behind ==
    job.kind # "chip" =>
        \A c \in Cells : SectorOf(c) \in JobSectors /\ SectorOf(c) < b => Fits(flash[c], c, lost)
Ahead ==
    job.kind = "write" /\ lost = {} =>
        \A c \in Cells : SectorOf(c) > b \/ (SectorOf(c) = b /\ pc \in {"unlock", "sector"})
                            => flash[c] = before[c]
(* The controller is still at what an earlier call began, or at nothing. *)
Reserved ==
    pc \in {"unlock", "sector", "block", "erase", "setup", "setupWait", "load", "start"} =>
        open = Target(fc)
Staged ==
    job.kind = "write" /\ pc \in {"block", "erase", "eraseWait", "setup", "setupWait", "load"} =>
        Desired(tempblock)
Cleared == pc \in {"setup", "setupWait", "load", "start"} => IsBlank(flash, b)
Armed   == pc = "start" => ~Deaf /\ fc.mode = "PG" /\ Desired(fc.buf)
Written == Idle /\ \A c \in Cells : SectorOf(c) = b => Fits(flash[c], c, lost)
Writing ==
    /\ fc.mode = "PG" /\ fc.addr = b /\ open = {}
    /\ (fc.busy = "PG" /\ Desired(fc.buf) /\ IsBlank(flash, b)) \/ (Idle /\ b \in protected)
Programming == pc \in {"startWait", "lastWait"} => Written \/ Writing

ContentInv ==
    pc # "idle" /\ Clean =>
        Behind /\ Ahead /\ Reserved /\ Staged /\ Cleared /\ Armed /\ Programming

(* The sectors up to the present one are done, and the rest is untouched. *)
Finished ==
    /\ \A c \in Cells : SectorOf(c) \in JobSectors /\ SectorOf(c) <= b => Fits(flash'[c], c, lost')
    /\ job.kind = "write" /\ lost' = {} => \A c \in Cells : SectorOf(c) > b => flash'[c] = before[c]
    /\ open = Target(fc')

LEMMA SectorNumbers == Course => b \in Int /\ \A c \in Cells : SectorOf(c) \in Int
<1>1. Sectors \subseteq Int
  BY FlashAssumption
<1> QED BY <1>1, CellFacts DEF Course

(* A step within a sector leaves the others as they are. *)
LEMMA Fixed ==
    ASSUME ContentInv, pc # "idle", lost \subseteq lost', Clean',
           UNCHANGED <<flash, job, b, before>>,
           pc' \in {"unlock", "sector"} => pc \in {"unlock", "sector"}
    PROVE  /\ Clean /\ Behind' /\ Ahead'
           /\ Behind /\ Ahead /\ Reserved /\ Staged /\ Cleared /\ Armed /\ Programming
<1>1. Clean
  BY DEF Clean
<1>2. Behind /\ Ahead /\ Reserved /\ Staged /\ Cleared /\ Armed /\ Programming
  BY <1>1 DEF ContentInv
<1>3. lost' = {} => lost = {}
  OBVIOUS
<1>4. JobSectors' = JobSectors
  BY DEF JobSectors
<1>5. Behind'
  BY <1>2, <1>3, <1>4 DEF Behind, Fits
<1>6. Ahead'
  BY <1>2, <1>3 DEF Ahead
<1> QED BY <1>1, <1>2, <1>5, <1>6

LEMMA DesiredKept ==
    ASSUME NEW p, Desired(p), lost \subseteq lost', UNCHANGED <<job, b, before>>
    PROVE  \A c \in Cells : SectorOf(c) = b' =>
              /\ c \in job'.cells => p[c % Size] = job'.val
              /\ c \notin job'.cells /\ lost' = {} => p[c % Size] = before'[c]
  BY DEF Desired, Fits

(* On to the next sector. *)
LEMMA NextContent ==
    ASSUME Course, NextSector, Clean' => Finished
    PROVE  ContentInv'
<1>1. CASE Return(TRUE)
  BY <1>1 DEF ContentInv, Return
<1>2. CASE /\ pc' = "sector" /\ UNCHANGED <<job, before, open, op>>
           /\ b' \in JobSectors /\ b' > b /\ \A s \in JobSectors : s > b => b' <= s
  <2> SUFFICES ASSUME Clean'
               PROVE  (Behind /\ Ahead /\ Reserved /\ Staged /\ Cleared /\ Armed /\ Programming)'
    BY DEF ContentInv
  <2>1. Finished
    OBVIOUS
  <2>2. b \in Int /\ b' \in Int /\ \A c \in Cells : SectorOf(c) \in Int
    <3>1. b' \in Sectors /\ Sectors \subseteq Int
      BY <1>2, JobSectorsType, FlashAssumption
    <3> QED BY <3>1, SectorNumbers
  <2>3. Behind'
    <3> SUFFICES ASSUME NEW c \in Cells, SectorOf(c) \in JobSectors', SectorOf(c) < b'
                 PROVE  Fits(flash[c], c, lost)'
      BY DEF Behind
    <3>1. SectorOf(c) \in JobSectors
      BY <1>2 DEF JobSectors
    <3>2. SectorOf(c) <= b
      BY <1>2, <2>2, <3>1
    <3>3. Fits(flash'[c], c, lost')
      BY <2>1, <3>1, <3>2 DEF Finished
    <3> QED BY <1>2, <3>3 DEF Fits
  <2>4. Ahead'
    <3> SUFFICES ASSUME job'.kind = "write", lost' = {}, NEW c \in Cells,
                        SectorOf(c) > b' \/ SectorOf(c) = b'
                 PROVE  flash'[c] = before'[c]
      BY DEF Ahead
    <3>1. SectorOf(c) > b
      BY <1>2, <2>2
    <3> QED BY <1>2, <2>1, <3>1 DEF Finished
  <2>5. Reserved'
    BY <1>2, <2>1 DEF Finished, Reserved
  <2> QED BY <1>2, <2>3, <2>4, <2>5 DEF Staged, Cleared, Armed, Programming
<1> QED BY <1>1, <1>2, NextFacts

LEMMA EraseContent ==
    ASSUME Course, Store, JobInv, MarkingInv, ContentInv, EraseIssue,
           pc = "erase" \/ (pc = "sector" /\ job.kind # "write"),
           UNCHANGED <<config, flash, tempblock>>
    PROVE  ContentInv'
<1>1. EraseBegun \/ EraseMissed \/ EraseAstray \/ EraseFailed
  BY EraseIssueCases DEF Course, Store
<1>2. CASE EraseMissed \/ EraseAstray
  BY <1>2 DEF EraseMissed, EraseAstray, ContentInv, Clean
<1>3. CASE EraseFailed
  BY <1>3 DEF EraseFailed, ContentInv, Return
<1>4. CASE EraseBegun
  <2>1. /\ pc' = "eraseWait" /\ UNCHANGED <<job, b, before, open>>
        /\ lost' = lost \cup (IF WholeChip /\ job.kind # "chip" THEN {"chip"} ELSE {})
    BY <1>4 DEF EraseBegun, Goto
  <2> SUFFICES ASSUME Clean'
               PROVE  (Behind /\ Ahead /\ Reserved /\ Staged /\ Cleared /\ Armed /\ Programming)'
    BY DEF ContentInv
  <2>2. Behind' /\ Ahead' /\ Staged
    BY <2>1, Fixed
  <2>3. Staged'
    <3>1. ASSUME job.kind = "write"
          PROVE  Desired(tempblock)
      BY <2>2, <3>1 DEF Staged, JobInv
    <3> QED BY <2>1, <3>1, DesiredKept DEF Staged, Desired, Fits
  <2> QED BY <2>1, <2>2, <2>3 DEF Reserved, Cleared, Armed, Programming
<1> QED BY <1>1, <1>2, <1>3, <1>4

(* A sector written by the programmer is as it should be. *)
LEMMA BlockFinished ==
    ASSUME Course, Store, JobInv, MarkingInv, ContentInv, BlockWrite64,
           Goto("lastWait") \/ NextSector, Clean'
    PROVE  Finished /\ Idle'
<1>1. /\ pc = "block" /\ fc' = fc
      /\ lost' = lost \cup (IF Deaf THEN {"program"} ELSE {})
                      \cup (IF b \in stale THEN {"stale"} ELSE {})
      /\ \A c \in Cells : SectorOf(c) # b => flash'[c] = flash[c]
  BY BlockEffect
<1>2. ~Deaf /\ b \notin stale /\ lost' = lost
  BY <1>1 DEF Clean
<1>3. Behind /\ Ahead /\ Reserved /\ Staged
  BY <1>1, <1>2 DEF ContentInv, Clean
<1>4. Desired(tempblock) /\ job.kind = "write" /\ b \in Sectors
  BY <1>1, <1>3 DEF Staged, JobInv, Course
<1>5. \/ Return(FALSE)
      \/ \A c \in Cells : SectorOf(c) = b =>
            flash'[c] = IF b \in erased THEN Over(flash[c], tempblock[c % Size])
                        ELSE tempblock[c % Size]
  BY <1>2, BlockEffect
<1>6. ~Return(FALSE)
  <2>1. CASE Goto("lastWait")
    BY <2>1 DEF Goto, Return
  <2>2. CASE Return(TRUE)
    <3>1. op'.done = TRUE
      BY <2>2 DEF Return
    <3> QED BY <3>1 DEF Return
  <2>3. CASE pc' = "sector"
    BY <2>3 DEF Return
  <2> QED BY <2>1, <2>2, <2>3, NextMoves
<1>7. \A c \in Cells : SectorOf(c) = b => flash'[c] = tempblock[c % Size]
  <2>1. b \in erased => Bare(flash, b)
    BY <1>1, <1>2, <1>4, SectorCells DEF MarkingInv, MarkInv
  <2>2. \A v : Over(Blank, v) = v
    BY DEF Over
  <2> QED BY <1>5, <1>6, <2>1, <2>2 DEF Bare
<1>8. \A c \in Cells : SectorOf(c) = b => Fits(flash'[c], c, lost')
  BY <1>2, <1>4, <1>7 DEF Desired
<1>9. \A c \in Cells : SectorOf(c) \in JobSectors /\ SectorOf(c) < b => Fits(flash'[c], c, lost')
  <2> SUFFICES ASSUME NEW c \in Cells, SectorOf(c) \in JobSectors, SectorOf(c) < b
               PROVE  Fits(flash'[c], c, lost')
    OBVIOUS
  <2>1. SectorOf(c) # b
    BY SectorNumbers
  <2> QED BY <1>1, <1>2, <1>3, <1>4, <2>1 DEF Behind
<1>10. job.kind = "write" /\ lost' = {} => \A c \in Cells : SectorOf(c) > b => flash'[c] = before[c]
  BY <1>1, <1>2, <1>3, SectorNumbers DEF Ahead
<1>11. open = Target(fc')
  BY <1>1, <1>3 DEF Reserved
<1>12. Finished
  <2>1. \A c \in Cells : SectorOf(c) <= b => SectorOf(c) = b \/ SectorOf(c) < b
    BY SectorNumbers
  <2> QED BY <1>8, <1>9, <1>10, <1>11, <2>1 DEF Finished
<1> QED BY <1>1, <1>2, <1>12 DEF Deaf, Idle

LEMMA BlockContent ==
    ASSUME Course, Store, JobInv, MarkingInv, ContentInv, BlockWrite64
    PROVE  ContentInv'
<1>1. Goto("lastWait") \/ NextSector \/ Return(FALSE)
  BY BlockEffect
<1>2. CASE Return(FALSE)
  BY <1>2 DEF Return, ContentInv
<1>3. CASE NextSector
  BY <1>3, BlockFinished, NextContent
<1>4. CASE Goto("lastWait")
  <2>1. pc' = "lastWait" /\ UNCHANGED <<job, b, before, open>>
    BY <1>4 DEF Goto
  <2> SUFFICES ASSUME Clean'
               PROVE  (Behind /\ Ahead /\ Reserved /\ Staged /\ Cleared /\ Armed /\ Programming)'
    BY DEF ContentInv
  <2>2. Finished /\ Idle'
    BY <1>4, BlockFinished
  <2>3. b \in JobSectors /\ JobSectors' = JobSectors
    <3>1. pc # "idle"
      BY BlockEffect
    <3> QED BY <2>1, <3>1 DEF JobInv, JobSectors
  <2>4. \A c \in Cells : SectorOf(c) < b => SectorOf(c) <= b
    BY SectorNumbers
  <2>5. Behind'
    BY <2>1, <2>2, <2>3, <2>4 DEF Finished, Behind, Fits
  <2>6. Ahead'
    BY <2>1, <2>2 DEF Finished, Ahead
  <2>7. b <= b
    BY SectorNumbers
  <2>8. Written'
    <3>1. \A c \in Cells : SectorOf(c) = b => Fits(flash'[c], c, lost')
      BY <2>2, <2>3, <2>7 DEF Finished
    <3> QED BY <2>1, <2>2, <3>1 DEF Written, Fits
  <2> QED BY <2>1, <2>5, <2>6, <2>8 DEF Reserved, Staged, Cleared, Armed, Programming
<1> QED BY <1>1, <1>2, <1>3, <1>4

(* A wait after the program that missed nothing has seen the sector done. *)
LEMMA ProgramFinished ==
    ASSUME Course, Store, JobInv, MarkingInv, ContentInv, pc \in {"startWait", "lastWait"},
           Clean', lost \subseteq lost', ~Missing, UNCHANGED <<flash, fc>>
    PROVE  Finished
<1>1. Clean
  BY DEF Clean
<1>2. Behind /\ Ahead /\ Programming
  BY <1>1 DEF ContentInv
<1>3. Idle /\ (fc.mode = "PG" => fc.addr \notin protected)
  BY FoundFacts
<1>4. Written
  BY <1>2, <1>3 DEF Programming, Writing, Idle
<1>5. open = Target(fc')
  BY <1>3 DEF MarkingInv, OpenInv, Target, Idle
<1>6. lost' = {} => lost = {}
  OBVIOUS
<1>7. \A c \in Cells : SectorOf(c) <= b => SectorOf(c) = b \/ SectorOf(c) < b
  BY SectorNumbers
<1>8. job.kind = "write"
  BY DEF JobInv
<1>9. \A c \in Cells : SectorOf(c) \in JobSectors /\ SectorOf(c) <= b => Fits(flash'[c], c, lost')
  BY <1>2, <1>4, <1>6, <1>7, <1>8 DEF Behind, Written, Fits
<1>10. job.kind = "write" /\ lost' = {} => \A c \in Cells : SectorOf(c) > b => flash'[c] = before[c]
  BY <1>2, <1>6 DEF Ahead
<1> QED BY <1>5, <1>9, <1>10 DEF Finished

(* An erased page is as it should be. *)
LEMMA EraseFound ==
    ASSUME Store, MarkingInv, pc = "eraseWait", NEW ok \in BOOLEAN, EraseWaited(ok), Clean',
           ok \/ job.kind = "write", job.kind # "chip"
    PROVE  Clean /\ ~WholeChip /\ IsBlank(flash, b) /\ open = {} /\ Target(fc) = {}
<1>1. lost' = lost \cup (IF Missing THEN {"erase"} ELSE {})
  BY DEF EraseWaited
<1>2. Clean /\ ~Missing
  BY <1>1 DEF Clean
<1>3. ~WholeChip /\ PageErased
  BY <1>2 DEF MarkingInv, EraseInv
<1>4. Idle /\ (fc.mode = "ER" => fc.addr \notin protected)
  BY <1>2, FoundFacts
<1> QED BY <1>2, <1>3, <1>4 DEF PageErased, Target, Idle

LEMMA EraseFinished ==
    ASSUME Course, Store, JobInv, MarkingInv, ContentInv, pc = "eraseWait", EraseWaited(TRUE),
           job.kind = "erase", UNCHANGED <<flash, fc>>, Clean'
    PROVE  Finished
<1>1. Clean /\ IsBlank(flash, b) /\ open = {} /\ Target(fc) = {}
  BY EraseFound
<1>2. Behind
  BY <1>1 DEF ContentInv
<1>3. lost \subseteq lost'
  BY DEF EraseWaited
<1>4. Wanted(job) /\ b \in JobSectors /\ b \in Sectors
  BY DEF JobInv, Course
<1>5. \A c \in Cells : SectorOf(c) = b => flash[c] = Blank
  BY <1>1, <1>4, SectorCells DEF Bare
<1>6. job.val = Blank /\ \A c \in Cells : SectorOf(c) = b => c \in job.cells
  BY <1>4 DEF Wanted, JobSectors
<1>7. \A c \in Cells : SectorOf(c) <= b => SectorOf(c) = b \/ SectorOf(c) < b
  BY SectorNumbers
<1>8. lost' = {} => lost = {}
  BY <1>3
<1>9. \A c \in Cells : SectorOf(c) \in JobSectors /\ SectorOf(c) <= b => Fits(flash'[c], c, lost')
  BY <1>2, <1>5, <1>6, <1>7, <1>8 DEF Behind, Fits
<1> QED BY <1>1, <1>9 DEF Finished

LEMMA WaitContent ==
    ASSUME Course, Store, JobInv, MarkingInv, ContentInv, WaitForFlash
    PROVE  ContentInv'
<1>1. /\ pc \in Waiting /\ UNCHANGED <<config, flash, fc, tempblock>> /\ pc # "idle"
      /\ Polled \/ \E ok \in BOOLEAN : Waited(ok)
  BY WaitEffect DEF Waiting
<1>2. lost \subseteq lost'
  BY WaitMoves
<1>3. CASE Polled
  BY <1>1, <1>3 DEF Polled, config, ContentInv, Clean, Behind, Ahead, Reserved, Staged, Cleared,
     Armed, Programming, Written, Writing, Desired, Fits, JobSectors, Idle, Deaf
<1>4. ASSUME NEW ok \in BOOLEAN, Waited(ok), pc = "eraseWait"
      PROVE  ContentInv'
  <2>1. EraseWaited(ok)
    BY <1>4 DEF Waited
  <2>2. \/ Goto("setup") /\ job.kind = "write"
        \/ NextSector /\ ok /\ job.kind = "erase"
        \/ \E done \in BOOLEAN : Return(done)
    BY <2>1 DEF EraseWaited
  <2>3. CASE \E done \in BOOLEAN : Return(done)
    BY <2>3 DEF Return, ContentInv
  <2>4. CASE NextSector /\ ok /\ job.kind = "erase"
    <3>1. EraseWaited(TRUE)
      BY <2>1, <2>4
    <3>2. Clean' => Finished
      BY <1>1, <1>4, <2>4, <3>1, EraseFinished
    <3> QED BY <2>4, <3>2, NextContent
  <2>5. CASE Goto("setup") /\ job.kind = "write"
    <3>1. pc' = "setup" /\ UNCHANGED <<job, b, before, open>>
      BY <2>5 DEF Goto
    <3> SUFFICES ASSUME Clean'
                 PROVE  (Behind /\ Ahead /\ Reserved /\ Staged /\ Cleared /\ Armed /\ Programming)'
      BY DEF ContentInv
    <3>2. IsBlank(flash, b) /\ open = {} /\ Target(fc) = {}
      BY <1>4, <2>1, <2>5, EraseFound
    <3>3. Behind' /\ Ahead' /\ Staged
      BY <1>1, <1>2, <3>1, Fixed
    <3>4. Staged'
      <4>1. Desired(tempblock)
        BY <1>4, <2>5, <3>3 DEF Staged
      <4> QED BY <1>1, <1>2, <3>1, <4>1, DesiredKept DEF Staged, Desired, Fits
    <3>5. Reserved' /\ Cleared'
      BY <1>1, <3>1, <3>2 DEF Reserved, Cleared
    <3> QED BY <3>1, <3>3, <3>4, <3>5 DEF Armed, Programming
  <2> QED BY <2>2, <2>3, <2>4, <2>5
<1>5. ASSUME NEW ok \in BOOLEAN, Waited(ok), pc = "setupWait"
      PROVE  ContentInv'
  <2>1. Goto("load") /\ job.kind = "write"
    BY <1>5 DEF Waited, JobInv
  <2>2. pc' = "load" /\ UNCHANGED <<job, b, before, open>>
    BY <2>1 DEF Goto
  <2> SUFFICES ASSUME Clean'
               PROVE  (Behind /\ Ahead /\ Reserved /\ Staged /\ Cleared /\ Armed /\ Programming)'
    BY DEF ContentInv
  <2>3. Behind' /\ Ahead' /\ Reserved /\ Staged /\ Cleared
    BY <1>1, <1>2, <2>2, Fixed
  <2>4. Staged'
    <3>1. Desired(tempblock)
      BY <1>5, <2>1, <2>3 DEF Staged
    <3> QED BY <1>1, <1>2, <2>2, <3>1, DesiredKept DEF Staged, Desired, Fits
  <2>5. Reserved' /\ Cleared'
    BY <1>1, <1>5, <2>2, <2>3 DEF Reserved, Cleared
  <2> QED BY <2>2, <2>3, <2>4, <2>5 DEF Armed, Programming
<1>6. ASSUME NextSector, pc \in {"startWait", "lastWait"},
             lost' = lost \cup (IF Missing THEN {"program"} ELSE {})
      PROVE  ContentInv'
  <2>1. ASSUME Clean'
        PROVE  Finished
    <3>1. ~Missing
      BY <1>6, <2>1 DEF Clean
    <3> QED BY <1>1, <1>2, <1>6, <2>1, <3>1, ProgramFinished
  <2> QED BY <1>6, <2>1, NextContent
<1>7. ASSUME NEW ok \in BOOLEAN, Waited(ok), pc = "startWait"
      PROVE  ContentInv'
  <2>1. /\ lost' = lost \cup (IF Missing /\ ~Partial(b) THEN {"program"} ELSE {})
        /\ IF Partial(b) THEN Goto("lastWait") ELSE NextSector
    BY <1>7 DEF Waited, ProgramWaited
  <2>2. CASE ~Partial(b)
    BY <1>6, <1>7, <2>1, <2>2
  <2>3. CASE Partial(b)
    <3>1. pc' = "lastWait" /\ UNCHANGED <<job, b, before, open>> /\ lost' = lost
      BY <2>1, <2>3 DEF Goto
    <3> SUFFICES ASSUME Clean'
                 PROVE  (Behind /\ Ahead /\ Reserved /\ Staged /\ Cleared /\ Armed /\ Programming)'
      BY DEF ContentInv
    <3>2. Behind' /\ Ahead' /\ Programming
      BY <1>1, <1>2, <3>1, Fixed
    <3>3. Programming'
      BY <1>1, <1>7, <3>1, <3>2
      DEF config, Programming, Written, Writing, Desired, Fits, Idle
    <3> QED BY <3>1, <3>2, <3>3 DEF Reserved, Staged, Cleared, Armed
  <2> QED BY <2>2, <2>3
<1>8. ASSUME NEW ok \in BOOLEAN, Waited(ok), pc = "lastWait"
      PROVE  ContentInv'
  <2>1. /\ lost' = lost \cup (IF Missing THEN {"program"} ELSE {})
        /\ IF ok THEN NextSector ELSE Return(FALSE)
    BY <1>8 DEF Waited, LastWaited
  <2>2. CASE Return(FALSE)
    BY <2>2 DEF Return, ContentInv
  <2> QED BY <1>6, <1>8, <2>1, <2>2
<1> QED BY <1>1, <1>3, <1>4, <1>5, <1>7, <1>8 DEF Waiting

LEMMA UnlockContent ==
    ASSUME Course, Store, ContentInv, UnlockFlash
    PROVE  ContentInv'
<1>1. /\ pc = "unlock" /\ Spared /\ UNCHANGED <<flash, lost>>
      /\ Goto("sector") \/ Return(FALSE)
  BY UnlockEffect
<1>2. CASE Return(FALSE)
  BY <1>2 DEF Return, ContentInv
<1>3. CASE Goto("sector")
  <2>1. pc' = "sector" /\ UNCHANGED <<job, b, before, open>>
    BY <1>3 DEF Goto
  <2> SUFFICES ASSUME Clean'
               PROVE  (Behind /\ Ahead /\ Reserved /\ Staged /\ Cleared /\ Armed /\ Programming)'
    BY DEF ContentInv
  <2>2. Behind' /\ Ahead' /\ Reserved
    BY <1>1, <2>1, Fixed
  <2>3. Reserved'
    BY <1>1, <2>1, <2>2, SparedTarget DEF Reserved
  <2> QED BY <2>1, <2>2, <2>3 DEF Staged, Cleared, Armed, Programming
<1> QED BY <1>1, <1>2, <1>3

LEMMA MakePageContent ==
    ASSUME Course, Store, ContentInv, MakePage
    PROVE  ContentInv'
<1>1. /\ pc = "sector" /\ job.kind = "write" /\ UNCHANGED <<config, flash, fc, erased, stale>>
      /\ \/ /\ lost' = lost
            /\ \A c \in Cells : SectorOf(c) = b =>
                  tempblock'[c % Size] = IF c \in job.cells THEN job.val ELSE flash[c]
         \/ /\ lost' = lost \cup {"read"}
            /\ \A c \in job.cells : SectorOf(c) = b => tempblock'[c % Size] = job.val
  BY MakePageEffect
<1>2. pc' \in {"block", "erase"} /\ UNCHANGED <<job, b, before, open>>
  BY MakePageEffect DEF Goto
<1> SUFFICES ASSUME Clean'
             PROVE  (Behind /\ Ahead /\ Reserved /\ Staged /\ Cleared /\ Armed /\ Programming)'
  BY DEF ContentInv
<1>3. Behind' /\ Ahead' /\ Ahead /\ Reserved
  BY <1>1, <1>2, Fixed
<1>4. Reserved'
  BY <1>1, <1>2, <1>3 DEF Reserved
<1>5. ASSUME NEW c \in Cells, SectorOf(c) = b
      PROVE  Fits(tempblock'[c % Size], c, lost')
  <2>1. CASE lost' = lost
    <3>1. lost' = {} => lost' # lost \cup {"read"}
      OBVIOUS
    <3>2. lost' = {} => flash[c] = before[c]
      BY <1>1, <1>3, <1>5, <2>1 DEF Ahead
    <3>3. c \in job.cells => tempblock'[c % Size] = job.val
      BY <1>1, <1>5
    <3>4. lost' = {} /\ c \notin job.cells => tempblock'[c % Size] = flash[c]
      BY <1>1, <1>5, <3>1
    <3> QED BY <3>2, <3>3, <3>4 DEF Fits
  <2>2. CASE lost' = lost \cup {"read"}
    <3>1. lost' # {}
      BY <2>2
    <3>2. c \in job.cells => tempblock'[c % Size] = job.val
      BY <1>1, <1>5
    <3> QED BY <3>1, <3>2 DEF Fits
  <2> QED BY <1>1, <2>1, <2>2
<1>6. Staged'
  BY <1>2, <1>5 DEF Staged, Desired, Fits
<1> QED BY <1>2, <1>3, <1>4, <1>6 DEF Cleared, Armed, Programming

LEMMA MarkedContent ==
    ASSUME Course, Store, JobInv, MarkingInv, ContentInv, EraseUnlessMarked
    PROVE  ContentInv'
<1>1. /\ pc = "erase" /\ UNCHANGED <<config, flash, tempblock>>
      /\ \/ /\ b \in erased /\ Goto("setup") /\ UNCHANGED <<fc, erased, stale>>
            /\ lost' = lost \cup (IF b \in stale THEN {"stale"} ELSE {})
         \/ EraseIssue
  BY MarkedEffect
<1>2. CASE EraseIssue
  BY <1>1, <1>2, EraseContent
<1>3. CASE /\ b \in erased /\ Goto("setup") /\ UNCHANGED <<fc, erased, stale>>
           /\ lost' = lost \cup (IF b \in stale THEN {"stale"} ELSE {})
  <2>1. pc' = "setup" /\ UNCHANGED <<job, b, before, open>>
    BY <1>3 DEF Goto
  <2> SUFFICES ASSUME Clean'
               PROVE  (Behind /\ Ahead /\ Reserved /\ Staged /\ Cleared /\ Armed /\ Programming)'
    BY DEF ContentInv
  <2>2. Behind' /\ Ahead' /\ Reserved /\ Staged
    BY <1>1, <1>3, <2>1, Fixed
  <2>3. b \in erased \ stale
    BY <1>3 DEF Clean
  <2>4. IsBlank(flash, b)
    BY <1>1, <2>3 DEF MarkingInv, MarkInv
  <2>5. Desired(tempblock)
    BY <1>1, <2>2 DEF Staged, JobInv
  <2>6. Staged'
    BY <1>1, <1>3, <2>1, <2>5, DesiredKept DEF Staged, Desired, Fits
  <2>7. Reserved' /\ Cleared'
    BY <1>1, <1>3, <2>1, <2>2, <2>4 DEF Reserved, Cleared
  <2> QED BY <2>1, <2>2, <2>6, <2>7 DEF Armed, Programming
<1> QED BY <1>1, <1>2, <1>3

LEMMA SetUpContent ==
    ASSUME Course, Store, JobInv, ContentInv, SetUp
    PROVE  ContentInv'
<1>1. pc = "setup" /\ Spared /\ UNCHANGED <<config, flash, tempblock, lost>>
  BY SetUpEffect
<1>2. pc' = "setupWait" /\ UNCHANGED <<job, b, before, open>>
  BY SetUpEffect DEF Goto
<1> SUFFICES ASSUME Clean'
             PROVE  (Behind /\ Ahead /\ Reserved /\ Staged /\ Cleared /\ Armed /\ Programming)'
  BY DEF ContentInv
<1>3. Behind' /\ Ahead' /\ Reserved /\ Staged /\ Cleared
  BY <1>1, <1>2, Fixed
<1>4. Desired(tempblock)
  BY <1>1, <1>3 DEF Staged, JobInv
<1>5. Staged'
  BY <1>1, <1>2, <1>4, DesiredKept DEF Staged, Desired, Fits
<1>6. Reserved' /\ Cleared'
  BY <1>1, <1>2, <1>3, SparedTarget DEF Reserved, Cleared
<1> QED BY <1>2, <1>3, <1>5, <1>6 DEF Armed, Programming

LEMMA LoadContent ==
    ASSUME Course, Store, JobInv, ContentInv, LoadPage
    PROVE  ContentInv'
<1>1. /\ pc = "load" /\ Spared /\ flash' = flash
      /\ \/ /\ Goto("start") /\ lost' = lost /\ ~Deaf /\ ~fc'.locked
            /\ fc'.mode = "PG" /\ fc'.buf = tempblock
         \/ Goto("start") /\ lost' = lost \cup {"load"}
         \/ Return(FALSE) /\ lost' = lost
  BY LoadEffect
<1>2. CASE Return(FALSE)
  BY <1>2 DEF Return, ContentInv
<1>3. CASE lost' = lost \cup {"load"}
  BY <1>3 DEF ContentInv, Clean
<1>4. CASE /\ Goto("start") /\ lost' = lost /\ ~Deaf /\ ~fc'.locked
           /\ fc'.mode = "PG" /\ fc'.buf = tempblock
  <2>1. pc' = "start" /\ UNCHANGED <<job, b, before, open>>
    BY <1>4 DEF Goto
  <2> SUFFICES ASSUME Clean'
               PROVE  (Behind /\ Ahead /\ Reserved /\ Staged /\ Cleared /\ Armed /\ Programming)'
    BY DEF ContentInv
  <2>2. Behind' /\ Ahead' /\ Reserved /\ Staged /\ Cleared
    BY <1>1, <1>4, <2>1, Fixed
  <2>3. Desired(tempblock)
    BY <1>1, <2>2 DEF Staged, JobInv
  <2>4. ~Deaf'
    BY <1>1, <1>4, SparedTarget DEF Deaf
  <2>5. Armed'
    BY <1>4, <2>1, <2>3, <2>4 DEF Armed, Desired, Fits
  <2>6. Reserved' /\ Cleared'
    BY <1>1, <2>1, <2>2, SparedTarget DEF Reserved, Cleared
  <2> QED BY <2>1, <2>2, <2>5, <2>6 DEF Staged, Programming
<1> QED BY <1>1, <1>2, <1>3, <1>4

LEMMA ProgramContent ==
    ASSUME Course, Store, MarkingInv, ContentInv, Program
    PROVE  ContentInv'
<1>1. /\ pc = "start" /\ flash' = flash
      /\ (\E a \in Sectors : ProgramBegun(a)) \/ ProgramMissed
  BY ProgramEffect
<1>2. pc' = "startWait" /\ UNCHANGED <<job, b, before, open>>
  BY ProgramEffect DEF Goto
<1> SUFFICES ASSUME Clean'
             PROVE  (Behind /\ Ahead /\ Reserved /\ Staged /\ Cleared /\ Armed /\ Programming)'
  BY DEF ContentInv
<1>3. PICK a \in Sectors : ProgramBegun(a)
  BY <1>1 DEF ProgramMissed, Clean
<1>4. a = b /\ lost' = lost
  BY <1>3 DEF ProgramBegun, Clean
<1>5. Heeded("PG", b)
  BY <1>3, <1>4 DEF ProgramBegun
<1>6. Behind' /\ Ahead' /\ Reserved /\ Cleared /\ Armed
  BY <1>1, <1>2, <1>4, Fixed
<1>7. open' = {}
  BY <1>1, <1>2, <1>5, <1>6, HeededTarget DEF Reserved
<1>8. fc'.mode = "PG" /\ fc'.addr = b /\ fc'.busy = "PG" /\ fc'.buf = fc.buf
  BY <1>5 DEF Heeded
<1>9. Desired(fc.buf) /\ IsBlank(flash, b)
  BY <1>1, <1>6 DEF Armed, Cleared
<1>10. Desired(fc.buf)'
  BY <1>2, <1>4, <1>8, <1>9 DEF Desired, Fits
<1>11. Writing'
  BY <1>1, <1>2, <1>7, <1>8, <1>9, <1>10 DEF Writing
<1> QED BY <1>2, <1>6, <1>11 DEF Reserved, Staged, Cleared, Armed, Programming

LEMMA BeginContent ==
    ASSUME Course, Store, MarkingInv, WriteBinaryBlob \/ Erase \/ EraseChip
    PROVE  ContentInv'
<1>1. /\ pc = "idle" /\ pc' = "unlock" /\ before' = flash
      /\ \A c \in job'.cells : b' <= SectorOf(c)
      /\ Course' /\ UNCHANGED <<flash, fc, open>>
  BY BeginEffect
<1>2. b' \in Int /\ \A c \in Cells : SectorOf(c) \in Int
  <2>1. b' \in Sectors /\ Sectors \subseteq Int
    BY <1>1, FlashAssumption DEF Course
  <2> QED BY <2>1, CellFacts
<1>3. \A c \in Cells : SectorOf(c) \in JobSectors' => ~(SectorOf(c) < b')
  <2>1. \A c \in Cells : SectorOf(c) \in JobSectors' => b' <= SectorOf(c)
    BY <1>1 DEF JobSectors
  <2> QED BY <1>2, <2>1
<1>4. Behind'
  BY <1>3 DEF Behind
<1>5. Ahead' /\ Reserved'
  BY <1>1 DEF Ahead, Reserved, MarkingInv, OpenInv
<1> QED BY <1>1, <1>4, <1>5 DEF ContentInv, Staged, Cleared, Armed, Programming

(* While an operation of the controller is on, either it is an earlier      *)
(* call's, and not at the job's sectors, or it is the present one's.        *)
LEMMA CompleteContent ==
    ASSUME Course, Store, JobInv, MarkingInv, ContentInv, Complete
    PROVE  ContentInv'
<1>1. /\ ~Idle /\ open' = {} /\ UNCHANGED <<config, pc, job, b, tempblock>>
      /\ fc'.busy = "none" /\ fc'.mode = fc.mode /\ fc'.addr = fc.addr
      /\ lost' = lost \cup (IF open \cap JobSectors # {} THEN {"late"} ELSE {})
      /\ \A c \in Cells : SectorOf(c) \notin Target(fc) => flash'[c] = flash[c]
  BY CompleteEffect
<1> SUFFICES ASSUME pc # "idle", Clean'
             PROVE  (Behind /\ Ahead /\ Reserved /\ Staged /\ Cleared /\ Armed /\ Programming)'
  BY <1>1 DEF ContentInv
<1>2. /\ open \cap JobSectors = {} /\ lost' = lost /\ Clean
      /\ before' = [c \in Cells |-> IF SectorOf(c) \in open THEN flash'[c] ELSE before[c]]
  BY <1>1, CompleteEffect DEF Clean
<1>3. Behind /\ Ahead /\ Reserved /\ Staged /\ Cleared /\ Armed /\ Programming
  BY <1>2 DEF ContentInv
<1>4. b \in JobSectors /\ JobSectors' = JobSectors /\ Wanted(job) /\ b \in Sectors
  BY <1>1 DEF JobInv, JobSectors, Course
<1>5. Target(fc') = {} /\ Idle' /\ pc # "start" /\ before \in Arrays
  BY <1>1, <1>3 DEF Target, Idle, Armed, Deaf, Course
<1>6. \A c \in Cells : SectorOf(c) \in JobSectors => before'[c] = before[c]
  BY <1>2 DEF Arrays
<1>7. Desired(tempblock) => Desired(tempblock)'
  BY <1>1, <1>2, <1>4, <1>6 DEF Desired, Fits
(* An earlier call's. *)
<1>8. ASSUME pc \in {"unlock", "sector", "block", "erase", "setup", "setupWait", "load"}
      PROVE  (Behind /\ Ahead /\ Reserved /\ Staged /\ Cleared /\ Armed /\ Programming)'
  <2>1. open = Target(fc)
    BY <1>3, <1>8 DEF Reserved
  <2>2. \A c \in Cells : SectorOf(c) \in JobSectors => flash'[c] = flash[c]
    BY <1>1, <1>2, <2>1
  <2>3. Behind'
    BY <1>1, <1>2, <1>3, <1>4, <1>6, <2>2 DEF Behind, Fits
  <2>4. Ahead'
    <3> SUFFICES ASSUME job.kind = "write", lost = {}, NEW c \in Cells,
                        SectorOf(c) > b \/ (SectorOf(c) = b /\ pc \in {"unlock", "sector"})
                 PROVE  flash'[c] = before'[c]
      BY <1>1, <1>2 DEF Ahead
    <3>1. CASE SectorOf(c) \in open
      BY <1>2, <3>1
    <3>2. CASE SectorOf(c) \notin open
      BY <1>1, <1>2, <1>3, <2>1, <3>2 DEF Ahead
    <3> QED BY <3>1, <3>2
  <2>5. Staged'
    BY <1>1, <1>3, <1>7 DEF Staged
  <2>6. Cleared'
    <3> SUFFICES ASSUME pc \in {"setup", "setupWait", "load"}
                 PROVE  IsBlank(flash', b)
      BY <1>1, <1>8 DEF Cleared
    <3>1. IsBlank(flash, b)
      BY <1>3 DEF Cleared
    <3> QED BY <1>4, <2>2, <3>1, BlankKept
  <2>7. Reserved'
    BY <1>1, <1>5 DEF Reserved
  <2> QED BY <1>1, <1>8, <2>3, <2>4, <2>5, <2>6, <2>7 DEF Armed, Programming
(* The present one's. *)
<1>9. ASSUME pc \in {"eraseWait", "startWait", "lastWait"}, open = {},
             Target(fc) = {b} \/ job.kind = "chip"
      PROVE  before' = before /\ Behind' /\ Ahead'
  <2>1. before' = before
    BY <1>2, <1>5, <1>9 DEF Arrays
  <2>2. job.kind # "chip" => \A c \in Cells : SectorOf(c) # b => flash'[c] = flash[c]
    BY <1>1, <1>9
  <2>3. \A c \in Cells : (SectorOf(c) < b \/ SectorOf(c) > b) => SectorOf(c) # b
    BY SectorNumbers
  <2>4. Behind'
    BY <1>1, <1>2, <1>3, <1>4, <2>1, <2>2, <2>3 DEF Behind, Fits
  <2>5. Ahead'
    BY <1>1, <1>2, <1>3, <1>9, <2>1, <2>2, <2>3 DEF Ahead
  <2> QED BY <2>1, <2>4, <2>5
<1>10. ASSUME pc = "eraseWait"
       PROVE  (Behind /\ Ahead /\ Reserved /\ Staged /\ Cleared /\ Armed /\ Programming)'
  <2>1. PageErased /\ ChipErased /\ (job.kind = "chip" \/ ~WholeChip)
    BY <1>2, <1>10 DEF MarkingInv, EraseInv
  <2>2. open = {} /\ (Target(fc) = {b} \/ job.kind = "chip")
    <3>1. CASE WholeChip
      BY <1>2, <2>1, <3>1 DEF ChipErased, Clean
    <3>2. CASE ~WholeChip
      BY <1>1, <1>2, <2>1, <3>2 DEF PageErased, Target, Idle
    <3> QED BY <3>1, <3>2
  <2>3. Behind' /\ Ahead'
    BY <1>9, <1>10, <2>2
  <2>4. Staged'
    BY <1>1, <1>3, <1>7 DEF Staged
  <2> QED BY <1>1, <1>10, <2>3, <2>4 DEF Reserved, Cleared, Armed, Programming
<1>11. ASSUME pc \in {"startWait", "lastWait"}
       PROVE  (Behind /\ Ahead /\ Reserved /\ Staged /\ Cleared /\ Armed /\ Programming)'
  <2>1. /\ fc.mode = "PG" /\ fc.addr = b /\ open = {} /\ fc.busy = "PG"
        /\ Desired(fc.buf) /\ IsBlank(flash, b)
    BY <1>1, <1>3, <1>11 DEF Programming, Written, Writing
  <2>2. Target(fc) = {b}
    BY <2>1 DEF Target
  <2>3. before' = before /\ Behind' /\ Ahead'
    BY <1>9, <1>11, <2>1, <2>2
  <2>4. CASE b \in protected
    <3>1. Writing'
      BY <1>1, <1>5, <2>1, <2>4 DEF Writing, config
    <3> QED BY <1>1, <1>11, <2>3, <3>1 DEF Reserved, Staged, Cleared, Armed, Programming
  <2>5. CASE b \notin protected
    <3>1. \A c \in Cells : SectorOf(c) = b => flash'[c] = Over(flash[c], fc.buf[c % Size])
      BY <2>1, <2>2, <2>5, CompleteEffect
    <3>2. Bare(flash, b)
      BY <1>4, <2>1, SectorCells
    <3>3. \A v : Over(Blank, v) = v
      BY DEF Over
    <3>4. \A c \in Cells : SectorOf(c) = b => flash'[c] = fc.buf[c % Size]
      BY <3>1, <3>2, <3>3 DEF Bare
    <3>5. Written'
      BY <1>1, <1>2, <1>5, <2>1, <2>3, <3>4 DEF Written, Desired, Fits
    <3> QED BY <1>1, <1>11, <2>3, <3>5 DEF Reserved, Staged, Cleared, Armed, Programming
  <2> QED BY <2>4, <2>5
<1> QED BY <1>5, <1>8, <1>10, <1>11 DEF Course, Labels

LEMMA ContentNext ==
    Course /\ Store /\ JobInv /\ MarkingInv /\ ContentInv /\ [Next]_vars => ContentInv'
<1> SUFFICES ASSUME Course, Store, JobInv, MarkingInv, ContentInv, [Next]_vars
             PROVE  ContentInv'
  OBVIOUS
<1>1. CASE UNCHANGED vars
  BY <1>1 DEF vars, config, ghosts, ContentInv, Clean, Behind, Ahead, Reserved, Staged, Cleared,
     Armed, Programming, Written, Writing, Desired, Fits, JobSectors, Idle, Deaf
<1>2. CASE EraseSector
  BY <1>2, EraseSectorEffect, EraseContent
<1>3. CASE RunProgram \/ \E reset \in BOOLEAN : Halt(reset)
  BY <1>3 DEF RunProgram, Halt, ContentInv
<1> QED
  BY <1>1, <1>2, <1>3, UnlockContent, MakePageContent, BlockContent, MarkedContent, SetUpContent,
     LoadContent, ProgramContent, WaitContent, CompleteContent, BeginContent DEF Next, Step

(* The inductive invariant. *)
FlashInv == Course /\ Store /\ JobInv /\ MarkingInv /\ TouchInv /\ ContentInv

LEMMA FlashInvariant == Spec => []FlashInv
<1>1. Init => JobInv /\ TouchInv /\ ContentInv
  BY DEF Init, JobInv, TouchInv, ContentInv
<1>2. Init => FlashInv
  BY <1>1, TypeInit, MarkingInit DEF FlashInv
<1>3. FlashInv /\ [Next]_vars => FlashInv'
  BY TypeNext, JobNext, MarkingNext, TouchNext, ContentNext DEF FlashInv, MarkingInv
<1> QED BY <1>2, <1>3, PTL DEF Spec

-----------------------------------------------------------------------------
(* The refinement. *)

(* What an operation that says it is done has done. *)
Completed ==
    lost' \subseteq {"read"} =>
        /\ \A c \in job.cells : flash'[c] = job.val
        /\ lost' = {} => \A c \in Cells \ job.cells : flash'[c] = before[c]

LEMMA ReturnsOnce ==
    ASSUME Return(TRUE)
    PROVE  ~Return(FALSE) /\ pc' = "idle" /\ \A l \in Labels \ {"idle"} : ~Goto(l)
<1>1. op'.done = TRUE /\ pc' = "idle"
  BY DEF Return
<1>2. ~Return(FALSE)
  BY <1>1 DEF Return
<1>3. \A l \in Labels \ {"idle"} : ~Goto(l)
  BY <1>1 DEF Goto
<1> QED BY <1>1, <1>2, <1>3

LEMMA FinishedCompletes ==
    ASSUME Course, Touching, NextSector, Return(TRUE), Clean' => Finished
    PROVE  Completed
<1>1. \A s \in JobSectors : s <= b
  BY NextFacts, ReturnsOnce
<1> SUFFICES ASSUME Clean'
             PROVE  /\ \A c \in job.cells : flash'[c] = job.val
                    /\ lost' = {} => \A c \in Cells \ job.cells : flash'[c] = before[c]
  BY DEF Completed, Clean
<1>2. \A c \in Cells : SectorOf(c) \in JobSectors => Fits(flash'[c], c, lost')
  BY <1>1 DEF Finished
<1>3. \A c \in job.cells : c \in Cells /\ SectorOf(c) \in JobSectors
  BY DEF Course, JobSectors
<1>4. \A c \in job.cells : flash'[c] = job.val
  BY <1>2, <1>3 DEF Fits
<1>5. ASSUME lost' = {}, NEW c \in Cells \ job.cells
      PROVE  flash'[c] = before[c]
  <2>1. CASE SectorOf(c) \in JobSectors
    BY <1>2, <1>5, <2>1 DEF Fits
  <2>2. CASE SectorOf(c) \notin JobSectors
    <3>1. Sphere(job.cells, lost') = JobSectors
      BY <1>5 DEF Sphere, JobSectors
    <3> QED BY <2>2, <3>1 DEF Touching
  <2> QED BY <2>1, <2>2
<1> QED BY <1>4, <1>5

(* A chip that is erased is blank. *)
LEMMA ChipCompletes ==
    ASSUME Course, Store, JobInv, MarkingInv, pc = "eraseWait", WholeChip, job.kind # "write",
           EraseWaited(TRUE), flash' = flash
    PROVE  Completed
<1> SUFFICES ASSUME Clean'
             PROVE  /\ \A c \in job.cells : flash'[c] = job.val
                    /\ lost' = {} => \A c \in Cells \ job.cells : flash'[c] = before[c]
  BY DEF Completed, Clean
<1>1. lost' = lost \cup (IF Missing THEN {"erase"} ELSE {})
  BY DEF EraseWaited
<1>2. ~Missing /\ Clean /\ "erase" \notin lost
  BY <1>1 DEF Clean
<1>3. ChipErased /\ job.kind = "chip"
  BY <1>2 DEF MarkingInv, EraseInv
<1>4. \A s \in Sectors : IsBlank(flash, s)
  BY <1>2, <1>3, FoundFacts DEF ChipErased
<1>5. job.cells = Cells /\ job.val = Blank
  BY <1>3 DEF JobInv, Wanted
<1>6. \A c \in Cells : flash[c] = Blank
  <2> SUFFICES ASSUME NEW c \in Cells
               PROVE  flash[c] = Blank
    OBVIOUS
  <2>1. SectorOf(c) \in Sectors
    BY CellFacts
  <2> QED BY <1>4, <2>1, SectorCells DEF Bare
<1> QED BY <1>5, <1>6

LEMMA WaitCompletes ==
    ASSUME FlashInv, WaitForFlash, Touching, Return(TRUE)
    PROVE  Completed
<1>1. /\ pc \in Waiting /\ UNCHANGED <<flash, fc>> /\ lost \subseteq lost' /\ pc # "idle"
      /\ Polled \/ \E ok \in BOOLEAN : Waited(ok)
  BY WaitEffect, WaitMoves DEF FlashInv
<1>2. ~Polled
  BY <1>1, ReturnsOnce DEF Polled
<1>3. "setup" \in Labels \ {"idle"} /\ "load" \in Labels \ {"idle"} /\ "lastWait" \in Labels \ {"idle"}
  BY DEF Labels
<1>4. PICK ok \in BOOLEAN : Waited(ok)
  BY <1>1, <1>2
<1>5. CASE pc = "eraseWait"
  <2>1. EraseWaited(ok)
    BY <1>4, <1>5 DEF Waited
  <2>2. CASE WholeChip
    <3>1. job.kind # "write" /\ ok
      BY <1>3, <2>1, <2>2, ReturnsOnce DEF EraseWaited
    <3> QED BY <1>1, <1>5, <2>1, <2>2, <3>1, ChipCompletes DEF FlashInv
  <2>3. CASE ~WholeChip
    <3>1. job.kind = "erase" /\ ok /\ NextSector
      BY <1>3, <2>1, <2>3, ReturnsOnce DEF EraseWaited
    <3>2. Clean' => Finished
      BY <1>1, <1>5, <2>1, <3>1, EraseFinished DEF FlashInv
    <3> QED BY <3>1, <3>2, FinishedCompletes DEF FlashInv
  <2> QED BY <2>2, <2>3
<1>6. CASE pc = "setupWait"
  BY <1>3, <1>4, <1>6, ReturnsOnce DEF Waited
<1>7. ASSUME NextSector, pc \in {"startWait", "lastWait"},
             lost' = lost \cup (IF Missing THEN {"program"} ELSE {})
      PROVE  Completed
  <2>1. Clean' => ~Missing
    BY <1>7 DEF Clean
  <2>2. Clean' => Finished
    BY <1>1, <1>7, <2>1, ProgramFinished DEF FlashInv
  <2> QED BY <1>7, <2>2, FinishedCompletes DEF FlashInv
<1>8. CASE pc = "startWait"
  <2>1. ~Partial(b) /\ NextSector /\ lost' = lost \cup (IF Missing THEN {"program"} ELSE {})
    BY <1>3, <1>4, <1>8, ReturnsOnce DEF Waited, ProgramWaited
  <2> QED BY <1>7, <1>8, <2>1
<1>9. CASE pc = "lastWait"
  <2>1. NextSector /\ lost' = lost \cup (IF Missing THEN {"program"} ELSE {})
    BY <1>4, <1>9, ReturnsOnce DEF Waited, LastWaited
  <2> QED BY <1>7, <1>9, <2>1
<1> QED BY <1>1, <1>5, <1>6, <1>8, <1>9 DEF Waiting

LEMMA StepCompletes ==
    ASSUME FlashInv, Step, Return(TRUE)
    PROVE  Completed
<1>1. Touching /\ Course /\ Store
  BY StepTouches DEF FlashInv
<1>2. \A l \in {"sector", "block", "erase", "eraseWait", "setup", "setupWait", "start",
               "startWait", "lastWait"} : ~Goto(l)
  BY ReturnsOnce DEF Labels
<1>3. ~Return(FALSE)
  BY ReturnsOnce
<1>4. ~EraseIssue
  BY <1>1, <1>2, <1>3, EraseIssueCases
  DEF Course, Store, EraseBegun, EraseMissed, EraseAstray, EraseFailed
<1>5. CASE BlockWrite64
  <2>1. NextSector
    BY <1>1, <1>2, <1>3, <1>5, BlockEffect
  <2>2. Clean' => Finished
    BY <1>5, <2>1, BlockFinished DEF FlashInv
  <2> QED BY <1>1, <2>1, <2>2, FinishedCompletes
<1>6. CASE WaitForFlash
  BY <1>1, <1>6, WaitCompletes
<1>7. ~(UnlockFlash \/ EraseSector \/ MakePage \/ EraseUnlessMarked \/ SetUp \/ LoadPage \/ Program)
  BY <1>1, <1>2, <1>3, <1>4, UnlockEffect, EraseSectorEffect, MakePageEffect, MarkedEffect,
     SetUpEffect, LoadEffect, ProgramEffect
<1> QED BY <1>5, <1>6, <1>7 DEF Step

(* The array a caller sees: as it was when the operation began. *)
Shown == IF pc = "idle" THEN flash ELSE before

LEMMA SameCells == Array!Cells = Cells
  BY DEF Array!Cells, Cells, Words

LEMMA ShownType == Course /\ Store => Shown \in [Array!Cells -> Values]
  BY SameCells DEF Shown, Course, Store, Arrays

(* A return is the operation itself. *)
LEMMA ReturnOperates ==
    ASSUME Course, OpenInv, JobInv, pc # "idle", Touching, Spared, NEW done \in BOOLEAN,
           Return(done), done => Completed
    PROVE  Array!Operate(op')
<1>1. /\ pc' = "idle" /\ open' = open \cup Target(fc')
      /\ op' = [kind |-> job.kind, cells |-> job.cells, val |-> job.val,
                done |-> done, lost |-> lost']
  BY DEF Return
<1>2. /\ op'.kind = job.kind /\ op'.cells = job.cells /\ op'.val = job.val
      /\ op'.done = done /\ op'.lost = lost'
  BY <1>1
<1>3. op'.kind \in {"write", "erase", "chip"} /\ job.cells \subseteq Cells
  BY <1>2 DEF JobInv, Wanted
<1>4. Array!Touched(op') = Sphere(job.cells, lost')
  BY <1>2 DEF Array!Touched, Array!SectorOf, Sphere, SectorOf
<1>5. Shown' = flash' /\ Shown = before
  BY <1>1 DEF Shown
<1>6. Array!OnlyIn(Array!Touched(op'))
  <2>1. \A c \in Cells : Shown'[c] # Shown[c] => SectorOf(c) \in Array!Touched(op')
    BY <1>4, <1>5 DEF Touching
  <2> QED BY <2>1, SameCells DEF Array!OnlyIn, Array!SectorOf, SectorOf, Shown
<1>7. open' \subseteq open \cup Array!Touched(op')
  <2>1. CASE open = {}
    BY <1>1, <1>4, <2>1 DEF Touching
  <2>2. CASE open # {}
    BY <1>1, <2>2, SparedTarget DEF OpenInv
  <2> QED BY <2>1, <2>2
<1>8. op'.done /\ op'.lost \subseteq {"read"} => \A c \in op'.cells : Shown'[c] = op'.val
  BY <1>2, <1>5 DEF Completed
<1>9. op'.done /\ op'.lost = {} => \A c \in Cells \ op'.cells : Shown'[c] = Shown[c]
  BY <1>2, <1>5 DEF Completed
<1> QED
  BY <1>3, <1>6, <1>7, <1>8, <1>9, SameCells DEF Array!Operate, Shown

LEMMA LateStep ==
    ASSUME op' = op, open' = {}, \A c \in Cells : SectorOf(c) \notin open => Shown'[c] = Shown[c]
    PROVE  Array!Late
<1>1. Array!OnlyIn(open)
  BY SameCells DEF Array!OnlyIn, Array!SectorOf, SectorOf, Shown
<1> QED BY <1>1 DEF Array!Late

LEMMA StepRefines ==
    ASSUME FlashInv, Step
    PROVE  UNCHANGED <<Shown, open, op>> \/ Array!Operate(op')
<1>1. /\ pc # "idle"
      /\ \/ Stays
         \/ Spared /\ \E done \in BOOLEAN : Return(done)
  BY StepMoves DEF FlashInv
<1>2. CASE Stays
  BY <1>1, <1>2 DEF Stays, Shown
<1>3. ASSUME Spared, NEW done \in BOOLEAN, Return(done)
      PROVE  Array!Operate(op')
  <2>1. Touching
    BY StepTouches DEF FlashInv
  <2>2. done => Completed
    BY <1>3, StepCompletes
  <2> QED BY <1>1, <1>3, <2>1, <2>2, ReturnOperates DEF FlashInv, MarkingInv
<1> QED BY <1>1, <1>2, <1>3

LEMMA CompleteRefines ==
    ASSUME FlashInv, Complete
    PROVE  Array!Late
<1>1. /\ open' = {} /\ op' = op /\ pc' = pc
      /\ before' = IF pc = "idle" THEN before
                   ELSE [c \in Cells |-> IF SectorOf(c) \in open THEN flash'[c] ELSE before[c]]
      /\ \A c \in Cells : SectorOf(c) \notin Target(fc) => flash'[c] = flash[c]
  BY CompleteEffect DEF FlashInv
<1>2. \A c \in Cells : SectorOf(c) \notin open => Shown'[c] = Shown[c]
  BY <1>1 DEF Shown, FlashInv, MarkingInv, OpenInv
<1> QED BY <1>1, <1>2, LateStep

LEMMA HaltRefines ==
    ASSUME FlashInv, NEW reset \in BOOLEAN, Halt(reset)
    PROVE  UNCHANGED <<Shown, open, op>> \/ Array!Late
<1>1. /\ pc = "idle" /\ pc' = "idle" /\ op' = op
      /\ IF reset THEN open' = {} ELSE UNCHANGED <<open, flash>>
  BY HaltEffect DEF FlashInv
<1>2. CASE ~reset
  BY <1>1, <1>2 DEF Shown
<1>3. CASE reset
  <2>1. PICK torn \in SUBSET Target(fc) :
            flash' = [c \in Cells |-> IF SectorOf(c) \in torn THEN Junk ELSE flash[c]]
    BY HaltEffect DEF FlashInv
  <2>2. open = Target(fc)
    BY <1>1 DEF FlashInv, MarkingInv, OpenInv
  <2>3. \A c \in Cells : SectorOf(c) \notin open => Shown'[c] = Shown[c]
    BY <1>1, <2>1, <2>2 DEF Shown
  <2> QED BY <1>1, <1>3, <2>3, LateStep
<1> QED BY <1>2, <1>3

(* Every operation keeps FlashArray's promise: to its caller, a write puts  *)
(* its words in place and an erase blanks its sectors, nothing else changes *)
(* and what goes wrong stays within the sectors of the operation.           *)
THEOREM FlashImplementsArray == Spec => ImplementsArray
<1>1. Init => Array!Init
  <2> SUFFICES ASSUME Init
               PROVE  Array!Init
    OBVIOUS
  <2>1. Shown \in [Array!Cells -> Values]
    BY TypeInit, ShownType
  <2> QED BY <2>1 DEF Array!Init, Init, Shown
<1>2. FlashInv /\ FlashInv' /\ [Next]_vars => [Array!Next]_(Array!vars)
  <2> SUFFICES ASSUME FlashInv, FlashInv', [Next]_vars
               PROVE  UNCHANGED <<Shown, open, op>> \/ Array!Next
    BY DEF Array!vars, Shown
  <2>1. Shown' \in [Array!Cells -> Values]
    BY SameCells DEF FlashInv, Shown, Course, Store, Arrays, Array!Cells
  <2>2. ASSUME Array!Operate(op') \/ Array!Late \/ Array!Run
        PROVE  Array!Next
    BY <2>1, <2>2 DEF Array!Next, Shown
  <2>3. CASE UNCHANGED vars
    BY <2>3 DEF vars, ghosts, Shown
  <2>4. CASE Step
    BY <2>2, <2>4, StepRefines
  <2>5. CASE Complete
    BY <2>2, <2>5, CompleteRefines
  <2>6. CASE WriteBinaryBlob \/ Erase \/ EraseChip
    <3>1. pc = "idle" /\ pc' = "unlock" /\ before' = flash /\ UNCHANGED <<open, op>>
      BY <2>6, BeginEffect DEF FlashInv
    <3> QED BY <3>1 DEF Shown
  <2>7. CASE RunProgram
    BY <2>2, <2>7, RunEffect DEF FlashInv, Array!Run
  <2>8. ASSUME NEW reset \in BOOLEAN, Halt(reset)
        PROVE  UNCHANGED <<Shown, open, op>> \/ Array!Next
    BY <2>2, <2>8, HaltRefines
  <2> QED BY <2>3, <2>4, <2>5, <2>6, <2>7, <2>8 DEF Next
<1> QED
  BY <1>1, <1>2, FlashInvariant, PTL DEF Spec, ImplementsArray, Array!Spec

=============================================================================
