---------------------------- MODULE MemoryAccess ----------------------------
(***************************************************************************)
(* How minichlink reads and writes the target's memory through the debug   *)
(* module.  The hart is halted; a small program in the program buffer      *)
(* moves one word between DATA0 and the address in DATA1 and advances      *)
(* DATA1; with autoexec armed every access to DATA0 runs it again.  So     *)
(* that a sequence of accesses costs one transaction a word, the tool      *)
(* remembers in statetag which program is loaded, in currentstateval which *)
(* address is next, in lastwriteflags and autoincrement which variant, and *)
(* leaves out every register write it believes redundant.                  *)
(*                                                                         *)
(* One action per function of the programmer's interface.  The functions   *)
(* are sequential and the hart is halted while they run, so a function is  *)
(* one step, composed of its debug-module accesses in their order.  An     *)
(* address is the number of a word (the code's address divided by four).   *)
(***************************************************************************)
EXTENDS Integers

CONSTANTS
    Ram, Flash,     \* mapped words of the two memories
    STATR, CTLR,    \* the flash controller's registers
    Load,           \* the word a flash write leaves in CTLR: page program, load
    Values,         \* contents of a word, addresses of RAM among them
    Data,           \* words the tool and the program write
    Ends,           \* possible ends of the current memory area
    RamEnd,         \* ram_base + ram_size
    Strays,         \* where the program's x10 and x11 may point
    MaxNext,        \* bound: currentstateval, which every write advances
    MaxUnsure,      \* bound: operations in doubt
    MaxRuns         \* bound: times the hart is resumed

Words == Ram \cup Flash \cup {STATR, CTLR}

ASSUME MemoryAssumption ==
    /\ Words \subseteq Nat /\ Values \subseteq Nat /\ Ends \subseteq Nat
    /\ Data \cup Ram \cup {0, Load} \subseteq Values /\ RamEnd \in Nat
    /\ Strays \subseteq Nat /\ MaxNext \in Nat /\ MaxUnsure \in Nat /\ MaxRuns \in Nat
    /\ STATR # CTLR /\ {STATR, CTLR} \cap (Ram \cup Flash) = {} /\ Ram \cap Flash = {}

VARIABLES
    armable,        \* the chip has autoexec (not no_autoexec)
    areaEnd,        \* getMemoryEnd of current_area
    statetag,       \* "RDSQ", "WRSQ", "TERM", or "XXXX" for the tags nothing tests
    currentstateval,
    lastwriteflags,
    autoincrement,
    hw,             \* the debug module, the hart's x10..x13, the memory
    running,        \* the hart executes the user's program
    runs,           \* times it was resumed
    unsure,         \* operations in doubt so far
    since,          \* history: values each word has held since the last write
    doubt,          \* history: what may have broken the sequence (Doubts)
    op              \* history: the last operation

config == <<armable, areaEnd>>
cache  == <<statetag, currentstateval, lastwriteflags, autoincrement>>
vars   == <<config, cache, hw, running, runs, unsure, since, doubt, op>>

(* Only what memory holds now may be read from here on. *)
Forget(h) == since' = [a \in Words |-> {h.mem[a]}]
(* Record the operation; one in doubt promises nothing and is counted.       *)
Op(kind, a, v, sure) ==
    /\ op' = IF sure THEN [kind |-> kind, addr |-> a, val |-> v, sure |-> TRUE]
                      ELSE [kind |-> "other", addr |-> CTLR, val |-> 0, sure |-> FALSE]
    /\ sure \/ unsure < MaxUnsure
    /\ unsure' = IF sure THEN unsure ELSE unsure + 1

(* x10 and x11 point to DATA0 and DATA1, x12 and x13 hold what the flash     *)
(* program needs.                                                           *)
AtData == -1

(* The program loaded in the buffer, and a sequence that relies on it. *)
Programs == {"readInc", "read", "writeRam", "writeFlash", "other"}
Sequence == statetag \in {"RDSQ", "WRSQ"}

(* Why the next access may not do what it says:                             *)
(*   "ran"    the hart was resumed under a sequence                         *)
(*   "reset"  the hart was reset under a sequence                           *)
(*   "jump"   a write of the sequence did not follow the one before         *)
(*   "fault"  an error may be pending in the debug module                   *)
(*   "request" a request's save and restore of DATA0 ran the armed program   *)
(*   "lost"   an operation of the sequence ran in doubt                     *)
Doubts == {"ran", "reset", "jump", "fault", "request", "lost"}

-----------------------------------------------------------------------------
(* The debug module (external: the RISC-V debug specification as the code    *)
(* uses it).                                                                *)

(* What the program buffer's store does to the memory.  The flash program    *)
(* loads the page buffer and then writes x13 to CTLR.                       *)
StoreAt(h, a, w) ==
    IF a \notin Words THEN [h EXCEPT !.cmderr = TRUE]
    ELSE IF h.prog = "writeFlash"
         THEN IF a \in Flash
              THEN [h EXCEPT !.buf = [@ EXCEPT ![a] = w], !.mem = [@ EXCEPT ![CTLR] = Load]]
              ELSE [h EXCEPT !.mem = [@ EXCEPT ![a] = w, ![CTLR] = Load]]
         ELSE IF a \in Flash THEN h ELSE [h EXCEPT !.mem = [@ EXCEPT ![a] = w]]

LoadAt(h, a) ==
    IF a \notin Words THEN [h EXCEPT !.cmderr = TRUE]
    ELSE [h EXCEPT !.d0 = h.mem[a], !.d1 = IF h.prog = "readInc" THEN a + 1 ELSE a]

Advance(h) == IF h.cmderr THEN h ELSE [h EXCEPT !.d1 = @ + 1]

(* The program runs unless an error is pending; on a running hart it is one. *)
(* When x10 and x11 do not point to DATA0 and DATA1 it stores some word     *)
(* where they do.                                                           *)
Run(h) ==
    IF h.cmderr \/ running THEN [h EXCEPT !.cmderr = TRUE]
    ELSE IF h.base # AtData THEN StoreAt(h, h.base, h.d0)
    ELSE IF h.prog \in {"readInc", "read"} THEN LoadAt(h, h.d1)
    ELSE IF h.prog \in {"writeRam", "writeFlash"} THEN Advance(StoreAt(h, h.d1, h.d0))
    ELSE h

(* An access to DATA0. *)
Access(h) == IF h.autoexec THEN Run(h) ELSE h
PutDATA0(h, v) == Access([h EXCEPT !.d0 = v])

(* WaitForDoneOp clears a pending error. *)
WaitForDoneOp(h) == [h EXCEPT !.cmderr = FALSE]

-----------------------------------------------------------------------------

Init ==
    /\ armable \in BOOLEAN /\ areaEnd \in Ends
    /\ statetag = "XXXX" /\ currentstateval = 0
    /\ lastwriteflags = FALSE /\ autoincrement = FALSE
    /\ \E armed, err \in BOOLEAN, p \in Programs, b \in Strays :
          /\ armed => armable
          /\ p = "other" \/ armed
          /\ hw = [d0 |-> 0, d1 |-> 0, autoexec |-> armed, prog |-> p,
                   base |-> b, cmderr |-> err,
                   mem |-> [a \in Words |-> 0], buf |-> [a \in Flash |-> 0]]
          /\ doubt = IF err THEN {"fault"} ELSE {}
    /\ running = FALSE /\ runs = 0 /\ unsure = 0
    /\ since = [a \in Words |-> {0}]
    /\ op = [kind |-> "none", addr |-> CTLR, val |-> 0, sure |-> TRUE]

(* Mutant: x10 is loaded before DATA0 is given the offset. *)
StaticUpdate_NoOffset(h, failed) ==
    IF failed THEN h
    ELSE [h EXCEPT !.autoexec = FALSE, !.d0 = Load, !.base = IF h.cmderr THEN @ ELSE h.d0]

(* StaticUpdatePROGBUFRegs: autoexec off, then x10..x13 through DATA0 (the   *)
(* last word it leaves there is Load).  It returns at once when the read of *)
(* DMHARTINFO fails; its commands are ignored while an error is pending.    *)
StaticUpdate(h, failed) ==
    IF failed THEN h
    ELSE [h EXCEPT !.autoexec = FALSE, !.d0 = Load, !.base = IF h.cmderr THEN @ ELSE AtData]

(* An operation that is not sure of itself leaves doubt behind. *)
DoubtAfter(sure, ds) == doubt' = IF sure THEN ds ELSE ds \cup {"fault", "lost"}

-----------------------------------------------------------------------------
(* DefaultWriteWord. *)

Fresh == statetag # "WRSQ"
(* Mutant: the flash program and the RAM program are taken for one. *)
Rewrite_IgnoresFlash(a) == Fresh

Rewrite(a) == Fresh \/ lastwriteflags # (a \in Flash)

(* The slow path's program, with DATA1; the fast path sets DATA1 on a jump.  *)
Prepared(a, failed) ==
    LET off == IF Fresh THEN [hw EXCEPT !.autoexec = FALSE] ELSE hw
        set == IF Sequence THEN off ELSE StaticUpdate(off, failed)
    IN  IF Rewrite(a)
        THEN [set EXCEPT !.prog = IF a \in Flash THEN "writeFlash" ELSE "writeRam",
                         !.d1 = a]
        ELSE IF a # currentstateval THEN [hw EXCEPT !.d1 = a] ELSE hw

Written(a, v, failed) ==
    LET put == PutDATA0(Prepared(a, failed), v)
        ran == IF Fresh \/ ~armable THEN Run(put) ELSE put
        on  == [ran EXCEPT !.autoexec = IF Fresh THEN armable ELSE @]
    IN  IF a \in Flash THEN WaitForDoneOp(on) ELSE on

(* After a jump only the address that currentstateval names is in doubt.    *)
WriteSure(a) == doubt \subseteq {"jump"} /\ (Rewrite(a) \/ a # currentstateval \/ doubt = {})

WriteWord(a, v) == \E failed \in BOOLEAN :
    /\ ~running
    /\ failed => ~Sequence
    /\ hw' = Written(a, v, failed) /\ Forget(hw')
    /\ Op("write", a, v, WriteSure(a) /\ ~failed)
    /\ DoubtAfter(WriteSure(a) /\ ~failed,
                  IF Rewrite(a) THEN doubt \ {"jump"}
                  ELSE IF a # currentstateval THEN doubt \cup {"jump"} ELSE doubt)
    /\ statetag' = "WRSQ"
    /\ currentstateval' = (IF Rewrite(a) THEN a ELSE currentstateval) + 1
    /\ currentstateval' <= MaxNext
    /\ lastwriteflags' = IF Rewrite(a) THEN a \in Flash ELSE lastwriteflags
    /\ UNCHANGED <<config, autoincrement, running, runs>>

-----------------------------------------------------------------------------
(* DefaultReadWord. *)

Increments(a) == a \notin {STATR, CTLR} /\ a + 1 < areaEnd

Restart(a) == \/ statetag # "RDSQ" \/ a # currentstateval
              \/ Increments(a) # autoincrement
Reload(a)  == Restart(a) /\ (statetag # "RDSQ" \/ ~Increments(a))

Loaded(a, failed) ==
    LET set == IF statetag = "WRSQ" THEN hw ELSE StaticUpdate(hw, failed)
    IN  IF Reload(a)
        THEN [set EXCEPT !.autoexec = armable,
                         !.prog = IF Increments(a) THEN "readInc" ELSE "read"]
        ELSE hw

Started(a, failed) ==
    LET at == [Loaded(a, failed) EXCEPT !.d1 = a]
    IN  IF ~Restart(a) THEN hw ELSE WaitForDoneOp(IF armable THEN Run(at) ELSE at)

Sampled(a, failed) ==
    LET h == Started(a, failed) IN IF armable THEN h ELSE Run(h)

(* The word ReadWord returns is the one in DATA0 before the access prefetches. *)
NextInc(a)     == IF Reload(a) THEN Increments(a) ELSE autoincrement
(* Mutant: the address advances whatever program is loaded. *)
NextAddress_Always(a) == (IF Restart(a) THEN a ELSE currentstateval) + 1

NextAddress(a) == (IF Restart(a) THEN a ELSE currentstateval) + (IF NextInc(a) THEN 1 ELSE 0)

ReadDone(a, failed) ==
    LET h == Access(Sampled(a, failed))
    IN  IF NextAddress(a) = RamEnd THEN WaitForDoneOp(h) ELSE h

(* The prefetch leaves an error behind where no memory follows.              *)
Overruns(a) == armable /\ NextInc(a) /\ a + 1 \notin Words /\ NextAddress(a) # RamEnd

ReadSure == doubt \subseteq {"jump"}

ReadWord(a) == \E failed \in BOOLEAN :
    /\ ~running
    /\ failed => Reload(a) /\ statetag # "WRSQ"
    /\ hw' = ReadDone(a, failed)
    /\ IF ReadSure /\ ~failed THEN since' = since ELSE Forget(hw')
    /\ Op("read", a, Sampled(a, failed).d0, ReadSure /\ ~failed)
    /\ DoubtAfter(ReadSure /\ ~failed,
                  (doubt \ {"jump"}) \cup (IF Overruns(a) THEN {"fault"} ELSE {}))
    /\ statetag' = "RDSQ"
    /\ currentstateval' = NextAddress(a)
    /\ autoincrement' = NextInc(a)
    /\ UNCHANGED <<config, lastwriteflags, running, runs>>

(* The end of DefaultReadBinaryBlob. *)
EndOfBlob ==
    /\ ~running
    /\ hw' = WaitForDoneOp(hw)
    /\ doubt' = doubt \ {"fault"}
    /\ Op("other", CTLR, 0, TRUE)
    /\ UNCHANGED <<config, cache, running, runs, since>>

-----------------------------------------------------------------------------
(* Everything else forgets the sequence. *)

Void(h, sure) ==
    /\ hw' = h
    /\ statetag' = "XXXX"
    /\ doubt' = (doubt \cap {"fault"}) \cup (IF sure THEN {} ELSE {"fault"})
    /\ UNCHANGED <<config, lastwriteflags, autoincrement>>

(* DefaultWriteHalfWord, DefaultWriteByte, DefaultReadHalfWord and          *)
(* DefaultReadByte set up x8 and x9 themselves and wait at the end.         *)
Small(h) == [h EXCEPT !.autoexec = FALSE, !.prog = "other", !.cmderr = FALSE]

WriteSmall(a, v) ==
    /\ ~running /\ UNCHANGED <<running, runs>>
    /\ statetag' = "XXXX" /\ currentstateval' = -1 /\ doubt' = {}
    /\ hw' = [Small(hw) EXCEPT !.d0 = v,
                               !.mem = IF hw.cmderr THEN @ ELSE [@ EXCEPT ![a] = v]]
    /\ Forget(hw')
    /\ Op("writeSmall", a, v, "fault" \notin doubt)
    /\ UNCHANGED <<config, lastwriteflags, autoincrement>>

ReadSmall(a) ==
    /\ ~running /\ UNCHANGED <<running, runs, since>>
    /\ statetag' = "XXXX" /\ currentstateval' = -1 /\ doubt' = {}
    /\ hw' = [Small(hw) EXCEPT !.d0 = IF hw.cmderr THEN a ELSE hw.mem[a]]
    /\ Op("read", a, hw'.d0, "fault" \notin doubt)
    /\ UNCHANGED <<config, lastwriteflags, autoincrement>>

(* DefaultReadCPURegister, DefaultReadAllCPURegisters; the writing ones may *)
(* replace x10..x13; VoidHighLevelState and the writers of "XXXX" touch     *)
(* nothing else.                                                            *)
ReadCPURegister == \E v \in Data :
    /\ ~running
    /\ Void([hw EXCEPT !.autoexec = FALSE, !.d0 = IF hw.cmderr THEN @ ELSE v], TRUE)
    /\ Op("other", CTLR, 0, TRUE) /\ UNCHANGED <<currentstateval, running, runs, since>>

WriteCPURegister == \E v \in Data, b \in {hw.base} \cup Strays :
    /\ ~running
    /\ Void([hw EXCEPT !.autoexec = FALSE, !.d0 = v, !.base = IF hw.cmderr THEN @ ELSE b], TRUE)
    /\ Op("other", CTLR, 0, TRUE) /\ UNCHANGED <<currentstateval, running, runs, since>>

VoidHighLevelState ==
    /\ Void(hw, TRUE)
    /\ Op("other", CTLR, 0, TRUE) /\ UNCHANGED <<currentstateval, running, runs, since>>

(* Mutant: the poll leaves autoexec as the last sequence armed it. *)
Polled_KeepsAutoexec == hw

(* DefaultPollTerminal: autoexec off at the first poll, then it reads and,   *)
(* on its turn, writes DATA0, and before it DATA1 when it has keys to send.  *)
Polled == IF statetag = "TERM" THEN hw ELSE [hw EXCEPT !.autoexec = FALSE]

PollTerminal == \E v \in Data, turn \in BOOLEAN, d1 \in {hw.d1, 0} :
    LET read == Access(Polled)
    IN  /\ hw' = IF turn THEN PutDATA0([read EXCEPT !.d1 = d1], v) ELSE read
        /\ statetag' = "TERM" /\ doubt' = doubt \cap {"fault"}
        /\ Op("other", CTLR, 0, TRUE)
        /\ UNCHANGED <<config, currentstateval, lastwriteflags, autoincrement,
                       running, runs, since>>

(* CMDPollServer: it reads DATA0, has the request's commands executed and   *)
(* writes back what it read (any word after a failed read), whatever        *)
(* autoexec does at either access.                                          *)
Saved == {hw.d0} \cup Data

Observe(h, sure) == IF sure THEN since' = since ELSE Forget(h)

(* A request without a command, a newline for one, leaves the tag alone.    *)
Restore(v) ==
    LET h    == PutDATA0(Access(hw), v)
        sure == ~hw.autoexec
    IN  /\ hw' = h /\ Observe(h, sure)
        /\ Op("other", CTLR, 0, sure)
        /\ doubt' = IF sure THEN doubt ELSE doubt \cup {"fault", "request"}
        /\ UNCHANGED <<config, cache, running, runs>>

EmptyRequest == \E v \in Saved : Restore(v)

(* CMDWrite and CMDRead take the tag away.  They reach every register: the   *)
(* client writes DATA0 and DATA1, halts and resumes the hart, turns autoexec *)
(* off and loads a program.                                                 *)
Answer(asked, v, sure) ==
    LET h == PutDATA0(asked, v)
    IN  /\ Void(h, sure) /\ Observe(h, sure)
        /\ Op("other", CTLR, 0, sure)
        /\ running' \in BOOLEAN
        /\ runs' = IF running' /\ ~running THEN runs + 1 ELSE runs
        /\ runs' <= MaxRuns
        /\ UNCHANGED currentstateval

Request == \E writes \in BOOLEAN, v \in Saved :
    LET read == Access(hw)
    IN  Answer(IF writes
               THEN [read EXCEPT !.prog = "other", !.autoexec = FALSE, !.d1 = 0]
               ELSE read,
               v, ~hw.autoexec)

(* ... and runs its program, which changes memory, x10 to x13 and the error, *)
(* or arms it; that promises nothing.                                       *)
RequestRuns == \E armed, err \in BOOLEAN, a \in Ram, w \in Data, b \in Strays :
    /\ armed => armable
    /\ Answer([Access(hw) EXCEPT !.prog = "other", !.autoexec = armed, !.base = b,
                                 !.cmderr = err, !.mem = [@ EXCEPT ![a] = w]],
              hw.d0, FALSE)

(* DefaultHaltMode changes none of the cached values. *)
Resume ==
    /\ ~running /\ running' = TRUE
    /\ runs < MaxRuns /\ runs' = runs + 1
    /\ doubt' = IF Sequence THEN doubt \cup {"ran"} ELSE doubt
    /\ Op("other", CTLR, 0, TRUE) /\ UNCHANGED <<config, cache, hw, since>>

Halt == \E reset \in BOOLEAN, b \in {hw.base} \cup Strays :
    /\ running' = FALSE
    /\ ~reset => b = hw.base
    /\ hw' = [hw EXCEPT !.base = b]
    /\ doubt' = IF reset /\ Sequence THEN doubt \cup {"reset"} ELSE doubt
    /\ IF running THEN Forget(hw') ELSE since' = since
    /\ Op("other", CTLR, 0, TRUE) /\ UNCHANGED <<config, cache, runs>>

-----------------------------------------------------------------------------
(* External: the program uses its registers, memory and DATA0 and DATA1   *)
(* (its printf); the flash controller changes STATR at any time.            *)

Hold(h) == since' = [a \in Words |-> since[a] \cup {h.mem[a]}]

Program == \E a \in Ram, v \in Data, b \in Strays :
    /\ running
    /\ hw' = [hw EXCEPT !.base = b, !.mem = [@ EXCEPT ![a] = v], !.d0 = v, !.d1 = v]
    /\ Hold(hw')
    /\ UNCHANGED <<config, cache, running, runs, unsure, doubt, op>>

Controller == \E v \in Values :
    /\ hw' = [hw EXCEPT !.mem = [@ EXCEPT ![STATR] = v]]
    /\ Hold(hw')
    /\ UNCHANGED <<config, cache, running, runs, unsure, doubt, op>>

Next ==
    \/ \E a \in Words : ReadWord(a) \/ \E v \in Data : WriteWord(a, v)
    \/ \E a \in Ram : ReadSmall(a) \/ \E v \in Data : WriteSmall(a, v)
    \/ EndOfBlob \/ ReadCPURegister \/ WriteCPURegister \/ VoidHighLevelState
    \/ PollTerminal \/ EmptyRequest \/ Request \/ RequestRuns
    \/ Resume \/ Halt \/ Program \/ Controller

Spec == Init /\ [][Next]_vars

-----------------------------------------------------------------------------
(* Properties.  Every claim is made while nothing is in doubt.               *)

Hardware == [d0 : Values, d1 : Nat, autoexec : BOOLEAN, prog : Programs,
             base : Strays \cup {AtData}, cmderr : BOOLEAN,
             mem : [Words -> Values], buf : [Flash -> Values]]

(* The state keeps its shape; the debug module's base is where the program   *)
(* may have left it or where StaticUpdatePROGBUFRegs put it.                *)
TypeOK ==
    /\ armable \in BOOLEAN /\ areaEnd \in Ends
    /\ statetag \in {"RDSQ", "WRSQ", "TERM", "XXXX"}
    /\ currentstateval \in Int /\ lastwriteflags \in BOOLEAN /\ autoincrement \in BOOLEAN
    /\ hw \in Hardware
    /\ running \in BOOLEAN /\ since \in [Words -> SUBSET Values]
    /\ doubt \subseteq Doubts
    /\ op \in [kind : {"none", "read", "write", "writeSmall", "other"},
               addr : Words, val : Nat, sure : BOOLEAN]

(* What the cached values claim of the hardware is true: statetag names the  *)
(* program that is loaded with x10 to x13 set for it and autoexec as the chip *)
(* has it, currentstateval the address in DATA1 (one further when a read has  *)
(* prefetched), the prefetched word in DATA0 is no older than the last write, *)
(* and the terminal's tag means that autoexec is off.  Each register access  *)
(* that DefaultReadWord, DefaultWriteWord and DefaultPollTerminal leave out  *)
(* leans on one of these.                                                    *)
Sound == doubt \subseteq {"jump", "fault"} /\ Sequence

ErrorKnown == (hw.cmderr => "fault" \in doubt) /\ (hw.autoexec => armable)

SequenceReady == Sound => hw.base = AtData /\ hw.autoexec = armable /\ ~running

ReadAhead == Sound /\ statetag = "RDSQ" =>
    /\ hw.prog = IF autoincrement THEN "readInc" ELSE "read"
    /\ "fault" \in doubt => currentstateval \notin Words
    /\ currentstateval \in Words =>
          /\ hw.d1 = currentstateval + (IF armable /\ autoincrement THEN 1 ELSE 0)
          /\ armable => hw.d0 \in since[currentstateval]

WriteAhead == Sound /\ statetag = "WRSQ" =>
    /\ hw.prog = IF lastwriteflags THEN "writeFlash" ELSE "writeRam"
    /\ "fault" \notin doubt
    /\ doubt = {} => hw.d1 = currentstateval

TerminalReady == statetag = "TERM" => ~hw.autoexec

SinceTrue == \A a \in Words : hw.mem[a] \in since[a]

CacheTrue == ErrorKnown /\ SequenceReady /\ ReadAhead /\ WriteAhead /\ TerminalReady
             /\ SinceTrue

(* The memory functions keep the promise of TargetMemory: with no doubt      *)
(* about the sequence, a write stores the word it was given at the address   *)
(* it was given and nowhere else, a read returns a current value of the word *)
(* it names and not of a neighbour's prefetch, and no other function of the  *)
(* tool (registers, terminal, a request that runs no program, halting)      *)
(* changes memory.                                                          *)
Target == INSTANCE TargetMemory WITH mem <- hw.mem, buf <- hw.buf

ImplementsTarget == Target!Spec

(* minichlink.c:1960-1962 say of the program that every write runs:          *)
(* "c.lw x9,0(x11) // Get the address to write to.", "c.sw x8,0(x9)  // Write *)
(* to the address."  So a word written to RAM after a jump back or forth, in *)
(* a sequence otherwise sound, is the word at its address.                   *)
WriteReachesAddress == [][\A a \in Words \ Flash, v \in Data :
    doubt = {"jump"} /\ WriteWord(a, v) => hw'.mem[a] = v]_vars

(* minichlink.c:1763 calls x10 and x11 pointing to DATA0 and DATA1           *)
(* "universal for all continued code": after the hart was resumed and halted *)
(* again they do, whenever the tag says that the sequence goes on.           *)
ContinuedCodeHasBases == Sequence /\ ~running /\ doubt \subseteq {"ran"} => hw.base = AtData
=============================================================================
