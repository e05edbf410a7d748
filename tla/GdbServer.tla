----------------------------- MODULE GdbServer -----------------------------
(***************************************************************************)
(* minichlink's GDB server: one client over TCP, the packet parser of      *)
(* microgdbstub.h, the shadow running state, the saved registers and the   *)
(* software breakpoints of minichgdb.c, and the hart they are about.       *)
(*                                                                         *)
(* The server is one thread.  A step is one received byte, with all that   *)
(* its packet makes the server do, or one RVNetPoll: between two calls     *)
(* into the programmer nothing of interest moves, because the hart is      *)
(* halted by then or has been left running.  Beside the server act the     *)
(* hart, whenever it runs, and the client, which sends a packet only when  *)
(* it believes the target stopped and it has its last answer, a break byte *)
(* only when it believes the target runs, and may drop at any time.        *)
(*                                                                         *)
(* Registers are abstracted to whose they are: "own" is what the program   *)
(* had (or the user gave it), "scratch" what the tool's own code and data  *)
(* accesses leave behind, "old" what the program had at an earlier stop.   *)
(***************************************************************************)
EXTENDS Integers, Sequences, FiniteSets

CONSTANTS
    Addrs,          \* addresses of instructions: 0..N-1, a loop
    OwnBreaks,      \* addresses of the program's own ebreaks
    BreakAddrs,     \* addresses the client sets breakpoints at and writes to
    Slots,          \* places of the breakpoint table (128 in the code)
    Commands,       \* packets the client sends
    MaxPackets,     \* bound: packets
    MaxBreaks,      \* bound: break bytes
    MaxConnects,    \* bound: connections
    MaxFaults       \* bound: transactions the link loses and clients that die

AllCommands == {"?", "c", "C", "s", "m", "w", "g", "P", "Z", "z",
                "halt", "reset halt", "resume", "reset run", "D"}

ASSUME GdbAssumption ==
    /\ IsFiniteSet(Addrs) /\ Addrs # {} /\ Addrs = 0..Cardinality(Addrs) - 1
    /\ OwnBreaks \subseteq Addrs /\ BreakAddrs \subseteq Addrs
    /\ IsFiniteSet(Slots) /\ Slots \subseteq Nat
    /\ Commands \subseteq AllCommands
    /\ MaxPackets \in Nat /\ MaxBreaks \in Nat /\ MaxConnects \in Nat /\ MaxFaults \in Nat

VARIABLES
    hart,                   \* run, pc, regs, and the step bit of its DCSR
    mem,                    \* the instruction at each address
    shadow_running_state, backup_regs, gdbasserting_break,
    software_breakpoint,    \* used, addy, previous word, per slot
    listenMode,
    gdbbufferstate, gdbbuffer, gdbrunningcsum,
    due,                    \* RVNetPoll is next: it follows all received data
    rx, tx,                 \* bytes to the server, replies to the client
    gdb,                    \* what the client believes
    code,                   \* history: the program as the client wants it
    payload,                \* history: the client's last packet
    stop,                   \* history: "none" said yet, a "break" heeded, "told",
                            \* or the halt is that of a "connect"
    shown,                  \* history: whose registers the client was shown
    odd,                    \* history: what a stop reply got wrong
    lapse,                  \* history: events that void a promise
    packets, breaks, connects, faults   \* counters for the bounds

target  == <<hart, mem>>
parser  == <<gdbbufferstate, gdbbuffer, gdbrunningcsum>>
bounds  == <<packets, breaks, connects>>
vars == <<target, shadow_running_state, backup_regs, gdbasserting_break,
          software_breakpoint, listenMode, parser, due, rx, tx, gdb, code, payload,
          stop, shown, odd, lapse, bounds, faults>>

-----------------------------------------------------------------------------
(* The hart (external). *)

After(a) == (a + 1) % Cardinality(Addrs)
Hit == mem[hart.pc] = "ebreak"

(* One instruction; an ebreak halts where it stands. *)
Executed(h) == IF mem[h.pc] = "ebreak" THEN h ELSE [h EXCEPT !.pc = After(@)]
Aged(bk) == IF bk.regs = "own" THEN [bk EXCEPT !.regs = "old"] ELSE bk

Execute ==
    /\ hart.run
    /\ hart' = [Executed(hart) EXCEPT !.run = ~Hit /\ ~hart.step]
    /\ backup_regs' = IF Hit THEN backup_regs ELSE Aged(backup_regs)
    /\ UNCHANGED <<mem, shadow_running_state, gdbasserting_break, software_breakpoint,
                   listenMode, parser, due, rx, tx, gdb, code, payload, stop, shown, odd,
                   lapse, bounds, faults>>

-----------------------------------------------------------------------------
(* What the server's functions do to the hart h.  A fault f is the link     *)
(* losing a transaction of that kind; nobody looks at its result.  A halt   *)
(* is requested three times over, a resume and a reset once.                *)

Faults == {"none", "save", "restore", "write", "read", "poll",
           "resume", "step on", "step off", "reset"}
Halted(h)  == [h EXCEPT !.run = FALSE]
Resumed(h, f) == [h EXCEPT !.run = @ \/ f # "resume"]
Stepping(h, on) == [h EXCEPT !.step = on]

(* Memory is accessed by a program that runs on the hart.  If the hart is   *)
(* running the access may or may not take place.                            *)
Accessed(h) == [h EXCEPT !.regs = "scratch"]

(* RVCommandPrologue: a running hart does not give its registers. *)
Saved(h, f) ==
    IF f = "save" THEN backup_regs
    ELSE [regs |-> IF h.run THEN "scratch" ELSE h.regs, pc |-> h.pc]

(* Mutant: only the program counter goes back. *)
Restored_OnlyPC(h, bk, f) == IF h.run THEN h ELSE [h EXCEPT !.pc = bk.pc]

(* RVCommandEpilogue *)
Restored(h, bk, f) ==
    IF h.run THEN h
    ELSE [h EXCEPT !.regs = IF f = "restore" THEN "scratch" ELSE bk.regs, !.pc = bk.pc]

-----------------------------------------------------------------------------

Free == [used |-> FALSE, addy |-> 0, prev |-> "insn"]

Init ==
    /\ code = [a \in Addrs |-> IF a \in OwnBreaks THEN "ebreak" ELSE "insn"]
    /\ mem = code
    /\ hart = [run |-> TRUE, pc |-> 0, regs |-> "own", step |-> FALSE]
    /\ shadow_running_state = 1 /\ gdbasserting_break = FALSE
    /\ backup_regs = [regs |-> "old", pc |-> 0]
    /\ software_breakpoint = [i \in Slots |-> Free]
    /\ listenMode = 1 /\ gdbbufferstate = 0 /\ gdbbuffer = <<>> /\ gdbrunningcsum = <<>>
    /\ due = FALSE /\ rx = <<>> /\ tx = <<>> /\ gdb = "gone" /\ payload = <<>>
    /\ stop = "none" /\ shown = "own" /\ odd = {} /\ lapse = {}
    /\ packets = 0 /\ breaks = 0 /\ connects = 0 /\ faults = 0

(* The fault f happens while the server is at work, if the bound allows. *)
Suffer(f) == f \in Faults /\ faults' = faults + (IF f = "none" THEN 0 ELSE 1)
             /\ faults' <= MaxFaults
Lapses(S) == lapse' = lapse \cup S
LostBy(f) == CASE f \in {"save", "restore"} -> {"regs"}
               [] f = "write"               -> {"write"}
               [] f \in {"resume", "step on"} -> {"control"}
               [] OTHER                     -> {}

Reply(r) == tx' = Append(tx, r)

(* Mutant: the break flag is not taken back. *)
SendHaltReason_KeepsFlag(stepped) ==
    /\ Reply(IF gdbasserting_break THEN "T02" ELSE "T05")
    /\ gdbasserting_break' = gdbasserting_break /\ stop' = "told"
    /\ odd' = odd \cup (IF gdbasserting_break /\ stop # "break" THEN {"reason"} ELSE {})

(* RVSendGDBHaltReason.  odd records a reply without its cause: a stop that *)
(* was told before is told again, and a connection halts the hart itself.   *)
SendHaltReason(stepped) ==
    /\ Reply(IF gdbasserting_break THEN "T02" ELSE "T05")
    /\ gdbasserting_break' = FALSE /\ stop' = "told"
    /\ odd' = odd
         \cup (IF gdbasserting_break /\ stop # "break" THEN {"reason"} ELSE {})
         \cup (IF ~stepped /\ stop = "none" /\ mem'[hart'.pc] # "ebreak"
               THEN {"cause"} ELSE {})
         \cup (IF hart'.run THEN {"running"} ELSE {})

(* RVNetPoll compares the hart with what the server knows of it.  A halt it *)
(* did not know of is saved and reported ...                                *)
SaveAndReport ==
    /\ \E f \in {"none", "save"} :
          Suffer(f) /\ backup_regs' = Saved(hart, f) /\ Lapses(LostBy(f))
    /\ UNCHANGED <<target, software_breakpoint, listenMode>>
    /\ SendHaltReason(FALSE) /\ shadow_running_state' = 0

(* Mutant: only of a hart that was seen running. *)
ReportHalt_IfSeenRunning == ~hart.run /\ shadow_running_state = 1024 /\ SaveAndReport

ReportHalt == ~hart.run /\ shadow_running_state # 0 /\ SaveAndReport

(* ... a resume it has not seen yet is answered with "OK" ... *)
ReportRun ==
    /\ hart.run /\ shadow_running_state # 1024
    /\ Reply("OK") /\ shadow_running_state' = 1024
    /\ UNCHANGED <<target, backup_regs, gdbasserting_break, stop, software_breakpoint,
                   listenMode, odd, lapse, faults>>

(* ... and nothing is said if nothing is new, or the status cannot be read. *)
ReportNothing ==
    /\ due
    /\ \/ /\ shadow_running_state = IF hart.run THEN 1024 ELSE 0
          /\ Suffer("none") /\ UNCHANGED lapse
       \/ Suffer("poll") /\ Lapses({"poll"})
    /\ UNCHANGED <<target, shadow_running_state, backup_regs, gdbasserting_break,
                   software_breakpoint, listenMode, tx, stop, odd>>

NetPoll ==
    /\ listenMode = 2 /\ due' = FALSE
    /\ ReportHalt \/ ReportRun \/ ReportNothing
    /\ UNCHANGED <<parser, rx, gdb, code, payload, shown, bounds>>

-----------------------------------------------------------------------------
(* The packets.  Each action ends with the reply; the variables of the      *)
(* parser and the client are the caller's.                                  *)

Matching(a) == {i \in Slots : software_breakpoint[i].used /\ software_breakpoint[i].addy = a}
Wake == stop' = "none"

(* '?', RVSendGDBHaltReason and nothing else. *)
QueryReason ==
    /\ UNCHANGED <<target, shadow_running_state, backup_regs, software_breakpoint, code,
                   shown, lapse, faults>>
    /\ SendHaltReason(FALSE)

(* Mutant: a step leaves the shadow state running, as a continue does. *)
StepPacket_Running ==
    LET h == Executed(Halted(Restored(hart, backup_regs, "none"))) IN
    /\ hart' = Stepping(h, FALSE) /\ backup_regs' = Saved(h, "none")
    /\ shadow_running_state' = 1
    /\ UNCHANGED <<mem, software_breakpoint, code, shown, lapse, faults>>
    /\ SendHaltReason(TRUE)

(* How far the hart h gets until it is halted. *)
FreeRuns(h) ==
    LET n == Cardinality(Addrs) IN
    {[h EXCEPT !.pc = a] : a \in {b \in Addrs :
        \A i \in 0..((b - h.pc + n) % n) - 1 : mem[(h.pc + i) % n] # "ebreak"}}

(* RVDebugExec, 's': the step bit, the registers, a resume and a halt.  The *)
(* hart takes one instruction, none without the resume, and what it likes   *)
(* without the step bit.                                                    *)
StepPacket ==
    \E f \in {"none", "save", "restore", "step on", "resume", "step off"} :
      LET h == Halted(Restored(hart, backup_regs, f)) IN
      /\ Suffer(f) /\ Lapses(LostBy(f) \cup (IF f = "step off" THEN {"step bit"} ELSE {}))
      /\ \E g \in CASE f = "resume" -> {h}
                   [] f = "step on" /\ ~hart.step -> FreeRuns(h)
                   [] OTHER -> {Executed(h)} :
            /\ hart' = Stepping(g, f = "step off") /\ backup_regs' = Saved(g, f)
      /\ UNCHANGED <<mem, shadow_running_state, software_breakpoint, code, shown>>
      /\ SendHaltReason(f \notin {"step on", "resume"})

(* Where a continue starts: past an ebreak that is not the server's. *)
Skipped(bk, f) ==
    IF f # "read" /\ Matching(bk.pc) = {} /\ mem[bk.pc] = "ebreak"
    THEN [bk EXCEPT !.pc = After(@)] ELSE bk

(* RVDebugExec, 'c' and 'C'.  At a breakpoint of the server the instruction *)
(* is put back and the ebreak written again without a step in between; the  *)
(* step bit is set and stays.  The reply comes from RVNetPoll.              *)
Continue(c) ==
    \E f \in {"none", "restore", "write", "read", "step on", "resume"} :
      LET known == Matching(backup_regs.pc)
          steps == known # {} \/ c = "C"
          h     == Stepping(hart, hart.step \/ (steps /\ f # "step on")) IN
      /\ Suffer(f) /\ (f = "write" => known # {}) /\ (f = "read" => known = {}) /\ Wake
      /\ (f = "step on" => steps) /\ (f = "resume" => shadow_running_state # 1)
      /\ Lapses(LostBy(f) \cup (IF h.step THEN {"step bit"} ELSE {}))
      /\ backup_regs' = Skipped(backup_regs, f)
      /\ mem' = IF f = "write"
                THEN [mem EXCEPT ![backup_regs.pc] =
                        software_breakpoint[CHOOSE i \in known : TRUE].prev]
                ELSE mem
      /\ hart' = IF shadow_running_state = 1 THEN h
                 ELSE Resumed(Restored(h, backup_regs', f), f)
      /\ shadow_running_state' = 1
      /\ UNCHANGED <<gdbasserting_break, software_breakpoint, code, shown, odd, tx>>

(* RVReadMem and RVWriteRAM: the hart is not halted first. *)
ReadMem ==
    /\ hart' = Accessed(hart) /\ Reply("data")
    /\ UNCHANGED <<mem, shadow_running_state, backup_regs, gdbasserting_break,
                   software_breakpoint, code, stop, shown, odd, lapse, faults>>

WriteRAM(a) ==
    /\ \/ /\ mem' = [mem EXCEPT ![a] = "insn"] /\ code' = [code EXCEPT ![a] = "insn"]
          /\ Suffer("none") /\ Reply("OK")
          /\ Lapses(IF Matching(a) # {} THEN {"overwritten"} ELSE {})
       \/ /\ UNCHANGED <<mem, code, lapse>>
          /\ Suffer("write") /\ Reply("E 00")
    /\ hart' = Accessed(hart)
    /\ UNCHANGED <<shadow_running_state, backup_regs, gdbasserting_break,
                   software_breakpoint, stop, shown, odd>>

(* The first register access after a resume halts and saves. *)
Caught(f) == IF shadow_running_state # 0 THEN Saved(Halted(hart), f) ELSE backup_regs
Catch(f) ==
    /\ Suffer(f) /\ (f = "save" => shadow_running_state # 0) /\ Lapses(LostBy(f))
    /\ backup_regs' = Caught(f) /\ shadow_running_state' = 0

ReadRegisters ==
    /\ \E f \in {"none", "save"} : Catch(f)
    /\ hart' = IF shadow_running_state # 0 THEN Halted(hart) ELSE hart
    /\ shown' = backup_regs'.regs /\ Reply("data")
    /\ UNCHANGED <<mem, gdbasserting_break, software_breakpoint, code, stop, odd>>

(* RVWriteCPURegister writes all of them; there is no reply. *)
WriteRegister ==
    /\ \E f \in {"none", "save", "restore"} :
          /\ Catch(f)
          /\ hart' = Restored(IF shadow_running_state # 0 THEN Halted(hart) ELSE hart,
                              backup_regs', f)
    /\ UNCHANGED <<mem, gdbasserting_break, software_breakpoint, code, stop, shown, odd, tx>>

(* Mutant: the word behind the breakpoint is not remembered. *)
NewBreakpoint_NoWord(a) == [used |-> TRUE, addy |-> a, prev |-> "insn"]

(* A slot taken for address a. *)
NewBreakpoint(a) == [used |-> TRUE, addy |-> a, prev |-> mem[a]]

(* RVHandleBreakpoint.  A full table refuses the clearing of a breakpoint   *)
(* it does not hold, too.                                                   *)
SetBreakpoint(a) ==
    LET free == {i \in Slots : ~software_breakpoint[i].used} IN
    /\ \/ /\ Matching(a) # {} /\ Reply("OK") /\ Suffer("none")
          /\ UNCHANGED <<hart, mem, software_breakpoint, lapse>>
       \/ /\ Matching(a) = {} /\ free = {} /\ Reply("E 00") /\ Suffer("none")
          /\ UNCHANGED <<hart, mem, software_breakpoint, lapse>>
       \/ /\ Matching(a) = {} /\ free # {} /\ Reply("E 00") /\ Suffer("read")
          /\ hart' = Accessed(hart) /\ UNCHANGED <<mem, software_breakpoint, lapse>>
       \/ /\ Matching(a) = {} /\ free # {} /\ Reply("OK") /\ hart' = Accessed(hart)
          /\ LET i == CHOOSE i \in free : \A j \in free : i <= j IN
             software_breakpoint' = [software_breakpoint EXCEPT ![i] = NewBreakpoint(a)]
          /\ \E f \in {"none", "write"} :
                /\ Suffer(f) /\ Lapses(LostBy(f))
                /\ mem' = IF f = "write" THEN mem ELSE [mem EXCEPT ![a] = "ebreak"]
    /\ UNCHANGED <<shadow_running_state, backup_regs, gdbasserting_break, code, stop, shown, odd>>

(* The words behind the breakpoints S go back, all but the lost one. *)
Uncovered(S, kept) ==
    [a \in Addrs |->
        LET here == {i \in S \ kept : software_breakpoint[i].used
                                      /\ software_breakpoint[i].addy = a} IN
        IF here = {} THEN mem[a] ELSE software_breakpoint[CHOOSE i \in here : TRUE].prev]

ClearBreakpoint(a) ==
    /\ \/ /\ Matching(a) = {} /\ Suffer("none")
          /\ Reply(IF \E i \in Slots : ~software_breakpoint[i].used THEN "OK" ELSE "E 00")
          /\ UNCHANGED <<hart, mem, software_breakpoint, lapse>>
       \/ /\ Matching(a) # {} /\ Reply("OK") /\ hart' = Accessed(hart)
          /\ \E f \in {"none", "write"} :
                /\ Suffer(f) /\ Lapses(LostBy(f))
                /\ mem' = Uncovered(Matching(a), IF f = "write" THEN Slots ELSE {})
          /\ software_breakpoint' =
                [i \in Slots |-> IF i \in Matching(a) THEN Free ELSE software_breakpoint[i]]
    /\ UNCHANGED <<shadow_running_state, backup_regs, gdbasserting_break, code, stop, shown, odd>>

(* RVCommandResetPart: the hart is halted, reset or resumed, and whatever   *)
(* is then in its registers is saved; the shadow state is left alone.       *)
Reset(h) == {[h EXCEPT !.pc = 0, !.regs = "own", !.step = s] : s \in {FALSE, h.step}}

ResetPart(c) ==
    /\ \E f \in {"none", "save", "resume", "reset"} :
          LET reset == IF f = "reset" THEN {hart} ELSE Reset(hart) IN
          /\ Suffer(f)
          /\ (f = "resume" => c \in {"resume", "reset run"})
          /\ (f = "reset" => c \in {"reset halt", "reset run"})
          /\ hart' \in CASE c = "halt"       -> {Halted(hart)}
                         [] c = "reset halt" -> {Halted(h) : h \in reset}
                         [] c = "resume"     -> {Resumed(hart, f)}
                         [] OTHER            -> {Resumed(Halted(h), f) : h \in reset}
          /\ backup_regs' = Saved(hart', f)
          /\ Lapses(LostBy(f)
                    \cup (IF hart'.run THEN {"monitor"} ELSE {})
                    \cup (IF ~hart'.run /\ hart'.regs # "own" THEN {"rehalt"} ELSE {}))
    /\ Reply("OK")
    /\ UNCHANGED <<mem, shadow_running_state, gdbasserting_break, software_breakpoint,
                   code, stop, shown, odd>>

(* RVHandleDisconnect: the registers go back only if the server knew the    *)
(* hart to be halted.                                                       *)
Disconnect ==
    /\ \E f \in {"none", "write", "restore", "resume", "step off"} :
          LET used == {i \in Slots : software_breakpoint[i].used}
              h    == Stepping(Halted(hart), hart.step /\ f = "step off")
              h2   == IF used = {} THEN h ELSE Accessed(h) IN
          /\ Suffer(f) /\ (f = "write" => used # {})
          /\ (f = "restore" => shadow_running_state = 0)
          /\ \E kept \in SUBSET used :
                /\ (f = "write" <=> kept # {}) /\ Cardinality(kept) <= 1
                /\ mem' = Uncovered(used, kept)
          /\ software_breakpoint' = [i \in Slots |-> Free]
          /\ hart' = Resumed(IF shadow_running_state = 0
                             THEN Restored(h2, backup_regs, f) ELSE h2, f)
          /\ Lapses(LostBy(f) \cup (IF shadow_running_state # 0 /\ used # {}
                                    THEN {"detached running"} ELSE {}))
    /\ shadow_running_state' = 1 /\ Wake
    /\ UNCHANGED <<backup_regs, gdbasserting_break, code, shown, odd>>

Detach == Disconnect /\ UNCHANGED tx

(* HandleGDBPacket *)
HandlePacket(p) ==
    LET c == p[1][2].cmd a == p[1][2].addr IN
    CASE c = "?" -> QueryReason
      [] c = "s" -> StepPacket
      [] c \in {"c", "C"} -> Continue(c)
      [] c = "m" -> ReadMem
      [] c = "w" -> WriteRAM(a)
      [] c = "g" -> ReadRegisters
      [] c = "P" -> WriteRegister
      [] c = "Z" -> SetBreakpoint(a)
      [] c = "z" -> ClearBreakpoint(a)
      [] c = "D" -> Detach
      [] OTHER -> ResetPart(c)

-----------------------------------------------------------------------------
(* MicroGDBStubHandleClientData, a byte at a time.  A byte is a tuple whose *)
(* first member says what it is to the framing: "data" holds a request; one *)
(* that would mean something to the framing comes as "}" and its escaped    *)
(* form.  The checksum is the bytes it is taken over.                       *)

Special == {"$", "#", "}"}
Stuffed(c) == IF c[1] \in Special THEN << <<"}">>, <<"esc", c>> >> ELSE <<c>>
StuffedAll(p) == IF Len(p) = 1 THEN Stuffed(p[1]) ELSE Stuffed(p[1]) \o Stuffed(p[2])
Frame(p) == << <<"$">> >> \o StuffedAll(p) \o << <<"#">>, <<"hi">>, <<"lo", StuffedAll(p)>> >>

Quiet == UNCHANGED <<target, shadow_running_state, backup_regs, gdbasserting_break,
                     software_breakpoint, tx, code, stop, shown, odd, lapse, faults>>

(* Mutant: the escaped byte is not part of the checksum. *)
Unescape_NotSummed(c) ==
    /\ gdbbufferstate = 9 /\ gdbrunningcsum' = gdbrunningcsum
    /\ gdbbuffer' = Append(gdbbuffer, c[2]) /\ gdbbufferstate' = 1
    /\ Quiet

Unescape(c) ==
    /\ gdbbufferstate = 9 /\ gdbrunningcsum' = Append(gdbrunningcsum, c)
    /\ gdbbuffer' = Append(gdbbuffer, c[2]) /\ gdbbufferstate' = 1
    /\ Quiet

Begin(c) ==
    /\ gdbbufferstate = 0 /\ c[1] = "$"
    /\ gdbrunningcsum' = <<c>> /\ gdbbuffer' = <<c>> /\ gdbbufferstate' = 1
    /\ Quiet

Collect(c) ==
    /\ gdbbufferstate = 1
    /\ gdbrunningcsum' = IF c[1] = "#" THEN gdbrunningcsum ELSE Append(gdbrunningcsum, c)
    /\ gdbbuffer' = IF c[1] = "}" THEN gdbbuffer ELSE Append(gdbbuffer, c)
    /\ gdbbufferstate' = CASE c[1] = "#" -> 2 [] c[1] = "}" -> 9 [] OTHER -> 1
    /\ Quiet

CheckHigh(c) ==
    /\ gdbbufferstate = 2 /\ gdbbufferstate' = 3
    /\ UNCHANGED <<gdbbuffer, gdbrunningcsum>> /\ Quiet

(* Mutant: the state is advanced at the second digit, too. *)
CheckLow_Advances(c) ==
    /\ gdbbufferstate = 3 /\ gdbbufferstate' = gdbbufferstate + 1
    /\ gdbbuffer' = <<>> /\ gdbrunningcsum' = <<>>
    /\ HandlePacket(SubSeq(gdbbuffer, 2, Len(gdbbuffer) - 1))

(* The sum counts the "$", which is taken off again. *)
CheckLow(c) ==
    /\ gdbbufferstate = 3
    /\ gdbbufferstate' = 0 /\ gdbbuffer' = <<>> /\ gdbrunningcsum' = <<>>
    /\ IF Tail(gdbrunningcsum) = c[2]
       THEN HandlePacket(SubSeq(gdbbuffer, 2, Len(gdbbuffer) - 1))
       ELSE /\ Reply("-")
            /\ UNCHANGED <<target, shadow_running_state, backup_regs, gdbasserting_break,
                           software_breakpoint, code, stop, shown, odd, lapse, faults>>

(* RVHandleUnsolicitedGDBBreakRequest: a break between packets. *)
Break(c) ==
    /\ gdbbufferstate = 0 /\ c[1] = "break"
    /\ hart' = Halted(hart) /\ gdbasserting_break' = TRUE
    /\ stop' = IF shadow_running_state # 0 THEN "break" ELSE stop
    /\ Lapses(IF shadow_running_state = 0 THEN {"late break"} ELSE {})
    /\ UNCHANGED <<mem, shadow_running_state, backup_regs, software_breakpoint, parser,
                   tx, code, shown, odd, faults>>

HandleClientData ==
    /\ listenMode = 2 /\ rx # <<>> /\ rx' = Tail(rx) /\ due' = TRUE
    /\ LET c == Head(rx) IN
       Begin(c) \/ Collect(c) \/ Unescape(c) \/ CheckHigh(c) \/ CheckLow(c) \/ Break(c)
    /\ payload' = IF gdbbufferstate = 3 THEN <<>> ELSE payload
    /\ UNCHANGED <<listenMode, gdb, bounds>>

(* MicroGDBPollServer: a new client, RVNetConnect. *)
Accept ==
    /\ listenMode = 1 /\ gdb = "connecting"
    /\ listenMode' = 2 /\ gdbbufferstate' = 0 /\ due' = TRUE
    /\ \E f \in {"none", "save", "step off"} :
          /\ Suffer(f) /\ Lapses(LostBy(f))
          /\ hart' = Stepping(Halted(hart), hart.step /\ f = "step off")
          /\ backup_regs' = Saved(hart', f)
    /\ shadow_running_state' = 0 /\ stop' = "connect" /\ gdb' = "stopped"
    /\ UNCHANGED <<mem, gdbasserting_break, software_breakpoint, gdbbuffer, gdbrunningcsum,
                   rx, tx, code, payload, shown, odd, bounds>>

(* The client has gone; what it sent before may be read or not. *)
Close ==
    /\ listenMode = 2 /\ gdb = "gone" /\ ~due
    /\ Disconnect
    /\ listenMode' = 1 /\ rx' = <<>> /\ tx' = <<>> /\ payload' = <<>>
    /\ UNCHANGED <<parser, due, gdb, bounds>>

-----------------------------------------------------------------------------
(* The client (external). *)

Others == <<target, shadow_running_state, backup_regs, gdbasserting_break,
            software_breakpoint, listenMode, parser, due, code, stop, shown, odd, lapse>>

Connect ==
    /\ gdb = "gone" /\ listenMode = 1 /\ connects < MaxConnects
    /\ gdb' = "connecting" /\ connects' = connects + 1
    /\ UNCHANGED <<Others, rx, tx, payload, packets, breaks, faults>>

(* Writes carry a byte that has to be escaped. *)
Request(c, a) == <<"data", [cmd |-> c, addr |-> a]>>
Payloads ==
    {<<Request(c, 0)>> : c \in Commands \ {"Z", "z", "w"}}
    \cup {<<Request(c, a)>> : c \in Commands \cap {"Z", "z"}, a \in BreakAddrs}
    \cup {<<Request(c, a), <<"#">> >> : c \in Commands \cap {"w"}, a \in BreakAddrs}

(* After "monitor resume" the client does not know what the target does: it *)
(* sends no more.                                                           *)
Send ==
    /\ gdb = "stopped" /\ packets < MaxPackets /\ packets' = packets + 1
    /\ "monitor" \notin lapse
    /\ \E p \in Payloads :
          /\ payload' = p /\ rx' = rx \o Frame(p)
          /\ gdb' = CASE p[1][2].cmd \in {"c", "C", "s"} -> "running"
                      [] p[1][2].cmd = "D" -> "detached"
                      [] p[1][2].cmd = "P" -> "stopped"
                      [] p[1][2].cmd = "?" -> "asking"
                      [] OTHER -> "waiting"
    /\ rx = <<>>
    /\ UNCHANGED <<Others, tx, breaks, connects, faults>>

Interrupt ==
    /\ gdb = "running" /\ breaks < MaxBreaks /\ breaks' = breaks + 1
    /\ rx' = Append(rx, <<"break">>)
    /\ UNCHANGED <<Others, tx, gdb, payload, packets, connects, faults>>

(* A stop reply ends a wait for one and answers "?"; "OK" meanwhile says    *)
(* nothing.                                                                 *)
Receive ==
    /\ tx # <<>> /\ gdb # "gone" /\ tx' = Tail(tx)
    /\ gdb' = CASE gdb \in {"running", "asking"} /\ Head(tx) \in {"T02", "T05"} -> "stopped"
                [] gdb = "waiting" /\ Head(tx) \notin {"T02", "T05", "-"} -> "stopped"
                [] OTHER -> gdb
    /\ UNCHANGED <<Others, rx, payload, bounds, faults>>

(* The client closes the connection after it detached, or dies before. *)
Drop ==
    /\ gdb \in {"stopped", "running", "waiting", "asking", "detached"}
    /\ gdb # "detached" => faults < MaxFaults
    /\ faults' = faults + (IF gdb = "detached" THEN 0 ELSE 1)
    /\ gdb' = "gone"
    /\ rx' \in {<<>>, rx} /\ payload' = IF rx' = <<>> THEN <<>> ELSE payload
    /\ UNCHANGED <<Others, tx, bounds>>

-----------------------------------------------------------------------------

Server == HandleClientData \/ NetPoll \/ Accept \/ Close
Client == Connect \/ Send \/ Interrupt \/ Receive \/ Drop

Next == Execute \/ Server \/ Client

Spec == Init /\ [][Next]_vars

(* The server's loop polls without end, and the client reads its socket. *)
FairSpec == Spec /\ WF_vars(HandleClientData) /\ WF_vars(NetPoll) /\ WF_vars(Receive)

-----------------------------------------------------------------------------

Whose == {"own", "old", "scratch"}
TypeOK ==
    /\ hart \in [run : BOOLEAN, pc : Addrs, regs : Whose, step : BOOLEAN]
    /\ mem \in [Addrs -> {"insn", "ebreak"}] /\ code \in [Addrs -> {"insn", "ebreak"}]
    /\ shadow_running_state \in {0, 1, 1024} /\ gdbasserting_break \in BOOLEAN
    /\ backup_regs \in [regs : Whose, pc : Addrs]
    /\ software_breakpoint \in
          [Slots -> [used : BOOLEAN, addy : Addrs, prev : {"insn", "ebreak"}]]
    /\ listenMode \in {1, 2} /\ due \in BOOLEAN /\ gdbbufferstate \in {0, 1, 2, 3, 9}
    /\ gdb \in {"gone", "connecting", "stopped", "running", "waiting", "asking",
                 "detached"}
    /\ stop \in {"none", "break", "connect", "told"}
    /\ shown \in Whose /\ odd \subseteq {"reason", "cause", "running"}
    /\ lapse \subseteq {"regs", "write", "step bit", "overwritten", "monitor", "rehalt",
                        "detached running", "late break", "poll", "control"}

(* Whatever the tool does to a stopped hart, the program goes on with its   *)
(* own registers, and the client is shown them.  The exceptions are what    *)
(* the code does not provide for: "monitor halt" on a hart it has already   *)
(* halted and used, "monitor resume", and a client that leaves a running    *)
(* target with breakpoints in it.                                           *)
RegistersOwn ==
    lapse \cap {"regs", "monitor", "rehalt", "detached running"} = {} =>
        /\ hart.run => hart.regs = "own"
        /\ shown = "own"

(* The program in memory is the client's, with an ebreak at each breakpoint *)
(* of the table and the right word saved behind it; without a client there  *)
(* is none.                                                                 *)
CodeIntact ==
    lapse \cap {"write", "overwritten"} = {} =>
        /\ \A a \in Addrs : mem[a] = IF Matching(a) # {} THEN "ebreak" ELSE code[a]
        /\ \A i \in Slots : software_breakpoint[i].used =>
              software_breakpoint[i].prev = code[software_breakpoint[i].addy]
        /\ listenMode = 1 => \A i \in Slots : ~software_breakpoint[i].used

(* A stop reply is sent of a halted hart, that stopped at an ebreak, after  *)
(* a step or on a break, until a resume or a step bit is lost; SIGINT is    *)
(* the reason only of a break.  "?" is answered of a stop that was told     *)
(* before, or of the halt by the connection: it never runs ahead of         *)
(* RVNetPoll.                                                               *)
StopsExplained ==
    /\ "running" \notin odd
    /\ "reason" \in odd => lapse \cap {"late break", "monitor", "poll"} # {}
    /\ "cause" \in odd => lapse \cap {"step bit", "monitor", "control"} # {}

(* The client never believes a running target stopped: a stop reply left    *)
(* on the way, or a command that resumes, always belongs to the present.    *)
BelievedStopped ==
    /\ gdb \in {"stopped", "waiting", "asking"} /\ "monitor" \notin lapse => ~hart.run
    /\ gdb = "stopped" /\ "monitor" \notin lapse => tx = <<>>

(* Every packet of the client reaches HandleGDBPacket as it was sent, and   *)
(* between packets the parser is idle.                                      *)
PacketsIntact ==
    gdb \notin {"gone", "connecting"} =>
        /\ rx = <<>> => gdbbufferstate = 0
        /\ gdbbufferstate = 3 => /\ gdbbuffer = << <<"$">> >> \o payload \o << <<"#">> >>
                                 /\ Tail(gdbrunningcsum) = Head(rx)[2]

(* A client that waits for a halted target, or has asked for a break, is    *)
(* told that the target has stopped.                                        *)
StopReported ==
    (gdb = "running" /\ (\/ rx = <<>> /\ ~hart.run
                         \/ <<"break">> \in {rx[i] : i \in DOMAIN rx}))
        ~> (gdb # "running")
=============================================================================
