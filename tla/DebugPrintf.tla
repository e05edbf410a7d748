---------------------------- MODULE DebugPrintf ----------------------------
(***************************************************************************)
(* The printf and keyboard channel between a running CH32 program and      *)
(* minichlink.  Two 32-bit debug-module registers, DMDATA0 and DMDATA1,    *)
(* are the only shared state.  Bit 7 of DMDATA0 says whose turn it is: the *)
(* target sets it with every word it stores, the host clears it with every *)
(* word it writes.                                                         *)
(*                                                                         *)
(* The target side is _write, putchar, poll_input and SetupDebugPrintf of  *)
(* ch32fun.c; the host side is DefaultPollTerminal and the terminal loop   *)
(* of minichlink.c.  Every step makes at most one access to a shared       *)
(* register, so the two sides interleave exactly as the CPU's loads and    *)
(* stores interleave with the programmer's DMI transactions.               *)
(*                                                                         *)
(* A byte is its number: the program's bytes are numbered from 1 in the    *)
(* order it hands them over, the user's keys likewise; 0 is a byte nobody  *)
(* wrote (a zeroed register, or residue no reader looks at).               *)
(***************************************************************************)
EXTENDS Naturals, Sequences

CONSTANTS
    Sizes,        \* lengths the program passes to _write
    Timeout,      \* FUNCONF_DEBUGPRINTF_TIMEOUT, in polls of DMDATA0
    MaxCalls,     \* bound: calls of _write and putchar that print
    MaxKeys,      \* bound: keys the user types
    MaxHandled,   \* bound: keys handled before _write(0) is no longer called
    MaxResets,    \* bound: resets of the target
    MaxFaults,    \* bound: programmer transactions that fail
    MaxCommands,  \* bound: requests to the command server, and their writes to DMDATA0
    Strays        \* words of DMDATA0 that come from neither side of the channel

(* A word of DMDATA0: bit 7, bit 6, the six low bits, the other three bytes. *)
Word0 == [b7 : BOOLEAN, b6 : BOOLEAN, n : 0..63, c : [1..3 -> Nat]]
Word1 == [1..4 -> Nat]
NoBytes  == [i \in 1..3 |-> 0]
NoBytes1 == [i \in 1..4 |-> 0]

ASSUME ConstantsAssumption ==
    /\ Sizes \subseteq Nat
    /\ Strays \subseteq {w \in Word0 : w.c = NoBytes}
    /\ Timeout \in Nat
    /\ MaxCalls \in Nat /\ MaxKeys \in Nat /\ MaxHandled \in Nat
    /\ MaxResets \in Nat /\ MaxFaults \in Nat /\ MaxCommands \in Nat

VARIABLES
    data0,      \* DMDATA0: bit 7, bit 6, the low bits (count + 4), three bytes
    data1,      \* DMDATA1: four bytes
    tpc,        \* where the target is
    call,       \* the target's current call: operation, size, first byte, place
    timer,      \* the local `timeout` of _write and putchar
    dmd,        \* the word of DMDATA0 a local of the target holds
    calls,      \* calls that print so far
    outCount,   \* bytes those calls handed over
    resets,     \* resets so far
    hpc,        \* where the host is
    append,     \* appendword of the terminal loop
    rr, r2,     \* the host's copies of DMDATA0 and DMDATA1
    keyCount,   \* keys typed so far
    faults,     \* failed transactions so far
    commands,   \* requests so far, and their writes to DMDATA0
    halted,     \* a request has halted the hart
    masked,     \* history: a request holds DMDATA0 overwritten, hart halted
    kept,       \* history: the word that was there before it did
    published,  \* history: bytes stored with bit 7 set
    printed,    \* history: bytes the terminal wrote to stdout
    typed,      \* history: keys read from the keyboard
    handled,    \* history: keys passed to handle_debug_input
    taken,      \* history: the host's word in DMDATA0 has been handled
    harm        \* history: the events that may damage a stream (Harms)

targetVars == <<tpc, call, timer, dmd, calls, outCount, resets>>
requestVars == <<halted, masked, kept>>
hostVars   == <<hpc, append, rr, r2, keyCount, faults, commands, requestVars>>
vars == <<data0, data1, targetVars, hostVars,
          published, printed, typed, handled, taken, harm>>

(* The words of the protocol. *)
Word(b7, b6, n, c) == [b7 |-> b7, b6 |-> b6, n |-> n, c |-> c]
Zero     == Word(FALSE, FALSE, 0, NoBytes)
Boot     == Word(TRUE, FALSE, 0, NoBytes)      \* 0x80
PollAck  == Word(TRUE, FALSE, 4, NoBytes)      \* 0x84

(* The bytes a reader takes from DMDATA0, past the third from DMDATA1, and  *)
(* past the seventh from wherever they are not.  The target looks at all    *)
(* six low bits, the host at four.                                          *)
Bytes(w) == IF w.n > 4 THEN w.n - 4 ELSE 0
Chunk(w, d) ==
    [i \in 1..Bytes(w) |-> IF i <= 3 THEN w.c[i] ELSE IF i <= 7 THEN d[i - 3] ELSE 0]
Low(w) == [w EXCEPT !.n = @ % 16]

(* The protocol's word of DMDATA0.  A request that overwrites the register  *)
(* while the hart is halted hides it from both sides until the restore.     *)
Held == IF masked THEN kept ELSE data0

(* Mutant: the chunk is not cut to seven bytes. *)
ToSend_Uncut == call.size - call.place

ToSend == IF call.size - call.place > 7 THEN 7 ELSE call.size - call.place
Buf(i) == IF i <= ToSend THEN call.base + call.place + i ELSE 0

Harms == {"collision", "peek", "d0read", "d1read", "ack", "reset", "command", "stray"}
Note(e, yes) == harm' = IF yes THEN harm \cup {e} ELSE harm

NoCall == [op |-> "none", size |-> 0, base |-> 0, place |-> 0]
NoLocals == call' = NoCall /\ timer' = 0 /\ dmd' = Zero

Init ==
    /\ data0 = Zero /\ data1 = NoBytes1
    /\ tpc = "setup1" /\ call = NoCall /\ timer = 0 /\ dmd = Zero
    /\ calls = 0 /\ outCount = 0 /\ resets = 0
    /\ hpc = "out" /\ append = Zero /\ rr = Zero /\ r2 = NoBytes1
    /\ keyCount = 0 /\ faults = 0 /\ commands = 0
    /\ halted = FALSE /\ masked = FALSE /\ kept = Zero
    /\ published = <<>> /\ printed = <<>> /\ typed = <<>> /\ handled = <<>>
    /\ taken = FALSE /\ harm = {}

-----------------------------------------------------------------------------
(* The target.  A halted hart takes no step; a reset finds it halted still. *)

unchangedByTarget == <<hostVars, printed>>

(* SetupDebugPrintf: the two stores SystemInit makes at every boot.  What   *)
(* the reset discards leaves the histories: output nobody has read and keys *)
(* nobody has handled.  Zeroing DMDATA1 while DMDATA0 still announces bytes *)
(* the host has not read from it is the event "reset".                      *)
Reading == hpc \in {"rd1", "wr1", "wr0"}

HeldByHost == CASE hpc = "rd1"            -> Chunk(rr, data1)
                [] hpc \in {"wr1", "wr0"} -> Chunk(rr, r2)
                [] OTHER                  -> <<>>

SetupDATA1 ==
    /\ ~halted /\ tpc = "setup1" /\ tpc' = "setup2"
    /\ data1' = NoBytes1
    /\ Note("reset", data0.b7 /\ Bytes(data0) > 3 /\ hpc \notin {"wr1", "wr0"})
    /\ UNCHANGED <<data0, call, timer, dmd, calls, outCount, resets,
                   published, typed, handled, taken, unchangedByTarget>>

SetupDATA0 ==
    /\ ~halted /\ tpc = "setup2" /\ tpc' = "idle"
    /\ data0' = Boot
    /\ published' = printed \o HeldByHost
    /\ typed' = handled \o Chunk(append, data1)
    /\ UNCHANGED <<data1, call, timer, dmd, calls, outCount, resets,
                   handled, taken, harm, unchangedByTarget>>

Reset ==
    /\ resets < MaxResets /\ resets' = resets + 1
    /\ tpc' = "setup1" /\ NoLocals
    /\ UNCHANGED <<data0, data1, calls, outCount,
                   published, typed, handled, taken, harm, unchangedByTarget>>

(* The program calls _write(fd, buf, size), putchar(c) or poll_input().     *)
(* "peek" is _write with size 0.                                            *)
Enter(op, size, pc) ==
    /\ ~halted /\ tpc = "idle" /\ tpc' = pc
    /\ size > 0 => calls < MaxCalls
    /\ calls' = IF size > 0 THEN calls + 1 ELSE calls
    /\ outCount' = outCount + size
    /\ call' = [op |-> op, size |-> size, base |-> outCount, place |-> 0]
    /\ timer' = Timeout
    /\ UNCHANGED <<data0, data1, dmd, resets,
                   published, typed, handled, taken, harm, unchangedByTarget>>

CallWrite == \E s \in Sizes \ {0} : Enter("write", s, "entry")
CallPeek == 0 \in Sizes /\ Len(handled) < MaxHandled /\ Enter("peek", 0, "entry")
CallPutchar == Enter("putchar", 1, "entry")
CallPoll == Enter("poll", 0, "pollEntry")

(* A step of the target from one place to the next; a call that returns    *)
(* leaves no locals behind.                                                 *)
Goto(from, to) ==
    /\ ~halted /\ tpc = from /\ tpc' = to
    /\ UNCHANGED <<calls, outCount, resets, unchangedByTarget>>

Locals(c, t, d) == IF tpc' = "idle" THEN NoLocals ELSE call' = c /\ timer' = t /\ dmd' = d

(* ... that stores nothing shared. *)
ReadOnly == UNCHANGED <<data0, data1, published, typed, handled, taken, harm>>

(* if( ( *DMDATA0 & 0xc0 ) == 0xc0 ) return 0; *)
CheckTimedOut ==
    /\ Goto("entry", IF data0.b7 /\ data0.b6 THEN "idle"
                     ELSE IF call.op = "peek" THEN "peek" ELSE "spin")
    /\ Locals(call, timer, dmd) /\ ReadOnly

(* The size == 0 branch: look for input, store nothing. *)
Peek ==
    /\ Goto("peek", IF data0 # Zero /\ ~data0.b7 THEN "inputCount" ELSE "idle")
    /\ Locals(call, timer, dmd) /\ ReadOnly

(* Mutant: the timeout does not count. *)
SpinBusy_NoCount ==
    /\ data0.b7 /\ Goto("spin", "spin")
    /\ Locals(call, timer, dmd) /\ ReadOnly

(* while( ( lastdmd = *DMDATA0 ) & 0x80 ) if( timeout-- == 0 ) ... *)
SpinBusy ==
    /\ data0.b7
    /\ Goto("spin", IF timer = 0 THEN "timeoutLoad" ELSE "spin")
    /\ Locals(call, IF timer = 0 THEN 0 ELSE timer - 1, dmd) /\ ReadOnly

(* Mutant: _write leaves DMDATA1 alone, as putchar does. *)
Store_NoDATA1(op) == "store0"

Store(op) == IF op = "write" THEN "store1" ELSE "store0"

SpinFree ==
    /\ ~data0.b7
    /\ Goto("spin", IF data0 # Zero THEN "inputCount" ELSE Store(call.op))
    /\ Locals(call, Timeout, dmd) /\ ReadOnly

(* *DMDATA0 |= 0xc0; is a load and a store, and the host may write between. *)
TimeoutLoad ==
    /\ Goto("timeoutLoad", "timeoutStore")
    /\ Locals(call, timer, data0) /\ ReadOnly

TimeoutStore ==
    /\ Goto("timeoutStore", "idle") /\ NoLocals
    /\ data0' = [dmd EXCEPT !.b7 = TRUE, !.b6 = TRUE]
    /\ Note("collision", ~dmd.b7 \/ data0 # dmd)
    /\ UNCHANGED <<data1, published, typed, handled, taken>>

(* Mutant: poll_input handles the input and stores no acknowledgement. *)
AfterInput_NoAck == IF call.op \in {"poll", "peek"} THEN "idle" ELSE Store(call.op)

(* internal_handle_input: the count comes from one read of DMDATA0, the     *)
(* bytes are read by handle_debug_input through a pointer to the register.  *)
AfterInput == CASE call.op = "poll" -> "pollAck"
                [] call.op = "peek" -> "idle"
                [] OTHER            -> Store(call.op)

InputCount ==
    /\ Goto("inputCount", IF Bytes(data0) \in 1..15 THEN "inputBytes" ELSE AfterInput)
    /\ Locals(call, timer, data0) /\ ReadOnly

InputBytes ==
    /\ Goto("inputBytes", AfterInput)
    /\ Locals(call, timer, Zero)
    /\ handled' = handled \o Chunk([data0 EXCEPT !.n = dmd.n], data1)
    /\ taken' = TRUE
    /\ Note("peek", call.op = "peek")
    /\ UNCHANGED <<data0, data1, published, typed>>

(* The two stores of a chunk: bytes 4..7 first, then the status word with   *)
(* bytes 1..3, which publishes the chunk.                                   *)
StoreDATA1 ==
    /\ Goto("store1", "store0")
    /\ Locals(call, timer, dmd)
    /\ data1' = [i \in 1..4 |-> Buf(i + 3)]
    /\ UNCHANGED <<data0, published, typed, handled, taken, harm>>

StoreDATA0 ==
    /\ Goto("store0", IF call.place + ToSend < call.size THEN "spin" ELSE "idle")
    /\ Locals([call EXCEPT !.place = @ + ToSend], timer, Zero)
    /\ data0' = Word(TRUE, FALSE, ToSend + 4, [i \in 1..3 |-> Buf(i)])
    /\ published' = published \o [i \in 1..ToSend |-> Buf(i)]
    /\ UNCHANGED <<data1, typed, handled, taken, harm>>

(* Mutant: poll_input does not look at bit 7. *)
PollEntry_NoTurn ==
    /\ Goto("pollEntry", "inputCount")
    /\ Locals(call, timer, dmd) /\ ReadOnly

(* Mutant: poll_input acknowledges only a word that is not zero. *)
PollEntry_KeepsTurn ==
    /\ Goto("pollEntry", IF data0.b7 \/ data0 = Zero THEN "idle" ELSE "inputCount")
    /\ Locals(call, timer, dmd) /\ ReadOnly

PollEntry ==
    /\ Goto("pollEntry", IF data0.b7 THEN "idle" ELSE "inputCount")
    /\ Locals(call, timer, dmd) /\ ReadOnly

PollAckStore ==
    /\ Goto("pollAck", "idle") /\ NoLocals
    /\ data0' = PollAck
    /\ UNCHANGED <<data1, published, typed, handled, taken, harm>>

TargetStep ==
    \/ SetupDATA1 \/ SetupDATA0 \/ CheckTimedOut \/ Peek \/ SpinBusy \/ SpinFree
    \/ TimeoutLoad \/ TimeoutStore \/ InputCount \/ InputBytes
    \/ StoreDATA1 \/ StoreDATA0 \/ PollEntry \/ PollAckStore

Call == CallWrite \/ CallPeek \/ CallPutchar \/ CallPoll

-----------------------------------------------------------------------------
(* The host: the terminal loop around DefaultPollTerminal. *)

unchangedByHost == <<targetVars, requestVars, published, handled>>

HostGoto(from, to) == hpc = from /\ hpc' = to /\ UNCHANGED unchangedByHost

Copies(w, d) == IF hpc' \in {"loop", "out"} THEN rr' = Zero /\ r2' = NoBytes1
                                            ELSE rr' = w /\ r2' = d

(* minichlink -T or -G reaches the loop. *)
Attach ==
    /\ HostGoto("out", "loop")
    /\ UNCHANGED <<data0, data1, append, rr, r2, keyCount, faults, commands,
                   printed, typed, taken, harm>>

(* if( appendword == 0 ) take up to three waiting keys. *)
KeyWord(k) == Word(FALSE, FALSE, k + 4, [i \in 1..3 |-> IF i <= k THEN keyCount + i ELSE 0])

Gather(k) ==
    /\ append # Zero => k = 0
    /\ keyCount + k <= MaxKeys /\ keyCount' = keyCount + k
    /\ typed' = typed \o [i \in 1..k |-> keyCount + i]

Gathered(k) == IF k = 0 THEN append ELSE KeyWord(k)

AckStep(w) == IF w # Zero THEN "wr1" ELSE "wr0"

(* Mutant: the loop forgets appendword when it was not the host's turn. *)
ReadDATA0_Forgets ==
    \E k \in 0..3 :
      /\ Gather(k) /\ append' = IF data0.b7 THEN Gathered(k) ELSE Zero
      /\ HostGoto("loop", IF ~data0.b7 THEN "loop"
                          ELSE IF Bytes(Low(data0)) \in 4..7 THEN "rd1" ELSE AckStep(append'))
      /\ Copies(Low(data0), r2)
      /\ UNCHANGED <<data0, data1, faults, commands, printed, taken, harm>>

(* Mutant: the host takes a fourth byte without reading DMDATA1. *)
ReadDATA0_OffByOne ==
    \E k \in 0..3 :
      /\ Gather(k) /\ append' = Gathered(k)
      /\ HostGoto("loop", IF ~data0.b7 THEN "loop"
                          ELSE IF Bytes(Low(data0)) \in 5..7 THEN "rd1" ELSE AckStep(append'))
      /\ Copies(Low(data0), r2)
      /\ UNCHANGED <<data0, data1, faults, commands, printed, taken, harm>>

(* Mutant: the host leaves a word alone whose printf has timed out. *)
ReadDATA0_SkipsTimedOut ==
    \E k \in 0..3 :
      /\ Gather(k) /\ append' = Gathered(k)
      /\ HostGoto("loop", IF ~data0.b7 \/ data0.b6 THEN "loop"
                          ELSE IF Bytes(Low(data0)) \in 4..7 THEN "rd1" ELSE AckStep(append'))
      /\ Copies(Low(data0), r2)
      /\ UNCHANGED <<data0, data1, faults, commands, printed, taken, harm>>

(* A turn of the loop: gather keys, then read DMDATA0. *)
ReadDATA0 ==
    \E k \in 0..3 :
      /\ Gather(k) /\ append' = Gathered(k)
      /\ HostGoto("loop", IF ~data0.b7 THEN "loop"
                          ELSE IF Bytes(Low(data0)) \in 4..7 THEN "rd1" ELSE AckStep(append'))
      /\ Copies(Low(data0), r2)
      /\ UNCHANGED <<data0, data1, faults, commands, printed, taken, harm>>

ReadDATA1 ==
    /\ HostGoto("rd1", AckStep(append)) /\ Copies(rr, data1)
    /\ UNCHANGED <<data0, data1, append, keyCount, faults, commands,
                   printed, typed, taken, harm>>

WriteDATA1 ==
    /\ HostGoto("wr1", "wr0") /\ Copies(rr, r2)
    /\ data1' = NoBytes1
    /\ UNCHANGED <<data0, append, keyCount, faults, commands,
                   printed, typed, taken, harm>>

(* Write DMDATA0 to acknowledge, return, print and clear appendword. *)
Acknowledge ==
    /\ HostGoto("wr0", "loop") /\ Copies(rr, r2)
    /\ data0' = append /\ append' = Zero
    /\ taken' = FALSE
    /\ printed' = printed \o Chunk(rr, r2)
    /\ UNCHANGED <<data1, keyCount, faults, commands, typed, harm>>

(* CMDPollServer answers a request between two turns of the loop: it saves   *)
(* DMDATA0, executes the request's register writes and reads, and writes    *)
(* DMDATA0 back.                                                             *)
BeginCommand ==
    /\ commands < MaxCommands /\ commands' = commands + 1
    /\ HostGoto("loop", "cmd") /\ Copies(data0, r2)
    /\ UNCHANGED <<data0, data1, append, keyCount, faults,
                   printed, typed, taken, harm>>

(* The restore puts back the word of the save.  The event "command" is a    *)
(* restore over another word, one the target stored meanwhile.              *)
Restored == hpc = "cmd" /\ hpc' = "loop" /\ Copies(rr, r2) /\ masked' = FALSE /\ kept' = Zero

(* Mutant: the request is not followed by a restore. *)
EndCommand_NoRestore ==
    /\ Restored
    /\ UNCHANGED <<data0, data1, append, keyCount, faults, commands, halted,
                   targetVars, published, handled, printed, typed, taken, harm>>

(* Mutant: the restore writes the word a reset leaves. *)
EndCommand_Default ==
    /\ Restored
    /\ data0' = Boot
    /\ Note("command", Held # rr)
    /\ UNCHANGED <<data1, append, keyCount, faults, commands, halted,
                   targetVars, published, handled, printed, typed, taken>>

EndCommand ==
    /\ Restored
    /\ data0' = rr
    /\ Note("command", Held # rr)
    /\ UNCHANGED <<data1, append, keyCount, faults, commands, halted,
                   targetVars, published, handled, printed, typed, taken>>

(* What a request does between the two: CMDWrite reaches any register.  The  *)
(* event "stray" is a word or byte of a request's that the hart may see, or *)
(* that the restore does not take away.                                      *)
Requested ==
    /\ hpc = "cmd"
    /\ UNCHANGED <<hpc, append, rr, r2, keyCount, faults, targetVars,
                   published, handled, printed, typed, taken>>

RequestHalt ==
    /\ Requested /\ halted' = TRUE
    /\ UNCHANGED <<commands, data0, data1, masked, kept, harm>>

RequestResume ==
    /\ Requested /\ halted' = FALSE /\ masked' = FALSE /\ kept' = Zero
    /\ Note("stray", data0 # Held)
    /\ UNCHANGED <<commands, data0, data1>>

RequestDATA0 ==
    \E w \in Strays :
      /\ commands < MaxCommands /\ commands' = commands + 1
      /\ Requested /\ data0' = w
      /\ masked' = halted /\ kept' = IF halted THEN Held ELSE Zero
      /\ Note("stray", ~halted /\ data0 # w)
      /\ UNCHANGED <<data1, halted>>

RequestDATA1 ==
    /\ Requested /\ data1' = NoBytes1
    /\ Note("stray", data1 # NoBytes1)
    /\ UNCHANGED <<commands, data0, requestVars>>

Request == RequestHalt \/ RequestResume \/ RequestDATA0 \/ RequestDATA1

HostStep == ReadDATA0 \/ ReadDATA1 \/ WriteDATA1 \/ Acknowledge \/ EndCommand

(* A failed transaction.  A failed read of DMDATA0 makes DefaultPollTerminal *)
(* return the programmer's error: below -5 the terminal exits, from -5 to -1 *)
(* the loop clears appendword.  Other results are not looked at: a failed    *)
(* read leaves its copy without the target's bytes, a failed write leaves    *)
(* the register as it was.                                                   *)
Fail(event, yes) ==
    /\ faults < MaxFaults /\ faults' = faults + 1
    /\ Note(event, yes)
    /\ UNCHANGED <<data0, data1, taken, commands>>

FailReadDATA0 ==
    /\ \E k \in 0..3 : Gather(k) /\ Fail("d0read", Gathered(k) # Zero)
    /\ (HostGoto("loop", "loop") \/ HostGoto("loop", "out")) /\ Copies(rr, r2)
    /\ append' = Zero
    /\ UNCHANGED printed

FailReadDATA1 ==
    /\ HostGoto("rd1", AckStep(append)) /\ Copies(rr, NoBytes1)
    /\ Fail("d1read", TRUE) /\ UNCHANGED <<append, keyCount, printed, typed>>

FailAcknowledge ==
    /\ HostGoto("wr0", "loop") /\ Copies(rr, r2)
    /\ append' = Zero
    /\ printed' = printed \o Chunk(rr, r2)
    /\ Fail("ack", TRUE) /\ UNCHANGED <<keyCount, typed>>

(* A failed save leaves data0 of CMDPollServer what the stack held, and the *)
(* restore writes that; a failed restore leaves what the request wrote.     *)
FailSave ==
    /\ commands < MaxCommands /\ commands' = commands + 1
    /\ faults < MaxFaults /\ faults' = faults + 1
    /\ \E w \in Strays : HostGoto("loop", "cmd") /\ Copies(w, r2)
    /\ Note("stray", TRUE)
    /\ UNCHANGED <<data0, data1, append, keyCount, printed, typed, taken>>

FailRestore ==
    /\ Restored
    /\ Fail("stray", data0 # Held)
    /\ UNCHANGED <<append, keyCount, halted, targetVars, published, handled,
                   printed, typed>>

HostFault == FailReadDATA0 \/ FailReadDATA1 \/ FailAcknowledge
             \/ FailSave \/ FailRestore

-----------------------------------------------------------------------------

Next == TargetStep \/ Call \/ Reset \/ Attach \/ BeginCommand \/ Request
        \/ HostStep \/ HostFault

Spec == Init /\ [][Next]_vars

(* The CPU executes the call it is in; the program keeps calling poll_input *)
(* from its main loop, whatever else it calls; an attached terminal keeps   *)
(* polling.  Nothing makes the program print, the user type, a debugger     *)
(* attach, a client send a command, the target reset or a transaction fail. *)
Fairness == WF_vars(TargetStep) /\ SF_vars(CallPoll) /\ WF_vars(HostStep)

FairSpec == Spec /\ Fairness

-----------------------------------------------------------------------------
(* Properties. *)

Calls == [op : {"none", "write", "peek", "putchar", "poll"},
          size : Nat, base : Nat, place : Nat]

RegisterTypes == data0 \in Word0 /\ data1 \in Word1

TargetTypes ==
    /\ tpc \in {"setup1", "setup2", "idle", "entry", "peek", "spin",
                "timeoutLoad", "timeoutStore", "inputCount", "inputBytes",
                "store1", "store0", "pollEntry", "pollAck"}
    /\ call \in Calls /\ timer \in Nat /\ dmd \in Word0
    /\ calls \in Nat /\ outCount \in Nat /\ resets \in Nat

HostTypes ==
    /\ hpc \in {"out", "loop", "rd1", "wr1", "wr0", "cmd"}
    /\ append \in Word0 /\ rr \in Word0 /\ r2 \in Word1
    /\ keyCount \in Nat /\ faults \in Nat /\ commands \in Nat
    /\ halted \in BOOLEAN /\ masked \in BOOLEAN /\ kept \in Word0

HistoryTypes ==
    /\ published \in Seq(Nat) /\ printed \in Seq(Nat)
    /\ typed \in Seq(Nat) /\ handled \in Seq(Nat)
    /\ taken \in BOOLEAN /\ harm \subseteq Harms

(* The words a side reads announce no more bytes than the registers hold,   *)
(* until a stray word has come between them.                                *)
CountsFit ==
    "stray" \notin harm =>
        Bytes(Held) <= 7 /\ Bytes(append) <= 7 /\ Bytes(rr) <= 7 /\ Bytes(dmd) <= 7

(* Every variable keeps its type; and unless a request's word reaches the   *)
(* hart, or a save or a restore fails, no count either side reads in        *)
(* DMDATA0 exceeds seven bytes, so neither reads past DMDATA1.              *)
TypeOK == RegisterTypes /\ TargetTypes /\ HostTypes /\ HistoryTypes /\ CountsFit

(* The two sides exclude each other.  From the read that sees bit 7 clear   *)
(* to the store that sets it the target owns both registers; from the read  *)
(* that sees bit 7 set to the acknowledgement the host does; and a command  *)
(* never restores a bit 7 the target has not set.  This survives timeouts,  *)
(* resets, the terminal's failed transactions, requests that overwrite      *)
(* DMDATA0 while they hold the hart halted, and restores over a newer word. *)
(* Only a stray word ends it: one a request lets the hart see, or one that  *)
(* a failed save or restore leaves behind.                                  *)
TargetOwns == tpc \in {"inputCount", "inputBytes", "store1", "store0", "pollAck"}

Ownership ==
    "stray" \notin harm =>
        /\ Reading => Held.b7
        /\ TargetOwns => ~Held.b7
        /\ hpc = "cmd" /\ rr.b7 => Held.b7

(* What is published and not yet printed, read off the registers. *)
Pending == IF Reading THEN HeldByHost
           ELSE IF Held.b7 THEN Chunk(Held, data1) ELSE <<>>

(* Every published byte is printed once, in order and intact: what was      *)
(* published is what was printed, then what the registers still hold.       *)
(* Only these events break it: a timeout's store landing after the host's   *)
(* acknowledgement, a failed read of DMDATA1, a lost acknowledgement, a     *)
(* reset while the host has bytes 4..7 of a chunk still to read, a command  *)
(* that restores DMDATA0 over what the target stored, a stray word.         *)
OutputHarms == {"collision", "d1read", "ack", "reset", "command", "stray"}

OutputExactlyOnce ==
    harm \cap OutputHarms = {} => published = printed \o Pending

(* The keys in DMDATA0 that the target has not handled. *)
Mail == IF ~Held.b7 /\ ~taken THEN Chunk(Held, data1) ELSE <<>>

(* Every typed key is handled once and in order: what was typed is what was *)
(* handled, then what waits in DMDATA0, then what waits in appendword.      *)
(* Only these events break it: a colliding timeout, _write with size 0      *)
(* (which handles input and leaves it in place), a failed read of DMDATA0   *)
(* (which clears appendword), a lost acknowledgement, a command that         *)
(* restores DMDATA0 over what the target stored, a stray word.              *)
InputHarms == {"collision", "peek", "d0read", "ack", "command", "stray"}

InputExactlyOnce ==
    harm \cap InputHarms = {} =>
        typed = handled \o Mail \o Chunk(append, data1)

(* Every call of _write, putchar and poll_input returns, whether or not a   *)
(* host is there: the timeout bounds each wait.  Only a client that halts   *)
(* the hart keeps it from returning.                                        *)
CallsReturn == (tpc # "idle") ~> (tpc = "idle" \/ halted)

(* With a terminal attached, what is published is printed, a word the       *)
(* target has timed out on included.                                        *)
OutputDelivered ==
    (hpc # "out" /\ Pending # <<>>) ~> (hpc = "out" \/ Pending = <<>>)

(* Keys do not wait for ever: the loop's appendword reaches DMDATA0 and the *)
(* target's handler, as long as the program keeps polling.                  *)
KeysConsumed ==
    /\ (append # Zero) ~> (append = Zero)
    /\ (Mail # <<>>) ~> (Mail = <<>>)

(* The registers, the polling and the status bits together keep the promise *)
(* of TerminalChannel up to the first event in harm.                        *)
Channel == INSTANCE TerminalChannel WITH broken <- harm # {}

ImplementsChannel == Channel!Spec

(* ch32fun.c on bit 7: "is a "printf" waiting?"  When it is set, with a     *)
(* byte count, and the host is not in the middle of taking it, there is     *)
(* output the terminal has not printed.                                     *)
WaitingMeansUnprinted ==
    data0.b7 /\ Bytes(data0) > 0 /\ ~Reading => Len(printed) < Len(published)

(* DefaultPollTerminal: "Returns -1 if nothing was printed but received     *)
(* data."  The loop forgets the keys it holds only when the target's mail-  *)
(* box received them.                                                       *)
ForgottenMeansReceived ==
    [][append # Zero /\ append' = Zero => data0' = append]_vars

(* cmdserver.h: "Save the current DMDATA0 register value, so we can restore *)
(* it later."  A request leaves the output under way as it found it.        *)
CommandKeepsOutput ==
    [][hpc = "cmd" /\ hpc' = "loop" => Pending' = Pending]_vars
=============================================================================
