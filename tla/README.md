# ch32fun: formal models

TLA+ models of ch32fun, the development environment for WCH's CH32 RISC-V
microcontrollers, with TLC configurations and machine-checked proofs. Paths and
line numbers are relative to the repository. `PROJECT.json` maps every definition
to the lines it models and lists the runs, mutants, findings, hazards and theorems.

    tlc -workers 2 -config DebugPrintf_channel.cfg MCDebugPrintf.tla
    tlc -workers 2 -config Memory_target.cfg MCMemoryAccess.tla
    tlc -workers 2 -config Flash_writer.cfg MCFlashWriter.tla
    tlc -workers 2 -config Gdb_server.cfg MCGdbServer.tla
    tlc -workers 2 -config Usb_device.cfg MCUsbFs.tla
    tlapm DebugPrintfProofs.tla
    tlapm MemoryAccessProofs.tla
    tlapm FlashWriterProofs.tla
    tlapm GdbServerProofs.tla
    tlapm UsbFsProofs.tla

## 1. The system

ch32fun has two halves. On the **target**, `ch32fun/ch32fun.c` is a small runtime
(start-up, clocks, delays, printf over a UART, USB or the debug module) and
`extralibs/` holds drivers, among them three USB device stacks. On the **host**,
`minichlink/` talks to the chip's debug module through one of several programmers
(WCH-LinkE, ESP32-S2, Arduino, rv003usb boot loader, ...): it reads and writes
memory, programs flash, serves GDB and other clients, and shows the target's
printf on a terminal. Every programmer backend provides reads and writes of the
debug module's registers; the generic functions (`Default...` in
`minichlink/minichlink.c`) build everything else from those two.

| component | state | operations | meets | what is hard | correct when |
|---|---|---|---|---|---|
| debug printf (`ch32fun.c` 1698-1820) | DMDATA0, DMDATA1, locals of the call | `_write`, `putchar`, `poll_input`, `SetupDebugPrintf` | the terminal, over the two registers | lock-free hand-over, timeout, reset at any step | each byte is printed once and in order; the sides exclude each other; calls return |
| terminal loop, `DefaultPollTerminal` (`minichlink.c` 423-663, 3086-3128) | `appendword`, its copies of the registers | gather keys, poll, print, acknowledge | the target; the command server between two turns | failed or lost transactions | each key is handled once and in order |
| command server (`cmdserver.h`) | socket mode, saved DMDATA0 | accept, serve a request | terminal loop, target, memory access | save and restore across a running target; a client that reaches every register | a request that cleans up after itself leaves printf and memory as they were |
| memory access (`minichlink.c` 1213-1250, 1744-2049, 2460-2539, 2921-3128, 3298) | `statetag`, `currentstateval`, `lastwriteflags`, `autoincrement`; program buffer, autoexec, DATA0, DATA1, x8-x13 | read and write of words, half-words, bytes; registers; halt and resume | everything on the host | cached claims about hardware that other functions, the program and errors change | an access reaches the word it names, a read is not stale |
| flash writer (`minichlink.c` 1182, 1809-1825, 2051-2458, 2541-2924, 3130-3226) | `flash_unlocked`, `flash_sector_status`, `current_area` | unlock, erase, write blob, option bytes | memory access | failure between two steps, cached "erased" marks | what was written is what is read, neighbours survive |
| GDB server (`minichgdb.c`) and framing (`microgdbstub.h`) | shadow running state, register backup, breakpoint table; parser state | halt, continue, step, memory, breakpoints; receive a byte | memory access, flash writer | target stops by itself while GDB asks; parser recovery | shadow state converges; every packet answered once; breakpoint words restored |
| USB full speed (`extralibs/fsusb.c`) | control-transfer state, device address, endpoint busy flags | interrupt, send, `_write` | USB host; main loop against interrupt | interrupt between any two instructions | a buffer is sent once, an endpoint does not stay busy |
| delays (`ch32fun.c` 1880) | SysTick | `DelaySysTick` | hardware counter | wrap-around | waits at least n ticks, below half the range |

**Not modelled**, for want of behaviour a model checker can say something about:
clock set-up and assembly start-up, mini-printf, the programmers' wire formats
(they appear as register accesses that succeed or fail), chip tables, hardware
headers (most of the repository's lines), examples, vendored hidapi and libusb. The
delays are one signed comparison around a hardware counter, right for waits below
half its range. The lookup of a memory area is a table scan by address;
`MemoryAccess` takes its outcome as a parameter. The other USB stacks (`hsusb.c`,
`usbd.c`) share no code with `fsusb.c`: each would be a module of its own, over
other registers. `PROJECT.json` lists each part with its reason.

## 2. Plan

1. `DebugPrintf`, refining `TerminalChannel`; `DebugPrintfProofs` - **done**.
2. `MemoryAccess`, refining `TargetMemory`; `MemoryAccessProofs` - **done**.
3. `FlashWriter`, refining `FlashArray`; `FlashWriterProofs` - **done**.
4. `GdbServer`, framing included; `GdbServerProofs` - **done**.
5. `UsbFs`; `UsbFsProofs` - **done**.

Left: the option bytes and the boot area of the flash writer; `hsusb.c`.

## 3. Modules

### TerminalChannel (abstract) and DebugPrintf

`TerminalChannel` is the promise: two streams, published to printed and typed to
handled. A step may append to a stream's start, move the next items to its end, or
discard unread items at a reset; nothing is promised once `broken`.

`DebugPrintf` has one action per access to a shared register, so its
interleavings are those of the CPU's loads and stores with the programmer's
transactions. `tpc` and `hpc` say where each side is; `data0` is the status word
(bit 7, bit 6, the low bits, three bytes), `data1` the other four bytes.

| code | actions |
|---|---|
| `SetupDebugPrintf` 1815-1820 | `SetupDATA1`, `SetupDATA0`; `Reset` returns there |
| `_write` 1735-1788 | `CallWrite`, `CallPeek` (size 0), `CheckTimedOut`, `Peek`, `SpinBusy`, `SpinFree`, `TimeoutLoad`, `TimeoutStore`, `StoreDATA1`, `StoreDATA0` |
| `putchar` 1791-1813 | `CallPutchar` and the same, without DMDATA1 |
| `internal_handle_input` 1702-1710 | `InputCount`, `InputBytes`: the count is one load, the handler's bytes are others |
| `poll_input` 1713-1721 | `CallPoll`, `PollEntry`, `PollAckStore` |
| terminal loop and `DefaultPollTerminal` | `Attach`, `ReadDATA0` (with the keys taken before it), `ReadDATA1`, `WriteDATA1`, `Acknowledge` |
| `CMDPollServer` (`cmdserver.h` 282-314) | `BeginCommand` (save), `EndCommand` (restore) |
| `CMDWrite` (`cmdserver.h` 124-133) in between | `RequestHalt`, `RequestResume`, `RequestDATA0`, `RequestDATA1` |
| a failed transaction | `FailReadDATA0`, `FailReadDATA1`, `FailAcknowledge`, `FailSave`, `FailRestore` |

A byte is the number of its place in its stream. `*DMDATA0 |= 0xc0` (1759, 1802) is
a load and a store. The terminal is the default build, without the line editor
(`TERMINAL_INPUT_BUFFER` 0, `minichlink.h` 237). Bytes left over in `buffer` from the
chunk before are 0: no reader looks at them. The history variable `harm` records the
events after which a stream may be damaged, so that the exactly-once properties can
say what they hold up to; `taken` records whether the word in the mailbox has been
handled.

A request may write any register. The client in the repository
(`misc/minichlink-live/read.sh`) halts the hart, runs a program over DMDATA0 and
DMDATA1, and resumes it, so the four `Request` actions come in any order and number
between save and restore. `halted` stops the target meanwhile. What such a request
does to DMDATA0 is invisible to both sides until the hart goes on: `kept` is the word
it hides while `masked`, and `Held` the word of the protocol at any moment. The event
`stray` is a word the protocol did not put there and that the hart may see: a write
to DMDATA0 or DMDATA1 that changes it while the hart runs (DMDATA1 is not saved, so
with the hart halted too), a resume or a failed restore with such a write still in
DMDATA0, and every failed save. The save's result is not
looked at (`cmdserver.h` 292-294): `data0` is then what the stack held, and line 299
writes it into DMDATA0. `FailSave` takes any word of the constant `Strays` for it.

### TargetMemory (abstract) and MemoryAccess

`TargetMemory` is what a caller of the memory functions relies on: a write changes
the word it names and no other, a read returns a value the word holds (for a
register that changes by itself, one it has held since the last write), everything
else the tool does leaves memory alone.

`MemoryAccess` is how `minichlink.c` keeps it. The tool's functions are sequential
and the hart is halted while they touch memory, so one action is one function,
composed of its debug-module accesses in the order of the code. `hw` is the debug
module and what it reaches: DATA0 and DATA1, autoexec, the program in the buffer,
where x10 and x11 point (`AtData`, or an address the program left there), a pending
command error, memory, flash page buffer. The operators `Run`, `StoreAt`, `LoadAt`,
`Access` are the hardware, external to the repository, modelled from the program
words and comments in the code: with autoexec armed every access to DATA0 runs the
program again, and while an error is pending nothing runs.

| code | actions |
|---|---|
| `DefaultWriteWord` 1937-2049 | `WriteWord`: `Prepared` (which registers are written), `Written` |
| `DefaultReadWord` 2460-2539 | `ReadWord`: `Restart`, `Reload`, `Loaded`, `Started`, `Sampled`, `ReadDone` |
| half-words and bytes 1827-1935 | `WriteSmall`, `ReadSmall` |
| end of `DefaultReadBinaryBlob` 2921 | `EndOfBlob` |
| CPU registers 2926-2996, `DefaultVoidHighLevelState` | `ReadCPURegister`, `WriteCPURegister`, `VoidHighLevelState` |
| `DefaultPollTerminal` 3086-3128 | `PollTerminal`, by way of `Polled` (autoexec off at the first poll) |
| `CMDPollServer` (`cmdserver.h` 282-314), `CMDWrite`, `CMDRead` 124-159 | `EmptyRequest`, `Request`, `RequestRuns` |
| `DefaultHaltMode` 3020-3052 | `Resume`, `Halt` (with or without reset) |
| the target | `Program` while it runs, `Controller` (the flash controller's STATR) at any time |

`StaticUpdatePROGBUFRegs` may fail on its first read, and then returns without a word
to its callers (`failed` in `ReadWord` and `WriteWord`). Words are numbered
(address / 4); a sub-word access stands for the whole word. The stray program of a
sequence whose x10 is the program's stores DATA0 where x10 points, one representative
of what it could do. Reading and writing memory while the hart runs is not
modelled: `-r` and `-w` are used on a halted hart; the GDB server's reads of a running
target are a listed hazard. `HALT_MODE_REBOOT` is `Halt` with reset, then `Resume`;
`HALT_MODE_GO_TO_BOOTLOADER` is a `Halt`, writes, a reset.

Claims are made up to a **doubt**, a history variable that names why the next access
may not do what it says: the hart was resumed (`ran`) or reset (`reset`) under a
sequence, a write of the sequence jumped (`jump`), an error may be pending
(`fault`), an access was made in doubt (`lost`), the command server's save and
restore ran the armed program of a sequence (`request`). Each comes from what the code does
not guard against, and each is removed where the code recovers: a change of kind of
access after a jump, the wait at the end of a blob, `VoidHighLevelState`. An
operation in doubt promises nothing (`op.sure` is FALSE).

Only `CMDWrite` and `CMDRead` take the sequence tag away; `CMDPollServer` itself does
not. A request without either (a newline) therefore keeps the tag (`EmptyRequest`),
and under armed autoexec lines 294 and 299 have run the sequence's program twice:
DMDATA0 is not what it was, and the next consecutive read returns another word. `doubt`
says so (`request`). `Request` holds a command, may write DATA1, turn autoexec off and load
another program, may halt or resume the hart; `RequestRuns` also runs its program or
arms it, and is in doubt whatever came before, since the program is the client's. The
terminal's poll goes through the hardware as it stands after `Polled`: `TerminalReady`
is the claim that autoexec is off while the tag is the terminal's, and a poll that
leaves it armed breaks the refinement (the mutant of `ImplementsTarget`).

### FlashArray (abstract) and FlashWriter

`FlashArray` is what a caller of the flash functions relies on: a write puts its
words in place, an erase blanks its sectors, nothing else changes; a call that fails,
or in which a failure goes unnoticed, touches no sector but its own.

`FlashWriter` is how the generic functions keep it. The tool is sequential; beside
it act the flash controller, which ends an operation when it likes, and the chip's
program whenever the hart runs. A step is one call into the programmer, or a run of
calls with nothing of interest between them, and any such call may be lost. The code
looks at few results, so a loss usually goes unnoticed: `lost` names what the
running operation did not notice, `stale` the sectors marked on such ground. The
two are what the properties make exceptions for, and they say no more than the code
allows.

| code (`minichlink.c`) | actions |
|---|---|
| `DefaultWriteBinaryBlob` 2051-2458, the part for flash | `WriteBinaryBlob`, `MakePage` (the blob's page, or the sector read back and merged), `EraseUnlessMarked`, `SetUp`, `LoadPage`, `Program`, `NextSector`, `Return` |
| `DefaultErase` 2585-2661 | `Erase`, `EraseChip`, `EraseSector`; `EraseIssue` marks a sector before it is erased |
| `InternalUnlockFlash` 2541-2583 | `UnlockFlash` |
| `DefaultWaitForFlash` 1182-1211 | `WaitForFlash`, with what each caller makes of the result (`EraseWaited`, `ProgramWaited`, `LastWaited`) |
| `ESPBlockWrite64` (`pgm-esp32s2-ch32xx.c` 449-491) | `BlockWrite64` |
| `DefaultHaltMode` | `Halt`, with and without reset; the marks are kept |
| the controller, the program | `Complete`, `RunProgram` (external) |

Three families of controllers differ in who sets the page's address and in what an
erase means (`h41` erases the chip). A word programmed over another becomes `Junk`.

`BlockWrite64` writes a sector in one step, which is the code on chips whose sector is
one 64-byte block. Where a sector has several, the function is called once a block,
and the first call takes the mark away and may erase; what the programmer's commands
0x0bfe and 0x0efe do to the further blocks of the sector is decided by its firmware, which is not
in the repository, so the model says nothing of those chips. The function's up to ten
tries are one step that succeeds or is lost.

Not modelled: option bytes, the boot area (erase type 2), writes to RAM
(`MemoryAccess`), the V10x buffer load, writers of other programmers. One of the
latter was read on the way: `B003FunWriteBinaryBlob` (`pgm-b003fun.c` 848-1040) forces
`epad` to 0 for a blob that begins on a sector boundary, so one shorter than a sector
is not padded to "a new blob size divisible by sector size"; the sector is erased,
nothing is written, and the function returns 0.

### GdbServer

One client over TCP, the receive machine, the shadow running state, the saved
registers, the breakpoint table, and the hart they are about. The server is one
thread: a step is one received byte with all that its packet makes the server do,
or one `RVNetPoll`. The hart executes between any two steps, stops at an `ebreak`
when it likes, and the client sends, breaks in and dies when it likes.

| code | actions |
|---|---|
| `MicroGDBPollServer` (`microgdbstub.h` 788-846) | `Accept`, `Close`, `HandleClientData` |
| `MicroGDBStubHandleClientData` 605-676 | `Begin`, `Collect`, `Unescape`, `CheckHigh`, `CheckLow`; `HandlePacket` dispatches |
| `RVNetPoll` (`minichgdb.c` 109-147) | `NetPoll`: `ReportHalt`, `ReportRun`, `ReportNothing` |
| `RVDebugExec` 225-315 | `StepPacket`, `Continue` |
| `?` (`microgdbstub.h` 576-578) | `QueryReason` |
| registers 155-223 | `ReadRegisters`, `WriteRegister`, by way of `Catch` |
| memory 319-340, 449-471 | `ReadMem`, `WriteRAM` |
| `RVHandleBreakpoint` 387-447 | `SetBreakpoint`, `ClearBreakpoint` |
| `RVCommandResetPart`, `RVHandleDisconnect`, break request | `ResetPart`, `Disconnect`, `Break` |
| hart; GDB | `Execute`; `Connect`, `Send`, `Interrupt`, `Receive`, `Drop` (external) |

Registers are abstracted to whose they are: the program's ("own"), those of an
earlier stop ("old"), what the tool's accesses leave ("scratch"). A byte is a tuple
that says what it means to the framing, a checksum the bytes it was taken over.
`stop` is the history of the present halt: none the client could know of, a break,
the halt by `RVNetConnect`, or one already told; `odd` collects the stop replies that do
not fit it. `?` answers with the reason of a stop without looking at the hart, and
clears the break flag.

Every transaction that resumes, halts or steps the hart is one write whose result is
not looked at. `StepPacket`, `Continue` and `ResetPart` may lose the resume, the
write of the step bit (before a step: the hart runs freely until halted, `FreeRuns`;
after it: the bit stays) and the reset. A halt is not lost by one failure:
`DefaultHaltMode` writes the request three times (3023-3025). The `ebreak` bits of DCSR are taken
as set, which `SetEnableBreakpoints` does with every write.

The history variable `lapse` names the events that void a promise; each of these is what
the code does, and without its exception the property fails:

- `rehalt`: `monitor halt` on a hart already halted and used saves the scratch
  registers as the program's.
- `monitor`: `monitor resume` and `monitor reset run` let the hart go and leave the
  shadow state at 0.
- `detached running`: a client that leaves a running target with breakpoints in it
  does not get the registers back that clearing them uses.
- `step bit`: a continue from one of the server's breakpoints puts the instruction
  back and the `ebreak` again with no step in between (the comment at `minichgdb.c`
  265 says otherwise): the program stops where it was, and the step bit stays set
  for the next continue. `C` sets it as well.
- `control`: a lost resume, step bit or reset. The hart is halted while the shadow
  state says running, and `RVNetPoll` reports a stop nothing caused; or a step's reply
  is of a hart that took no step or many.
- `late break`: a break byte that crosses a stop makes the next stop a SIGINT.
- `overwritten`: a client's write over a breakpoint is undone when it is cleared.
- `regs`, `write`, `poll`: a lost transaction whose result nobody looks at.

Two more are modelled and break no property: a full table refuses to clear a
breakpoint it does not hold, and `SetEnableBreakpoints` ignores `is_enabled`.

Not modelled: breakpoints that overlap and the size of an instruction,
`vFlashErase`, packets longer than the buffer or bytes that are no packet, the packets
answered without a look at the hart or a change of state (`H`, `q` and the other `v`
packets), the text of replies.

### UsbFs

The device as the USB terminal is built (`FUNCONF_USE_USBPRINTF`): endpoint 0,
endpoint 3 for what the program prints, endpoint 2 for what the user types, on chips
with separate TX and RX control registers. While a transaction waits for the
interrupt handler the peripheral answers nothing else (`UC_INT_BUSY`), so the handler
is one step; the main loop is interrupted between any two of its accesses.

| code (`fsusb.c` unless said) | actions |
|---|---|
| setup stage of `USBFS_IRQHandler` 263-657, `HandleSetupCustom` 1098-1117 | `HandleSetup`: `SetupDescriptor`, `SetupStall`, `SetupRead`, `SetupAddress`, `SetupConfiguration`, `SetupStatusOnly`, `SetupLine`, `SetupAsk` |
| IN and OUT of endpoint 0, 111-247 | `HandleIn0`, `HandleOut0` |
| endpoints 3 and 2, 89-110, 249-258, `HandleDataOut` 1071-1086 | `HandleIn3`, `HandleOut2` |
| bus reset 671-685 | `HandleReset` |
| `_write` (`ch32fun.c` 1676-1684) and `USBFS_SendEndpointNEW` 997-1033 | `Write`, `Test`, `TryAgain`, `TestLen`, `Copy`, `Load`, `Store`, `Mark` |
| `USBFS_GetEPBufferIfAvailable`, `USBFS_SendEndpoint` 974-995 | `TakeBuffer`, `Test`, `TestLen`, `Arm` |
| `poll_input` 1091-1096 | `Poll`, `PollUnit` (`handle_usbfs_input` reads the live buffer, unit by unit), `PollClear` |
| the host and the bus | `HostSetup`, `HostIn0`, `HostOut0`, `HostIn3`, `HostOut2`, `HostGivesUp`, `HostReset` (external) |

A unit of data is a number of bytes, `Packet` units fill a packet. The host follows
the standard: an address and a configuration after each reset, toggles checked, a
handshake lost in either direction.

What a descriptor read rests on: the setup stage copies nothing. The buffer, which
still holds the setup packet, goes out as DATA0, the host takes it for a repetition
and drops it, and the interrupt that follows prepares the first real packet.
`ReadsWhole` checks that, and its mutant, DATA1 in the setup stage, breaks it.

Exceptions the properties name, each of which TLC reaches when the exception is
taken out:

- `mark`: `USBFS_SendEndpointNEW` arms the endpoint and then sets its busy flag with
  the interrupt enabled. A packet taken in between leaves the flag set until a bus
  reset, and `_write` prints nothing meanwhile.
- `toggle`: SET_CONFIGURATION between the load and the store of UEP_CTRL_TX; the old
  toggle is written back and the host drops the next text as a repetition.
- `stale`: the gate (SetupReqLen, errata flag) is looked at with the interrupt
  enabled, and may shut before the endpoint is armed.
- `torn`: no setup packet and no reset clears `pCtrlPayloadPtr`. After a transfer the
  host gave up, SET_ADDRESS finds the pointer set and is not applied. A reset does not
  end this: `astray` says that the present address was given on such ground, or with
  the handshake of its status stage lost.
- `clear`: `poll_input` hands the live buffer to `handle_usbfs_input` and empties it
  afterwards. What arrives from its call on may be gone, and a full buffer is
  shifted under the handler's eyes, which then skips units; order survives.
- `again`: endpoint 2 does not look at the toggle and takes a repetition for input.
- `deaf`: the status stage of a read is opened by the interrupt of its last data
  packet; when the host's handshake for it is lost, it stays closed.
- `NeedsEmptyPacket`: a descriptor of whole packets read with a longer wLength gets
  no empty packet.

Also met: a stalled request leaves SetupReqLen as it came, and `_write` drops its
text until the next control transfer; requests about an endpoint's halt always stall,
because the code looks at the token's endpoint, which is 0.

Not modelled: HID requests and user reports, suspend, the set-up of clocks and pins,
the chips with one control register, a wLength beyond that of the standard's fixed
replies.

Conventions: an operator named `X_Y` preceded by "Mutant:" is a plausible slip of
`X`, used only to show that a property can fail. MC modules hold instances only.

## 4. Runs

| run | bounds | shows |
|---|---|---|
| `channel` | calls of 0 and 8 bytes (two chunks, 7+1), two calls, timeout 1, four keys | the protocol implements `TerminalChannel`; input exactly-once |
| `faults` | calls of 0 and 11 bytes (chunks of 7 and of 4, the shortest that needs DMDATA1), one call that prints, timeout 0, one reset, one failed transaction, two requests or one that writes DMDATA0, two stray words, one key | `Ownership` and `CountsFit` survive all but a stray word; each stream is exactly-once up to the events listed at the property |
| `live` | as `channel`, two keys | calls return, output is printed, keys are handled |
| `collision` | a call of 5 bytes, timeout 0 | finding: a timeout's store publishes a chunk again |
| `readfail` | one key, one failed read | finding: a failed read counts as an acknowledgement |
| `command` | a call of 5 bytes, one request | finding: a request erases output |
| `memory` | below | `CacheTrue`, `ImplementsTarget` |
| `jump` | same instance | finding: a write after two jumps lands elsewhere |
| `ran` | same instance | finding: bases lost over a resume |
| `flash` | two sectors of two words, two operations, one failure, one poll | marks are true, the writer implements `FlashArray`, its functions return |
| `gdb` | a loop of two instructions, one breakpoint place, three packets (`?` among them), a break, two connections, one failure | registers, code and shadow state survive; packets arrive whole; stops are reported and explained |
| `usb` | packets of two units, two control transfers besides the enumeration, two texts or units typed, one fault | control transfers, busy flags, output and input, and that both end |

Bounds of the channel. A chunk is at most seven bytes, and a call's second chunk
already meets the residue of its first; two calls meet every state the first can
leave behind, a timeout included. One key fills the mailbox, four overflow it into
the second word. A timeout of 0 or 1 reaches the expiry in as many polls; a longer
one only repeats `SpinBusy`. One reset, fault and request each is enough to meet
every state; combinations of one of each are in `faults`, with one call of two chunks. `MaxCommands`
bounds requests and their writes to DMDATA0 together: 2 allows one request that writes
once, or two that do not. The two stray words are those that could do harm: bit 7 clear with
more bytes than a host's word has, bit 7 set with a count the sides read differently.

Instance of the memory model. Five words matter to the code: a RAM word (0), a
flash word next to it (1), a hole (2), STATR (3) and CTLR (4), the two registers
`DefaultReadWord` never prefetches from. The current area ends after the hole
(`areaEnd` is 3), so a read of 0 prefetches 1, and a read of 1 prefetches the hole and
leaves an error; `RamEnd` is 1, so the wait that clears the error is also reached.
Values are two; `Load` (what a flash write leaves in CTLR) differs from the initial
content. The program's x10 may point to the RAM word. `MaxNext` 5
bounds `currentstateval`, which every write of a sequence advances: it allows four
writes in sequence past any address. `MaxUnsure` 1: an operation in doubt promises
nothing, so one shows that it can be reached and what the recovery does after it.
`MaxRuns` 1: a second resume meets the same tags.

Instance of the flash writer. A blob covers one sector and half of the next, or half
of one: whole sectors, merged ones, and a boundary between them all occur. Two
operations show what the first leaves behind (marks, an unlocked controller, an
operation nobody waited for) to the second; halts and runs of the program are
operations. One failure is a lost transaction or a protected sector. One poll
(1000 in the code) lets a wait end by success, error, loss and timeout.

Instance of the GDB server. Two instructions, the second an `ebreak` of the
program's own, tell a stop of the program from one of the server, and a place where
a continue skips from one where it does not; one place in the table is full with
one breakpoint. Three packets are a breakpoint, a continue and what comes after; the
second connection sees what the first left.

Instance of the USB device. A descriptor of one and a half packets has a full, a
partial and an end-of-data packet; one of exactly a packet ends with a full one. Two
transfers show one what the other left; one fault (bus reset, lost handshake,
transfer given up) meets every state. The input buffer is as large as a packet, as in the code
(64 both). Texts and typed units share their bound: the
two directions meet only in the interrupt and the main loop. Instances with three transfers, with
two faults and with three units of traffic were checked without the liveness
properties, up to 1.3 million states, with the same outcome; so were five typed units with the enumeration alone and a lost
handshake (`InputInOrder`), where the buffer overflows without a repetition and is shifted
under the handler.

Mutants: each property of each passing run is violated by the mutant named for it.

### Fairness

`live`. `WF(TargetStep)`: the CPU executes the call it is in. `SF(CallPoll)`: the program's
main loop calls `poll_input` again and again, between other calls (the printf
examples do, e.g. `examples/debugprintfdemo`); strong, because other calls disable it
in between. `WF(HostStep)`: an attached terminal keeps polling (`do ... while( 1 )`,
`minichlink.c` 487-663). No fairness for typing, printing, attaching, requests,
resets or failures. `MemoryAccess` has no liveness: its functions are sequential and
`DefaultWaitForDoneOp` is bounded by its own timeout.

`flash`. `WF(Step)`: the tool goes on with the function it is in. None for the
controller: `OperationsReturn` holds however slow it is.

`gdb`. `WF(HandleClientData)`, `WF(NetPoll)`: the server's loop polls the socket and
the target for ever. `WF(Receive)`: the client reads its socket. None for the hart:
`StopReported` is about one that has stopped, or is made to by a break.

`usb`. `WF(HandleTransfer)`, `WF(HandleReset)`: an interrupt whose flag is up runs.
`WF(Sending)`: the main loop goes on with the call it is in. `WF(HostIn0)`,
`WF(HostOut0)`: a host goes on with a transfer it began. `SF(HostIn3)`: it serves a
queued read of the terminal; strong, because other transactions occupy the bus in
between. None for requests, printing, typing, resets or losses.

## 5. Proofs

`DebugPrintfProofs` proves, for every set of sizes, timeout and bound (from
`ConstantsAssumption`: they are naturals), `Spec => []TypeOK`, `Spec => []Ownership`,
`Spec => []OutputExactlyOnce` and `Spec => []InputExactlyOnce`. The argument:

- `TypeInv`: `TypeOK` is not inductive by itself. Until a stray word (`CountsFit`) a
  chunk's count stays within seven because a call in progress never has more bytes placed than it was given
  (`CallInv`), and because the host only acknowledges with words it built from at most
  three keys (`HostWordInv`).
- `Ownership` is inductive given `TypeInv`: bit 7 of `Held` changes only at the stores
  of the side whose turn it is, or at a timeout's store, which sets it; what a request
  writes changes `Held` only as a stray word.
- `ChunkInv` says that when the target is about to publish, DMDATA1 already holds the
  bytes that belong there, and that the host reads DMDATA1 only for a chunk that needs
  it; with it `OutputInv` (published is printed, then pending) is preserved by each
  step, and `InputInv` likewise for the keys.
- Lemmas state what `Chunk` returns: its type, its length, that short words do not
  look at DMDATA1, and concatenation with an empty chunk.
- `Spec => ImplementsChannel` follows from the two exactly-once invariants (`Intact`):
  what they say of the registers is what `TerminalChannel` says of the streams. The
  store of DMDATA0 is `Send`, because the target then owns the registers and nothing is
  pending; `Acknowledge` is `Deliver`; the gathering of keys is `Type`; `InputBytes` is
  `Handle`; `SetupDATA0` is `Discard`; all else leaves the streams alone. `broken` is
  `harm # {}`, and a harm is never forgotten (`HarmGrows`).

`MemoryAccessProofs` proves, for every memory layout, set of values, area ends,
stray addresses and bounds, `Spec => []TypeOK`, `Spec => []CacheTrue` and
`Spec => ImplementsTarget`. It rests on `MemoryAssumption`: words are numbered by
naturals, the two memories and the two registers are disjoint, what the tool
writes and the addresses of RAM words fit in a word. The argument:

- `TypeOK /\ CacheTrue` (`Inv`) is inductive. `CacheTrue` had to hold more than the
  code's own claims: that a command error is pending only when it may be
  (`ErrorKnown`), that autoexec is off under the terminal's tag (`TerminalReady`), and that memory holds one of the values of its history
  (`SinceTrue`), which links the word in DATA0 to the word it was fetched from.
- Type lemmas (`StoreType` ... `ReadDoneType`) hold for every operation, in doubt or
  not: a stray program and an ignored command also leave a debug module.
- `PreparedSure`, `WrittenSure`, `LoadedSure`, `SampledSure`, `ReadDoneSure` say what
  an operation that is not in doubt does, whichever register writes it left out:
  they are where `CacheTrue` is used, once for each write left out.
- One lemma per action carries `Inv` over the step. Where the action is in doubt or
  takes the tag away, nothing is left to claim but errors and history
  (`NoSequence`, `VoidedInv`).
- The refinement follows from the same five lemmas: a sure read is `Read` because
  its word is in the history (`SampledSure`), a sure write is `WriteWord`, the rest
  is `Other` (polls, and requests with autoexec off), an operation in doubt is `Unsure`, the target is `Environment`.

`FlashWriterProofs` proves, for every number of sectors and size of a sector, every
set of blobs, values and families, and every bound, `Spec => []TypeOK`,
`Spec => []MarksTrue` and `Spec => ImplementsArray`. `FlashAssumption` asks for a
finite, nonempty set of sectors and for values that differ from `Blank` and `Junk`.
The argument:

- One lemma per action says what the action leaves behind (`UnlockEffect` ...
  `CompleteEffect`), and the other lemmas use these instead of the definitions.
- `MarksTrue` speaks of idle moments only. `MarkingInv` says why it holds at the next
  one: a marked sector is blank, or is the one being programmed (whose mark the end
  will take away), or the one being erased (`EraseIssue` marks before it erases); and
  an erase nothing befell has the controller at its sector until its end is seen.
- The refinement needs to know at `Return` what the whole operation did. `TouchInv`:
  what has changed since the call lies in the sphere of the operation, or an operation
  an earlier call left at the controller is to blame. `ContentInv`, for an operation
  nothing was lost of: sectors behind the present one have their words, those ahead
  are untouched, the page in the tool's memory, then in the controller's, is the
  sector as it is to be, and it is programmed onto a blank sector.
- `FlashInv` is the conjunction, and is inductive. A caller sees the array as it was
  when the call began (`Shown`), so every step but `Return`, `RunProgram` and a late
  end of an abandoned operation is a stutter.

The attempt found an ambiguous model: the result of `Complete` was a `CASE` with guards
that overlapped (a protected sector of a chip under erase), of which TLC always took
the first. It is now an `IF`.

`GdbServerProofs` proves all six invariants of the GDB server for every program, table
of breakpoints, subset of the commands, and bound: `TypeOK`, `PacketsIntact`,
`CodeIntact`, `BelievedStopped`, `RegistersOwn`, `StopsExplained`. `GdbAssumption` says
that addresses are numbered from 0 and that places of the table are naturals.

- `WireInv`, needed even for types: at every moment parser state, buffer, running sum
  and the bytes still to come make up one packet of the client (`InPacket`), at one of
  its byte positions, with an escape or without; or there is none. `PacketsIntact` and
  the type of `payload` are read off it.
- `CodeIntact` is inductive by itself: memory is the program with an `ebreak` wherever
  an entry of the table names the address, and entries keep the program's word. It
  rests on `SetBreakpoint` looking for the address before it keeps the word there, and
  on `ClearBreakpoint` freeing every entry of the address.
- `DialogueInv` gives the states of the conversation: the client waits, and the request
  is under way or its answer is; or it believes the target running, and the resuming
  packet, the running target or one last stop reply is what there is. Without it a
  stop reply could overtake a `c`.
- `RegsInv`: while the shadow state says halted the program's registers are in the
  server's copy, else in the hart; a server without a client knows of no halt.
- `ReasonInv`, `CauseInv`: the break flag lives only from a break that found the hart
  running to the poll after it, and a halt the server has not reported has an `ebreak`
  under it or is a break's; a shadow state of halted has a stop behind it that `?` may
  speak of. `?` cannot run ahead of the poll: a client asks only once it has been told
  of a stop (`DialogueInv`, its state "asking"). The histories of wrong reports stay empty up
  to the listed lapses.

`UsbFsProofs` proves all invariants and the action property of the USB device, for
every size of packet and buffer, every set of descriptors and requests, and every
bound: `TypeOK`, `BusyMeansArmed`, `NoSendInWindow`, `AddressAgrees`, `SendGate`,
`ReadsWhole`, `OutputOnce`, `InputInOrder`. `UsbAssumption` asks that descriptors are
not empty, that replies other than descriptors fit a packet, and that requests without
data have no length.

- `ControlInv` is the control transfer as host, bus and device know it: the stage the
  host is at fits the request and the token that waits (`StageInv`), the device's
  registers fit the stage (`AskedInv`), a transfer that was not torn leaves no pointer,
  no length and no flag behind (`RestInv`), and the device has the host's address or is
  about to take it (`AddressInv`). `AddressAgrees` and `SendGate` follow.
- `ReadInv` counts a descriptor read: the endpoint's packet starts where the host
  stopped or repeats what it has, and the data toggle tells which.
- `SenderInv` has the flag of endpoint 3 (`BusyInv`), the order of texts received, in
  the endpoint and at hand (`TextInv`), and the toggles (`ToggleInv`): an armed packet
  whose toggle differs from the host's has been shown.
- `InputInv` orders what was handled, what is buffered and still before the handler
  (`Pending`), and what is under way, and says where the last unit is. `PollInv`: the next
  unit the handler reads is in the buffer, shifted or not.

The attempt changed the model. `AddressAgrees` held on the instance of the run, but not
inductively: the history of torn transfers was cleared by a reset, which does not clear
the payload pointer. With three faults (a transfer given up, a reset, an address)
host and device disagree. `torn` now survives a reset, and `astray` says on which
ground the address was given.

`LeastNumber` holds the one lemma two of these modules share: a nonempty set of
naturals has a least member (the first free place in the table, the next sector).

Only model-checked: liveness (`CallsReturn`, `OutputDelivered`, `KeysConsumed`,
`OperationsReturn`, `StopReported`, `BusyClears`, `TransferEnds`), which is out of the
prover's reach. Every safety property of the passing runs, the three refinements
included, is proved.

## 6. Findings

1. `collision` (`ch32fun.c` 1759): the timeout's `|=` may re-publish a chunk the
   terminal has printed. The same event can put keys back.
2. `readfail` (`minichlink.c` 3098, 594): a failed read of DMDATA0 makes the loop
   forget keys nobody received.
3. `command` (`cmdserver.h` 299): restoring DMDATA0 erases what the target printed
   during the request.
4. `jump` (`minichlink.c` 2031, 2046): the write fast path does not move
   `currentstateval` with DATA1; write(a), write(b), write(a+8) stores the third word at
   b+4. The unlock, erase and boot-mode sequences of the tool happen not to meet it:
   followed by hand, none of their writes lands on the address falsely expected.
5. `ran` (`minichlink.c` 3050): resume and halt keep `statetag`; the next access on the
   command line runs with the program's x10 to x13.
