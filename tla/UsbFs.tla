------------------------------- MODULE UsbFs -------------------------------
(***************************************************************************)
(* The full-speed USB device of extralibs/fsusb.c, built as the USB        *)
(* terminal (FUNCONF_USE_USBPRINTF): endpoint 0 for control transfers,     *)
(* endpoint 3 for what the program prints, endpoint 2 for what the user    *)
(* types.                                                                  *)
(*                                                                         *)
(* Three parties act.  The host starts one transaction at a time; the      *)
(* serial interface engine answers it from the endpoint registers alone    *)
(* and raises the transfer flag, and while that flag is up it answers      *)
(* nothing else (UC_INT_BUSY).  The interrupt handler is one step.  The    *)
(* program's main loop (_write, USBFS_SendEndpointNEW, USBFS_SendEndpoint, *)
(* poll_input) goes on between any two of its accesses that the handler    *)
(* can interrupt.                                                          *)
(*                                                                         *)
(* A unit of data is some number of bytes, Packet units fill a packet.     *)
(* The registers are those of the chips with separate UEP_CTRL_TX and      *)
(* UEP_CTRL_RX (CH32V20x, V30x, L103).                                     *)
(***************************************************************************)
EXTENDS Integers, Sequences, SequencesExt

CONSTANTS
    Packet,         \* units in a packet (64 bytes in the code)
    DescLen,        \* descriptor_list: the length of each descriptor
    Requests,       \* the control requests the host makes
    InBuf,          \* units in usb_inputbuffer
    MaxSetups,      \* bound: control transfers but those of the enumeration
    MaxTraffic,     \* bound: texts printed and units typed, together
    MaxFaults       \* bound: bus resets, lost handshakes, transfers given up

Kinds == {"descriptor", "address", "configuration", "read", "interface",
          "halt", "line", "state", "ask"}
ReadKinds == {"descriptor", "read", "ask"}

ASSUME UsbAssumption ==
    /\ Packet \in Nat \ {0} /\ InBuf \in Nat \ {0}
    /\ \A d \in DOMAIN DescLen : d # "none" /\ DescLen[d] \in Nat \ {0}
    /\ \A r \in Requests : r.kind \in Kinds /\ r.len \in Nat
    /\ \A r \in Requests : r.kind \in ReadKinds => r.len > 0
    /\ \A r \in Requests : r.kind \notin ReadKinds \union {"line"} => r.len = 0
    /\ \A r \in Requests : r.kind # "descriptor" => r.len <= Packet
    /\ MaxSetups \in Nat /\ MaxTraffic \in Nat
    /\ MaxFaults \in Nat

VARIABLES
    uep0, uep3,     \* UEP_CTRL_TX/RX and UEP_CTRL_LEN, with what would be sent
    dev_addr,       \* USBFS->DEV_ADDR
    transfer, bus_rst,  \* INT_FG: the transaction to handle, a reset to handle
    ctx,            \* USBFSCTX: what is asked, SetupReqLen, pCtrlPayloadPtr, DevAddr,
                    \* DevConfig, the errata flag
    busy,           \* USBFS_Endp_Busy[3]
    inputbuffer,    \* usb_inputbuffer up to usb_inbuf_idx
    main,           \* the main loop: where it is, its text, what it loaded, the
                    \* units poll_input has to handle and those it has handled
    host,           \* the host: transfer, data collected, toggles, address
    received,       \* history: texts the host took from endpoint 3
    armed,          \* history: the last text armed since the reset, or 0
    races,          \* history: how an interrupt fell into a send since the reset
    stale,          \* history: an interrupt ran since the send was allowed
    typed, handled, \* history: units sent, units handled by poll_input
    inrace,         \* history: what befell the input
    setups, faults  \* counters for the bounds

device  == <<uep0, uep3, dev_addr, ctx, busy>>
output  == <<received, armed, races>>
input   == <<inputbuffer, typed, handled, inrace>>
bounds  == <<setups, faults>>
vars    == <<device, transfer, bus_rst, main, host, output, stale, input, bounds>>

-----------------------------------------------------------------------------
(* Data. *)

None   == [token |-> "none"]
NoPtr  == [desc |-> "none", off |-> 0]
NoReq  == [kind |-> "none", desc |-> "none", len |-> 0]

Least(a, b) == IF a < b THEN a ELSE b
Chunk(d, from, n) == [i \in 1..n |-> <<d, from + i>>]
At(ptr, n) == Chunk(ptr.desc, ptr.off, n)
Advanced(ptr, n) == IF ptr = NoPtr THEN NoPtr ELSE [ptr EXCEPT !.off = @ + n]

(* The first packet of a request, as the buffer still holds the setup packet. *)
Leftover(n) == Chunk("setup", 0, n)

(* What a read of the host should return. *)
Promised(r) ==
    IF r.kind = "descriptor"
    THEN Chunk(r.desc, 0, Least(r.len, DescLen[r.desc]))
    ELSE Chunk("reply", 0, r.len)

(* A descriptor that ends with a full packet, read with a longer wLength:
   the host waits for an empty packet that the device never prepares. *)
NeedsEmptyPacket(r) ==
    /\ r.kind = "descriptor" /\ r.desc \in DOMAIN DescLen
    /\ DescLen[r.desc] < r.len /\ DescLen[r.desc] % Packet = 0

-----------------------------------------------------------------------------
(* USBFS_InternalFinishSetup, and the state USBFSSetup leaves. *)

FreshUep0 == [tx |-> "NAK", ttog |-> 0, data |-> <<>>, rx |-> "ACK", rtog |-> 0]
FreshUep3 == [tx |-> "NAK", ttog |-> 0, data |-> 0]

AtRest == [pc |-> "idle", call |-> "none", text |-> 0, tog |-> 0, try |-> 1,
           at |-> 0, size |-> 0]

Init ==
    /\ uep0 = FreshUep0 /\ uep3 = FreshUep3 /\ dev_addr = 0
    /\ transfer = None /\ bus_rst = FALSE
    /\ ctx = [kind |-> "none", len |-> 0, ptr |-> NoPtr, addr |-> 0,
              cfg |-> FALSE, window |-> FALSE]
    /\ busy = FALSE /\ inputbuffer = <<>>
    /\ main = AtRest
    /\ host = [stage |-> "idle", req |-> NoReq, got |-> <<>>, tog |-> 0,
               addr |-> 0, cfg |-> FALSE, tog3 |-> 0, again |-> <<>>,
               done |-> FALSE, torn |-> FALSE, astray |-> FALSE, deaf |-> FALSE]
    /\ received = <<>> /\ armed = 0 /\ races = {} /\ stale = FALSE
    /\ typed = 0 /\ handled = <<>> /\ inrace = {}
    /\ setups = 0 /\ faults = 0

-----------------------------------------------------------------------------
(* USBFS_IRQHandler: the setup stage of a control transfer. *)

Begun(r)        == [ctx EXCEPT !.kind = r.kind, !.len = r.len]
Answer(t, data) == [tx |-> "ACK", ttog |-> t, data |-> data, rx |-> "NAK", rtog |-> 1]
Status          == Answer(1, <<>>)
Stall           == [uep0 EXCEPT !.tx = "STALL", !.ttog = 1, !.rx = "STALL", !.rtog = 1]

Known(r) == r.kind = "descriptor" /\ r.desc \in DOMAIN DescLen

(* Mutant: the first packet of a descriptor goes out as DATA1. *)
SetupDescriptor_Toggled(r) ==
    /\ Known(r)
    /\ ctx' = [Begun(r) EXCEPT !.ptr = [desc |-> r.desc, off |-> 0],
                               !.len = Least(r.len, DescLen[r.desc])]
    /\ uep0' = Answer(1, Leftover(Least(r.len, Packet)))
    /\ UNCHANGED uep3

(* The host reads a descriptor: nothing is copied yet, and the buffer, which
   still holds the setup packet, goes out as DATA0, which no host accepts. *)
SetupDescriptor(r) ==
    /\ Known(r)
    /\ ctx' = [Begun(r) EXCEPT !.ptr = [desc |-> r.desc, off |-> 0],
                               !.len = Least(r.len, DescLen[r.desc])]
    /\ uep0' = Answer(0, Leftover(Least(r.len, Packet)))
    /\ UNCHANGED uep3

(* An unknown descriptor, and every request about an endpoint's halt: the code
   looks at endpoint 0, which has no mode.  SetupReqLen stays as it came. *)
SetupStall(r) ==
    /\ r.kind = "halt" \/ (r.kind = "descriptor" /\ ~Known(r))
    /\ ctx' = Begun(r)
    /\ uep0' = Stall
    /\ UNCHANGED uep3

(* GET_STATUS of the device, GET_CONFIGURATION, GET_INTERFACE, with the
   wLength the standard gives them. *)
SetupRead(r) ==
    /\ r.kind = "read"
    /\ LET n == Least(r.len, Packet) IN
        /\ ctx' = [Begun(r) EXCEPT !.len = @ - n]
        /\ uep0' = Answer(1, Chunk("reply", 0, n))
    /\ UNCHANGED uep3

SetupAddress(r) ==
    /\ r.kind = "address"
    /\ ctx' = [Begun(r) EXCEPT !.addr = 1]
    /\ uep0' = Status
    /\ UNCHANGED uep3

(* SET_CONFIGURATION resets the data toggles; endpoint 2 never looks at its own. *)
SetupConfiguration(r) ==
    /\ r.kind = "configuration"
    /\ ctx' = [Begun(r) EXCEPT !.cfg = TRUE]
    /\ uep3' = [uep3 EXCEPT !.ttog = 0]
    /\ uep0' = Status

(* SET_INTERFACE, and CDC_SET_LINE_CTLSTE, for which HandleSetupCustom
   returns -1. *)
SetupStatusOnly(r) ==
    /\ r.kind \in {"interface", "state"}
    /\ ctx' = [Begun(r) EXCEPT !.len = 0]
    /\ uep0' = Status
    /\ UNCHANGED uep3

(* CDC_SET_LINE_CODING: a data stage from the host.  A payload pointer that an
   earlier transfer left is taken for the user's. *)
SetupLine(r) ==
    /\ r.kind = "line"
    /\ ctx' = [Begun(r) EXCEPT !.ptr = Advanced(@, r.len)]
    /\ uep0' = [uep0 EXCEPT !.tx = "NAK", !.ttog = 1, !.rx = "ACK", !.rtog = 1]
    /\ UNCHANGED uep3

(* CDC_GET_LINE_CODING: HandleSetupCustom prepares no data. *)
SetupAsk(r) ==
    /\ r.kind = "ask"
    /\ LET n == Least(r.len, Packet) IN
        /\ ctx' = [Begun(r) EXCEPT !.len = @ - n, !.ptr = Advanced(@, r.len)]
        /\ uep0' = Answer(1, IF ctx.ptr = NoPtr THEN Leftover(n) ELSE At(ctx.ptr, n))
    /\ UNCHANGED uep3

HandleSetup ==
    /\ transfer.token = "setup"
    /\ LET r == transfer.req IN
        \/ SetupDescriptor(r) \/ SetupStall(r) \/ SetupRead(r) \/ SetupAddress(r)
        \/ SetupConfiguration(r) \/ SetupStatusOnly(r) \/ SetupLine(r) \/ SetupAsk(r)
    /\ races' = IF transfer.req.kind = "configuration" /\ main.pc = "store" /\ main.tog = 1
                THEN races \union {"toggle"} ELSE races
    /\ UNCHANGED <<dev_addr, busy, received, armed, input>>

-----------------------------------------------------------------------------
(* USBFS_IRQHandler: the other stages, the data endpoints, the bus reset. *)

(* Mutant: the status stage of a read is never opened. *)
StatusOpened_Never(u) == u

(* With nothing left to send, the status stage is opened. *)
StatusOpened(u) ==
    IF ctx.len = 0 THEN [u EXCEPT !.rx = "ACK", !.rtog = 1] ELSE u

(* Mutant: the errata flag outlives the status stage. *)
WindowOver_Kept == ctx
WindowOver == [ctx EXCEPT !.window = FALSE]

(* A packet of endpoint 0 was taken: put the next one of the payload, if there
   is a payload pointer; otherwise, after SET_ADDRESS, take the address. *)
HandleIn0 ==
    /\ transfer.token = "in" /\ transfer.ep = 0
    /\ IF ctx.ptr # NoPtr
       THEN LET n == Least(ctx.len, Packet) IN
            /\ uep0' = [StatusOpened(uep0) EXCEPT !.data = At(ctx.ptr, n), !.ttog = 1 - @]
            /\ ctx' = [WindowOver EXCEPT !.len = @ - n,
                           !.ptr = IF ctx.len > n THEN Advanced(@, n) ELSE NoPtr]
            /\ UNCHANGED dev_addr
       ELSE /\ uep0' = StatusOpened(uep0)
            /\ ctx' = WindowOver
            /\ dev_addr' = IF ctx.kind = "address" THEN ctx.addr ELSE dev_addr
    /\ UNCHANGED <<uep3, busy, output, input>>

(* A data or status packet from the host.  HandleDataOut clears SetupReqLen, so
   the status stage follows at once; after an OUT request the window begins in
   which no endpoint may be armed. *)
HandleOut0 ==
    /\ transfer.token = "out" /\ transfer.ep = 0
    /\ IF transfer.tog = uep0.rtog
       THEN /\ ctx' = [ctx EXCEPT !.len = 0,
                           !.window = @ \/ ctx.kind \notin ReadKinds]
            /\ uep0' = [uep0 EXCEPT !.tx = "ACK", !.ttog = 1, !.data = <<>>]
       ELSE UNCHANGED <<ctx, uep0>>
    /\ UNCHANGED <<uep3, dev_addr, busy, output, input>>

(* Mutant: the toggle is left as it was. *)
Emptied_NoToggle == [uep3 EXCEPT !.tx = "NAK"]
Emptied == [uep3 EXCEPT !.tx = "NAK", !.ttog = 1 - @]

(* Mutant: the busy flag is not cleared. *)
HandleIn3_KeepsBusy ==
    /\ transfer.token = "in" /\ transfer.ep = 3
    /\ uep3' = Emptied
    /\ races' = IF main.pc = "mark" THEN races \union {"mark"} ELSE races
    /\ UNCHANGED <<uep0, dev_addr, ctx, busy, received, armed, input>>

(* Mutant: the endpoint is taken for one beyond FUSB_CONFIG_EPS. *)
HandleIn3_OutOfRange ==
    /\ transfer.token = "in" /\ transfer.ep = 3
    /\ UNCHANGED <<device, output, input>>

(* Endpoint 3: HandleInRequest has nothing to add. *)
HandleIn3 ==
    /\ transfer.token = "in" /\ transfer.ep = 3
    /\ uep3' = Emptied
    /\ busy' = FALSE
    /\ races' = IF main.pc = "mark" THEN races \union {"mark"} ELSE races
    /\ UNCHANGED <<uep0, dev_addr, ctx, received, armed, input>>

(* Mutants: no room is made; the newest units are discarded. *)
Newest_All(s)    == s
Newest_Oldest(s) == SubSeq(s, 1, Least(Len(s), InBuf))

(* Endpoint 2, HandleDataOut: the oldest units make room. *)
Newest(s) == SubSeq(s, 1 + (IF Len(s) > InBuf THEN Len(s) - InBuf ELSE 0), Len(s))
HandleOut2 ==
    /\ transfer.token = "out" /\ transfer.ep = 2
    /\ inputbuffer' = Newest(inputbuffer \o transfer.data)
    /\ inrace' = (inrace \ {"clear"})
                 \union (IF main.pc \in {"poll", "clear"} THEN {"clear"} ELSE {})
    /\ UNCHANGED <<device, output, typed, handled>>

(* A send has looked at the flags and has yet to arm the endpoint. *)
Allowed == main.pc \in {"testLen", "copy", "load", "store", "arm"}

HandleTransfer ==
    /\ transfer # None
    /\ transfer' = None /\ stale' = Allowed
    /\ HandleSetup \/ HandleIn0 \/ HandleOut0 \/ HandleIn3 \/ HandleOut2
    /\ UNCHANGED <<bus_rst, main, host, bounds>>

(* Mutant: the address outlives a reset. *)
HandleReset_KeepsAddress ==
    /\ bus_rst /\ transfer = None
    /\ bus_rst' = FALSE /\ stale' = Allowed
    /\ ctx' = [ctx EXCEPT !.cfg = FALSE, !.addr = 0]
    /\ uep0' = [FreshUep0 EXCEPT !.data = uep0.data]
    /\ uep3' = [FreshUep3 EXCEPT !.data = uep3.data]
    /\ busy' = FALSE
    /\ armed' = 0
    /\ races' = IF main.pc = "mark" THEN {"mark"} ELSE {}
    /\ UNCHANGED <<dev_addr, transfer, main, host, received, input, bounds>>

(* The request, SetupReqLen, the payload pointer and the errata flag stay. *)
HandleReset ==
    /\ bus_rst /\ transfer = None
    /\ bus_rst' = FALSE /\ stale' = Allowed
    /\ ctx' = [ctx EXCEPT !.cfg = FALSE, !.addr = 0]
    /\ dev_addr' = 0
    /\ uep0' = [FreshUep0 EXCEPT !.data = uep0.data]
    /\ uep3' = [FreshUep3 EXCEPT !.data = uep3.data]
    /\ busy' = FALSE
    /\ armed' = 0
    /\ races' = IF main.pc = "mark" THEN {"mark"} ELSE {}
    /\ UNCHANGED <<transfer, main, host, received, input, bounds>>

-----------------------------------------------------------------------------
(* The main loop. *)

Goto(pc) == main' = IF pc = "idle" THEN [AtRest EXCEPT !.text = main.text]
                    ELSE [main EXCEPT !.pc = pc]
Rests    == UNCHANGED <<transfer, bus_rst, host, bounds>>

(* _write prints the next text through USBFS_SendEndpointNEW. *)
Write ==
    /\ main.pc = "idle" /\ main.text + typed < MaxTraffic
    /\ main' = [main EXCEPT !.pc = "test", !.call = "new", !.text = @ + 1, !.try = 1]
    /\ Rests /\ UNCHANGED <<device, output, stale, input>>

(* A program that fills the endpoint's buffer itself: USBFS_GetEPBufferIfAvailable,
   then USBFS_SendEndpoint. *)
TakeBuffer ==
    /\ main.pc = "idle" /\ main.text + typed < MaxTraffic /\ ~busy
    /\ main' = [main EXCEPT !.pc = "test", !.call = "send", !.text = @ + 1, !.try = 2]
    /\ uep3' = [uep3 EXCEPT !.data = main.text + 1]
    /\ Rests /\ UNCHANGED <<uep0, dev_addr, ctx, busy, output, stale, input>>

(* Mutant: only the busy flag is looked at. *)
Refused_OnlyBusy == busy
Refused == ctx.window \/ busy

(* -1 of the first call: _write waits a millisecond and tries once more; the
   second refusal, and any other one, drops the text. *)
Test ==
    /\ main.pc = "test"
    /\ IF Refused
       THEN IF main.try = 1 THEN Goto("wait") ELSE Goto("idle")
       ELSE Goto("testLen")
    /\ stale' = FALSE
    /\ Rests /\ UNCHANGED <<device, output, input>>

TryAgain ==
    /\ main.pc = "wait"
    /\ main' = [main EXCEPT !.pc = "test", !.try = 2]
    /\ Rests /\ UNCHANGED <<device, output, stale, input>>

TestLen ==
    /\ main.pc = "testLen"
    /\ Goto(IF ctx.len > 0 THEN "idle" ELSE IF main.call = "new" THEN "copy" ELSE "arm")
    /\ Rests /\ UNCHANGED <<device, output, stale, input>>

Copy ==
    /\ main.pc = "copy"
    /\ uep3' = [uep3 EXCEPT !.data = main.text]
    /\ Goto("load")
    /\ Rests /\ UNCHANGED <<uep0, dev_addr, ctx, busy, output, stale, input>>

(* The read and the write of UEP_CTRL_TX, then the busy flag, all with the
   interrupt enabled. *)
Load ==
    /\ main.pc = "load"
    /\ main' = [main EXCEPT !.pc = "store", !.tog = uep3.ttog]
    /\ Rests /\ UNCHANGED <<device, output, stale, input>>

Store ==
    /\ main.pc = "store"
    /\ uep3' = [uep3 EXCEPT !.tx = "ACK", !.ttog = main.tog]
    /\ armed' = main.text
    /\ Goto("mark")
    /\ Rests /\ UNCHANGED <<uep0, dev_addr, ctx, busy, received, races, stale, input>>

Mark ==
    /\ main.pc = "mark"
    /\ busy' = TRUE
    /\ Goto("idle")
    /\ Rests /\ UNCHANGED <<uep0, uep3, dev_addr, ctx, output, stale, input>>

(* USBFS_SendEndpoint does the same with the interrupt disabled. *)
Arm ==
    /\ main.pc = "arm"
    /\ uep3' = [uep3 EXCEPT !.tx = "ACK"]
    /\ armed' = main.text
    /\ busy' = TRUE
    /\ Goto("idle")
    /\ Rests /\ UNCHANGED <<uep0, dev_addr, ctx, received, races, stale, input>>

(* poll_input: the number of units goes to handle_usbfs_input, which reads them
   one after the other where they are, in the buffer that HandleDataOut may
   shift meanwhile; then the buffer is emptied. *)
Poll ==
    /\ main.pc = "idle" /\ inputbuffer # <<>>
    /\ main' = [main EXCEPT !.pc = "poll", !.at = 0, !.size = Len(inputbuffer)]
    /\ Rests /\ UNCHANGED <<device, output, stale, input>>

PollUnit ==
    /\ main.pc = "poll"
    /\ handled' = Append(handled, inputbuffer[main.at + 1])
    /\ main' = [main EXCEPT !.at = @ + 1,
                           !.pc = IF main.at + 1 < main.size THEN "poll" ELSE "clear"]
    /\ Rests /\ UNCHANGED <<device, output, stale, inputbuffer, typed, inrace>>

PollClear ==
    /\ main.pc = "clear"
    /\ inputbuffer' = <<>>
    /\ Goto("idle")
    /\ Rests /\ UNCHANGED <<device, output, stale, typed, handled, inrace>>

Sending == Test \/ TryAgain \/ TestLen \/ Copy \/ Load \/ Store \/ Mark \/ Arm
           \/ PollUnit \/ PollClear
Main    == Write \/ TakeBuffer \/ Poll \/ Sending

-----------------------------------------------------------------------------
(* The host and the bus (external).  A handshake of the host, or one to the    *)
(* host, may be lost: then one side knows of the transaction and the other     *)
(* does not.                                                                   *)

Quiet == transfer = None /\ ~bus_rst
Heard == {TRUE} \union (IF faults < MaxFaults THEN {FALSE} ELSE {})
Counted(heard) == faults' = IF heard THEN faults ELSE faults + 1

Bus == UNCHANGED <<device, bus_rst, main, armed, races, stale, inputbuffer, handled>>
Raise(heard, t) == transfer' = IF heard THEN t ELSE None

(* SET_ADDRESS once after a reset, SET_CONFIGURATION once after that, class
   requests when configured. *)
MayAsk(r) ==
    /\ r.kind = "address" => host.addr = 0
    /\ r.kind = "configuration" => host.addr = 1 /\ ~host.cfg
    /\ r.kind \in {"line", "state", "ask", "interface", "halt"} => host.cfg

FirstStage(r) ==
    IF r.kind \in ReadKinds THEN "in" ELSE IF r.kind = "line" THEN "out" ELSE "statusIn"

(* A setup packet: the device takes it whatever its registers say, if it
   answers to the address at all.  If it does not, only a reset helps. *)
HostSetup(r) ==
    /\ Quiet /\ host.stage = "idle" /\ MayAsk(r)
    /\ IF r.kind \in {"address", "configuration"} THEN UNCHANGED setups
       ELSE setups < MaxSetups /\ setups' = setups + 1
    /\ IF host.addr = dev_addr
       THEN /\ host' = [host EXCEPT !.stage = FirstStage(r), !.req = r, !.got = <<>>,
                                    !.tog = 1, !.deaf = FALSE]
            /\ transfer' = [token |-> "setup", req |-> r]
       ELSE /\ host' = [host EXCEPT !.stage = "lost"]
            /\ UNCHANGED transfer
    /\ Bus /\ UNCHANGED <<received, typed, inrace, faults>>

Ended(done, torn) == [host EXCEPT !.stage = "idle", !.req = NoReq, !.got = <<>>, !.tog = 0,
                                  !.done = done, !.torn = torn, !.deaf = FALSE]

(* The transfer is over for the host.  The device knows, unless its handshake
   was lost (heard is FALSE).  torn says that the device may not have finished
   the last transfer, astray that the device was told its address like this. *)
Completed(heard) ==
    LET h == Ended(TRUE, ~heard) IN
    IF host.req.kind = "address" THEN [h EXCEPT !.addr = 1, !.astray = host.torn \/ ~heard]
    ELSE IF host.req.kind = "configuration" THEN [h EXCEPT !.cfg = TRUE, !.tog3 = 0]
    ELSE h

(* A packet with the toggle the host expects is kept, any other is taken for a
   repetition; both are acknowledged.  A short packet, or all that was asked
   for, ends the data stage. *)
TakeData(heard) ==
    LET got == host.got \o uep0.data IN
    IF uep0.ttog # host.tog THEN [host EXCEPT !.deaf = @ \/ ~heard]
    ELSE [host EXCEPT !.got = got, !.tog = 1 - @, !.deaf = @ \/ ~heard,
            !.stage = IF Len(got) >= host.req.len \/ Len(uep0.data) < Packet
                      THEN "statusOut" ELSE "in"]

HostIn0 ==
    /\ Quiet /\ host.stage \in {"in", "statusIn"} /\ host.addr = dev_addr
    /\ \/ /\ uep0.tx = "STALL"
          /\ host' = Ended(FALSE, host.torn)
          /\ UNCHANGED <<transfer, faults>>
       \/ /\ uep0.tx = "ACK"
          /\ \E heard \in Heard :
              /\ host' = IF host.stage = "in" THEN TakeData(heard)
                         ELSE IF uep0.ttog = host.tog THEN Completed(heard)
                         ELSE host
              /\ Raise(heard, [token |-> "in", ep |-> 0])
              /\ Counted(heard)
    /\ Bus /\ UNCHANGED <<received, typed, inrace, setups>>

(* Data to endpoint 0, and the status stage of a read.  If the device's
   handshake is lost, the host sends the packet again. *)
HostOut0 ==
    /\ Quiet /\ host.stage \in {"out", "statusOut"} /\ host.addr = dev_addr
    /\ \/ /\ uep0.rx = "STALL"
          /\ host' = Ended(FALSE, host.torn)
          /\ UNCHANGED <<transfer, faults>>
       \/ /\ uep0.rx = "ACK"
          /\ \E heard \in Heard :
              /\ host' = IF ~heard THEN host
                         ELSE IF host.stage = "out" THEN [host EXCEPT !.stage = "statusIn"]
                         ELSE Completed(TRUE)
              /\ Counted(heard)
          /\ transfer' = [token |-> "out", ep |-> 0, tog |-> 1]
    /\ Bus /\ UNCHANGED <<received, typed, inrace, setups>>

(* The terminal reads endpoint 3 whenever it is configured. *)
HostIn3 ==
    /\ Quiet /\ host.cfg /\ host.addr = dev_addr /\ uep3.tx = "ACK"
    /\ \E heard \in Heard :
        /\ Raise(heard, [token |-> "in", ep |-> 3])
        /\ Counted(heard)
    /\ IF uep3.ttog = host.tog3
       THEN received' = Append(received, uep3.data) /\ host' = [host EXCEPT !.tog3 = 1 - @]
       ELSE UNCHANGED <<received, host>>
    /\ Bus /\ UNCHANGED <<typed, inrace, setups>>

(* The user types: a packet to endpoint 2, or the one before again. *)
HostOut2 ==
    /\ Quiet /\ host.cfg /\ host.addr = dev_addr
    /\ \E n \in 1..Packet, heard \in Heard :
        LET data == IF host.again # <<>> THEN host.again
                    ELSE [i \in 1..n |-> typed + i] IN
        /\ host.again = <<>> => main.text + typed + n <= MaxTraffic
        /\ typed' = data[Len(data)]
        /\ transfer' = [token |-> "out", ep |-> 2, data |-> data]
        /\ host' = [host EXCEPT !.again = IF heard THEN <<>> ELSE data]
        /\ inrace' = IF heard THEN inrace ELSE inrace \union {"again"}
        /\ Counted(heard)
    /\ Bus /\ UNCHANGED <<received, setups>>

(* The host gives a transfer up and goes on to the next request. *)
HostGivesUp ==
    /\ Quiet /\ host.stage \notin {"idle", "lost"} /\ faults < MaxFaults
    /\ faults' = faults + 1
    /\ host' = Ended(FALSE, TRUE)
    /\ Bus /\ UNCHANGED <<transfer, received, typed, inrace, setups>>

HostReset ==
    /\ ~bus_rst /\ faults < MaxFaults
    /\ faults' = faults + 1
    /\ bus_rst' = TRUE
    /\ host' = [Ended(host.stage = "idle" /\ host.done,
                      host.torn \/ host.stage \notin {"idle", "lost"})
                EXCEPT !.addr = 0, !.cfg = FALSE, !.again = <<>>, !.astray = FALSE]
    /\ UNCHANGED <<device, transfer, main, output, stale, input, setups>>

Host == \/ \E r \in Requests : HostSetup(r)
        \/ HostIn0 \/ HostOut0 \/ HostIn3 \/ HostOut2 \/ HostGivesUp \/ HostReset

Next == HandleTransfer \/ HandleReset \/ Main \/ Host

Spec == Init /\ [][Next]_vars

(* The handler runs when its flag is up, the main loop is never left waiting,
   and a host goes on with what it began and keeps reading the terminal. *)
FairSpec ==
    /\ Spec
    /\ WF_vars(HandleTransfer) /\ WF_vars(HandleReset) /\ WF_vars(Sending)
    /\ WF_vars(HostIn0) /\ WF_vars(HostOut0) /\ SF_vars(HostIn3)

-----------------------------------------------------------------------------
(* Properties. *)

(* Types.  The input buffer never holds more than its size (HandleDataOut), and
   handle_usbfs_input never reads beyond what is in it. *)
TypeOK ==
    /\ uep0.tx \in {"NAK", "ACK", "STALL"} /\ uep0.rx \in {"NAK", "ACK", "STALL"}
    /\ uep0.ttog \in 0..1 /\ uep0.rtog \in 0..1 /\ Len(uep0.data) <= Packet
    /\ uep3.tx \in {"NAK", "ACK"} /\ uep3.ttog \in 0..1 /\ uep3.data \in 0..MaxTraffic
    /\ dev_addr \in 0..1 /\ bus_rst \in BOOLEAN /\ busy \in BOOLEAN
    /\ transfer.token \in {"none", "setup", "in", "out"}
    /\ ctx.len \in Nat /\ ctx.ptr.off \in Nat /\ ctx.addr \in 0..1
    /\ ctx.cfg \in BOOLEAN /\ ctx.window \in BOOLEAN
    /\ Len(inputbuffer) <= InBuf
    /\ main.pc \in {"idle", "test", "wait", "testLen", "copy", "load", "store",
                    "mark", "arm", "poll", "clear"}
    /\ main.at \in Nat /\ main.size \in Nat
    /\ main.pc = "poll" => main.at < main.size /\ main.size <= Len(inputbuffer)
    /\ main.text \in 0..MaxTraffic /\ main.tog \in 0..1 /\ main.try \in 1..2
    /\ host.stage \in {"idle", "lost", "in", "out", "statusIn", "statusOut"}
    /\ host.torn \in BOOLEAN /\ host.astray \in BOOLEAN
    /\ races \subseteq {"mark", "toggle"} /\ inrace \subseteq {"clear", "again"}
    /\ armed \in 0..MaxTraffic /\ typed \in 0..MaxTraffic
    /\ setups \in 0..MaxSetups /\ faults \in 0..MaxFaults

(* A control read returns what was asked for: every chunk of the descriptor
   once and in order, never the setup packet that goes out first, whatever
   handshake is lost and whatever transfer was left unfinished before.  The
   trick of the unsent first packet (fsusb.c, USB_GET_DESCRIPTOR) rests on the
   data toggles alone. *)
ReadsWhole ==
    host.req.kind = "read" \/ Known(host.req) =>
        /\ host.stage = "in" => IsPrefix(host.got, Promised(host.req))
        /\ host.stage = "statusOut" => host.got = Promised(host.req)

(* Host and device agree on the address: the device takes the new one after
   the status stage of SET_ADDRESS and not before, and 0 on a reset.  The
   exception: the address was set after a transfer that the host had left
   unfinished, whose payload pointer no setup packet and no reset clears, or
   the handshake of the status stage was lost. *)
AddressAgrees == Quiet /\ ~host.astray => host.addr = dev_addr

(* What holds back the endpoints (SetupReqLen and the errata flag) is gone when
   a control transfer has been completed, and the flag is up while the status
   stage of an OUT transfer is due.  A transfer that was stalled or given up
   may leave the gate shut until a later one. *)
SendGate ==
    Quiet =>
        /\ host.stage = "idle" /\ host.done /\ ~host.torn =>
               ~ctx.window /\ ctx.len = 0
        /\ host.stage = "statusIn" /\ host.req.kind = "line" => ctx.window

(* No endpoint is armed while the gate is shut, unless an interrupt has shut it
   since USBFS_SendEndpoint or USBFS_SendEndpointNEW looked: both look with the
   interrupt enabled. *)
NoSendInWindow ==
    [][uep3.tx # "ACK" /\ uep3'.tx = "ACK" =>
           stale \/ (~ctx.window /\ ctx.len = 0)]_vars

(* The busy flag says whether the endpoint is armed: a busy endpoint will be
   emptied and a free one has nothing that the next text would overwrite.  The
   exception is the race of USBFS_SendEndpointNEW: the packet is taken, or the
   bus reset, before the flag is set; then it stays set until a reset. *)
BusyMeansArmed ==
    main.pc # "mark" /\ "mark" \notin races => (busy <=> uep3.tx = "ACK")

(* The terminal shows each text at most once and in the order printed, lost
   handshakes notwithstanding; and a text whose endpoint is free again has
   been shown, unless its toggle was loaded before SET_CONFIGURATION reset it
   and stored after. *)
OutputOnce ==
    /\ \A i, j \in DOMAIN received : i < j => received[i] < received[j]
    /\ main.pc # "mark" /\ ~busy /\ armed # 0 /\ "toggle" \notin races =>
           armed \in ToSet(received)

(* poll_input handles what was typed in order and once, but for a packet whose
   handshake was lost: endpoint 2 does not look at the toggle and takes the
   repetition.  Only the oldest input is discarded (HandleDataOut), so the last
   unit is there, unless it came between the beginning of poll_input and its
   emptying of the buffer. *)
InputInOrder ==
    /\ "again" \in inrace \/ \A i, j \in DOMAIN handled : i < j => handled[i] < handled[j]
    /\ Quiet /\ typed > 0 /\ "clear" \notin inrace =>
           typed \in ToSet(handled) \union ToSet(inputbuffer)

(* A configured terminal empties the endpoint, but for the race above. *)
BusyClears ==
    (busy /\ host.cfg) ~> (~busy \/ ~host.cfg \/ "mark" \in races)

(* A control transfer ends, in success or in a stall, even after one that was
   left unfinished, unless a handshake of its data stage was lost (the status
   stage is opened by the interrupt that never comes) or it needs the empty
   packet the device never sends. *)
TransferEnds ==
    host.stage \notin {"idle", "lost"} ~>
        (host.stage \in {"idle", "lost"} \/ host.deaf \/ NeedsEmptyPacket(host.req))
=============================================================================
