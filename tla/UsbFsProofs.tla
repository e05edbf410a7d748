----------------------------- MODULE UsbFsProofs -----------------------------
(***************************************************************************)
(* Theorems about the USB terminal device, for every packet size, set of   *)
(* descriptors and requests, size of the input buffer, and bound.          *)
(***************************************************************************)
EXTENDS UsbFs, TLAPS, SequenceTheorems

-----------------------------------------------------------------------------
(* Types, record by record. *)

Sources  == DOMAIN DescLen \cup {"none", "setup", "reply"}
Units    == Sources \X Nat
Pointers == [desc : Sources, off : Nat]
Texts    == 0..MaxTraffic

TransferType ==
    \/ transfer = None
    \/ \E r \in Requests : transfer = [token |-> "setup", req |-> r]
    \/ \E e \in {0, 3} : transfer = [token |-> "in", ep |-> e]
    \/ transfer = [token |-> "out", ep |-> 0, tog |-> 1]
    \/ \E d \in Seq(Texts) : d # <<>> /\ transfer = [token |-> "out", ep |-> 2, data |-> d]

Uep0s == [tx : {"NAK", "ACK", "STALL"}, ttog : {0, 1}, data : Seq(Units),
          rx : {"NAK", "ACK", "STALL"}, rtog : {0, 1}]
Uep3s == [tx : {"NAK", "ACK"}, ttog : {0, 1}, data : Texts]
Ctxs  == [kind : Kinds \cup {"none"}, len : Nat, ptr : Pointers, addr : {0, 1},
          cfg : BOOLEAN, window : BOOLEAN]
Mains == [pc : {"idle", "test", "wait", "testLen", "copy", "load", "store", "mark",
                "arm", "poll", "clear"},
          call : {"none", "new", "send"}, text : Texts, tog : {0, 1}, try : {1, 2},
          at : Nat, size : Nat]
Hosts == [stage : {"idle", "lost", "in", "out", "statusIn", "statusOut"},
          req : Requests \cup {NoReq}, got : Seq(Units), tog : {0, 1}, addr : {0, 1},
          cfg : BOOLEAN, tog3 : {0, 1}, again : Seq(Texts), done : BOOLEAN,
          torn : BOOLEAN, astray : BOOLEAN, deaf : BOOLEAN]

Open == {"in", "out", "statusIn", "statusOut"}

TypeInv ==
    /\ uep0 \in Uep0s /\ Len(uep0.data) <= Packet
    /\ uep3 \in Uep3s /\ dev_addr \in {0, 1}
    /\ TransferType /\ bus_rst \in BOOLEAN
    /\ ctx \in Ctxs /\ busy \in BOOLEAN
    /\ inputbuffer \in Seq(Texts) /\ Len(inputbuffer) <= InBuf
    /\ main \in Mains /\ host \in Hosts
    /\ host.stage \in Open => host.req \in Requests
    /\ received \in Seq(Texts) /\ armed \in Texts
    /\ races \subseteq {"mark", "toggle"} /\ stale \in BOOLEAN
    /\ typed \in Texts /\ handled \in Seq(Texts) /\ inrace \subseteq {"clear", "again"}
    /\ setups \in 0..MaxSetups /\ faults \in 0..MaxFaults

(* The unit that handle_usbfs_input reads next is there. *)
PollInv == main.pc = "poll" => main.at < main.size /\ main.size <= Len(inputbuffer)

-----------------------------------------------------------------------------
(* The control transfer: what the host, the bus and the device each know. *)

SetupDue == transfer.token = "setup"
In0Due   == transfer.token = "in" /\ transfer.ep = 0
In3Due   == transfer.token = "in" /\ transfer.ep = 3
Out0Due  == transfer.token = "out" /\ transfer.ep = 0
Out2Due  == transfer.token = "out" /\ transfer.ep = 2

(* The device has been told of the transfer the host is at. *)
Asked == host.stage \in Open /\ ~SetupDue

(* The stage fits the request, and what waits for the handler the stage. *)
StageInv ==
    /\ bus_rst => host.stage = "idle" /\ host.addr = 0 /\ ~host.cfg
    /\ SetupDue /\ ~bus_rst =>
          /\ host.stage = FirstStage(transfer.req) /\ host.req = transfer.req
          /\ host.got = <<>> /\ host.tog = 1
    /\ host.stage \in {"in", "statusOut"} => host.req.kind \in ReadKinds
    /\ host.stage = "out" => host.req.kind = "line"
    /\ host.stage = "statusIn" => host.req.kind \notin ReadKinds
    /\ In0Due => host.stage \in {"in", "statusOut", "idle"}
    /\ Out0Due => host.stage \in {"out", "statusIn", "statusOut", "idle"}

(* What the device's registers and state hold while a transfer goes on. *)
AskedInv ==
    Asked =>
        /\ ctx.kind = host.req.kind
        /\ host.stage \in {"in", "statusOut"} /\ uep0.rx = "ACK" =>
               ctx.len = 0 /\ ctx.ptr = NoPtr /\ ~ctx.window
        /\ host.stage \in {"out", "statusIn"} =>
               uep0.ttog = 1 /\ host.tog = 1 /\ uep0.rtog = 1
        /\ host.stage = "statusIn" /\ ~Out0Due =>
               ctx.len = 0 /\ (ctx.kind = "line" => ctx.window)
        /\ ~host.torn /\ ~Known(host.req) => ctx.ptr = NoPtr
        /\ ctx.kind = "address" => ctx.addr = 1
        /\ "STALL" \in {uep0.tx, uep0.rx} => ~Known(host.req)

(* What a transfer that was not torn leaves behind. *)
RestInv ==
    /\ host.stage \in {"idle", "lost"} /\ ~host.torn =>
        /\ ~SetupDue
        /\ In0Due => ctx.len = 0
        /\ ~In0Due => ctx.ptr = NoPtr
        /\ Out0Due => ctx.kind \in ReadKinds
    /\ host.stage = "idle" /\ host.done /\ ~host.torn =>
        /\ ctx.len = 0
        /\ ~In0Due => ~ctx.window
    /\ SetupDue /\ ~bus_rst /\ ~host.torn => ctx.ptr = NoPtr

(* The device has the host's address, or is about to take it. *)
AddressInv ==
    /\ In0Due /\ host.stage = "idle" /\ ~bus_rst /\ ctx.kind = "address" =>
           host.addr = 1 /\ ctx.addr = 1
    /\ ~bus_rst /\ ~host.astray =>
           \/ host.addr = dev_addr
           \/ /\ In0Due /\ host.stage = "idle" /\ host.addr = 1
              /\ ctx.kind = "address" /\ ctx.addr = 1 /\ ctx.ptr = NoPtr

ControlInv == StageInv /\ AskedInv /\ RestInv /\ AddressInv

(* A descriptor read: how much of it has been prepared, and whether the host *)
(* has taken the last packet.                                                *)
Total(r) == Least(r.len, DescLen[r.desc])
Sent     == Total(host.req) - ctx.len

DescriptorInv ==
    Asked /\ host.stage = "in" /\ Known(host.req) =>
        /\ ctx.len <= Total(host.req)
        /\ ctx.ptr = NoPtr => ctx.len = 0
        /\ ctx.ptr # NoPtr =>
               ctx.len > 0 /\ ctx.ptr.desc = host.req.desc /\ ctx.ptr.off = Sent
        /\ In0Due => uep0.ttog # host.tog
        /\ uep0.ttog # host.tog => host.got = Chunk(host.req.desc, 0, Sent)
        /\ uep0.ttog = host.tog =>
               /\ Len(host.got) <= Sent
               /\ host.got = Chunk(host.req.desc, 0, Len(host.got))
               /\ uep0.data = Chunk(host.req.desc, Len(host.got), Sent - Len(host.got))
               /\ Len(uep0.data) < Packet => ctx.len = 0

ReplyInv ==
    Asked /\ host.stage = "in" /\ host.req.kind = "read" =>
        /\ ~In0Due /\ uep0.ttog = 1 /\ host.tog = 1
        /\ host.got = <<>> /\ uep0.data = Promised(host.req)

ReadInv ==
    /\ DescriptorInv /\ ReplyInv
    /\ host.stage = "statusOut" /\ (host.req.kind = "read" \/ Known(host.req)) =>
           host.got = Promised(host.req)

-----------------------------------------------------------------------------
(* The sender. *)

(* The endpoint is free from the test of its flag until it is armed. *)
BusyInv ==
    /\ In3Due => uep3.tx = "ACK"
    /\ Allowed \/ main.call = "send" => uep3.tx = "NAK"
    /\ Allowed => ~busy
    /\ main.pc \in {"copy", "load", "store", "mark"} => main.call = "new"
    /\ main.pc = "arm" => main.call = "send"
    /\ main.pc \in {"test", "wait", "testLen"} => main.call # "none"
    /\ main.pc # "mark" /\ "mark" \notin races => (busy <=> uep3.tx = "ACK")
    /\ "mark" \in races => uep3.tx = "NAK" /\ (main.pc # "mark" => busy)
    /\ main.pc = "mark" /\ "mark" \notin races => uep3.tx = "ACK"

(* The gate was open when it was looked at. *)
GateInv ==
    ~stale =>
        /\ Allowed => ~ctx.window
        /\ main.pc \in {"copy", "load", "store", "arm"} => ctx.len = 0

Newer(n) == \A i \in DOMAIN received : received[i] < n
Shown(n) == \E i \in DOMAIN received : received[i] = n

(* The texts grow: received, in the endpoint, at hand. *)
TextInv ==
    /\ \A i, j \in DOMAIN received : i < j => received[i] < received[j]
    /\ Newer(main.text + 1) /\ uep3.data <= main.text
    /\ Allowed \/ main.pc \in {"test", "wait"} =>
           /\ main.text > 0 /\ Newer(main.text)
           /\ uep3.tx = "ACK" => uep3.data < main.text
    /\ main.pc \in {"load", "store"} \/ main.call = "send" => uep3.data = main.text
    /\ uep3.tx = "ACK" =>
           /\ armed = uep3.data /\ armed > 0
           /\ Shown(armed) \/ Newer(armed)
           /\ ~host.cfg /\ ~bus_rst => Newer(armed)
           /\ host.cfg /\ ~In3Due /\ uep3.ttog = host.tog3 => Newer(armed)

(* The toggles of endpoint 3 agree, or the packet has been taken. *)
ToggleInv ==
    /\ In3Due => host.cfg \/ bus_rst
    /\ In3Due /\ host.cfg => uep3.ttog # host.tog3
    /\ host.stage = "statusIn" /\ host.req.kind = "configuration" => ~host.cfg
    /\ "toggle" \notin races =>
           /\ In3Due => Shown(armed)
           /\ uep3.tx = "NAK" /\ armed > 0 => Shown(armed)
           /\ host.cfg /\ uep3.tx = "ACK" /\ uep3.ttog # host.tog3 => Shown(armed)
           /\ host.cfg /\ uep3.tx = "NAK" => uep3.ttog = host.tog3
           /\ host.cfg /\ main.pc = "store" => main.tog = host.tog3
           /\ Asked /\ host.stage = "statusIn" /\ host.req.kind = "configuration" =>
                  uep3.ttog = 0 /\ (main.pc = "store" => main.tog = 0)

-----------------------------------------------------------------------------
(* The input. *)

Rising(s)   == \A i, j \in DOMAIN s : i < j => s[i] < s[j]
Below(s, t) == \A i \in DOMAIN s, j \in DOMAIN t : s[i] < t[j]
UpTo(s, n)  == \A i \in DOMAIN s : s[i] <= n
Among(n, s) == \E i \in DOMAIN s : s[i] = n

(* The buffered units that poll_input has not handled yet. *)
Pending == {j \in DOMAIN inputbuffer : main.pc # "clear" /\ (main.pc = "poll" => main.at < j)}

(* Without a repetition, units are handled, buffered and under way in order. *)
OrderInv ==
    "again" \notin inrace =>
        /\ host.again = <<>>
        /\ Rising(handled) /\ Rising(inputbuffer)
        /\ UpTo(handled, typed) /\ UpTo(inputbuffer, typed)
        /\ \A i \in DOMAIN handled, j \in Pending : handled[i] < inputbuffer[j]
        /\ Out2Due => /\ Rising(transfer.data) /\ UpTo(transfer.data, typed)
                      /\ Below(handled, transfer.data) /\ Below(inputbuffer, transfer.data)

(* The last unit is somewhere, and where nothing came since poll_input began,
   all that is buffered will be handled. *)
LastInv ==
    /\ host.again # <<>> => host.again[Len(host.again)] = typed
    /\ Out2Due => transfer.data[Len(transfer.data)] = typed
    /\ typed > 0 /\ "clear" \notin inrace /\ ~Out2Due =>
           Among(typed, handled) \/ \E j \in Pending : inputbuffer[j] = typed
    /\ main.pc = "poll" /\ "clear" \notin inrace => main.size = Len(inputbuffer)

-----------------------------------------------------------------------------
(* Lemmas about the operators. *)

LEMMA LeastType ==
    ASSUME NEW a \in Nat, NEW b \in Nat
    PROVE  Least(a, b) \in Nat /\ Least(a, b) <= a /\ Least(a, b) <= b
BY DEF Least

LEMMA ChunkType ==
    ASSUME NEW d \in Sources, NEW from \in Nat, NEW n \in Nat
    PROVE  Chunk(d, from, n) \in Seq(Units) /\ Len(Chunk(d, from, n)) = n
BY DEF Chunk, Units

LEMMA NewestType ==
    ASSUME NEW S, NEW s \in Seq(S)
    PROVE  /\ Newest(s) \in Seq(S) /\ Len(Newest(s)) <= InBuf /\ Len(Newest(s)) <= Len(s)
           /\ Len(Newest(s)) = Len(s) \/ Len(Newest(s)) = InBuf
BY UsbAssumption DEF Newest

LEMMA RequestType ==
    ASSUME NEW r \in Requests
    PROVE  r.kind \in Kinds /\ r.len \in Nat
BY UsbAssumption

LEMMA KnownType ==
    ASSUME NEW r \in Requests, Known(r)
    PROVE  DescLen[r.desc] \in Nat \ {0} /\ r.len > 0 /\ r.desc \in Sources
BY UsbAssumption DEF Known, ReadKinds, Sources

LEMMA TypeInit == Init => TypeInv
<1> SUFFICES ASSUME Init PROVE TypeInv
  OBVIOUS
<1>1. MaxTraffic \in Nat /\ MaxSetups \in Nat /\ MaxFaults \in Nat /\ InBuf \in Nat
      /\ Packet \in Nat
  BY UsbAssumption
<1>2. uep0 \in Uep0s /\ Len(uep0.data) <= Packet
  BY <1>1 DEF Init, FreshUep0, Uep0s
<1>3. uep3 \in Uep3s
  BY <1>1 DEF Init, FreshUep3, Uep3s, Texts
<1>4. ctx \in Ctxs
  BY DEF Init, Ctxs, Pointers, NoPtr, Sources
<1>5. main \in Mains
  BY <1>1 DEF Init, AtRest, Mains, Texts
<1>6. host \in Hosts /\ (host.stage \in Open => host.req \in Requests)
  BY DEF Init, Hosts, Open
<1>7. TransferType
  BY DEF Init, TransferType
<1>8. /\ inputbuffer \in Seq(Texts) /\ received \in Seq(Texts) /\ handled \in Seq(Texts)
      /\ Len(inputbuffer) <= InBuf
  BY <1>1 DEF Init
<1>9. /\ armed \in Texts /\ typed \in Texts /\ setups \in 0..MaxSetups /\ faults \in 0..MaxFaults
      /\ dev_addr \in {0, 1}
  BY <1>1 DEF Init, Texts
<1>10. /\ bus_rst \in BOOLEAN /\ busy \in BOOLEAN /\ stale \in BOOLEAN
       /\ races \subseteq {"mark", "toggle"} /\ inrace \subseteq {"clear", "again"}
  BY Zenon DEF Init
<1>11. QED
  BY <1>2, <1>3, <1>4, <1>5, <1>6, <1>7, <1>8, <1>9, <1>10 DEF TypeInv

LEMMA TypeRight == TypeInv /\ PollInv => TypeOK
<1> SUFFICES ASSUME TypeInv, PollInv PROVE TypeOK
  OBVIOUS
<1>1. main.pc = "poll" => main.at < main.size /\ main.size <= Len(inputbuffer)
  BY DEF PollInv
<1>2. /\ main.pc \in {"idle", "test", "wait", "testLen", "copy", "load", "store",
                      "mark", "arm", "poll", "clear"}
      /\ main.at \in Nat /\ main.size \in Nat
      /\ main.text \in 0..MaxTraffic /\ main.tog \in 0..1 /\ main.try \in 1..2
  BY UsbAssumption DEF TypeInv, Mains, Texts
<1>3. transfer.token \in {"none", "setup", "in", "out"}
  BY DEF TypeInv, TransferType, None
<1>4. /\ uep0.tx \in {"NAK", "ACK", "STALL"} /\ uep0.rx \in {"NAK", "ACK", "STALL"}
      /\ uep0.ttog \in 0..1 /\ uep0.rtog \in 0..1 /\ Len(uep0.data) <= Packet
      /\ uep3.tx \in {"NAK", "ACK"} /\ uep3.ttog \in 0..1 /\ uep3.data \in 0..MaxTraffic
      /\ ctx.len \in Nat /\ ctx.ptr.off \in Nat /\ ctx.addr \in 0..1
      /\ ctx.cfg \in BOOLEAN /\ ctx.window \in BOOLEAN
  BY DEF TypeInv, Uep0s, Uep3s, Ctxs, Pointers, Texts
<1>5. /\ host.stage \in {"idle", "lost", "in", "out", "statusIn", "statusOut"}
      /\ host.torn \in BOOLEAN /\ host.astray \in BOOLEAN
  BY DEF TypeInv, Hosts
<1>6. QED
  BY <1>1, <1>2, <1>3, <1>4, <1>5 DEF TypeInv, TypeOK, Texts

LEMMA ConstantsType ==
    /\ MaxTraffic \in Nat /\ MaxSetups \in Nat /\ MaxFaults \in Nat
    /\ InBuf \in Nat \ {0} /\ Packet \in Nat \ {0}
BY UsbAssumption

LEMMA GotoType ==
    ASSUME main \in Mains,
           NEW pc \in {"idle", "test", "wait", "testLen", "copy", "load", "store", "mark",
                       "arm", "poll", "clear"},
           Goto(pc)
    PROVE  main' \in Mains /\ main'.pc = pc /\ main'.text = main.text
BY DEF Goto, AtRest, Mains

LEMMA TypeMain == TypeInv /\ PollInv /\ Main => TypeInv'
<1> SUFFICES ASSUME TypeInv, PollInv, Main PROVE TypeInv'
  OBVIOUS
<1>. USE ConstantsType DEF TypeInv
<1>0. main.text \in Texts /\ uep3.ttog \in {0, 1}
  BY DEF Mains, Uep3s
<1>1. ASSUME Rests
      PROVE  /\ TransferType' = TransferType
             /\ UNCHANGED <<bus_rst, host, setups, faults>>
  BY <1>1 DEF Rests, TransferType, bounds
<1>2. CASE Write
  <2>0. main.text + 1 \in Texts
    <3>1. main.text + typed < MaxTraffic
      BY <1>2, Zenon DEF Write
    <3>2. typed \in Texts
      OBVIOUS
    <3>3. QED
      BY ONLY ConstantsType, <1>0, <3>1, <3>2 DEF Texts
  <2>1. main' \in Mains
    BY <1>2, <2>0 DEF Write, Mains
  <2>2. QED
    BY <1>1, <1>2, <2>1 DEF Write, device, output, input
<1>3. CASE TakeBuffer
  <2>0. main.text + 1 \in Texts
    <3>1. main.text + typed < MaxTraffic
      BY <1>3, Zenon DEF TakeBuffer
    <3>2. typed \in Texts
      OBVIOUS
    <3>3. QED
      BY ONLY ConstantsType, <1>0, <3>1, <3>2 DEF Texts
  <2>1. main' \in Mains /\ uep3' \in Uep3s
    BY <1>3, <2>0 DEF TakeBuffer, Mains, Uep3s
  <2>2. QED
    BY <1>1, <1>3, <2>1 DEF TakeBuffer, output, input
<1>4. CASE Test
  <2>1. main' \in Mains
    BY <1>4, GotoType DEF Test
  <2>2. stale' \in BOOLEAN
    BY <1>4, Zenon DEF Test
  <2>3. QED
    BY <1>1, <1>4, <2>1, <2>2 DEF Test, device, output, input
<1>5. CASE TryAgain
  <2>1. main' \in Mains
    BY <1>5 DEF TryAgain, Mains
  <2>2. QED
    BY <1>1, <1>5, <2>1 DEF TryAgain, device, output, input
<1>6. CASE TestLen
  <2>1. main' \in Mains
    BY <1>6, GotoType DEF TestLen
  <2>2. QED
    BY <1>1, <1>6, <2>1 DEF TestLen, device, output, input
<1>7. CASE Copy
  <2>1. main' \in Mains /\ uep3' \in Uep3s
    BY <1>0, <1>7, GotoType DEF Copy, Uep3s
  <2>2. QED
    BY <1>1, <1>7, <2>1 DEF Copy, output, input
<1>8. CASE Load
  <2>1. main' \in Mains
    BY <1>0, <1>8 DEF Load, Mains
  <2>2. QED
    BY <1>1, <1>8, <2>1 DEF Load, device, output, input
<1>9. CASE Store
  <2>1. main' \in Mains /\ uep3' \in Uep3s
    BY <1>9, GotoType DEF Store, Uep3s, Mains
  <2>2. QED
    BY <1>0, <1>1, <1>9, <2>1 DEF Store, input
<1>10. CASE Mark
  <2>1. main' \in Mains
    BY <1>10, GotoType DEF Mark
  <2>2. busy' \in BOOLEAN
    BY <1>10, Zenon DEF Mark
  <2>3. QED
    BY <1>1, <1>10, <2>1, <2>2 DEF Mark, output, input
<1>11. CASE Arm
  <2>1. main' \in Mains /\ uep3' \in Uep3s
    BY <1>11, GotoType DEF Arm, Uep3s
  <2>2. busy' \in BOOLEAN
    BY <1>11, Zenon DEF Arm
  <2>3. QED
    BY <1>0, <1>1, <1>11, <2>1, <2>2 DEF Arm, input
<1>12. CASE Poll
  <2>1. main' \in Mains
    <3>1. Len(inputbuffer) \in Nat
      OBVIOUS
    <3>2. QED
      BY <1>12, <3>1 DEF Poll, Mains
  <2>2. QED
    BY <1>1, <1>12, <2>1 DEF Poll, device, output, input
<1>13. CASE PollClear
  <2>1. main' \in Mains
    BY <1>13, GotoType DEF PollClear
  <2>2. QED
    BY <1>1, <1>13, <2>1 DEF PollClear, device, output
<1>14. CASE PollUnit
  <2>1. main' \in Mains
    <3>1. PICK pc \in {"poll", "clear"} : main' = [main EXCEPT !.at = @ + 1, !.pc = pc]
      BY <1>14 DEF PollUnit
    <3>2. main \in Mains
      OBVIOUS
    <3>3. main.at + 1 \in Nat
      BY <3>2 DEF Mains
    <3>4. QED
      BY <3>1, <3>2, <3>3 DEF Mains
  <2>2. handled' \in Seq(Texts)
    <3>1. main.at + 1 \in 1..Len(inputbuffer)
      BY <1>14 DEF PollUnit, PollInv, Mains
    <3>2. inputbuffer[main.at + 1] \in Texts
      BY <3>1
    <3>3. handled' = Append(handled, inputbuffer[main.at + 1])
      BY <1>14 DEF PollUnit
    <3>4. QED
      BY <3>2, <3>3
  <2>3. QED
    BY <1>1, <1>14, <2>1, <2>2 DEF PollUnit, device, output
<1>15. QED
  BY <1>2, <1>3, <1>4, <1>5, <1>6, <1>7, <1>8, <1>9, <1>10, <1>11, <1>12, <1>13, <1>14
     DEF Main, Sending

LEMMA TransferCases ==
    ASSUME TransferType
    PROVE  /\ transfer.token \in {"none", "setup", "in", "out"}
           /\ transfer.token = "setup" => transfer.req \in Requests
           /\ transfer.token = "in" => transfer.ep \in {0, 3}
           /\ transfer.token = "out" =>
                 \/ transfer.ep = 0 /\ transfer.tog = 1
                 \/ transfer.ep = 2 /\ transfer.data \in Seq(Texts) /\ transfer.data # <<>>
BY DEF TransferType, None

LEMMA AnswerType ==
    ASSUME NEW t \in {0, 1}, NEW data \in Seq(Units)
    PROVE  Answer(t, data) \in Uep0s /\ Answer(t, data).data = data
BY DEF Answer, Uep0s

LEMMA StallType ==
    ASSUME uep0 \in Uep0s
    PROVE  Stall \in Uep0s /\ Stall.data = uep0.data
BY DEF Stall, Uep0s

LEMMA BegunType ==
    ASSUME ctx \in Ctxs, NEW r \in Requests
    PROVE  Begun(r) \in Ctxs /\ Begun(r).ptr = ctx.ptr /\ Begun(r).len = r.len
BY RequestType DEF Begun, Ctxs

LEMMA AdvancedType ==
    ASSUME NEW ptr \in Pointers, NEW n \in Nat
    PROVE  Advanced(ptr, n) \in Pointers
BY DEF Advanced, Pointers

LEMMA LeftoverType ==
    ASSUME NEW n \in Nat
    PROVE  Leftover(n) \in Seq(Units) /\ Len(Leftover(n)) = n
BY ChunkType DEF Leftover, Sources

LEMMA AtType ==
    ASSUME NEW ptr \in Pointers, NEW n \in Nat
    PROVE  At(ptr, n) \in Seq(Units) /\ Len(At(ptr, n)) = n
BY ChunkType DEF At, Pointers

LEMMA TypeSetup ==
    ASSUME TypeInv, NEW r \in Requests,
           \/ SetupDescriptor(r) \/ SetupStall(r) \/ SetupRead(r) \/ SetupAddress(r)
           \/ SetupConfiguration(r) \/ SetupStatusOnly(r) \/ SetupLine(r) \/ SetupAsk(r)
    PROVE  /\ ctx' \in Ctxs /\ uep3' \in Uep3s
           /\ uep0' \in Uep0s /\ Len(uep0'.data) <= Packet
<1>1. ctx \in Ctxs /\ ctx.ptr \in Pointers /\ uep3 \in Uep3s /\ uep0 \in Uep0s
      /\ Len(uep0.data) <= Packet
  BY DEF TypeInv, Ctxs
<1>2. r.len \in Nat /\ Packet \in Nat
  BY RequestType, ConstantsType
<1>3. Begun(r) \in Ctxs /\ Begun(r).ptr = ctx.ptr /\ Begun(r).len = r.len
  BY <1>1, BegunType
<1> DEFINE n == Least(r.len, Packet)
<1>4. n \in Nat /\ n <= Packet /\ r.len - n \in Nat
  BY <1>2, LeastType
<1>5. Leftover(n) \in Seq(Units) /\ Len(Leftover(n)) <= Packet
  BY <1>2, <1>4, LeftoverType
<1>6. Answer(1, <<>>) \in Uep0s /\ Len(Answer(1, <<>>).data) = 0
  <2>1. <<>> \in Seq(Units) /\ Len(<<>>) = 0
    OBVIOUS
  <2>2. QED
    BY <2>1, AnswerType
<1> HIDE DEF n
<1>10. CASE SetupDescriptor(r)
  <2>1. Least(r.len, DescLen[r.desc]) \in Nat /\ r.desc \in Sources
    BY <1>2, <1>10, KnownType, LeastType DEF SetupDescriptor
  <2>2. ctx' \in Ctxs
    BY <1>3, <1>10, <2>1 DEF SetupDescriptor, Ctxs, Pointers
  <2>3. uep0' = Answer(0, Leftover(n))
    BY <1>10 DEF SetupDescriptor, n
  <2>4. QED
    BY <1>1, <1>5, <1>10, <2>2, <2>3, AnswerType DEF SetupDescriptor
<1>11. CASE SetupStall(r)
  BY <1>1, <1>3, <1>11, StallType DEF SetupStall
<1>12. CASE SetupRead(r)
  <2>1. Chunk("reply", 0, n) \in Seq(Units) /\ Len(Chunk("reply", 0, n)) <= Packet
    BY <1>2, <1>4, ChunkType DEF Sources
  <2>2. ctx' = [Begun(r) EXCEPT !.len = @ - n] /\ uep0' = Answer(1, Chunk("reply", 0, n))
    BY <1>12 DEF SetupRead, n
  <2>3. ctx' \in Ctxs
    BY <1>3, <1>4, <2>2 DEF Ctxs
  <2>4. QED
    BY <1>1, <1>12, <2>1, <2>2, <2>3, AnswerType DEF SetupRead
<1>13. CASE SetupAddress(r)
  <2>1. ctx' \in Ctxs
    BY <1>3, <1>13 DEF SetupAddress, Ctxs
  <2>2. QED
    BY <1>1, <1>2, <1>6, <1>13, <2>1 DEF SetupAddress, Status
<1>14. CASE SetupConfiguration(r)
  <2>1. ctx' \in Ctxs /\ uep3' \in Uep3s
    BY <1>1, <1>3, <1>14 DEF SetupConfiguration, Ctxs, Uep3s
  <2>2. QED
    BY <1>2, <1>6, <1>14, <2>1 DEF SetupConfiguration, Status
<1>15. CASE SetupStatusOnly(r)
  <2>1. ctx' \in Ctxs
    BY <1>3, <1>15 DEF SetupStatusOnly, Ctxs
  <2>2. QED
    BY <1>1, <1>2, <1>6, <1>15, <2>1 DEF SetupStatusOnly, Status
<1>16. CASE SetupLine(r)
  <2>1. Advanced(ctx.ptr, r.len) \in Pointers
    BY <1>1, <1>2, AdvancedType
  <2>2. ctx' \in Ctxs
    BY <1>3, <1>16, <2>1 DEF SetupLine, Ctxs
  <2>3. uep0' \in Uep0s /\ uep0'.data = uep0.data
    BY <1>1, <1>16 DEF SetupLine, Uep0s
  <2>4. QED
    BY <1>1, <1>16, <2>2, <2>3 DEF SetupLine
<1>17. CASE SetupAsk(r)
  <2>1. Advanced(ctx.ptr, r.len) \in Pointers
    BY <1>1, <1>2, AdvancedType
  <2>2. ctx' = [Begun(r) EXCEPT !.len = @ - n, !.ptr = Advanced(@, r.len)]
    BY <1>17 DEF SetupAsk, n
  <2>3. ctx' \in Ctxs
    BY <1>3, <1>4, <2>1, <2>2 DEF Ctxs
  <2>4. uep0' \in {Answer(1, Leftover(n)), Answer(1, At(ctx.ptr, n))}
    BY <1>17 DEF SetupAsk, n
  <2>5. At(ctx.ptr, n) \in Seq(Units) /\ Len(At(ctx.ptr, n)) <= Packet
    BY <1>1, <1>2, <1>4, AtType
  <2>6. QED
    BY <1>1, <1>5, <1>17, <2>3, <2>4, <2>5, AnswerType DEF SetupAsk
<1>18. QED
  BY <1>10, <1>11, <1>12, <1>13, <1>14, <1>15, <1>16, <1>17

LEMMA FlipType == \A t \in {0, 1} : 1 - t \in {0, 1}
OBVIOUS

LEMMA AllowedType == Allowed \in BOOLEAN
BY DEF Allowed

LEMMA OpenedType ==
    ASSUME NEW u \in Uep0s
    PROVE  StatusOpened(u) \in Uep0s /\ StatusOpened(u).data = u.data
           /\ StatusOpened(u).ttog = u.ttog
BY DEF StatusOpened, Uep0s

LEMMA TypeIn0 ==
    ASSUME TypeInv, HandleIn0
    PROVE  /\ ctx' \in Ctxs /\ dev_addr' \in {0, 1}
           /\ uep0' \in Uep0s /\ Len(uep0'.data) <= Packet
<1>1. ctx \in Ctxs /\ ctx.ptr \in Pointers /\ uep0 \in Uep0s /\ ctx.len \in Nat
      /\ Len(uep0.data) <= Packet
  BY DEF TypeInv, Ctxs
<1> DEFINE n == Least(ctx.len, Packet)
<1>2. n \in Nat /\ n <= Packet /\ ctx.len - n \in Nat
  <2>1. Packet \in Nat
    BY ConstantsType
  <2>2. ctx.len \in Nat
    BY <1>1
  <2>3. n \in Nat /\ n <= Packet /\ n <= ctx.len
    BY <2>1, <2>2, LeastType
  <2>4. QED
    BY <2>2, <2>3
<1>3. At(ctx.ptr, n) \in Seq(Units) /\ Len(At(ctx.ptr, n)) <= Packet
  BY <1>1, <1>2, AtType, ConstantsType
<1>4. Advanced(ctx.ptr, n) \in Pointers /\ NoPtr \in Pointers
  BY <1>1, <1>2, AdvancedType DEF Pointers, NoPtr, Sources
<1>5. StatusOpened(uep0) \in Uep0s /\ StatusOpened(uep0).data = uep0.data
  BY <1>1, OpenedType
<1> HIDE DEF n
<1>6. CASE ctx.ptr # NoPtr
  <2>1. uep0' = [StatusOpened(uep0) EXCEPT !.data = At(ctx.ptr, n), !.ttog = 1 - @]
        /\ ctx' = [WindowOver EXCEPT !.len = @ - n,
                     !.ptr = IF ctx.len > n THEN Advanced(@, n) ELSE NoPtr]
        /\ dev_addr' = dev_addr
    BY <1>6 DEF HandleIn0, n
  <2>2. uep0' \in Uep0s /\ uep0'.data = At(ctx.ptr, n)
    BY <1>3, <1>5, <2>1, FlipType DEF Uep0s
  <2>3. WindowOver \in Ctxs /\ WindowOver.len = ctx.len /\ WindowOver.ptr = ctx.ptr
    BY <1>1 DEF WindowOver, Ctxs
  <2>4. ctx' \in Ctxs
    BY <1>2, <1>4, <2>1, <2>3 DEF Ctxs
  <2>5. QED
    BY <1>3, <2>1, <2>2, <2>4 DEF TypeInv
<1>7. CASE ctx.ptr = NoPtr
  <2>1. uep0' = StatusOpened(uep0) /\ ctx' = WindowOver /\ dev_addr' \in {dev_addr, ctx.addr}
    BY <1>7 DEF HandleIn0
  <2>2. ctx' \in Ctxs /\ ctx.addr \in {0, 1}
    BY <1>1, <2>1 DEF WindowOver, Ctxs
  <2>3. QED
    BY <1>1, <1>5, <2>1, <2>2 DEF TypeInv
<1>8. QED
  BY <1>6, <1>7

LEMMA TypeTransfer == TypeInv /\ HandleTransfer => TypeInv'
<1> SUFFICES ASSUME TypeInv, HandleTransfer PROVE TypeInv'
  OBVIOUS
<1>1. /\ transfer' = None /\ stale' = Allowed
      /\ UNCHANGED <<bus_rst, main, host, setups, faults>>
  BY DEF HandleTransfer, bounds
<1>2. TransferType' /\ stale' \in BOOLEAN
  <2>1. TransferType'
    BY <1>1 DEF TransferType
  <2>2. stale' \in BOOLEAN
    BY <1>1, AllowedType
  <2>3. QED
    BY <2>1, <2>2
<1>3. TransferType
  BY DEF TypeInv
<1>4. CASE HandleSetup
  <2>1. transfer.req \in Requests
    BY <1>3, <1>4, TransferCases DEF HandleSetup
  <2>2. /\ ctx' \in Ctxs /\ uep3' \in Uep3s
        /\ uep0' \in Uep0s /\ Len(uep0'.data) <= Packet
    BY <1>4, <2>1, TypeSetup DEF HandleSetup
  <2>3. UNCHANGED <<dev_addr, busy, received, armed, inputbuffer, typed, handled, inrace>>
    BY <1>4 DEF HandleSetup, input
  <2>4. races' \subseteq {"mark", "toggle"}
    BY <1>4 DEF HandleSetup, TypeInv
  <2>5. QED
    BY <1>1, <1>2, <2>2, <2>3, <2>4 DEF TypeInv
<1>5. CASE HandleIn0
  BY <1>1, <1>2, <1>5, TypeIn0 DEF HandleIn0, TypeInv, output, input
<1>6. CASE HandleOut0
  <2>1. ctx' \in Ctxs
    <3>1. CASE transfer.tog = uep0.rtog
      <4>1. ctx' = [ctx EXCEPT !.len = 0, !.window = @ \/ ctx.kind \notin ReadKinds]
        BY <1>6, <3>1 DEF HandleOut0
      <4>2. (ctx.window \/ ctx.kind \notin ReadKinds) \in BOOLEAN
        OBVIOUS
      <4>3. QED
        BY <4>1, <4>2 DEF TypeInv, Ctxs
    <3>2. CASE transfer.tog # uep0.rtog
      BY <1>6, <3>2 DEF HandleOut0, TypeInv
    <3>3. QED
      BY <3>1, <3>2
  <2>2. uep0' \in Uep0s /\ Len(uep0'.data) <= Packet
    <3>1. CASE transfer.tog = uep0.rtog
      <4>1. uep0' = [uep0 EXCEPT !.tx = "ACK", !.ttog = 1, !.data = <<>>]
        BY <1>6, <3>1 DEF HandleOut0
      <4>2. <<>> \in Seq(Units) /\ Len(<<>>) <= Packet
        BY ConstantsType
      <4>3. QED
        BY <4>1, <4>2 DEF TypeInv, Uep0s
    <3>2. CASE transfer.tog # uep0.rtog
      BY <1>6, <3>2 DEF HandleOut0, TypeInv
    <3>3. QED
      BY <3>1, <3>2
  <2>3. QED
    BY <1>1, <1>2, <1>6, <2>1, <2>2 DEF HandleOut0, TypeInv, output, input
<1>7. CASE HandleIn3
  <2>1. uep3' \in Uep3s
    BY <1>7, FlipType DEF HandleIn3, Emptied, TypeInv, Uep3s
  <2>2. busy' \in BOOLEAN
    BY <1>7, Zenon DEF HandleIn3
  <2>3. races' \subseteq {"mark", "toggle"}
    BY <1>7 DEF HandleIn3, TypeInv
  <2>4. QED
    BY <1>1, <1>2, <1>7, <2>1, <2>2, <2>3 DEF HandleIn3, TypeInv, input
<1>8. CASE HandleOut2
  <2>1. transfer.data \in Seq(Texts) /\ inputbuffer \in Seq(Texts)
    BY <1>3, <1>8, TransferCases DEF HandleOut2, TypeInv
  <2>2. inputbuffer' = Newest(inputbuffer \o transfer.data)
    BY <1>8 DEF HandleOut2
  <2>3. inputbuffer' \in Seq(Texts) /\ Len(inputbuffer') <= InBuf
    <3>1. inputbuffer \o transfer.data \in Seq(Texts)
      BY <2>1
    <3>2. QED
      BY <2>2, <3>1, NewestType
  <2>4. inrace' \subseteq {"clear", "again"}
    BY <1>8 DEF HandleOut2, TypeInv
  <2>5. QED
    BY <1>1, <1>2, <1>8, <2>3, <2>4 DEF HandleOut2, TypeInv, device, output
<1>9. QED
  BY <1>4, <1>5, <1>6, <1>7, <1>8 DEF HandleTransfer

LEMMA TypeReset == TypeInv /\ HandleReset => TypeInv'
<1> SUFFICES ASSUME TypeInv, HandleReset PROVE TypeInv'
  OBVIOUS
<1>1. /\ UNCHANGED <<transfer, main, host, received, setups, faults>>
      /\ UNCHANGED <<inputbuffer, typed, handled, inrace>>
      /\ dev_addr' = 0 /\ armed' = 0
  BY DEF HandleReset, bounds, input
<1>2. bus_rst' \in BOOLEAN /\ stale' \in BOOLEAN /\ busy' \in BOOLEAN
  BY AllowedType, Zenon DEF HandleReset
<1>3. ctx' \in Ctxs
  <2>1. ctx' = [ctx EXCEPT !.cfg = FALSE, !.addr = 0] /\ ctx \in Ctxs
    BY DEF HandleReset, TypeInv
  <2>2. QED
    BY <2>1 DEF Ctxs
<1>4. uep0' \in Uep0s /\ uep0'.data = uep0.data
  <2>1. uep0' = [FreshUep0 EXCEPT !.data = uep0.data] /\ uep0 \in Uep0s
    BY DEF HandleReset, TypeInv
  <2>2. QED
    BY <2>1 DEF Uep0s, FreshUep0
<1>5. uep3' \in Uep3s
  <2>1. uep3' = [FreshUep3 EXCEPT !.data = uep3.data] /\ uep3 \in Uep3s
    BY DEF HandleReset, TypeInv
  <2>2. QED
    BY <2>1 DEF Uep3s, FreshUep3
<1>6. races' \subseteq {"mark", "toggle"}
  BY Zenon DEF HandleReset
<1>7. TransferType' /\ armed' \in Texts
  BY <1>1, ConstantsType DEF TypeInv, TransferType, Texts
<1>8. QED
  BY <1>1, <1>2, <1>3, <1>4, <1>5, <1>6, <1>7 DEF TypeInv

LEMMA HeardType ==
    ASSUME TypeInv, NEW heard \in Heard, Counted(heard)
    PROVE  heard \in BOOLEAN /\ faults' \in 0..MaxFaults
<1>1. heard \in BOOLEAN /\ (heard = FALSE => faults < MaxFaults)
  BY Zenon DEF Heard
<1>2. faults' = faults \/ (heard = FALSE /\ faults' = faults + 1)
  BY <1>1 DEF Counted
<1>3. faults \in 0..MaxFaults /\ MaxFaults \in Nat
  BY ConstantsType DEF TypeInv
<1>4. QED
  BY <1>1, <1>2, <1>3

LEMMA EmptyType == <<>> \in Seq(Units) /\ <<>> \in Seq(Texts) /\ FALSE \in BOOLEAN
                   /\ TRUE \in BOOLEAN
OBVIOUS

LEMMA EndedType ==
    ASSUME host \in Hosts, NEW done \in BOOLEAN, NEW torn \in BOOLEAN
    PROVE  /\ Ended(done, torn) \in Hosts
           /\ Ended(done, torn).stage = "idle"
BY EmptyType DEF Ended, Hosts

LEMMA CompletedType ==
    ASSUME host \in Hosts, NEW heard \in BOOLEAN
    PROVE  Completed(heard) \in Hosts /\ Completed(heard).stage = "idle"
<1> DEFINE h == Ended(TRUE, ~heard)
<1>1. h \in Hosts /\ h.stage = "idle"
  BY EndedType
<1>2. (host.torn \/ ~heard) \in BOOLEAN
  OBVIOUS
<1>3. Completed(heard) \in {h, [h EXCEPT !.addr = 1, !.astray = host.torn \/ ~heard],
                            [h EXCEPT !.cfg = TRUE, !.tog3 = 0]}
  BY DEF Completed
<1> HIDE DEF h
<1>4. [h EXCEPT !.addr = 1, !.astray = host.torn \/ ~heard] \in Hosts
      /\ [h EXCEPT !.addr = 1, !.astray = host.torn \/ ~heard].stage = "idle"
  BY <1>1, <1>2 DEF Hosts
<1>5. [h EXCEPT !.cfg = TRUE, !.tog3 = 0] \in Hosts
      /\ [h EXCEPT !.cfg = TRUE, !.tog3 = 0].stage = "idle"
  BY <1>1 DEF Hosts
<1>6. QED
  BY <1>1, <1>3, <1>4, <1>5

LEMMA TakeDataType ==
    ASSUME host \in Hosts, uep0 \in Uep0s, NEW heard \in BOOLEAN
    PROVE  /\ TakeData(heard) \in Hosts /\ TakeData(heard).req = host.req
           /\ TakeData(heard).stage \in {host.stage, "statusOut", "in"}
<1> DEFINE got == host.got \o uep0.data
<1>1. got \in Seq(Units)
  BY DEF Hosts, Uep0s
<1>2. (host.deaf \/ ~heard) \in BOOLEAN
  OBVIOUS
<1>3. CASE uep0.ttog # host.tog
  <2>1. TakeData(heard) = [host EXCEPT !.deaf = host.deaf \/ ~heard]
    BY <1>3 DEF TakeData
  <2>2. QED
    BY <1>2, <2>1 DEF Hosts
<1>4. CASE uep0.ttog = host.tog
  <2>1. PICK st \in {"statusOut", "in"} :
           TakeData(heard) = [host EXCEPT !.got = got, !.tog = 1 - @,
                                !.deaf = host.deaf \/ ~heard, !.stage = st]
    BY <1>4 DEF TakeData
  <2>2. 1 - host.tog \in {0, 1}
    BY FlipType DEF Hosts
  <2>3. QED
    BY <1>1, <1>2, <2>1, <2>2 DEF Hosts
<1>5. QED
  BY <1>3, <1>4

LEMMA RaisedType ==
    ASSUME NEW t, NEW heard \in BOOLEAN, Raise(heard, t)
    PROVE  transfer' \in {None, t}
BY DEF Raise

LEMMA BusType ==
    ASSUME TypeInv, Bus
    PROVE  /\ UNCHANGED <<uep0, uep3, dev_addr, ctx, busy, bus_rst, main, armed, races,
                          stale, inputbuffer, handled>>
BY DEF Bus, device

LEMMA TypeHostSetup == ASSUME TypeInv, NEW r \in Requests, HostSetup(r) PROVE TypeInv'
<1>1. host' \in Hosts /\ (host'.stage \in Open => host'.req \in Requests)
  <2>1. host \in Hosts
    BY DEF TypeInv
  <2>2. CASE host.addr = dev_addr
    <3>1. host' = [host EXCEPT !.stage = FirstStage(r), !.req = r, !.got = <<>>,
                               !.tog = 1, !.deaf = FALSE]
      BY <2>2 DEF HostSetup
    <3>2. FirstStage(r) \in Open
      BY DEF FirstStage, Open
    <3>3. QED
      BY <2>1, <3>1, <3>2, EmptyType DEF Hosts, Open
  <2>3. CASE host.addr # dev_addr
    <3>1. host' = [host EXCEPT !.stage = "lost"]
      BY <2>3 DEF HostSetup
    <3>2. QED
      BY <2>1, <3>1 DEF Hosts, Open
  <2>4. QED
    BY <2>2, <2>3
<1>2. TransferType'
  <2>1. transfer' = transfer \/ transfer' = [token |-> "setup", req |-> r]
    BY DEF HostSetup
  <2>2. QED
    BY <2>1 DEF TypeInv, TransferType
<1>3. setups' \in 0..MaxSetups
  <2>1. setups' = setups \/ (setups < MaxSetups /\ setups' = setups + 1)
    BY DEF HostSetup
  <2>2. QED
    BY <2>1, ConstantsType DEF TypeInv
<1>4. Bus /\ UNCHANGED <<received, typed, inrace, faults>>
  BY DEF HostSetup
<1>5. QED
  BY <1>1, <1>2, <1>3, <1>4, BusType DEF TypeInv

LEMMA TypeHostIn0 == ASSUME TypeInv, HostIn0 PROVE TypeInv'
<1>1. Bus /\ UNCHANGED <<received, typed, inrace, setups>>
  BY DEF HostIn0
<1>2. host \in Hosts /\ uep0 \in Uep0s /\ faults \in 0..MaxFaults /\ host.torn \in BOOLEAN
  BY DEF TypeInv, Hosts
<1>3. CASE uep0.tx = "STALL" /\ host' = Ended(FALSE, host.torn)
           /\ UNCHANGED <<transfer, faults>>
  <2>1. host' \in Hosts /\ host'.stage = "idle"
    BY <1>2, <1>3, EndedType
  <2>2. TransferType'
    BY <1>3 DEF TransferType, TypeInv
  <2>3. QED
    BY <1>1, <1>3, <2>1, <2>2, BusType DEF TypeInv, Open
<1>4. ASSUME NEW heard \in Heard,
             host' = IF host.stage = "in" THEN TakeData(heard)
                     ELSE IF uep0.ttog = host.tog THEN Completed(heard)
                     ELSE host,
             Raise(heard, [token |-> "in", ep |-> 0]), Counted(heard)
      PROVE  TypeInv'
  <2>1. heard \in BOOLEAN /\ faults' \in 0..MaxFaults
    BY <1>4, HeardType
  <2>2. host' \in Hosts /\ (host'.stage \in Open => host'.req \in Requests)
    <3>1. TakeData(heard) \in Hosts /\ TakeData(heard).req = host.req
      BY <1>2, <2>1, TakeDataType
    <3>2. Completed(heard) \in Hosts /\ Completed(heard).stage = "idle"
      BY <1>2, <2>1, CompletedType
    <3>3. QED
      BY <1>2, <1>4, <3>1, <3>2 DEF TypeInv, Open
  <2>3. transfer' \in {None, [token |-> "in", ep |-> 0]}
    BY <1>4, <2>1, RaisedType
  <2>4. TransferType'
    BY <2>3 DEF TransferType
  <2>5. QED
    BY <1>1, <2>1, <2>2, <2>4, BusType DEF TypeInv
<1>5. QED
  BY <1>3, <1>4 DEF HostIn0

LEMMA TypeHostOut0 == ASSUME TypeInv, HostOut0 PROVE TypeInv'
<1>1. Bus /\ UNCHANGED <<received, typed, inrace, setups>>
  BY DEF HostOut0
<1>2. host \in Hosts /\ host.torn \in BOOLEAN
  BY DEF TypeInv, Hosts
<1>3. CASE uep0.rx = "STALL" /\ host' = Ended(FALSE, host.torn)
           /\ UNCHANGED <<transfer, faults>>
  <2>1. host' \in Hosts /\ host'.stage = "idle"
    BY <1>2, <1>3, EndedType
  <2>2. TransferType'
    BY <1>3 DEF TransferType, TypeInv
  <2>3. QED
    BY <1>1, <1>3, <2>1, <2>2, BusType DEF TypeInv, Open
<1>4. ASSUME NEW heard \in Heard, Counted(heard),
             host' = IF ~heard THEN host
                     ELSE IF host.stage = "out" THEN [host EXCEPT !.stage = "statusIn"]
                     ELSE Completed(TRUE),
             transfer' = [token |-> "out", ep |-> 0, tog |-> 1], host.stage \in Open
      PROVE  TypeInv'
  <2>1. heard \in BOOLEAN /\ faults' \in 0..MaxFaults
    BY <1>4, HeardType
  <2>2. host' \in Hosts /\ (host'.stage \in Open => host'.req \in Requests)
    <3>1. Completed(TRUE) \in Hosts /\ Completed(TRUE).stage = "idle"
      BY <1>2, CompletedType
    <3>2. [host EXCEPT !.stage = "statusIn"] \in Hosts
          /\ [host EXCEPT !.stage = "statusIn"].req = host.req
      BY <1>2 DEF Hosts
    <3>3. host.req \in Requests
      BY <1>4 DEF TypeInv
    <3>4. QED
      BY <1>2, <1>4, <3>1, <3>2, <3>3 DEF Open
  <2>3. TransferType'
    BY <1>4 DEF TransferType
  <2>4. QED
    BY <1>1, <2>1, <2>2, <2>3, BusType DEF TypeInv
<1>5. QED
  BY <1>3, <1>4 DEF HostOut0, Open

LEMMA TypeHostIn3 == ASSUME TypeInv, HostIn3 PROVE TypeInv'
<1>1. Bus /\ UNCHANGED <<typed, inrace, setups>>
  BY DEF HostIn3
<1>2. PICK heard \in Heard : Raise(heard, [token |-> "in", ep |-> 3]) /\ Counted(heard)
  BY DEF HostIn3
<1>3. heard \in BOOLEAN /\ faults' \in 0..MaxFaults
  BY <1>2, HeardType
<1>4. transfer' \in {None, [token |-> "in", ep |-> 3]}
  BY <1>2, <1>3, RaisedType
<1>5. TransferType'
  BY <1>4 DEF TransferType
<1>6. received' \in Seq(Texts) /\ host' \in Hosts /\ host'.stage = host.stage
      /\ host'.req = host.req
  <2>1. uep3.data \in Texts /\ received \in Seq(Texts) /\ host \in Hosts
    BY DEF TypeInv, Uep3s
  <2>2. CASE uep3.ttog = host.tog3
    <3>1. received' = Append(received, uep3.data) /\ host' = [host EXCEPT !.tog3 = 1 - @]
      BY <2>2 DEF HostIn3
    <3>2. 1 - host.tog3 \in {0, 1}
      BY <2>1, FlipType DEF Hosts
    <3>3. received' \in Seq(Texts)
      BY <2>1, <3>1
    <3>4. host' \in Hosts /\ host'.stage = host.stage /\ host'.req = host.req
      BY <2>1, <3>1, <3>2 DEF Hosts
    <3>5. QED
      BY <3>3, <3>4
  <2>3. CASE uep3.ttog # host.tog3
    BY <2>1, <2>3 DEF HostIn3
  <2>4. QED
    BY <2>2, <2>3
<1>7. QED
  BY <1>1, <1>3, <1>5, <1>6, BusType DEF TypeInv

LEMMA TypeHostOut2 == ASSUME TypeInv, HostOut2 PROVE TypeInv'
<1>1. Bus /\ UNCHANGED <<received, setups>>
  BY DEF HostOut2
<1>2. PICK n \in 1..Packet, heard \in Heard :
        LET data == IF host.again # <<>> THEN host.again
                    ELSE [i \in 1..n |-> typed + i] IN
        /\ host.again = <<>> => main.text + typed + n <= MaxTraffic
        /\ typed' = data[Len(data)]
        /\ transfer' = [token |-> "out", ep |-> 2, data |-> data]
        /\ host' = [host EXCEPT !.again = IF heard THEN <<>> ELSE data]
        /\ inrace' = IF heard THEN inrace ELSE inrace \union {"again"}
        /\ Counted(heard)
  BY DEF HostOut2
<1> DEFINE data == IF host.again # <<>> THEN host.again ELSE [i \in 1..n |-> typed + i]
<1>3. heard \in BOOLEAN /\ faults' \in 0..MaxFaults
  BY <1>2, HeardType
<1>4. data \in Seq(Texts) /\ data # <<>>
  <2>1. CASE host.again # <<>>
    BY <2>1 DEF TypeInv, Hosts
  <2>2. CASE host.again = <<>>
    <3>1. main.text + typed + n <= MaxTraffic /\ n \in Nat \ {0}
      BY <1>2, <2>2, ConstantsType
    <3>2. main.text \in Nat /\ typed \in Nat
      BY DEF TypeInv, Mains, Texts
    <3>3. \A i \in 1..n : typed + i \in Texts
      BY <3>1, <3>2, ConstantsType DEF Texts
    <3>4. [i \in 1..n |-> typed + i] \in Seq(Texts) /\ Len([i \in 1..n |-> typed + i]) = n
      BY <3>1, <3>3
    <3>5. QED
      BY <2>2, <3>1, <3>4
  <2>3. QED
    BY <2>1, <2>2
<1>5. typed' = data[Len(data)] /\ transfer' = [token |-> "out", ep |-> 2, data |-> data]
      /\ host' = [host EXCEPT !.again = IF heard THEN <<>> ELSE data]
  BY <1>2
<1> HIDE DEF data
<1>6. typed' \in Texts
  BY <1>4, <1>5
<1>7. TransferType'
  BY <1>4, <1>5 DEF TransferType
<1>8. host' \in Hosts /\ host'.stage = host.stage /\ host'.req = host.req
  <2>1. (IF heard THEN <<>> ELSE data) \in Seq(Texts)
    BY <1>4
  <2>2. QED
    BY <1>5, <2>1 DEF TypeInv, Hosts
<1>9. inrace' \subseteq {"clear", "again"}
  BY <1>2 DEF TypeInv
<1>10. QED
  BY <1>1, <1>3, <1>6, <1>7, <1>8, <1>9, BusType DEF TypeInv

LEMMA TypeHostRest == ASSUME TypeInv, HostGivesUp \/ HostReset PROVE TypeInv'
<1>1. faults' \in 0..MaxFaults
  <2>1. faults < MaxFaults /\ faults' = faults + 1
    BY DEF HostGivesUp, HostReset
  <2>2. faults \in 0..MaxFaults /\ MaxFaults \in Nat
    BY ConstantsType DEF TypeInv
  <2>3. QED
    BY <2>1, <2>2
<1>2. host \in Hosts /\ host.done \in BOOLEAN /\ host.torn \in BOOLEAN
  BY DEF TypeInv, Hosts
<1>3. CASE HostGivesUp
  <2>1. host' \in Hosts /\ host'.stage = "idle"
    BY <1>2, <1>3, EndedType DEF HostGivesUp
  <2>2. Bus /\ UNCHANGED <<transfer, received, typed, inrace, setups>>
    BY <1>3 DEF HostGivesUp
  <2>3. TransferType'
    BY <2>2 DEF TypeInv, TransferType
  <2>4. QED
    BY <1>1, <2>1, <2>2, <2>3, BusType DEF TypeInv, Open
<1>4. CASE HostReset
  <2>1. PICK done \in BOOLEAN, torn \in BOOLEAN :
           host' = [Ended(done, torn) EXCEPT !.addr = 0, !.cfg = FALSE, !.again = <<>>,
                                             !.astray = FALSE]
    <3>1. (host.stage = "idle" /\ host.done) \in BOOLEAN
      OBVIOUS
    <3>2. (host.torn \/ host.stage \notin {"idle", "lost"}) \in BOOLEAN
      OBVIOUS
    <3>3. QED
      BY <1>4, <3>1, <3>2 DEF HostReset
  <2>2. Ended(done, torn) \in Hosts /\ Ended(done, torn).stage = "idle"
    BY <1>2, <2>1, EndedType
  <2>3. host' \in Hosts /\ host'.stage = "idle"
    BY <2>1, <2>2, EmptyType DEF Hosts
  <2>4. bus_rst' \in BOOLEAN
    BY <1>4, Zenon DEF HostReset
  <2>5. UNCHANGED <<uep0, uep3, dev_addr, ctx, busy, transfer, main, received, armed, races,
                    stale, inputbuffer, typed, handled, inrace, setups>>
    BY <1>4 DEF HostReset, device, output, input
  <2>6. TransferType'
    BY <2>5 DEF TypeInv, TransferType
  <2>7. QED
    BY <1>1, <2>3, <2>4, <2>5, <2>6 DEF TypeInv, Open
<1>5. QED
  BY <1>3, <1>4

(* What the host does not touch, and what it may raise. *)
LEMMA HostFrame ==
    ASSUME Host
    PROVE  /\ UNCHANGED <<uep0, uep3, dev_addr, ctx, busy, main, armed, races, stale,
                          inputbuffer, handled>>
           /\ transfer' # transfer => Quiet
BY DEF Host, HostSetup, HostIn0, HostOut0, HostIn3, HostOut2, HostGivesUp, HostReset, Bus,
       device, output, input

LEMMA TypeStep == TypeInv /\ PollInv /\ [Next]_vars => TypeInv'
<1> SUFFICES ASSUME TypeInv, PollInv, [Next]_vars PROVE TypeInv'
  OBVIOUS
<1>1. CASE HandleTransfer \/ HandleReset \/ Main
  BY <1>1, TypeTransfer, TypeReset, TypeMain
<1>2. CASE Host
  BY <1>2, TypeHostSetup, TypeHostIn0, TypeHostOut0, TypeHostIn3, TypeHostOut2, TypeHostRest
     DEF Host
<1>3. CASE UNCHANGED vars
  BY <1>3 DEF vars, device, output, input, bounds, TypeInv, TransferType
<1>4. QED
  BY <1>1, <1>2, <1>3 DEF Next

LEMMA PollInit == Init => PollInv
BY DEF Init, AtRest, PollInv

(* HandleDataOut shifts the buffer but never shortens it; only poll_input itself
   empties it. *)
LEMMA PollStep == TypeInv /\ PollInv /\ [Next]_vars => PollInv'
<1> SUFFICES ASSUME TypeInv, PollInv, [Next]_vars PROVE PollInv'
  OBVIOUS
<1>0. inputbuffer \in Seq(Texts) /\ Len(inputbuffer) <= InBuf /\ InBuf \in Nat /\ main \in Mains
  BY ConstantsType DEF TypeInv
<1>1. CASE UNCHANGED <<main, inputbuffer>>
  BY <1>1 DEF PollInv
<1>2. CASE HandleTransfer /\ HandleOut2
  <2>1. main' = main /\ inputbuffer' = Newest(inputbuffer \o transfer.data)
    BY <1>2 DEF HandleTransfer, HandleOut2
  <2>2. transfer.data \in Seq(Texts)
    BY <1>2, TransferCases DEF HandleOut2, TypeInv
  <2>3. /\ inputbuffer \o transfer.data \in Seq(Texts)
        /\ Len(inputbuffer \o transfer.data) >= Len(inputbuffer)
    BY <1>0, <2>2
  <2>4. Len(inputbuffer') >= Len(inputbuffer)
    BY <1>0, <2>1, <2>3, NewestType
  <2>5. Len(inputbuffer') \in Nat /\ Len(inputbuffer) \in Nat /\ main.size \in Nat
    BY <1>0, <2>1, <2>3, NewestType DEF Mains
  <2>6. QED
    BY <2>1, <2>4, <2>5 DEF PollInv
<1>3. CASE HandleTransfer /\ ~HandleOut2
  <2>1. UNCHANGED <<main, inputbuffer>>
    BY <1>3 DEF HandleTransfer, HandleSetup, HandleIn0, HandleOut0, HandleIn3, input
  <2>2. QED
    BY <1>1, <2>1
<1>4. CASE HandleReset
  BY <1>1, <1>4 DEF HandleReset, input
<1>5. CASE Poll
  <2>1. /\ main'.at = 0 /\ main'.size = Len(inputbuffer) /\ inputbuffer' = inputbuffer
        /\ inputbuffer # <<>>
    BY <1>0, <1>5 DEF Poll, Mains, input
  <2>2. Len(inputbuffer) \in Nat /\ Len(inputbuffer) # 0
    BY <1>0, <2>1
  <2>3. QED
    BY <2>1, <2>2 DEF PollInv
<1>6. CASE PollUnit
  <2>1. /\ main' = [main EXCEPT !.at = @ + 1,
                       !.pc = IF main.at + 1 < main.size THEN "poll" ELSE "clear"]
        /\ inputbuffer' = inputbuffer /\ main.pc = "poll"
    BY <1>6 DEF PollUnit
  <2>2. /\ main'.at = main.at + 1 /\ main'.size = main.size
        /\ main'.pc = "poll" => main.at + 1 < main.size
    BY <1>0, <2>1 DEF Mains
  <2>3. QED
    BY <2>1, <2>2 DEF PollInv
<1>7. CASE Main /\ ~Poll /\ ~PollUnit
  <2>1. main'.pc # "poll"
    BY <1>0, <1>7 DEF Main, Sending, Write, TakeBuffer, Test, TryAgain, TestLen, Copy, Load, Store,
       Mark, Arm, PollUnit, PollClear, Goto, AtRest, Mains
  <2>2. QED
    BY <2>1 DEF PollInv
<1>8. CASE Host
  BY <1>1, <1>8, HostFrame
<1>9. CASE UNCHANGED vars
  BY <1>1, <1>9 DEF vars, input
<1>10. QED
  BY <1>2, <1>3, <1>4, <1>5, <1>6, <1>7, <1>8, <1>9 DEF Next

(* Every variable keeps its type; no packet of endpoint 0 is longer than the *)
(* endpoint's buffer, and the input buffer never overflows (HandleDataOut    *)
(* makes room for what comes), whatever the host sends.                      *)
THEOREM UsbTypeCorrect == Spec => []TypeOK
<1>1. QED
  BY TypeInit, TypeStep, PollInit, PollStep, TypeRight, PTL DEF Spec

-----------------------------------------------------------------------------
(* The busy flag. *)

LEMMA GotoFields ==
    ASSUME main \in Mains, NEW pc, Goto(pc)
    PROVE  /\ main'.pc = pc /\ main'.text = main.text
           /\ pc = "idle" => main'.call = "none"
           /\ pc # "idle" => main'.call = main.call /\ main'.tog = main.tog
BY DEF Goto, AtRest, Mains

(* Polling the input touches nothing of the sender. *)
LEMMA PollFields ==
    ASSUME main \in Mains, Poll \/ PollUnit
    PROVE  /\ main'.text = main.text /\ main'.call = main.call /\ main'.tog = main.tog
           /\ main.pc \in {"idle", "poll"} /\ main'.pc \in {"poll", "clear"}
           /\ UNCHANGED <<device, output, stale, transfer, bus_rst, host, bounds>>
BY DEF Poll, PollUnit, Rests, Mains

LEMMA HostRaises ==
    ASSUME Host
    PROVE  transfer'.token = "in" /\ transfer'.ep = 3 =>
               transfer' = transfer \/ (HostIn3 /\ uep3.tx = "ACK")
<1>1. ASSUME NEW r \in Requests, HostSetup(r)
      PROVE  transfer' = transfer \/ transfer'.token = "setup"
  BY <1>1 DEF HostSetup
<1>2. CASE HostIn0
  <2>1. transfer' = transfer \/ transfer' = None \/ transfer' = [token |-> "in", ep |-> 0]
    BY <1>2 DEF HostIn0, Raise
  <2>2. QED
    BY <2>1 DEF None
<1>3. CASE HostOut0
  <2>1. transfer' = transfer \/ transfer' = [token |-> "out", ep |-> 0, tog |-> 1]
    BY <1>3 DEF HostOut0
  <2>2. QED
    BY <2>1
<1>4. CASE HostIn3
  BY <1>4 DEF HostIn3
<1>5. CASE HostOut2
  <2>1. transfer'.token = "out"
    BY <1>5 DEF HostOut2
  <2>2. QED
    BY <2>1
<1>6. CASE HostGivesUp \/ HostReset
  BY <1>6 DEF HostGivesUp, HostReset
<1>7. QED
  BY <1>1, <1>2, <1>3, <1>4, <1>5, <1>6 DEF Host

LEMMA BusyHost == TypeInv /\ BusyInv /\ Host => BusyInv'
<1> SUFFICES ASSUME TypeInv, BusyInv, Host PROVE BusyInv'
  OBVIOUS
<1>1. UNCHANGED <<uep3, busy, main, races>>
  BY HostFrame
<1>2. In3Due' => uep3.tx = "ACK"
  BY HostRaises DEF BusyInv, In3Due
<1>3. QED
  BY <1>1, <1>2 DEF BusyInv, Allowed

LEMMA BusyMain == TypeInv /\ BusyInv /\ Main => BusyInv'
<1> SUFFICES ASSUME TypeInv, BusyInv, Main PROVE BusyInv'
  OBVIOUS
<1>1. main \in Mains /\ uep3 \in Uep3s /\ busy \in BOOLEAN
  BY DEF TypeInv
<1>2. UNCHANGED <<transfer, races>>
  BY DEF Main, Sending, Write, TakeBuffer, Poll, Test, TryAgain, TestLen, Copy, Load, Store,
         Mark, Arm, PollUnit, PollClear, Rests, output
<1>. USE <1>1, <1>2 DEF BusyInv, Allowed, In3Due
<1>3. CASE Write
  BY <1>3 DEF Write, device, Mains
<1>4. CASE TakeBuffer
  BY <1>4 DEF TakeBuffer, Mains, Uep3s
<1>5. CASE Test
  <2>1. UNCHANGED <<uep3, busy>>
    BY <1>5 DEF Test, device
  <2>2. CASE Refused
    <3>1. Goto("wait") \/ Goto("idle")
      BY <1>5, <2>2 DEF Test
    <3>2. main'.pc \in {"wait", "idle"} /\ main'.call \in {main.call, "none"}
          /\ (main'.pc = "wait" => main'.call = main.call)
      BY <3>1, GotoFields
    <3>3. main.pc = "test"
      BY <1>5 DEF Test
    <3>4. QED
      BY <2>1, <3>2, <3>3
  <2>3. CASE ~Refused
    <3>1. Goto("testLen") /\ ~busy /\ main.pc = "test"
      BY <1>5, <2>3 DEF Test, Refused
    <3>2. main'.pc = "testLen" /\ main'.call = main.call
      BY <3>1, GotoFields
    <3>3. uep3.tx = "NAK"
      BY <3>1 DEF Uep3s
    <3>4. QED
      BY <2>1, <3>1, <3>2, <3>3
  <2>4. QED
    BY <2>2, <2>3
<1>6. CASE TryAgain
  BY <1>6 DEF TryAgain, device, Mains
<1>7. CASE TestLen
  <2>1. UNCHANGED <<uep3, busy>> /\ main.pc = "testLen"
    BY <1>7 DEF TestLen, device
  <2>2. main.call \in {"new", "send"}
    BY <2>1 DEF Mains
  <2>3. \/ main'.pc = "idle" /\ main'.call = "none"
        \/ main'.pc = "copy" /\ main'.call = "new" /\ main.call = "new"
        \/ main'.pc = "arm" /\ main'.call = main.call /\ main.call = "send"
    <3>1. \/ Goto("idle") \/ (Goto("copy") /\ main.call = "new")
          \/ (Goto("arm") /\ main.call # "new")
      BY <1>7 DEF TestLen
    <3>2. QED
      BY <2>2, <3>1, GotoFields
  <2>4. QED
    BY <2>1, <2>3
<1>8. CASE Copy
  BY <1>8, GotoFields DEF Copy, Uep3s
<1>9. CASE Load
  BY <1>9 DEF Load, device, Mains
<1>10. CASE Store
  <2>1. main.pc = "store" /\ Goto("mark") /\ busy' = busy
    BY <1>10 DEF Store
  <2>2. main'.pc = "mark" /\ main'.call = main.call /\ ~busy
    BY <2>1, GotoFields
  <2>3. uep3'.tx = "ACK" /\ "mark" \notin races
    BY <1>10, <2>1, <2>2 DEF Store, Uep3s
  <2>4. main.call = "new"
    BY <2>1
  <2>5. QED
    BY <2>2, <2>3, <2>4
<1>11. CASE Mark
  BY <1>11, GotoFields DEF Mark
<1>12. CASE Arm
  BY <1>12, GotoFields DEF Arm, Uep3s
<1>13. CASE Poll \/ PollUnit
  BY <1>13, PollFields DEF device, output
<1>14. CASE PollClear
  BY <1>14, GotoFields DEF PollClear, device
<1>15. QED
  BY <1>3, <1>4, <1>5, <1>6, <1>7, <1>8, <1>9, <1>10, <1>11, <1>12, <1>13, <1>14
     DEF Main, Sending

LEMMA BusyHandler == TypeInv /\ BusyInv /\ (HandleTransfer \/ HandleReset) => BusyInv'
<1> SUFFICES ASSUME TypeInv, BusyInv, HandleTransfer \/ HandleReset PROVE BusyInv'
  OBVIOUS
<1>. USE DEF BusyInv, Allowed, In3Due
<1>1. uep3 \in Uep3s /\ main' = main
  BY DEF TypeInv, HandleTransfer, HandleReset
<1>2. CASE HandleTransfer
  <2>1. transfer' = None
    BY <1>2 DEF HandleTransfer
  <2>2. CASE HandleSetup
    <3>1. uep3'.tx = uep3.tx
      BY <1>1, <2>2 DEF HandleSetup, SetupDescriptor, SetupStall, SetupRead, SetupAddress,
         SetupConfiguration, SetupStatusOnly, SetupLine, SetupAsk, Uep3s
    <3>2. busy' = busy /\ races \subseteq races' /\ races' \subseteq races \cup {"toggle"}
      BY <2>2 DEF HandleSetup
    <3>3. QED
      BY <1>1, <2>1, <3>1, <3>2 DEF None
  <2>3. CASE HandleIn0 \/ HandleOut0 \/ HandleOut2
    BY <1>1, <2>1, <2>3 DEF HandleIn0, HandleOut0, HandleOut2, output, device, None
  <2>4. CASE HandleIn3
    <3>1. uep3'.tx = "NAK" /\ busy' = FALSE /\ uep3.tx = "ACK"
      BY <1>1, <2>4 DEF HandleIn3, Emptied, Uep3s
    <3>2. "mark" \in races' <=> main.pc = "mark"
      BY <2>4, <3>1 DEF HandleIn3
    <3>3. QED
      BY <1>1, <2>1, <3>1, <3>2 DEF None
  <2>5. QED
    BY <1>2, <2>2, <2>3, <2>4 DEF HandleTransfer
<1>3. CASE HandleReset
  <2>1. uep3'.tx = "NAK" /\ busy' = FALSE /\ transfer' = None
    BY <1>3 DEF HandleReset, FreshUep3
  <2>2. "mark" \in races' <=> main.pc = "mark"
    BY <1>3 DEF HandleReset
  <2>3. QED
    BY <1>1, <2>1, <2>2 DEF None
<1>4. QED
  BY <1>2, <1>3

LEMMA BusyInit == Init => BusyInv
BY DEF Init, BusyInv, Allowed, In3Due, AtRest, FreshUep3, None

LEMMA BusyStep == TypeInv /\ BusyInv /\ [Next]_vars => BusyInv'
<1>1. TypeInv /\ BusyInv /\ UNCHANGED vars => BusyInv'
  BY DEF vars, device, output, BusyInv, Allowed, In3Due
<1>2. QED
  BY <1>1, BusyHost, BusyMain, BusyHandler DEF Next

(* The busy flag of endpoint 3 says whether the endpoint is armed, for every  *)
(* interleaving of USBFS_SendEndpointNEW and USBFS_SendEndpoint with the      *)
(* interrupt, but for the one race between arming and marking.                *)
THEOREM UsbBusyMeansArmed == Spec => []BusyMeansArmed
<1>1. BusyInv => BusyMeansArmed
  BY DEF BusyInv, BusyMeansArmed
<1>2. QED
  BY <1>1, TypeInit, TypeStep, PollInit, PollStep, BusyInit, BusyStep, PTL DEF Spec

-----------------------------------------------------------------------------
(* The gate of the data endpoints. *)

LEMMA GateMain == TypeInv /\ GateInv /\ Main => GateInv'
<1> SUFFICES ASSUME TypeInv, GateInv, Main PROVE GateInv'
  OBVIOUS
<1>1. main \in Mains /\ ctx.len \in Nat
  BY DEF TypeInv, Ctxs
<1>2. ctx' = ctx
  BY DEF Main, Sending, Write, TakeBuffer, Poll, Test, TryAgain, TestLen, Copy, Load, Store,
         Mark, Arm, PollUnit, PollClear, device
<1>. USE <1>1, <1>2 DEF GateInv, Allowed
<1>3. CASE Test
  <2>1. CASE Refused
    <3>1. Goto("wait") \/ Goto("idle")
      BY <1>3, <2>1 DEF Test
    <3>2. main'.pc \in {"wait", "idle"}
      BY <3>1, GotoFields
    <3>3. QED
      BY <3>2
  <2>2. CASE ~Refused
    <3>1. Goto("testLen") /\ ~ctx.window
      BY <1>3, <2>2 DEF Test, Refused
    <3>2. main'.pc = "testLen"
      BY <3>1, GotoFields
    <3>3. QED
      BY <3>1, <3>2
  <2>3. QED
    BY <2>1, <2>2
<1>4. CASE TestLen
  <2>1. stale' = stale /\ main.pc = "testLen"
    BY <1>4 DEF TestLen
  <2>2. CASE ctx.len > 0
    <3>1. Goto("idle")
      BY <1>4, <2>2 DEF TestLen
    <3>2. main'.pc = "idle"
      BY <3>1, GotoFields
    <3>3. QED
      BY <3>2
  <2>3. CASE ctx.len = 0
    BY <2>1, <2>3
  <2>4. QED
    BY <2>2, <2>3
<1>5. CASE Write \/ TakeBuffer \/ TryAgain
  BY <1>5 DEF Write, TakeBuffer, TryAgain, Mains
<1>6. CASE Copy
  BY <1>6, GotoFields DEF Copy
<1>7. CASE Load
  BY <1>7 DEF Load, Mains
<1>8. CASE Store \/ Mark \/ Arm \/ PollClear
  <2>1. Goto("mark") \/ Goto("idle")
    BY <1>8 DEF Store, Mark, Arm, PollClear
  <2>2. main'.pc \in {"mark", "idle"}
    BY <2>1, GotoFields
  <2>3. QED
    BY <2>2
<1>9. CASE Poll \/ PollUnit
  BY <1>9, PollFields
<1>10. QED
  BY <1>3, <1>4, <1>5, <1>6, <1>7, <1>8, <1>9 DEF Main, Sending

LEMMA GateStep == TypeInv /\ GateInv /\ [Next]_vars => GateInv'
<1> SUFFICES ASSUME TypeInv, GateInv, [Next]_vars PROVE GateInv'
  OBVIOUS
<1>1. CASE HandleTransfer \/ HandleReset
  <2>1. main' = main /\ stale' = Allowed
    BY <1>1 DEF HandleTransfer, HandleReset
  <2>2. QED
    BY <2>1, Zenon DEF GateInv, Allowed
<1>2. CASE Host
  BY <1>2, HostFrame DEF GateInv, Allowed
<1>3. CASE UNCHANGED vars
  BY <1>3 DEF vars, device, GateInv, Allowed
<1>4. QED
  BY <1>1, <1>2, <1>3, GateMain DEF Next

LEMMA GateInit == Init => GateInv
BY DEF Init, AtRest, GateInv, Allowed

(* Only Store and Arm arm endpoint 3. *)
LEMMA ArmingSteps ==
    ASSUME TypeInv, [Next]_vars, uep3.tx # "ACK", uep3'.tx = "ACK"
    PROVE  Store \/ Arm
<1>1. uep3 \in Uep3s
  BY DEF TypeInv
<1>2. CASE Host \/ UNCHANGED vars
  BY <1>2, HostFrame DEF vars, device
<1>3. CASE HandleReset
  BY <1>3 DEF HandleReset, FreshUep3
<1>4. CASE HandleTransfer
  <2>1. CASE HandleSetup
    BY <1>1, <2>1 DEF HandleSetup, SetupDescriptor, SetupStall, SetupRead, SetupAddress,
       SetupConfiguration, SetupStatusOnly, SetupLine, SetupAsk, Uep3s
  <2>2. CASE HandleIn0 \/ HandleOut0 \/ HandleOut2
    BY <2>2 DEF HandleIn0, HandleOut0, HandleOut2, device
  <2>3. CASE HandleIn3
    BY <1>1, <2>3 DEF HandleIn3, Emptied, Uep3s
  <2>4. QED
    BY <1>4, <2>1, <2>2, <2>3 DEF HandleTransfer
<1>5. CASE Main
  BY <1>1, <1>5 DEF Main, Sending, Write, TakeBuffer, Poll, Test, TryAgain, TestLen, Copy, Load,
     Mark, PollUnit, PollClear, device, Uep3s
<1>6. QED
  BY <1>2, <1>3, <1>4, <1>5 DEF Next

(* No packet of endpoint 3 is armed while SetupReqLen or the errata flag      *)
(* says that a control transfer is under way, unless an interrupt came after  *)
(* USBFS_SendEndpointNEW or USBFS_SendEndpoint had looked at them.            *)
THEOREM UsbNoSendInWindow == Spec => NoSendInWindow
<1>1. TypeInv /\ GateInv /\ [Next]_vars =>
          [uep3.tx # "ACK" /\ uep3'.tx = "ACK" => stale \/ (~ctx.window /\ ctx.len = 0)]_vars
  <2> SUFFICES ASSUME TypeInv, GateInv, [Next]_vars, uep3.tx # "ACK", uep3'.tx = "ACK", ~stale
               PROVE  ~ctx.window /\ ctx.len = 0
    BY DEF vars
  <2>1. Store \/ Arm
    BY ArmingSteps
  <2>2. main.pc \in {"store", "arm"}
    BY <2>1 DEF Store, Arm
  <2>3. QED
    BY <2>2 DEF GateInv, Allowed
<1>2. QED
  BY <1>1, TypeInit, TypeStep, PollInit, PollStep, GateInit, GateStep, PTL DEF Spec, NoSendInWindow

-----------------------------------------------------------------------------
(* What the steps of a control transfer do, field by field. *)

LEMMA ControlTypes ==
    ASSUME TypeInv
    PROVE  /\ uep0 \in Uep0s /\ ctx \in Ctxs /\ host \in Hosts /\ TransferType
           /\ ctx.len \in Nat /\ ctx.ptr \in Pointers
           /\ ctx.window \in BOOLEAN /\ host.torn \in BOOLEAN /\ host.astray \in BOOLEAN
           /\ dev_addr \in {0, 1} /\ host.addr \in {0, 1}
BY DEF TypeInv, Ctxs, Hosts

LEMMA MainFrame ==
    ASSUME Main
    PROVE  UNCHANGED <<uep0, dev_addr, ctx, transfer, bus_rst, host>>
BY DEF Main, Sending, Write, TakeBuffer, Poll, Test, TryAgain, TestLen, Copy, Load, Store, Mark,
   Arm, PollUnit, PollClear, Rests, device

LEMMA SetupEffect ==
    ASSUME TypeInv, HandleSetup, NEW r, r = transfer.req
    PROVE  /\ r \in Requests /\ SetupDue /\ dev_addr' = dev_addr
           /\ ctx'.kind = r.kind /\ ctx'.window = ctx.window
           /\ r.kind = "address" => ctx'.addr = 1
           /\ Known(r) => /\ ctx'.len = Least(r.len, DescLen[r.desc])
                          /\ ctx'.ptr = [desc |-> r.desc, off |-> 0]
                          /\ uep0'.ttog = 0
           /\ ~Known(r) /\ ctx.ptr = NoPtr => ctx'.ptr = NoPtr
           /\ r.kind \notin ReadKinds =>
                  uep0'.ttog = 1 /\ uep0'.rtog = 1
           /\ r.kind \notin ReadKinds \cup {"line"} => ctx'.len = 0
           /\ r.kind \in ReadKinds => uep0'.rx # "ACK"
           /\ "STALL" \in {uep0'.tx, uep0'.rx} => ~Known(r)
           /\ r.kind = "read" => uep0'.ttog = 1 /\ uep0'.data = Chunk("reply", 0, r.len)
<1>1. uep0 \in Uep0s /\ ctx \in Ctxs /\ TransferType
  BY DEF TypeInv
<1>2. r \in Requests /\ SetupDue /\ dev_addr' = dev_addr
  BY <1>1, TransferCases DEF HandleSetup, SetupDue
<1>3. Begun(r) \in Ctxs /\ Begun(r).ptr = ctx.ptr /\ Begun(r).len = r.len
      /\ Begun(r).kind = r.kind /\ Begun(r).window = ctx.window /\ r.len \in Nat
  BY <1>1, <1>2, BegunType, RequestType DEF Begun, Ctxs
<1>4. /\ r.kind \notin ReadKinds \cup {"line"} => r.len = 0
      /\ r.kind # "descriptor" => r.len <= Packet
  BY <1>2, UsbAssumption
<1>. USE <1>2, <1>3 DEF ReadKinds
<1>5. CASE SetupDescriptor(r)
  <2>1. Known(r) /\ r.kind = "descriptor"
    BY <1>5 DEF SetupDescriptor, Known
  <2>2. uep0'.tx = "ACK" /\ uep0'.rx = "NAK" /\ uep0'.ttog = 0
    BY <1>5 DEF SetupDescriptor, Answer
  <2>3. /\ ctx'.len = Least(r.len, DescLen[r.desc]) /\ ctx'.ptr = [desc |-> r.desc, off |-> 0]
        /\ ctx'.kind = r.kind /\ ctx'.window = ctx.window
    BY <1>5 DEF SetupDescriptor, Ctxs
  <2>4. QED
    BY <2>1, <2>2, <2>3
<1>6. CASE SetupStall(r)
  <2>1. ~Known(r) /\ r.kind \in {"halt", "descriptor"} /\ ctx' = Begun(r)
    BY <1>6 DEF SetupStall, Known
  <2>2. uep0'.ttog = 1 /\ uep0'.rtog = 1 /\ uep0'.rx = "STALL"
    BY <1>1, <1>6 DEF SetupStall, Stall, Uep0s
  <2>3. QED
    BY <1>4, <2>1, <2>2
<1>7. CASE SetupRead(r)
  <2>0. r.kind = "read" /\ ~Known(r)
    BY <1>7 DEF SetupRead, Known
  <2>1. ctx'.kind = r.kind /\ ctx'.window = ctx.window /\ ctx'.ptr = ctx.ptr
    BY <1>7 DEF SetupRead, Ctxs
  <2>2. Least(r.len, Packet) = r.len
    BY <1>4, <2>0, ConstantsType DEF Least
  <2>3. uep0' = Answer(1, Chunk("reply", 0, r.len))
    BY <1>7, <2>2 DEF SetupRead
  <2>4. uep0'.ttog = 1 /\ uep0'.tx = "ACK" /\ uep0'.rx = "NAK"
        /\ uep0'.data = Chunk("reply", 0, r.len)
    BY <2>3 DEF Answer
  <2>5. QED
    BY <2>0, <2>1, <2>4
<1>8. CASE SetupAddress(r)
  <2>0. r.kind = "address" /\ ~Known(r)
    BY <1>8 DEF SetupAddress, Known
  <2>1. ctx'.kind = r.kind /\ ctx'.window = ctx.window /\ ctx'.ptr = ctx.ptr
        /\ ctx'.len = r.len /\ ctx'.addr = 1
    BY <1>8 DEF SetupAddress, Ctxs
  <2>2. uep0'.ttog = 1 /\ uep0'.tx = "ACK" /\ uep0'.rx = "NAK" /\ uep0'.rtog = 1
    BY <1>8 DEF SetupAddress, Status, Answer
  <2>3. QED
    BY <1>4, <2>0, <2>1, <2>2
<1>9. CASE SetupConfiguration(r)
  <2>0. r.kind = "configuration" /\ ~Known(r)
    BY <1>9 DEF SetupConfiguration, Known
  <2>1. ctx'.kind = r.kind /\ ctx'.window = ctx.window /\ ctx'.ptr = ctx.ptr
        /\ ctx'.len = r.len
    BY <1>9 DEF SetupConfiguration, Ctxs
  <2>2. uep0'.ttog = 1 /\ uep0'.tx = "ACK" /\ uep0'.rx = "NAK" /\ uep0'.rtog = 1
    BY <1>9 DEF SetupConfiguration, Status, Answer
  <2>3. QED
    BY <1>4, <2>0, <2>1, <2>2
<1>10. CASE SetupStatusOnly(r)
  <2>0. r.kind \in {"interface", "state"} /\ ~Known(r)
    BY <1>10 DEF SetupStatusOnly, Known
  <2>1. ctx'.kind = r.kind /\ ctx'.window = ctx.window /\ ctx'.ptr = ctx.ptr
        /\ ctx'.len = 0
    BY <1>10 DEF SetupStatusOnly, Ctxs
  <2>2. uep0'.ttog = 1 /\ uep0'.tx = "ACK" /\ uep0'.rx = "NAK" /\ uep0'.rtog = 1
    BY <1>10 DEF SetupStatusOnly, Status, Answer
  <2>3. QED
    BY <2>0, <2>1, <2>2
<1>11. CASE SetupLine(r)
  <2>0. r.kind = "line" /\ ~Known(r)
    BY <1>11 DEF SetupLine, Known
  <2>1. ctx'.kind = r.kind /\ ctx'.window = ctx.window /\ ctx'.ptr = Advanced(ctx.ptr, r.len)
    BY <1>11 DEF SetupLine, Ctxs
  <2>2. uep0'.ttog = 1 /\ uep0'.tx = "NAK" /\ uep0'.rx = "ACK" /\ uep0'.rtog = 1
    BY <1>1, <1>11 DEF SetupLine, Uep0s
  <2>3. QED
    BY <2>0, <2>1, <2>2 DEF Advanced
<1>12. CASE SetupAsk(r)
  <2>0. r.kind = "ask" /\ ~Known(r)
    BY <1>12 DEF SetupAsk, Known
  <2>1. ctx' = [Begun(r) EXCEPT !.len = @ - Least(r.len, Packet), !.ptr = Advanced(@, r.len)]
    BY <1>12 DEF SetupAsk
  <2>2. ctx'.kind = r.kind /\ ctx'.window = ctx.window /\ ctx'.ptr = Advanced(ctx.ptr, r.len)
    BY <2>1 DEF Ctxs
  <2>3. uep0'.tx = "ACK" /\ uep0'.rx = "NAK"
    BY <1>12 DEF SetupAsk, Answer
  <2>4. QED
    BY <2>0, <2>2, <2>3 DEF Advanced
<1>13. QED
  BY <1>5, <1>6, <1>7, <1>8, <1>9, <1>10, <1>11, <1>12 DEF HandleSetup

LEMMA In0Effect ==
    ASSUME TypeInv, HandleIn0
    PROVE  /\ In0Due
           /\ ctx'.kind = ctx.kind /\ ctx'.addr = ctx.addr /\ ~ctx'.window
           /\ uep0'.tx = uep0.tx
           /\ ctx.len = 0 => uep0'.rx = "ACK" /\ uep0'.rtog = 1
           /\ ctx.len # 0 => uep0'.rx = uep0.rx /\ uep0'.rtog = uep0.rtog
           /\ ctx.ptr = NoPtr =>
                /\ ctx'.len = ctx.len /\ ctx'.ptr = NoPtr
                /\ uep0'.ttog = uep0.ttog /\ uep0'.data = uep0.data
                /\ dev_addr' = IF ctx.kind = "address" THEN ctx.addr ELSE dev_addr
           /\ ctx.ptr # NoPtr =>
                /\ ctx'.len = ctx.len - Least(ctx.len, Packet)
                /\ ctx'.ptr = IF ctx.len > Least(ctx.len, Packet)
                              THEN Advanced(ctx.ptr, Least(ctx.len, Packet)) ELSE NoPtr
                /\ uep0'.data = At(ctx.ptr, Least(ctx.len, Packet))
                /\ uep0'.ttog = 1 - uep0.ttog
                /\ dev_addr' = dev_addr
<1>1. uep0 \in Uep0s /\ ctx \in Ctxs /\ ctx.len \in Nat
  BY ControlTypes
<1>2. /\ StatusOpened(uep0) \in Uep0s /\ StatusOpened(uep0).data = uep0.data
      /\ StatusOpened(uep0).ttog = uep0.ttog /\ StatusOpened(uep0).tx = uep0.tx
      /\ ctx.len = 0 => StatusOpened(uep0).rx = "ACK" /\ StatusOpened(uep0).rtog = 1
      /\ ctx.len # 0 => StatusOpened(uep0).rx = uep0.rx /\ StatusOpened(uep0).rtog = uep0.rtog
  BY <1>1, OpenedType DEF StatusOpened, Uep0s
<1>3. /\ WindowOver \in Ctxs /\ WindowOver.len = ctx.len /\ WindowOver.ptr = ctx.ptr
      /\ WindowOver.kind = ctx.kind /\ WindowOver.addr = ctx.addr /\ ~WindowOver.window
  BY <1>1 DEF WindowOver, Ctxs
<1> DEFINE n == Least(ctx.len, Packet)
<1>4. CASE ctx.ptr # NoPtr
  <2>1. /\ uep0' = [StatusOpened(uep0) EXCEPT !.data = At(ctx.ptr, n), !.ttog = 1 - @]
        /\ ctx' = [WindowOver EXCEPT !.len = @ - n,
                     !.ptr = IF ctx.len > n THEN Advanced(@, n) ELSE NoPtr]
        /\ dev_addr' = dev_addr
    BY <1>4 DEF HandleIn0
  <2> HIDE DEF n
  <2>2. /\ uep0'.data = At(ctx.ptr, n) /\ uep0'.ttog = 1 - uep0.ttog /\ uep0'.tx = uep0.tx
        /\ uep0'.rx = StatusOpened(uep0).rx /\ uep0'.rtog = StatusOpened(uep0).rtog
    BY <1>2, <2>1 DEF Uep0s
  <2>3. /\ ctx'.len = ctx.len - n
        /\ ctx'.ptr = IF ctx.len > n THEN Advanced(ctx.ptr, n) ELSE NoPtr
        /\ ctx'.kind = ctx.kind /\ ctx'.addr = ctx.addr /\ ~ctx'.window
    BY <1>3, <2>1 DEF Ctxs
  <2>4. QED
    BY <1>2, <1>4, <2>1, <2>2, <2>3 DEF n, HandleIn0, In0Due
<1>5. CASE ctx.ptr = NoPtr
  <2>1. /\ uep0' = StatusOpened(uep0) /\ ctx' = WindowOver
        /\ dev_addr' = IF ctx.kind = "address" THEN ctx.addr ELSE dev_addr
    BY <1>5 DEF HandleIn0
  <2>2. QED
    BY <1>2, <1>3, <1>5, <2>1 DEF HandleIn0, In0Due
<1>6. QED
  BY <1>4, <1>5

LEMMA Out0Effect ==
    ASSUME TypeInv, HandleOut0
    PROVE  /\ Out0Due /\ dev_addr' = dev_addr
           /\ ctx'.kind = ctx.kind /\ ctx'.addr = ctx.addr /\ ctx'.ptr = ctx.ptr
           /\ uep0'.rx = uep0.rx /\ uep0'.rtog = uep0.rtog
           /\ uep0.rtog = 1 =>
                /\ ctx'.len = 0
                /\ ctx'.window <=> ctx.window \/ ctx.kind \notin ReadKinds
                /\ uep0'.tx = "ACK" /\ uep0'.ttog = 1
           /\ uep0.rtog # 1 => ctx' = ctx /\ uep0' = uep0
<1>1. uep0 \in Uep0s /\ ctx \in Ctxs /\ TransferType
  BY ControlTypes
<1>2. transfer.tog = 1 /\ Out0Due /\ dev_addr' = dev_addr
  BY <1>1, TransferCases DEF HandleOut0, Out0Due
<1>3. CASE uep0.rtog = 1
  <2>1. /\ ctx' = [ctx EXCEPT !.len = 0, !.window = @ \/ ctx.kind \notin ReadKinds]
        /\ uep0' = [uep0 EXCEPT !.tx = "ACK", !.ttog = 1, !.data = <<>>]
    BY <1>2, <1>3 DEF HandleOut0
  <2>2. /\ uep0'.rx = uep0.rx /\ uep0'.rtog = uep0.rtog
        /\ uep0'.tx = "ACK" /\ uep0'.ttog = 1
    BY <1>1, <2>1 DEF Uep0s
  <2>3. /\ ctx'.len = 0 /\ ctx'.kind = ctx.kind /\ ctx'.addr = ctx.addr /\ ctx'.ptr = ctx.ptr
        /\ ctx'.window <=> ctx.window \/ ctx.kind \notin ReadKinds
    BY <1>1, <2>1 DEF Ctxs
  <2>4. QED
    BY <1>2, <1>3, <2>2, <2>3
<1>4. CASE uep0.rtog # 1
  BY <1>2, <1>4 DEF HandleOut0
<1>5. QED
  BY <1>3, <1>4

LEMMA CompletedFields ==
    ASSUME host \in Hosts, NEW heard \in BOOLEAN
    PROVE  LET h == Completed(heard) IN
           /\ h.stage = "idle" /\ h.done /\ (h.torn <=> ~heard)
           /\ host.req.kind = "address" =>
                h.addr = 1 /\ (h.astray <=> host.torn \/ ~heard)
           /\ host.req.kind # "address" => h.addr = host.addr /\ (h.astray <=> host.astray)
           /\ host.req.kind = "configuration" => h.cfg /\ h.tog3 = 0
           /\ host.req.kind # "configuration" => h.cfg = host.cfg /\ h.tog3 = host.tog3
           /\ h.again = host.again
<1> DEFINE h == Ended(TRUE, ~heard)
<1>1. h \in Hosts
  BY EndedType
<1>2. /\ h.stage = "idle" /\ h.done /\ (h.torn <=> ~heard)
      /\ h.addr = host.addr /\ h.astray = host.astray
      /\ h.cfg = host.cfg /\ h.tog3 = host.tog3 /\ h.again = host.again
  BY DEF Ended, Hosts
<1>3. Completed(heard) =
          IF host.req.kind = "address"
          THEN [h EXCEPT !.addr = 1, !.astray = host.torn \/ ~heard]
          ELSE IF host.req.kind = "configuration" THEN [h EXCEPT !.cfg = TRUE, !.tog3 = 0]
          ELSE h
  BY DEF Completed
<1> HIDE DEF h
<1>4. CASE host.req.kind = "address"
  BY <1>1, <1>2, <1>3, <1>4 DEF Hosts
<1>5. CASE host.req.kind = "configuration"
  BY <1>1, <1>2, <1>3, <1>5 DEF Hosts
<1>6. CASE host.req.kind \notin {"address", "configuration"}
  BY <1>1, <1>2, <1>3, <1>6
<1>7. QED
  BY <1>4, <1>5, <1>6

LEMMA TakeDataFields ==
    ASSUME host \in Hosts, NEW heard \in BOOLEAN, host.stage = "in"
    PROVE  LET h == TakeData(heard) IN
           /\ h.stage \in {"in", "statusOut"} /\ h.req = host.req
           /\ h.done = host.done /\ h.torn = host.torn
           /\ h.addr = host.addr /\ h.astray = host.astray
           /\ h.cfg = host.cfg /\ h.tog3 = host.tog3 /\ h.again = host.again
           /\ uep0.ttog # host.tog => h.stage = "in" /\ h.got = host.got /\ h.tog = host.tog
           /\ uep0.ttog = host.tog =>
                /\ h.got = host.got \o uep0.data /\ h.tog = 1 - host.tog
                /\ h.stage = IF \/ Len(host.got \o uep0.data) >= host.req.len
                                \/ Len(uep0.data) < Packet
                             THEN "statusOut" ELSE "in"
<1>1. CASE uep0.ttog # host.tog
  <2>1. TakeData(heard) = [host EXCEPT !.deaf = host.deaf \/ ~heard]
    BY <1>1 DEF TakeData
  <2>2. QED
    BY <1>1, <2>1 DEF Hosts
<1>2. CASE uep0.ttog = host.tog
  <2> DEFINE got == host.got \o uep0.data
             st == IF Len(got) >= host.req.len \/ Len(uep0.data) < Packet
                   THEN "statusOut" ELSE "in"
  <2>1. TakeData(heard) = [host EXCEPT !.got = got, !.tog = 1 - @,
                             !.deaf = host.deaf \/ ~heard, !.stage = st]
    BY <1>2 DEF TakeData
  <2>2. st \in {"in", "statusOut"}
    OBVIOUS
  <2>3. st = IF \/ Len(host.got \o uep0.data) >= host.req.len
                \/ Len(uep0.data) < Packet
             THEN "statusOut" ELSE "in"
    OBVIOUS
  <2> HIDE DEF got, st
  <2>4. QED
    BY <1>2, <2>1, <2>2, <2>3 DEF Hosts, got
<1>3. QED
  BY <1>1, <1>2

-----------------------------------------------------------------------------
(* Control transfers: each step keeps ControlInv. *)

LEMMA TokenOne ==
    ASSUME TransferType
    PROVE  /\ ~(SetupDue /\ In0Due) /\ ~(SetupDue /\ Out0Due) /\ ~(In0Due /\ Out0Due)
           /\ Quiet => ~SetupDue /\ ~In0Due /\ ~Out0Due /\ ~In3Due /\ ~Out2Due /\ ~bus_rst
           /\ In3Due \/ Out2Due => ~SetupDue /\ ~In0Due /\ ~Out0Due
BY DEF TransferType, SetupDue, In0Due, Out0Due, In3Due, Out2Due, Quiet, None

LEMMA NoneDue ==
    ASSUME transfer' = None
    PROVE  ~SetupDue' /\ ~In0Due' /\ ~Out0Due' /\ ~In3Due' /\ ~Out2Due'
BY DEF SetupDue, In0Due, Out0Due, In3Due, Out2Due, None

LEMMA ControlSetup ==
    ASSUME TypeInv, ControlInv, HandleTransfer, HandleSetup
    PROVE  ControlInv'
<1>1. /\ transfer' = None /\ bus_rst' = bus_rst /\ host' = host
      /\ ~SetupDue' /\ ~In0Due' /\ ~Out0Due'
  BY NoneDue DEF HandleTransfer
<1> DEFINE r == transfer.req
<1>2. /\ r \in Requests /\ SetupDue /\ dev_addr' = dev_addr
      /\ ctx'.kind = r.kind /\ ctx'.window = ctx.window
      /\ r.kind = "address" => ctx'.addr = 1
      /\ ~Known(r) /\ ctx.ptr = NoPtr => ctx'.ptr = NoPtr
      /\ r.kind \notin ReadKinds => uep0'.ttog = 1 /\ uep0'.rtog = 1
      /\ r.kind \notin ReadKinds \cup {"line"} => ctx'.len = 0
      /\ r.kind \in ReadKinds => uep0'.rx # "ACK"
      /\ "STALL" \in {uep0'.tx, uep0'.rx} => ~Known(r)
  BY SetupEffect
<1>3. ~In0Due /\ ~Out0Due
  BY <1>2, ControlTypes, TokenOne
<1>4. CASE bus_rst
  <2>1. host.stage = "idle" /\ host.addr = 0 /\ ~host.cfg /\ host.torn
    BY <1>2, <1>4 DEF ControlInv, StageInv, RestInv
  <2>2. QED
    BY <1>1, <1>4, <2>1 DEF ControlInv, StageInv, AskedInv, RestInv, AddressInv, Asked, Open
<1>5. CASE ~bus_rst
  <2>1. /\ host.stage = FirstStage(r) /\ host.req = r /\ host.got = <<>> /\ host.tog = 1
        /\ ~host.torn => ctx.ptr = NoPtr
    BY <1>2, <1>5 DEF ControlInv, StageInv, RestInv
  <2>2. host.stage \in Open
    BY <2>1 DEF FirstStage, Open
  <2>3. StageInv'
    BY <1>1, <1>5, <2>1, <2>2 DEF ControlInv, StageInv, Open
  <2>4. AskedInv'
    BY <1>1, <1>2, <2>1 DEF AskedInv, FirstStage, ReadKinds
  <2>5. RestInv'
    BY <1>1, <2>2 DEF RestInv, Open
  <2>6. AddressInv'
    BY <1>1, <1>2, <1>3, <1>5 DEF ControlInv, AddressInv
  <2>7. QED
    BY <2>3, <2>4, <2>5, <2>6 DEF ControlInv
<1>6. QED
  BY <1>4, <1>5

LEMMA NothingLeft == Least(0, Packet) = 0
BY ConstantsType DEF Least

LEMMA ControlIn0 ==
    ASSUME TypeInv, ControlInv, HandleTransfer, HandleIn0
    PROVE  ControlInv'
<1>1. /\ transfer' = None /\ bus_rst' = bus_rst /\ host' = host
      /\ ~SetupDue' /\ ~In0Due' /\ ~Out0Due'
  BY NoneDue DEF HandleTransfer
<1>2. In0Due /\ ~SetupDue /\ ~Out0Due /\ ctx.len \in Nat
  BY In0Effect, ControlTypes, TokenOne
<1>3. /\ ctx'.kind = ctx.kind /\ ctx'.addr = ctx.addr /\ ~ctx'.window
      /\ uep0'.tx = uep0.tx
      /\ ctx.len # 0 => uep0'.rx = uep0.rx
      /\ ctx.len = 0 => uep0'.rx = "ACK" /\ ctx'.len = 0 /\ ctx'.ptr = NoPtr
      /\ ctx.ptr = NoPtr =>
           /\ ctx'.len = ctx.len /\ ctx'.ptr = NoPtr
           /\ dev_addr' = IF ctx.kind = "address" THEN ctx.addr ELSE dev_addr
      /\ ctx.ptr # NoPtr => dev_addr' = dev_addr
  BY In0Effect, NothingLeft
<1>4. host.stage \in {"in", "statusOut", "idle"}
  BY <1>2 DEF ControlInv, StageInv
<1>5. StageInv'
  BY <1>1 DEF ControlInv, StageInv
<1>6. AskedInv'
  BY <1>1, <1>2, <1>3, <1>4 DEF ControlInv, AskedInv, Asked
<1>7. RestInv'
  BY <1>1, <1>2, <1>3, <1>4 DEF ControlInv, RestInv
<1>8. AddressInv'
  <2>1. host.stage # "idle" => ctx.kind # "address"
    BY <1>2, <1>4 DEF ControlInv, StageInv, AskedInv, Asked, Open, ReadKinds
  <2>2. QED
    BY <1>1, <1>2, <1>3, <1>4, <2>1 DEF ControlInv, AddressInv
<1>9. QED
  BY <1>5, <1>6, <1>7, <1>8 DEF ControlInv

LEMMA ControlOut0 ==
    ASSUME TypeInv, ControlInv, HandleTransfer, HandleOut0
    PROVE  ControlInv'
<1>1. /\ transfer' = None /\ bus_rst' = bus_rst /\ host' = host
      /\ ~SetupDue' /\ ~In0Due' /\ ~Out0Due'
  BY NoneDue DEF HandleTransfer
<1>2. Out0Due /\ ~SetupDue /\ ~In0Due /\ dev_addr' = dev_addr
  BY Out0Effect, ControlTypes, TokenOne
<1>3. /\ ctx'.kind = ctx.kind /\ ctx'.addr = ctx.addr /\ ctx'.ptr = ctx.ptr
      /\ uep0'.rx = uep0.rx /\ uep0'.rtog = uep0.rtog
      /\ uep0.rtog = 1 =>
           /\ ctx'.len = 0
           /\ ctx'.window <=> ctx.window \/ ctx.kind \notin ReadKinds
           /\ uep0'.tx = "ACK" /\ uep0'.ttog = 1
      /\ uep0.rtog # 1 => ctx' = ctx /\ uep0' = uep0
  BY Out0Effect
<1>4. host.stage \in {"out", "statusIn", "statusOut", "idle"}
  BY <1>2 DEF ControlInv, StageInv
<1>5. StageInv'
  BY <1>1 DEF ControlInv, StageInv
<1>6. AskedInv'
  <2> SUFFICES ASSUME Asked' PROVE AskedInv'
    BY DEF AskedInv
  <2>1. Asked /\ ctx.kind = host.req.kind
    BY <1>1, <1>2 DEF ControlInv, AskedInv, Asked
  <2>2. CASE host.stage \in {"out", "statusIn"}
    <3>1. uep0.rtog = 1 /\ host.tog = 1 /\ ctx.kind \notin ReadKinds
      BY <2>1, <2>2 DEF ControlInv, AskedInv, StageInv, ReadKinds
    <3>2. QED
      BY <1>1, <1>3, <2>1, <2>2, <3>1 DEF ControlInv, AskedInv
  <2>3. CASE host.stage = "statusOut"
    <3>1. ctx.kind \in ReadKinds
      BY <2>1, <2>3 DEF ControlInv, StageInv
    <3>2. QED
      BY <1>1, <1>3, <2>1, <2>3, <3>1 DEF ControlInv, AskedInv
  <2>4. QED
    BY <1>1, <1>4, <2>2, <2>3 DEF Asked, Open
<1>7. RestInv'
  BY <1>1, <1>2, <1>3, <1>4 DEF ControlInv, RestInv
<1>8. AddressInv'
  BY <1>1, <1>2 DEF ControlInv, AddressInv
<1>9. QED
  BY <1>5, <1>6, <1>7, <1>8 DEF ControlInv

(* Steps of the data endpoints and of the main loop. *)
LEMMA ControlAside ==
    ASSUME ControlInv, UNCHANGED <<uep0, dev_addr, ctx, bus_rst>>,
           ~SetupDue, ~In0Due, ~Out0Due, ~SetupDue', ~In0Due', ~Out0Due',
           host'.stage = host.stage, host'.req = host.req, host'.got = host.got,
           host'.tog = host.tog, host'.addr = host.addr, host'.cfg = host.cfg,
           host'.done = host.done, host'.torn = host.torn, host'.astray = host.astray
    PROVE  ControlInv'
<1>1. StageInv' /\ AskedInv'
  BY DEF ControlInv, StageInv, AskedInv, Asked
<1>2. RestInv' /\ AddressInv'
  BY DEF ControlInv, RestInv, AddressInv
<1>3. QED
  BY <1>1, <1>2 DEF ControlInv

LEMMA ControlKept ==
    ASSUME ControlInv, UNCHANGED <<uep0, dev_addr, ctx, bus_rst, transfer, host>>
    PROVE  ControlInv'
BY DEF ControlInv, StageInv, AskedInv, RestInv, AddressInv, Asked, SetupDue, In0Due, Out0Due

LEMMA ControlReset == ASSUME TypeInv, ControlInv, HandleReset PROVE ControlInv'
<1>1. /\ bus_rst /\ ~bus_rst' /\ transfer' = None /\ host' = host /\ dev_addr' = 0
      /\ ~SetupDue' /\ ~In0Due' /\ ~Out0Due' /\ ~SetupDue /\ ~In0Due /\ ~Out0Due
  BY NoneDue DEF HandleReset, SetupDue, In0Due, Out0Due, None
<1>2. ctx'.len = ctx.len /\ ctx'.ptr = ctx.ptr /\ ctx'.window = ctx.window
  <2>1. ctx' = [ctx EXCEPT !.cfg = FALSE, !.addr = 0] /\ ctx \in Ctxs
    BY ControlTypes DEF HandleReset
  <2>2. QED
    BY <2>1 DEF Ctxs
<1>3. host.stage = "idle" /\ host.addr = 0 /\ ~host.cfg
  BY <1>1 DEF ControlInv, StageInv
<1>4. RestInv'
  BY <1>1, <1>2, <1>3 DEF ControlInv, RestInv
<1>5. QED
  BY <1>1, <1>3, <1>4 DEF ControlInv, StageInv, AskedInv, AddressInv, Asked, Open

LEMMA ControlHandler ==
    ASSUME TypeInv, ControlInv, HandleTransfer PROVE ControlInv'
<1>1. CASE HandleIn3 \/ HandleOut2
  <2>1. In3Due \/ Out2Due
    BY <1>1 DEF HandleIn3, HandleOut2, In3Due, Out2Due
  <2>2. UNCHANGED <<uep0, dev_addr, ctx, bus_rst, host>> /\ transfer' = None
    BY <1>1 DEF HandleTransfer, HandleIn3, HandleOut2, device
  <2>3. QED
    BY <2>1, <2>2, ControlTypes, TokenOne, NoneDue, ControlAside
<1>2. QED
  BY <1>1, ControlSetup, ControlIn0, ControlOut0 DEF HandleTransfer

LEMMA ControlHostSetup ==
    ASSUME TypeInv, ControlInv, NEW r \in Requests, HostSetup(r)
    PROVE  ControlInv'
<1>1. /\ Quiet /\ host.stage = "idle" /\ ~bus_rst' /\ transfer = None
      /\ UNCHANGED <<uep0, dev_addr, ctx, bus_rst>>
  BY DEF HostSetup, Bus, device, Quiet
<1>2. ~SetupDue /\ ~In0Due /\ ~Out0Due /\ ~bus_rst /\ host \in Hosts
  BY <1>1, ControlTypes, TokenOne
<1>3. ~host.torn => ctx.ptr = NoPtr
  BY <1>1, <1>2 DEF ControlInv, RestInv
<1>4. CASE host.addr = dev_addr
  <2>1. host' = [host EXCEPT !.stage = FirstStage(r), !.req = r, !.got = <<>>,
                             !.tog = 1, !.deaf = FALSE]
        /\ transfer' = [token |-> "setup", req |-> r]
    BY <1>4 DEF HostSetup
  <2>2. /\ SetupDue' /\ transfer'.req = r /\ ~In0Due' /\ ~Out0Due'
    BY <2>1 DEF SetupDue, In0Due, Out0Due
  <2>3. /\ host'.stage = FirstStage(r) /\ host'.req = r /\ host'.got = <<>> /\ host'.tog = 1
        /\ host'.addr = host.addr /\ host'.astray = host.astray /\ host'.torn = host.torn
    BY <1>2, <2>1 DEF Hosts
  <2>4. /\ host'.stage = "in" <=> r.kind \in ReadKinds
        /\ host'.stage = "out" <=> r.kind = "line"
        /\ host'.stage \in {"in", "out", "statusIn"}
    BY <2>3 DEF FirstStage, ReadKinds
  <2>5. StageInv'
    BY <1>1, <2>2, <2>3, <2>4 DEF StageInv
  <2>6. AskedInv'
    BY <2>2 DEF AskedInv, Asked
  <2>7. RestInv'
    BY <1>1, <1>3, <2>3, <2>4 DEF RestInv
  <2>8. AddressInv'
    BY <1>1, <1>4, <2>2, <2>3 DEF AddressInv
  <2>9. QED
    BY <2>5, <2>6, <2>7, <2>8 DEF ControlInv
<1>5. CASE host.addr # dev_addr
  <2>1. host' = [host EXCEPT !.stage = "lost"] /\ transfer' = None
    BY <1>1, <1>5 DEF HostSetup
  <2>2. ~SetupDue' /\ ~In0Due' /\ ~Out0Due'
    BY <2>1, NoneDue
  <2>3. /\ host'.stage = "lost"
        /\ host'.addr = host.addr /\ host'.astray = host.astray /\ host'.torn = host.torn
    BY <1>2, <2>1 DEF Hosts
  <2>4. RestInv'
    BY <1>1, <1>3, <2>2, <2>3 DEF RestInv
  <2>5. AddressInv'
    BY <1>1, <1>2, <2>2, <2>3 DEF ControlInv, AddressInv
  <2>6. QED
    BY <1>1, <2>2, <2>3, <2>4, <2>5 DEF ControlInv, StageInv, AskedInv, Asked, Open
<1>6. QED
  BY <1>4, <1>5

(* A stall: the host ends the transfer. *)
LEMMA ControlStalled ==
    ASSUME TypeInv, ControlInv, Quiet, host.stage \in Open, "STALL" \in {uep0.tx, uep0.rx},
           UNCHANGED <<uep0, dev_addr, ctx, bus_rst, transfer>>,
           host' = Ended(FALSE, host.torn)
    PROVE  ControlInv'
<1>1. ~SetupDue /\ ~In0Due /\ ~Out0Due /\ ~bus_rst /\ host \in Hosts
  BY ControlTypes, TokenOne
<1>2. ~SetupDue' /\ ~In0Due' /\ ~Out0Due'
  BY NoneDue DEF Quiet
<1>3. /\ host'.stage = "idle" /\ host'.done = FALSE /\ host'.torn = host.torn
      /\ host'.addr = host.addr /\ host'.astray = host.astray
  BY <1>1 DEF Ended, Hosts
<1>4. ~host.torn => ctx.ptr = NoPtr
  BY <1>1 DEF ControlInv, AskedInv, Asked
<1>5. RestInv'
  BY <1>1, <1>2, <1>3, <1>4 DEF RestInv
<1>6. AddressInv'
  BY <1>1, <1>2, <1>3 DEF ControlInv, AddressInv
<1>7. QED
  BY <1>1, <1>2, <1>3, <1>5, <1>6 DEF ControlInv, StageInv, AskedInv, Asked, Open

(* The status stage of a transfer from the host: the device is about to be told. *)
LEMMA ControlStatusIn ==
    ASSUME TypeInv, ControlInv, Quiet, host.stage = "statusIn", host.addr = dev_addr,
           NEW heard \in BOOLEAN, Raise(heard, [token |-> "in", ep |-> 0]),
           UNCHANGED <<uep0, dev_addr, ctx, bus_rst>>, host' = Completed(heard)
    PROVE  ControlInv'
<1>1. ~SetupDue /\ ~In0Due /\ ~Out0Due /\ ~bus_rst /\ host \in Hosts /\ Asked
  BY ControlTypes, TokenOne DEF Asked, Open
<1>2. /\ ctx.kind = host.req.kind /\ ctx.len = 0
      /\ ctx.kind = "address" => ctx.addr = 1
      /\ ~host.torn /\ ~Known(host.req) => ctx.ptr = NoPtr
  BY <1>1 DEF ControlInv, AskedInv
<1>3. ~SetupDue' /\ ~Out0Due' /\ (heard <=> In0Due')
  BY DEF Raise, SetupDue, Out0Due, In0Due, None
<1>4. /\ host'.stage = "idle" /\ host'.done /\ (host'.torn <=> ~heard)
      /\ host.req.kind = "address" => host'.addr = 1 /\ (host'.astray <=> host.torn \/ ~heard)
      /\ host.req.kind # "address" => host'.addr = host.addr /\ (host'.astray <=> host.astray)
  BY <1>1, CompletedFields
<1>5. StageInv' /\ AskedInv'
  BY <1>1, <1>3, <1>4 DEF StageInv, AskedInv, Asked, Open
<1>6. RestInv'
  BY <1>2, <1>3, <1>4 DEF RestInv
<1>7. AddressInv'
  BY <1>1, <1>2, <1>3, <1>4 DEF AddressInv, Known
<1>8. QED
  BY <1>5, <1>6, <1>7 DEF ControlInv

LEMMA ControlHostIn0 == ASSUME TypeInv, ControlInv, HostIn0 PROVE ControlInv'
<1>1. /\ Quiet /\ host.stage \in {"in", "statusIn"} /\ host.addr = dev_addr
      /\ UNCHANGED <<uep0, dev_addr, ctx, bus_rst>>
  BY DEF HostIn0, Bus, device
<1>2. ~SetupDue /\ ~In0Due /\ ~Out0Due /\ ~bus_rst /\ host \in Hosts /\ Asked
  BY <1>1, ControlTypes, TokenOne DEF Asked, Open
<1>3. CASE uep0.tx = "STALL" /\ host' = Ended(FALSE, host.torn)
           /\ UNCHANGED <<transfer, faults>>
  BY <1>1, <1>3, ControlStalled DEF Open
<1>4. ASSUME NEW heard \in Heard,
             host' = IF host.stage = "in" THEN TakeData(heard)
                     ELSE IF uep0.ttog = host.tog THEN Completed(heard)
                     ELSE host,
             Raise(heard, [token |-> "in", ep |-> 0]), Counted(heard)
      PROVE  ControlInv'
  <2>1. heard \in BOOLEAN
    BY <1>4, HeardType
  <2>2. CASE host.stage = "statusIn"
    <3>1. uep0.ttog = host.tog
      BY <1>2, <2>2 DEF ControlInv, AskedInv
    <3>2. host' = Completed(heard)
      BY <1>4, <2>2, <3>1
    <3>3. QED
      BY <1>1, <1>4, <2>1, <2>2, <3>2, ControlStatusIn
  <2>3. CASE host.stage = "in"
    <3>1. /\ host'.stage \in {"in", "statusOut"} /\ host'.req = host.req
          /\ host'.torn = host.torn /\ host'.addr = host.addr /\ host'.astray = host.astray
      BY <1>2, <1>4, <2>1, <2>3, TakeDataFields
    <3>2. ~SetupDue' /\ ~Out0Due' /\ (heard <=> In0Due')
      BY <1>4 DEF Raise, SetupDue, Out0Due, In0Due, None
    <3>3. StageInv'
      BY <1>1, <1>2, <2>3, <3>1, <3>2 DEF ControlInv, StageInv
    <3>4. AskedInv'
      BY <1>1, <1>2, <2>3, <3>1, <3>2 DEF ControlInv, AskedInv
    <3>5. RestInv'
      BY <3>1, <3>2 DEF RestInv
    <3>6. AddressInv'
      BY <1>1, <1>2, <3>1, <3>2 DEF AddressInv
    <3>7. QED
      BY <3>3, <3>4, <3>5, <3>6 DEF ControlInv
  <2>4. QED
    BY <1>1, <2>2, <2>3
<1>5. QED
  BY <1>3, <1>4 DEF HostIn0

LEMMA ControlHostOut0 == ASSUME TypeInv, ControlInv, HostOut0 PROVE ControlInv'
<1>1. /\ Quiet /\ host.stage \in {"out", "statusOut"} /\ host.addr = dev_addr
      /\ UNCHANGED <<uep0, dev_addr, ctx, bus_rst>>
  BY DEF HostOut0, Bus, device
<1>2. ~SetupDue /\ ~In0Due /\ ~Out0Due /\ ~bus_rst /\ host \in Hosts /\ Asked
  BY <1>1, ControlTypes, TokenOne DEF Asked, Open
<1>3. CASE uep0.rx = "STALL" /\ host' = Ended(FALSE, host.torn)
           /\ UNCHANGED <<transfer, faults>>
  BY <1>1, <1>3, ControlStalled DEF Open
<1>4. ASSUME NEW heard \in Heard, uep0.rx = "ACK",
             host' = IF ~heard THEN host
                     ELSE IF host.stage = "out" THEN [host EXCEPT !.stage = "statusIn"]
                     ELSE Completed(TRUE),
             transfer' = [token |-> "out", ep |-> 0, tog |-> 1]
      PROVE  ControlInv'
  <2>1. ~SetupDue' /\ Out0Due' /\ ~In0Due'
    BY <1>4 DEF SetupDue, Out0Due, In0Due
  <2>2. CASE host' = host
    BY <1>1, <1>2, <2>1, <2>2
       DEF ControlInv, StageInv, AskedInv, RestInv, AddressInv, Asked, Open
  <2>3. CASE host.stage = "out" /\ host' = [host EXCEPT !.stage = "statusIn"]
    <3>1. /\ host'.stage = "statusIn" /\ host'.req = host.req /\ host'.tog = host.tog
          /\ host'.torn = host.torn /\ host'.addr = host.addr /\ host'.astray = host.astray
      BY <1>2, <2>3 DEF Hosts
    <3>2. StageInv' /\ RestInv' /\ AddressInv'
      BY <1>1, <1>2, <2>1, <2>3, <3>1 DEF ControlInv, StageInv, RestInv, AddressInv, ReadKinds
    <3>3. AskedInv'
      BY <1>1, <1>2, <2>1, <2>3, <3>1 DEF ControlInv, AskedInv
    <3>4. QED
      BY <3>2, <3>3 DEF ControlInv
  <2>4. CASE host.stage = "statusOut" /\ host' = Completed(TRUE)
    <3>1. /\ ctx.kind = host.req.kind /\ ctx.kind \in ReadKinds
          /\ ctx.len = 0 /\ ctx.ptr = NoPtr /\ ~ctx.window
      BY <1>2, <1>4, <2>4 DEF ControlInv, StageInv, AskedInv
    <3>2. /\ host'.stage = "idle" /\ ~host'.torn
          /\ host'.addr = host.addr /\ (host'.astray <=> host.astray)
      BY <1>2, <2>4, <3>1, CompletedFields DEF ReadKinds
    <3>3. StageInv' /\ AskedInv' /\ RestInv'
      BY <1>1, <1>2, <2>1, <3>1, <3>2 DEF StageInv, AskedInv, RestInv, Asked, Open
    <3>4. AddressInv'
      BY <1>1, <1>2, <2>1, <3>2 DEF AddressInv
    <3>5. QED
      BY <3>3, <3>4 DEF ControlInv
  <2>5. QED
    BY <1>1, <1>4, <2>2, <2>3, <2>4
<1>5. QED
  BY <1>3, <1>4 DEF HostOut0

LEMMA ControlHostData == ASSUME TypeInv, ControlInv, HostIn3 \/ HostOut2 PROVE ControlInv'
<1>1. /\ Quiet /\ UNCHANGED <<uep0, dev_addr, ctx, bus_rst>>
  BY DEF HostIn3, HostOut2, Bus, device
<1>2. ~SetupDue /\ ~In0Due /\ ~Out0Due
  BY <1>1, ControlTypes, TokenOne
<1>3. ~SetupDue' /\ ~In0Due' /\ ~Out0Due'
  <2>1. CASE HostIn3
    BY <2>1 DEF HostIn3, Raise, SetupDue, In0Due, Out0Due, None
  <2>2. CASE HostOut2
    <3>1. transfer'.token = "out" /\ transfer'.ep = 2
      BY <2>2 DEF HostOut2
    <3>2. QED
      BY <3>1 DEF SetupDue, In0Due, Out0Due
  <2>3. QED
    BY <2>1, <2>2
<1>4. /\ host'.stage = host.stage /\ host'.req = host.req /\ host'.got = host.got
      /\ host'.tog = host.tog /\ host'.addr = host.addr /\ host'.cfg = host.cfg
      /\ host'.done = host.done /\ host'.torn = host.torn /\ host'.astray = host.astray
  <2>1. \/ host' = host
        \/ host' = [host EXCEPT !.tog3 = 1 - @]
        \/ \E data : host' = [host EXCEPT !.again = data]
    BY DEF HostIn3, HostOut2
  <2>2. QED
    BY <2>1, ControlTypes DEF Hosts
<1>5. QED
  BY <1>1, <1>2, <1>3, <1>4, ControlAside

LEMMA ControlHostRest == ASSUME TypeInv, ControlInv, HostGivesUp \/ HostReset PROVE ControlInv'
<1>1. UNCHANGED <<uep0, dev_addr, ctx, transfer>> /\ host \in Hosts
  BY ControlTypes DEF HostGivesUp, HostReset, Bus, device
<1>2. CASE HostGivesUp
  <2>1. ~SetupDue /\ ~In0Due /\ ~Out0Due /\ ~bus_rst /\ bus_rst' = bus_rst
    BY <1>2, ControlTypes, TokenOne DEF HostGivesUp, Bus
  <2>2. ~SetupDue' /\ ~In0Due' /\ ~Out0Due'
    BY <1>1, <2>1 DEF SetupDue, In0Due, Out0Due
  <2>3. /\ host'.stage = "idle" /\ host'.torn = TRUE
        /\ host'.addr = host.addr /\ host'.astray = host.astray
    BY <1>1, <1>2 DEF HostGivesUp, Ended, Hosts
  <2>4. QED
    BY <1>1, <2>1, <2>2, <2>3
       DEF ControlInv, StageInv, AskedInv, RestInv, AddressInv, Asked, Open
<1>3. CASE HostReset
  <2> DEFINE h == Ended(host.stage = "idle" /\ host.done,
                        host.torn \/ host.stage \notin {"idle", "lost"})
  <2>1. h \in Hosts /\ h.stage = "idle"
    <3>1. host.done \in BOOLEAN /\ host.torn \in BOOLEAN
      BY <1>1 DEF Hosts
    <3>2. (host.stage = "idle" /\ host.done) \in BOOLEAN
          /\ (host.torn \/ host.stage \notin {"idle", "lost"}) \in BOOLEAN
      OBVIOUS
    <3>3. QED
      BY <1>1, <3>2, EndedType
  <2>2. /\ h.done <=> host.stage = "idle" /\ host.done
        /\ h.torn <=> host.torn \/ host.stage \notin {"idle", "lost"}
    BY <1>1 DEF Ended, Hosts
  <2>3. host' = [h EXCEPT !.addr = 0, !.cfg = FALSE, !.again = <<>>, !.astray = FALSE]
        /\ bus_rst'
    BY <1>3 DEF HostReset
  <2> HIDE DEF h
  <2>4. /\ host'.stage = "idle" /\ host'.addr = 0 /\ ~host'.cfg
        /\ host'.done <=> host.stage = "idle" /\ host.done
        /\ host'.torn <=> host.torn \/ host.stage \notin {"idle", "lost"}
    BY <2>1, <2>2, <2>3 DEF Hosts
  <2>5. /\ SetupDue' <=> SetupDue
        /\ In0Due' <=> In0Due
        /\ Out0Due' <=> Out0Due
    BY <1>1 DEF SetupDue, In0Due, Out0Due
  <2>6. RestInv'
    BY <1>1, <2>3, <2>4, <2>5 DEF ControlInv, RestInv
  <2>7. QED
    BY <2>3, <2>4, <2>5, <2>6 DEF ControlInv, StageInv, AskedInv, AddressInv, Asked, Open
<1>4. QED
  BY <1>2, <1>3

LEMMA ControlStep == TypeInv /\ ControlInv /\ [Next]_vars => ControlInv'
<1> SUFFICES ASSUME TypeInv, ControlInv, [Next]_vars PROVE ControlInv'
  OBVIOUS
<1>1. CASE HandleTransfer \/ HandleReset
  BY <1>1, ControlHandler, ControlReset
<1>2. CASE Main \/ UNCHANGED vars
  BY <1>2, MainFrame, ControlKept DEF vars, device
<1>3. CASE Host
  BY <1>3, ControlHostSetup, ControlHostIn0, ControlHostOut0, ControlHostData, ControlHostRest
     DEF Host
<1>4. QED
  BY <1>1, <1>2, <1>3 DEF Next

LEMMA ControlInit == Init => ControlInv
BY DEF Init, ControlInv, StageInv, AskedInv, RestInv, AddressInv, Asked, Open, SetupDue, In0Due,
   Out0Due, None

(* Host and device agree on the address whenever nothing waits for the       *)
(* interrupt, after any number of resets, lost handshakes and abandoned       *)
(* transfers, unless the address was set while a payload pointer of an        *)
(* earlier transfer was left over or the status stage's handshake was lost.   *)
THEOREM UsbAddressAgrees == Spec => []AddressAgrees
<1>1. TypeInv /\ ControlInv => AddressAgrees
  BY ControlTypes, TokenOne DEF ControlInv, AddressInv, AddressAgrees, Quiet
<1>2. QED
  BY <1>1, TypeInit, TypeStep, PollInit, PollStep, ControlInit, ControlStep, PTL DEF Spec

(* The gate that SetupReqLen and the errata flag form is open again after     *)
(* every control transfer that ran to its end, and shut while the status      *)
(* stage of a transfer from the host is due.                                  *)
THEOREM UsbSendGate == Spec => []SendGate
<1>1. TypeInv /\ ControlInv => SendGate
  <2> SUFFICES ASSUME TypeInv, ControlInv, Quiet
               PROVE  /\ host.stage = "idle" /\ host.done /\ ~host.torn =>
                             ~ctx.window /\ ctx.len = 0
                      /\ host.stage = "statusIn" /\ host.req.kind = "line" => ctx.window
    BY DEF SendGate
  <2>1. ~SetupDue /\ ~In0Due /\ ~Out0Due
    BY ControlTypes, TokenOne
  <2>2. host.stage = "idle" /\ host.done /\ ~host.torn => ~ctx.window /\ ctx.len = 0
    BY <2>1 DEF ControlInv, RestInv
  <2>3. host.stage = "statusIn" /\ host.req.kind = "line" => ctx.window
    BY <2>1 DEF ControlInv, AskedInv, Asked, Open
  <2>4. QED
    BY <2>2, <2>3
<1>2. QED
  BY <1>1, TypeInit, TypeStep, PollInit, PollStep, ControlInit, ControlStep, PTL DEF Spec

-----------------------------------------------------------------------------
(* Control reads: chunks of a descriptor. *)

LEMMA ChunkAt ==
    ASSUME NEW d \in Sources, NEW from \in Nat, NEW n \in Nat
    PROVE  \A i \in 1..n : Chunk(d, from, n)[i] = <<d, from + i>>
BY DEF Chunk

LEMMA ChunkJoin ==
    ASSUME NEW d \in Sources, NEW a \in Nat, NEW b \in Nat
    PROVE  Chunk(d, 0, a) \o Chunk(d, a, b) = Chunk(d, 0, a + b)
<1>. DEFINE s == Chunk(d, 0, a)
            t == Chunk(d, a, b)
            u == Chunk(d, 0, a + b)
<1>0. a + b \in Nat /\ 0 \in Nat
  OBVIOUS
<1>1. s \in Seq(Units) /\ Len(s) = a /\ t \in Seq(Units) /\ Len(t) = b
      /\ u \in Seq(Units) /\ Len(u) = a + b
  BY <1>0, ChunkType
<1>2. \A i \in 1..a : s[i] = <<d, 0 + i>>
  BY <1>0, ChunkAt
<1>3. \A i \in 1..b : t[i] = <<d, a + i>>
  BY ChunkAt
<1>4. \A i \in 1..(a + b) : u[i] = <<d, 0 + i>>
  BY <1>0, ChunkAt
<1> HIDE DEF s, t, u
<1>5. s \o t \in Seq(Units) /\ Len(s \o t) = a + b
  BY <1>1
<1>6. ASSUME NEW i \in 1..(a + b) PROVE (s \o t)[i] = u[i]
  <2>1. CASE i <= a
    <3>1. (s \o t)[i] = s[i]
      BY <1>1, <2>1, ConcatProperties
    <3>2. QED
      BY <1>2, <1>4, <2>1, <3>1
  <2>2. CASE i > a
    <3>1. i - a \in 1..b /\ a + (i - a) = 0 + i
      BY <2>2
    <3>2. (s \o t)[i] = t[i - a]
      BY <1>1, <2>2, <3>1, ConcatProperties
    <3>3. t[i - a] = <<d, a + (i - a)>>
      BY <1>3, <3>1
    <3>4. u[i] = <<d, 0 + i>>
      BY <1>4
    <3>5. t[i - a] = <<d, 0 + i>>
      BY <3>1, <3>3
    <3>6. QED
      BY <3>2, <3>4, <3>5, Zenon
  <2>3. i <= a \/ i > a
    OBVIOUS
  <2>4. QED
    BY <2>1, <2>2, <2>3, Zenon
<1>7. s \o t = u
  BY <1>1, <1>5, <1>6, SeqEqual
<1>8. QED
  BY <1>7 DEF s, t, u

LEMMA ChunkPrefix ==
    ASSUME NEW d \in Sources, NEW a \in Nat, NEW b \in Nat, a <= b
    PROVE  IsPrefix(Chunk(d, 0, a), Chunk(d, 0, b))
<1>. DEFINE s == Chunk(d, 0, a)
            u == Chunk(d, 0, b)
<1>1. s \in Seq(Units) /\ Len(s) = a /\ u \in Seq(Units) /\ Len(u) = b
  BY ChunkType
<1>2. \A i \in 1..a : s[i] = <<d, 0 + i>>
  BY ChunkAt
<1>3. \A i \in 1..b : u[i] = <<d, 0 + i>>
  BY ChunkAt
<1>4. \A i \in 1..a : s[i] = u[i]
  BY <1>2, <1>3
<1> HIDE DEF s, u
<1>5. SubSeq(s, 1, a) = SubSeq(u, 1, a)
  <2>1. SubSeq(s, 1, a) \in Seq(Units) /\ Len(SubSeq(s, 1, a)) = a
        /\ SubSeq(u, 1, a) \in Seq(Units) /\ Len(SubSeq(u, 1, a)) = a
    BY <1>1
  <2>2. \A i \in 1..a : SubSeq(s, 1, a)[i] = SubSeq(u, 1, a)[i]
    BY <1>1, <1>4
  <2>3. QED
    BY <2>1, <2>2, SeqEqual
<1>6. QED
  BY <1>1, <1>5 DEF IsPrefix, s, u

LEMMA NoPtrNotKnown ==
    ASSUME NEW r \in Requests, Known(r), NEW n
    PROVE  [desc |-> r.desc, off |-> n] # NoPtr
BY UsbAssumption DEF Known, NoPtr

LEMMA TotalType ==
    ASSUME NEW r \in Requests, Known(r)
    PROVE  /\ Total(r) \in Nat \ {0} /\ Total(r) <= r.len /\ r.desc \in Sources /\ r.len \in Nat
           /\ Promised(r) = Chunk(r.desc, 0, Total(r))
           /\ r.kind = "descriptor"
BY KnownType, RequestType DEF Total, Least, Known, Promised

LEMMA ReadSetup ==
    ASSUME TypeInv, ControlInv, ReadInv, HandleTransfer, HandleSetup
    PROVE  ReadInv'
<1>1. /\ transfer' = None /\ bus_rst' = bus_rst /\ host' = host
      /\ ~SetupDue' /\ ~In0Due' /\ ~Out0Due'
  BY NoneDue DEF HandleTransfer
<1> DEFINE r == transfer.req
<1>2. /\ r \in Requests /\ SetupDue
      /\ Known(r) => /\ ctx'.len = Total(r)
                     /\ ctx'.ptr = [desc |-> r.desc, off |-> 0]
                     /\ uep0'.ttog = 0
      /\ r.kind = "read" => uep0'.ttog = 1 /\ uep0'.data = Chunk("reply", 0, r.len)
  BY SetupEffect DEF Total
<1>3. CASE bus_rst
  <2>1. host.stage = "idle"
    BY <1>3 DEF ControlInv, StageInv
  <2>2. QED
    BY <1>1, <2>1 DEF ReadInv, DescriptorInv, ReplyInv
<1>4. CASE ~bus_rst
  <2>1. host.stage = FirstStage(r) /\ host.req = r /\ host.got = <<>> /\ host.tog = 1
    BY <1>2, <1>4 DEF ControlInv, StageInv
  <2>2. DescriptorInv'
    <3>1. CASE Known(r)
      <4>1. Total(r) \in Nat \ {0} /\ r.desc \in Sources
        BY <1>2, <3>1, TotalType
      <4>2. ctx'.ptr # NoPtr
        BY <1>2, <3>1, NoPtrNotKnown
      <4>3. Sent' = 0
        BY <1>1, <1>2, <2>1, <3>1, <4>1 DEF Sent, Total
      <4>4. Chunk(r.desc, 0, 0) = <<>>
        BY <4>1, ChunkType
      <4>5. QED
        BY <1>1, <1>2, <2>1, <3>1, <4>1, <4>2, <4>3, <4>4 DEF DescriptorInv, Total
    <3>2. CASE ~Known(r)
      BY <1>1, <2>1, <3>2 DEF DescriptorInv
    <3>3. QED
      BY <3>1, <3>2
  <2>3. ReplyInv'
    <3>1. r.kind = "read" => Promised(r) = Chunk("reply", 0, r.len)
      BY DEF Promised
    <3>2. QED
      BY <1>1, <1>2, <2>1, <3>1 DEF ReplyInv
  <2>4. host.stage # "statusOut"
    BY <2>1 DEF FirstStage
  <2>5. QED
    BY <1>1, <2>2, <2>3, <2>4 DEF ReadInv
<1>5. QED
  BY <1>3, <1>4

LEMMA ReadIn0 ==
    ASSUME TypeInv, ControlInv, ReadInv, HandleTransfer, HandleIn0
    PROVE  ReadInv'
<1>1. /\ transfer' = None /\ host' = host /\ ~SetupDue' /\ ~In0Due' /\ ~Out0Due'
  BY NoneDue DEF HandleTransfer
<1>2. In0Due /\ ~SetupDue /\ ctx.len \in Nat
  BY In0Effect, ControlTypes, TokenOne
<1>3. host.stage = "in" => host.req.kind # "read"
  BY <1>2 DEF ReadInv, ReplyInv, Asked, Open
<1>4. DescriptorInv'
  <2> SUFFICES ASSUME host.stage = "in", Known(host.req) PROVE DescriptorInv'
    BY <1>1 DEF DescriptorInv
  <2> DEFINE n == Least(ctx.len, Packet)
             r == host.req
  <2>1. Asked /\ Asked'
    BY <1>1, <1>2 DEF Asked, Open
  <2>2. host.req \in Requests /\ host.tog \in {0, 1} /\ uep0.ttog \in {0, 1}
    BY DEF TypeInv, Hosts, Uep0s, Open
  <2>3. Total(r) \in Nat /\ r.desc \in Sources
    BY <2>2, TotalType
  <2>4. /\ ctx.len <= Total(r)
        /\ ctx.ptr = NoPtr => ctx.len = 0
        /\ ctx.ptr # NoPtr => ctx.len > 0 /\ ctx.ptr.desc = r.desc /\ ctx.ptr.off = Sent
        /\ uep0.ttog # host.tog
        /\ host.got = Chunk(r.desc, 0, Sent)
    BY <1>2, <2>1 DEF ReadInv, DescriptorInv
  <2>5. Sent \in Nat /\ Sent = Total(r) - ctx.len
    BY <1>2, <2>3, <2>4 DEF Sent
  <2>6. Sent' = Total(r) - ctx'.len
    BY <1>1 DEF Sent, Total
  <2>7. CASE ctx.ptr = NoPtr
    <3>1. ctx'.len = ctx.len /\ ctx'.ptr = NoPtr /\ uep0'.ttog = uep0.ttog
      BY <2>7, In0Effect
    <3>2. Sent' = Sent
      BY <2>5, <2>6, <3>1
    <3>3. QED
      BY <1>1, <2>4, <2>7, <3>1, <3>2 DEF DescriptorInv, Total
  <2>8. CASE ctx.ptr # NoPtr
    <3>1. /\ ctx'.len = ctx.len - n
          /\ ctx'.ptr = IF ctx.len > n THEN Advanced(ctx.ptr, n) ELSE NoPtr
          /\ uep0'.data = At(ctx.ptr, n) /\ uep0'.ttog = 1 - uep0.ttog
      BY <2>8, In0Effect
    <3>2. n \in Nat /\ n <= ctx.len /\ n <= Packet /\ (n < Packet => n = ctx.len)
          /\ Packet \in Nat \ {0}
      BY <1>2, ConstantsType DEF Least
    <3>3. n > 0
      BY <1>2, <2>4, <2>8, ConstantsType DEF Least
    <3> HIDE DEF n
    <3>4. Sent' = Sent + n /\ ctx'.len \in Nat /\ ctx'.len <= Total(r)
      BY <1>2, <2>3, <2>4, <2>5, <2>6, <3>1, <3>2
    <3>5. uep0'.ttog = host.tog
      BY <2>2, <2>4, <3>1
    <3>6. uep0'.data = Chunk(r.desc, Sent, n) /\ Len(uep0'.data) = n
      BY <2>3, <2>4, <2>5, <2>8, <3>1, <3>2, ChunkType DEF At
    <3>7. Len(host.got) = Sent
      BY <2>3, <2>4, <2>5, ChunkType
    <3>8. Sent' - Len(host.got) = n /\ Len(host.got) <= Sent'
      BY <2>5, <3>2, <3>4, <3>7
    <3>9. ctx'.ptr = NoPtr => ctx'.len = 0
      <4>1. ctx.ptr \in Pointers /\ ctx.ptr.off + n > 0
        BY <2>4, <2>5, <2>8, <3>2, <3>3 DEF TypeInv, Ctxs
      <4>2. Advanced(ctx.ptr, n) # NoPtr
        BY <2>8, <4>1 DEF Advanced, Pointers, NoPtr
      <4>3. QED
        BY <1>2, <3>1, <3>2, <4>2
    <3>10. ctx'.ptr # NoPtr =>
              ctx'.len > 0 /\ ctx'.ptr.desc = r.desc /\ ctx'.ptr.off = Sent'
      <4>1. ctx.ptr \in Pointers
        BY DEF TypeInv, Ctxs
      <4>2. Advanced(ctx.ptr, n).desc = ctx.ptr.desc /\ Advanced(ctx.ptr, n).off = ctx.ptr.off + n
        BY <2>8, <4>1 DEF Advanced, Pointers
      <4>3. QED
        BY <1>2, <2>4, <2>8, <3>1, <3>2, <3>4, <4>2
    <3>11. Len(uep0'.data) < Packet => ctx'.len = 0
      BY <1>2, <3>1, <3>2, <3>6
    <3>12. host.got = Chunk(r.desc, 0, Len(host.got))
           /\ uep0'.data = Chunk(r.desc, Len(host.got), Sent' - Len(host.got))
      BY <2>4, <3>6, <3>7, <3>8
    <3>13. host'.req = r /\ host'.got = host.got /\ host'.tog = host.tog /\ ctx'.len <= Total(r)'
      BY <1>1, <3>4 DEF Total
    <3>14. QED
      BY <1>1, <3>5, <3>8, <3>9, <3>10, <3>11, <3>12, <3>13 DEF DescriptorInv
  <2>9. QED
    BY <2>7, <2>8
<1>5. QED
  BY <1>1, <1>3, <1>4 DEF ReadInv, ReplyInv

(* Steps that leave the data stage alone. *)
LEMMA ReadKept ==
    ASSUME ReadInv, UNCHANGED <<uep0, ctx>>, (In0Due' => In0Due), SetupDue' <=> SetupDue,
           host'.stage = host.stage, host'.req = host.req, host'.got = host.got,
           host'.tog = host.tog
    PROVE  ReadInv'
BY DEF ReadInv, DescriptorInv, ReplyInv, Asked, Sent, Total

LEMMA ReadOver ==
    ASSUME host'.stage \notin {"in", "statusOut"}
    PROVE  ReadInv'
BY DEF ReadInv, DescriptorInv, ReplyInv

LEMMA ReadHandler ==
    ASSUME TypeInv, ControlInv, ReadInv, HandleTransfer PROVE ReadInv'
<1>1. /\ transfer' = None /\ host' = host /\ ~SetupDue' /\ ~In0Due' /\ ~Out0Due'
  BY NoneDue DEF HandleTransfer
<1>2. CASE HandleIn3 \/ HandleOut2
  <2>1. In3Due \/ Out2Due
    BY <1>2 DEF HandleIn3, HandleOut2, In3Due, Out2Due
  <2>2. UNCHANGED <<uep0, ctx>>
    BY <1>2 DEF HandleIn3, HandleOut2, device
  <2>3. QED
    BY <1>1, <2>1, <2>2, ControlTypes, TokenOne, ReadKept
<1>3. CASE HandleOut0
  <2>1. host.stage \in {"out", "statusIn", "statusOut", "idle"}
    BY <1>3, Out0Effect DEF ControlInv, StageInv
  <2>2. QED
    BY <1>1, <2>1 DEF ReadInv, DescriptorInv, ReplyInv
<1>4. QED
  BY <1>2, <1>3, ReadSetup, ReadIn0 DEF HandleTransfer

(* The host takes a packet of a descriptor. *)
LEMMA ReadTaken ==
    ASSUME TypeInv, ControlInv, ReadInv, Quiet, host.stage = "in", Known(host.req),
           UNCHANGED <<uep0, ctx>>,
           NEW heard \in BOOLEAN, Raise(heard, [token |-> "in", ep |-> 0]),
           host' = TakeData(heard)
    PROVE  ReadInv'
<1> DEFINE r == host.req
<1>1. ~SetupDue /\ ~In0Due /\ Asked
  BY ControlTypes, TokenOne DEF Asked, Open
<1>2. /\ host \in Hosts /\ r \in Requests /\ host.tog \in {0, 1} /\ ctx.len \in Nat
      /\ ctx.ptr \in Pointers
  BY DEF TypeInv, Hosts, Open, Ctxs
<1>3. /\ Total(r) \in Nat /\ Total(r) <= r.len /\ r.desc \in Sources /\ r.len \in Nat
      /\ Promised(r) = Chunk(r.desc, 0, Total(r)) /\ r.kind = "descriptor"
  BY <1>2, TotalType
<1>4. /\ ctx.len <= Total(r)
      /\ ctx.ptr = NoPtr => ctx.len = 0
      /\ ctx.ptr # NoPtr => ctx.len > 0 /\ ctx.ptr.desc = r.desc /\ ctx.ptr.off = Sent
      /\ uep0.ttog # host.tog => host.got = Chunk(r.desc, 0, Sent)
      /\ uep0.ttog = host.tog =>
             /\ Len(host.got) <= Sent
             /\ host.got = Chunk(r.desc, 0, Len(host.got))
             /\ uep0.data = Chunk(r.desc, Len(host.got), Sent - Len(host.got))
             /\ Len(uep0.data) < Packet => ctx.len = 0
  BY <1>1 DEF ReadInv, DescriptorInv
<1>5. Sent \in Nat /\ Sent = Total(r) - ctx.len
  BY <1>2, <1>3, <1>4 DEF Sent
<1>6. ~SetupDue'
  BY DEF Raise, SetupDue, None
<1>7. /\ host'.stage \in {"in", "statusOut"} /\ host'.req = r
      /\ uep0.ttog # host.tog => host'.stage = "in" /\ host'.got = host.got
                                 /\ host'.tog = host.tog
      /\ uep0.ttog = host.tog =>
           /\ host'.got = host.got \o uep0.data /\ host'.tog = 1 - host.tog
           /\ host'.stage = IF \/ Len(host.got \o uep0.data) >= r.len
                               \/ Len(uep0.data) < Packet
                            THEN "statusOut" ELSE "in"
  BY <1>2, TakeDataFields
<1>8. Total(r)' = Total(r) /\ Sent' = Sent
  BY <1>5, <1>7 DEF Total, Sent
<1>9. CASE uep0.ttog # host.tog
  BY <1>1, <1>3, <1>4, <1>7, <1>8, <1>9 DEF ReadInv, DescriptorInv, ReplyInv
<1>10. CASE uep0.ttog = host.tog
  <2> DEFINE k == Len(host.got)
  <2>1. k \in Nat /\ k <= Sent /\ Sent - k \in Nat /\ k + (Sent - k) = Sent
    BY <1>2, <1>4, <1>5, <1>10 DEF Hosts
  <2>2. host'.got = Chunk(r.desc, 0, k) \o Chunk(r.desc, k, Sent - k)
    BY <1>4, <1>7, <1>10, Zenon
  <2>3. Chunk(r.desc, 0, k) \o Chunk(r.desc, k, Sent - k) = Chunk(r.desc, 0, k + (Sent - k))
    BY <1>3, <2>1, ChunkJoin
  <2>4. host'.got = Chunk(r.desc, 0, Sent) /\ Len(host'.got) = Sent
    <3>1. host'.got = Chunk(r.desc, 0, Sent)
      BY <2>1, <2>2, <2>3
    <3>2. QED
      BY <1>3, <1>5, <3>1, ChunkType
  <2>5. uep0.ttog # host'.tog
    BY <1>2, <1>7, <1>10
  <2>6. host'.stage = "statusOut" => Sent = Total(r)
    <3>1. CASE Len(host.got \o uep0.data) >= r.len
      <4>1. Sent >= r.len
        BY <1>7, <1>10, <2>4, <3>1
      <4>2. QED
        BY ONLY <1>2, <1>3, <1>5, <4>1
    <3>2. CASE Len(uep0.data) < Packet
      BY <1>3, <1>4, <1>5, <1>10, <3>2
    <3>3. QED
      BY <1>7, <1>10, <3>1, <3>2
  <2>7. DescriptorInv'
    BY <1>1, <1>4, <1>7, <1>8, <2>4, <2>5 DEF DescriptorInv
  <2>8. host'.stage = "statusOut" => host'.got = Promised(r)
    BY <1>3, <2>4, <2>6
  <2>9. QED
    BY <1>3, <1>7, <2>7, <2>8 DEF ReadInv, ReplyInv
<1>11. QED
  BY <1>9, <1>10

(* The host takes the reply to GET_STATUS and the like, in one packet. *)
LEMMA ReadReply ==
    ASSUME TypeInv, ControlInv, ReadInv, Quiet, host.stage = "in", host.req.kind = "read",
           UNCHANGED <<uep0, ctx>>,
           NEW heard \in BOOLEAN, host' = TakeData(heard)
    PROVE  ReadInv'
<1> DEFINE r == host.req
<1>1. Asked
  BY ControlTypes, TokenOne DEF Asked, Open
<1>2. host \in Hosts /\ r \in Requests /\ r.len \in Nat
  BY RequestType DEF TypeInv, Open
<1>3. /\ uep0.ttog = 1 /\ host.tog = 1 /\ host.got = <<>> /\ uep0.data = Promised(r)
  BY <1>1 DEF ReadInv, ReplyInv
<1>4. Promised(r) \in Seq(Units) /\ Len(Promised(r)) = r.len
  <2>1. Promised(r) = Chunk("reply", 0, r.len)
    BY DEF Promised
  <2>2. "reply" \in Sources
    BY DEF Sources
  <2>3. QED
    BY <1>2, <2>1, <2>2, ChunkType
<1>5. host.got \o uep0.data = Promised(r)
  BY <1>3, <1>4
<1>6. /\ host'.req = r /\ host'.got = Promised(r) /\ host'.stage = "statusOut"
  BY <1>2, <1>3, <1>4, <1>5, TakeDataFields
<1>7. QED
  BY <1>6 DEF ReadInv, DescriptorInv, ReplyInv

LEMMA ReadHostIn0 == ASSUME TypeInv, ControlInv, ReadInv, HostIn0 PROVE ReadInv'
<1>1. Quiet /\ host.stage \in {"in", "statusIn"} /\ UNCHANGED <<uep0, ctx>> /\ host \in Hosts
  BY ControlTypes DEF HostIn0, Bus, device
<1>2. CASE uep0.tx = "STALL" /\ host' = Ended(FALSE, host.torn)
  <2>1. host'.stage = "idle"
    BY <1>1, <1>2 DEF Ended, Hosts
  <2>2. QED
    BY <2>1, ReadOver
<1>3. ASSUME NEW heard \in Heard,
             host' = IF host.stage = "in" THEN TakeData(heard)
                     ELSE IF uep0.ttog = host.tog THEN Completed(heard)
                     ELSE host,
             Raise(heard, [token |-> "in", ep |-> 0]), Counted(heard)
      PROVE  ReadInv'
  <2>1. heard \in BOOLEAN
    BY <1>3, HeardType
  <2>2. CASE host.stage = "statusIn"
    <3>1. host'.stage \in {"idle", "statusIn"}
      BY <1>1, <1>3, <2>1, <2>2, CompletedType
    <3>2. QED
      BY <3>1, ReadOver
  <2>3. CASE host.stage = "in"
    <3>1. host' = TakeData(heard)
      BY <1>3, <2>3
    <3>2. CASE host.req.kind # "read" /\ ~Known(host.req)
      <4>1. host'.req = host.req
        BY <1>1, <2>1, <2>3, <3>1, TakeDataFields
      <4>2. QED
        BY <3>2, <4>1 DEF ReadInv, DescriptorInv, ReplyInv
    <3>3. QED
      BY <1>1, <1>3, <2>1, <2>3, <3>1, <3>2, ReadTaken, ReadReply
  <2>4. QED
    BY <1>1, <2>2, <2>3
<1>4. QED
  BY <1>2, <1>3 DEF HostIn0

LEMMA ReadHost == ASSUME TypeInv, ControlInv, ReadInv, Host PROVE ReadInv'
<1>1. host \in Hosts
  BY ControlTypes
<1>2. ASSUME NEW r \in Requests, HostSetup(r) PROVE ReadInv'
  <2>1. CASE host.addr = dev_addr
    <3>1. transfer'.token = "setup"
      BY <1>2, <2>1 DEF HostSetup
    <3>2. host'.stage # "statusOut"
      BY <1>1, <1>2, <2>1 DEF HostSetup, FirstStage, Hosts
    <3>3. QED
      BY <3>1, <3>2 DEF ReadInv, DescriptorInv, ReplyInv, Asked, SetupDue
  <2>2. CASE host.addr # dev_addr
    <3>1. host'.stage = "lost"
      BY <1>1, <1>2, <2>2 DEF HostSetup, Hosts
    <3>2. QED
      BY <3>1, ReadOver
  <2>3. QED
    BY <2>1, <2>2
<1>3. CASE HostOut0
  <2>1. Quiet /\ host.stage \in {"out", "statusOut"} /\ UNCHANGED <<uep0, ctx>>
    BY <1>3 DEF HostOut0, Bus, device
  <2>2. CASE host' = host
    BY <2>1, <2>2 DEF ReadInv, DescriptorInv, ReplyInv
  <2>3. CASE host' # host
    <3>1. \/ host' = Ended(FALSE, host.torn) \/ host' = [host EXCEPT !.stage = "statusIn"]
          \/ host' = Completed(TRUE)
      BY <1>3, <2>3 DEF HostOut0
    <3>2. host'.stage \in {"idle", "statusIn"}
      BY <1>1, <3>1, CompletedType DEF Ended, Hosts
    <3>3. QED
      BY <3>2, ReadOver
  <2>4. QED
    BY <2>2, <2>3
<1>4. CASE HostIn3 \/ HostOut2
  <2>1. Quiet /\ UNCHANGED <<uep0, ctx>>
    BY <1>4 DEF HostIn3, HostOut2, Bus, device
  <2>2. ~SetupDue /\ ~In0Due
    BY <2>1, ControlTypes, TokenOne
  <2>3. ~SetupDue' /\ ~In0Due'
    <3>1. CASE HostIn3
      BY <3>1 DEF HostIn3, Raise, SetupDue, In0Due, None
    <3>2. CASE HostOut2
      <4>1. transfer'.token = "out"
        BY <3>2 DEF HostOut2
      <4>2. QED
        BY <4>1 DEF SetupDue, In0Due
    <3>3. QED
      BY <1>4, <3>1, <3>2
  <2>4. /\ host'.stage = host.stage /\ host'.req = host.req /\ host'.got = host.got
        /\ host'.tog = host.tog
    <3>1. \/ host' = host
          \/ host' = [host EXCEPT !.tog3 = 1 - @]
          \/ \E data : host' = [host EXCEPT !.again = data]
      BY <1>4 DEF HostIn3, HostOut2
    <3>2. QED
      BY <1>1, <3>1 DEF Hosts
  <2>5. QED
    BY <2>1, <2>2, <2>3, <2>4, ReadKept
<1>5. CASE HostGivesUp \/ HostReset
  <2>1. host'.stage = "idle"
    <3>1. CASE HostGivesUp
      BY <1>1, <3>1 DEF HostGivesUp, Ended, Hosts
    <3>2. CASE HostReset
      <4>1. PICK d, t : host' = [Ended(d, t) EXCEPT !.addr = 0, !.cfg = FALSE, !.again = <<>>,
                                                    !.astray = FALSE]
        BY <3>2 DEF HostReset
      <4>2. QED
        BY <1>1, <4>1 DEF Ended, Hosts
    <3>3. QED
      BY <1>5, <3>1, <3>2
  <2>2. QED
    BY <2>1, ReadOver
<1>6. QED
  BY <1>2, <1>3, <1>4, <1>5, ReadHostIn0 DEF Host

LEMMA ReadStep == TypeInv /\ ControlInv /\ ReadInv /\ [Next]_vars => ReadInv'
<1> SUFFICES ASSUME TypeInv, ControlInv, ReadInv, [Next]_vars PROVE ReadInv'
  OBVIOUS
<1>1. CASE Main \/ UNCHANGED vars
  BY <1>1, MainFrame, ReadKept DEF vars, device, SetupDue, In0Due
<1>2. CASE HandleReset
  <2>1. host.stage = "idle" /\ host' = host
    BY <1>2 DEF HandleReset, ControlInv, StageInv
  <2>2. QED
    BY <2>1, ReadOver
<1>3. QED
  BY <1>1, <1>2, ReadHandler, ReadHost DEF Next

LEMMA ReadInit == Init => ReadInv
BY DEF Init, ReadInv, DescriptorInv, ReplyInv

LEMMA ReadRight == TypeInv /\ ControlInv /\ ReadInv => ReadsWhole
<1> SUFFICES ASSUME TypeInv, ControlInv, ReadInv, host.req.kind = "read" \/ Known(host.req)
             PROVE  /\ host.stage = "in" => IsPrefix(host.got, Promised(host.req))
                    /\ host.stage = "statusOut" => host.got = Promised(host.req)
  BY DEF ReadsWhole
<1>1. host.stage = "statusOut" => host.got = Promised(host.req)
  BY DEF ReadInv
<1>2. ASSUME host.stage = "in" PROVE IsPrefix(host.got, Promised(host.req))
  <2> DEFINE r == host.req
  <2>1. r \in Requests /\ r.len \in Nat /\ ctx.len \in Nat
    BY <1>2, RequestType DEF TypeInv, Open, Ctxs
  <2>2. PICK d \in Sources, b \in Nat : Promised(r) = Chunk(d, 0, b)
                                        /\ (Known(r) => d = r.desc /\ b = Total(r))
    <3>1. CASE Known(r)
      BY <2>1, <3>1, TotalType
    <3>2. CASE ~Known(r)
      <4>1. Promised(r) = Chunk("reply", 0, r.len)
        BY <3>2 DEF Promised
      <4>2. QED
        BY <2>1, <3>2, <4>1 DEF Sources
    <3>3. QED
      BY <3>1, <3>2
  <2>3. PICK a \in Nat : a <= b /\ host.got = Chunk(d, 0, a)
    <3>1. CASE host.got = <<>>
      <4>1. <<>> = Chunk(d, 0, 0)
        BY ChunkType
      <4>2. QED
        BY <2>2, <3>1, <4>1
    <3>2. CASE host.got # <<>>
      <4>1. ~SetupDue
        BY <1>2, <3>2 DEF ControlInv, StageInv
      <4>2. Asked /\ Known(r)
        BY <1>2, <3>2, <4>1 DEF Asked, Open, ReadInv, ReplyInv
      <4>3. /\ ctx.len <= Total(r)
            /\ uep0.ttog # host.tog => host.got = Chunk(r.desc, 0, Sent)
            /\ uep0.ttog = host.tog =>
                 Len(host.got) <= Sent /\ host.got = Chunk(r.desc, 0, Len(host.got))
        BY <1>2, <4>2 DEF ReadInv, DescriptorInv
      <4>4. Sent \in Nat /\ Sent <= b /\ Len(host.got) \in Nat
        BY <2>1, <2>2, <4>2, <4>3 DEF Sent, TypeInv, Hosts
      <4>5. QED
        BY <2>2, <4>2, <4>3, <4>4
    <3>3. QED
      BY <3>1, <3>2
  <2>4. QED
    BY <2>2, <2>3, ChunkPrefix
<1>3. QED
  BY <1>1, <1>2

(* A control read gives the host what it asked for, whatever descriptor, from *)
(* its first unit to its last, whatever handshake is lost and whatever        *)
(* transfer was left unfinished before: the buffer that first goes out with   *)
(* the setup packet in it, and every repeated packet, bear a data toggle that *)
(* the host does not take.                                                    *)
THEOREM UsbReadsWhole == Spec => []ReadsWhole
<1>1. QED
  BY TypeInit, TypeStep, PollInit, PollStep, ControlInit, ControlStep, ReadInit, ReadStep,
     ReadRight, PTL DEF Spec

-----------------------------------------------------------------------------
(* What the terminal prints: texts and toggles. *)

LEMMA TextMain == TypeInv /\ BusyInv /\ TextInv /\ Main => TextInv'
<1> SUFFICES ASSUME TypeInv, BusyInv, TextInv, Main PROVE TextInv'
  OBVIOUS
<1>1. /\ main \in Mains /\ uep3 \in Uep3s /\ received \in Seq(Texts)
      /\ main.text \in Nat /\ uep3.data \in Nat /\ armed \in Nat
      /\ \A i \in DOMAIN received : received[i] \in Nat
  <2>1. \A i \in DOMAIN received : received[i] \in Texts
    BY DEF TypeInv
  <2>2. QED
    BY <2>1 DEF TypeInv, Mains, Uep3s, Texts
<1>2. UNCHANGED <<transfer, bus_rst, host, received>>
  BY DEF Main, Sending, Write, TakeBuffer, Poll, Test, TryAgain, TestLen, Copy, Load, Store,
         Mark, Arm, PollUnit, PollClear, Rests, output
<1>. USE <1>1, <1>2 DEF TextInv, Newer, Shown, In3Due, Allowed
<1>3. CASE Write
  <2>1. main'.pc = "test" /\ main'.call = "new" /\ main'.text = main.text + 1
    BY <1>3 DEF Write, Mains
  <2>2. UNCHANGED <<uep3, armed>>
    BY <1>3 DEF Write, device, output
  <2>3. QED
    BY <2>1, <2>2
<1>4. CASE TakeBuffer
  <2>1. main'.pc = "test" /\ main'.call = "send" /\ main'.text = main.text + 1
    BY <1>4 DEF TakeBuffer, Mains
  <2>2. uep3'.data = main.text + 1 /\ uep3'.tx = uep3.tx /\ armed' = armed
    BY <1>4 DEF TakeBuffer, Uep3s, output
  <2>3. uep3.tx # "ACK"
    BY <1>4 DEF TakeBuffer, BusyInv
  <2>4. QED
    BY <2>1, <2>2, <2>3
<1>5. CASE Test \/ TestLen \/ Mark \/ Poll \/ PollUnit \/ PollClear \/ TryAgain
  <2>1. UNCHANGED <<uep3, armed>>
    BY <1>5 DEF Test, TestLen, Mark, Poll, PollUnit, PollClear, TryAgain, device, output
  <2>2. /\ main'.text = main.text /\ main'.call \in {main.call, "none"}
        /\ main'.pc \in {"wait", "idle", "testLen", "copy", "arm", "poll", "clear", "test"}
        /\ main'.pc \in {"wait", "testLen", "copy", "arm", "test"} =>
               Allowed \/ main.pc \in {"test", "wait"}
    <3>1. CASE Test
      <4>1. main.pc = "test" /\ (Goto("wait") \/ Goto("idle") \/ Goto("testLen"))
        BY <3>1 DEF Test
      <4>2. QED
        BY <4>1, GotoFields
    <3>2. CASE TestLen
      <4>1. main.pc = "testLen" /\ (Goto("idle") \/ Goto("copy") \/ Goto("arm"))
        BY <3>2 DEF TestLen
      <4>2. QED
        BY <4>1, GotoFields
    <3>3. CASE Mark \/ PollClear
      <4>1. Goto("idle")
        BY <3>3 DEF Mark, PollClear
      <4>2. QED
        BY <4>1, GotoFields
    <3>4. CASE Poll \/ PollUnit
      BY <3>4, PollFields
    <3>5. CASE TryAgain
      BY <3>5 DEF TryAgain, Mains
    <3>6. QED
      BY <1>5, <3>1, <3>2, <3>3, <3>4, <3>5
  <2>3. QED
    BY <2>1, <2>2
<1>6. CASE Copy
  <2>1. uep3'.data = main.text /\ uep3'.tx = uep3.tx /\ armed' = armed /\ main.pc = "copy"
    BY <1>6 DEF Copy, Uep3s, output
  <2>2. main'.pc = "load" /\ main'.text = main.text /\ main'.call = main.call
    BY <1>6, GotoFields DEF Copy
  <2>3. uep3.tx # "ACK"
    BY <2>1 DEF BusyInv
  <2>4. QED
    BY <2>1, <2>2, <2>3
<1>7. CASE Load
  <2>1. main.pc = "load" /\ main'.pc = "store" /\ main'.text = main.text
        /\ main'.call = main.call
    BY <1>7 DEF Load, Mains
  <2>2. UNCHANGED <<uep3, armed>>
    BY <1>7 DEF Load, device, output
  <2>3. QED
    BY <2>1, <2>2
<1>8. CASE Store \/ Arm
  <2>1. main.pc \in {"store", "arm"} /\ uep3.data = main.text
    BY <1>8 DEF Store, Arm, BusyInv
  <2>2. main'.pc \in {"mark", "idle"} /\ main'.text = main.text
        /\ main'.call \in {main.call, "none"} /\ main'.call # "send"
    <3>1. (Goto("mark") /\ main.pc = "store") \/ Goto("idle")
      BY <1>8 DEF Store, Arm
    <3>2. main.pc = "store" => main.call = "new"
      BY DEF BusyInv
    <3>3. QED
      BY <3>1, <3>2, GotoFields
  <2>3. armed' = main.text /\ uep3'.data = uep3.data
    BY <1>8 DEF Store, Arm, Uep3s
  <2>4. QED
    BY <2>1, <2>2, <2>3
<1>9. QED
  BY <1>3, <1>4, <1>5, <1>6, <1>7, <1>8 DEF Main, Sending

LEMMA AppendNewest ==
    ASSUME NEW s \in Seq(Texts), NEW n \in Texts
    PROVE  LET t == Append(s, n) IN
           /\ DOMAIN t = DOMAIN s \cup {Len(s) + 1} /\ Len(s) + 1 \notin DOMAIN s
           /\ \A i \in DOMAIN s : t[i] = s[i] /\ i < Len(s) + 1
           /\ t[Len(s) + 1] = n
OBVIOUS

(* The status stage of SET_CONFIGURATION is due. *)
Configuring == host.stage = "statusIn" /\ host.req.kind = "configuration"

(* What the host's steps, but for reading endpoint 3, mean to that endpoint. *)
HostKept ==
    /\ ~In3Due /\ ~In3Due' /\ bus_rst' = bus_rst
    /\ host'.cfg = host.cfg /\ host'.tog3 = host.tog3
    /\ Configuring' => (Configuring \/ ~host.cfg)
    /\ Configuring' /\ Asked' => Configuring /\ Asked
HostConfigured ==
    /\ Configuring /\ Asked /\ Quiet /\ ~In3Due' /\ bus_rst' = bus_rst
    /\ host'.cfg /\ host'.tog3 = 0 /\ host'.stage = "idle"
HostDetached ==
    /\ (In3Due' <=> In3Due) /\ bus_rst' /\ ~host'.cfg /\ host'.stage = "idle"

LEMMA SenderHostIn0 ==
    ASSUME TypeInv, ControlInv, HostIn0
    PROVE  HostKept \/ HostConfigured
<1>1. /\ Quiet /\ host.stage \in {"in", "statusIn"} /\ bus_rst' = bus_rst /\ host \in Hosts
      /\ ~In3Due /\ Asked
  BY ControlTypes, TokenOne DEF HostIn0, Bus, Asked, Open
<1>2. ~In3Due'
  <2>1. transfer' = transfer \/ transfer' = None \/ transfer' = [token |-> "in", ep |-> 0]
    BY DEF HostIn0, Raise
  <2>2. QED
    BY <1>1, <2>1 DEF In3Due, None, Quiet
<1>3. CASE host' = Ended(FALSE, host.torn)
  <2>1. host'.stage = "idle" /\ host'.cfg = host.cfg /\ host'.tog3 = host.tog3
    BY <1>1, <1>3 DEF Ended, Hosts
  <2>2. QED
    BY <1>1, <1>2, <2>1 DEF HostKept, Configuring
<1>4. CASE host' = host
  <2>1. ~SetupDue' => Asked
    BY <1>1
  <2>2. QED
    BY <1>1, <1>2, <1>4 DEF HostKept, Configuring, Asked
<1>5. ASSUME NEW heard \in BOOLEAN, host.stage = "in", host' = TakeData(heard)
      PROVE  HostKept
  <2>1. host'.stage \in {"in", "statusOut"} /\ host'.cfg = host.cfg /\ host'.tog3 = host.tog3
    BY <1>1, <1>5, TakeDataFields
  <2>2. QED
    BY <1>1, <1>2, <2>1 DEF HostKept, Configuring
<1>6. ASSUME NEW heard \in BOOLEAN, host.stage = "statusIn", host' = Completed(heard)
      PROVE  HostKept \/ HostConfigured
  <2>1. /\ host'.stage = "idle"
        /\ host.req.kind = "configuration" => host'.cfg /\ host'.tog3 = 0
        /\ host.req.kind # "configuration" => host'.cfg = host.cfg /\ host'.tog3 = host.tog3
    BY <1>1, <1>6, CompletedFields
  <2>2. QED
    BY <1>1, <1>2, <1>6, <2>1 DEF HostKept, HostConfigured, Configuring
<1>7. \/ host' = Ended(FALSE, host.torn) \/ host' = host
      \/ \E heard \in BOOLEAN : \/ host.stage = "in" /\ host' = TakeData(heard)
                                \/ host.stage = "statusIn" /\ host' = Completed(heard)
  <2>1. CASE \E heard \in Heard :
                /\ host' = IF host.stage = "in" THEN TakeData(heard)
                           ELSE IF uep0.ttog = host.tog THEN Completed(heard)
                           ELSE host
                /\ Counted(heard)
    <3>1. PICK heard \in Heard :
             /\ host' = IF host.stage = "in" THEN TakeData(heard)
                        ELSE IF uep0.ttog = host.tog THEN Completed(heard)
                        ELSE host
             /\ Counted(heard)
      BY <2>1
    <3>2. heard \in BOOLEAN
      BY <3>1, HeardType
    <3>3. QED
      BY <1>1, <3>1, <3>2
  <2>2. QED
    BY <2>1 DEF HostIn0
<1>8. QED
  BY <1>3, <1>4, <1>5, <1>6, <1>7

LEMMA SenderHost ==
    ASSUME TypeInv, ControlInv, Host
    PROVE  HostIn3 \/ (received' = received /\ (HostKept \/ HostConfigured \/ HostDetached))
<1>1. host \in Hosts
  BY ControlTypes
<1>2. ASSUME NEW r \in Requests, HostSetup(r) PROVE received' = received /\ HostKept
  <2>1. Quiet /\ MayAsk(r) /\ bus_rst' = bus_rst /\ received' = received /\ ~In3Due
    BY <1>2, ControlTypes, TokenOne DEF HostSetup, Bus
  <2>2. CASE host.addr = dev_addr
    <3>1. host' = [host EXCEPT !.stage = FirstStage(r), !.req = r, !.got = <<>>,
                               !.tog = 1, !.deaf = FALSE]
          /\ transfer' = [token |-> "setup", req |-> r]
      BY <1>2, <2>2 DEF HostSetup
    <3>2. host'.req = r /\ host'.cfg = host.cfg /\ host'.tog3 = host.tog3
      BY <1>1, <3>1 DEF Hosts
    <3>3. SetupDue' /\ ~In3Due'
      BY <3>1 DEF SetupDue, In3Due
    <3>4. QED
      BY <2>1, <3>2, <3>3 DEF HostKept, Configuring, Asked, MayAsk
  <2>3. CASE host.addr # dev_addr
    <3>1. host'.stage = "lost" /\ host'.cfg = host.cfg /\ host'.tog3 = host.tog3
          /\ transfer' = transfer
      BY <1>1, <1>2, <2>3 DEF HostSetup, Hosts
    <3>2. QED
      BY <2>1, <3>1 DEF HostKept, Configuring, In3Due
  <2>4. QED
    BY <2>2, <2>3
<1>3. CASE HostIn0
  BY <1>3, SenderHostIn0 DEF HostIn0
<1>4. CASE HostOut0
  <2>1. /\ Quiet /\ host.stage \in {"out", "statusOut"} /\ bus_rst' = bus_rst
        /\ received' = received /\ ~In3Due /\ ~SetupDue
    BY <1>4, ControlTypes, TokenOne DEF HostOut0, Bus
  <2>2. transfer' = transfer \/ transfer' = [token |-> "out", ep |-> 0, tog |-> 1]
    BY <1>4 DEF HostOut0
  <2>3. ~In3Due'
    BY <2>1, <2>2 DEF In3Due
  <2>4. \/ host' = Ended(FALSE, host.torn) \/ host' = host
        \/ host.stage = "out" /\ host' = [host EXCEPT !.stage = "statusIn"]
        \/ host.stage = "statusOut" /\ host' = Completed(TRUE)
    BY <1>4, <2>1 DEF HostOut0
  <2>5. CASE host' = Ended(FALSE, host.torn)
    <3>1. host'.stage = "idle" /\ host'.cfg = host.cfg /\ host'.tog3 = host.tog3
      BY <1>1, <2>5 DEF Ended, Hosts
    <3>2. QED
      BY <2>1, <2>3, <3>1 DEF HostKept, Configuring
  <2>6. CASE host' = host
    BY <2>1, <2>3, <2>6 DEF HostKept, Configuring
  <2>7. CASE host.stage = "out" /\ host' = [host EXCEPT !.stage = "statusIn"]
    <3>1. host'.req = host.req /\ host'.cfg = host.cfg /\ host'.tog3 = host.tog3
      BY <1>1, <2>7 DEF Hosts
    <3>2. host.req.kind # "configuration"
      BY <2>7 DEF ControlInv, StageInv
    <3>3. QED
      BY <2>1, <2>3, <3>1, <3>2 DEF HostKept, Configuring
  <2>8. CASE host.stage = "statusOut" /\ host' = Completed(TRUE)
    <3>1. host.req.kind # "configuration"
      BY <2>8 DEF ControlInv, StageInv, ReadKinds
    <3>2. host'.stage = "idle" /\ host'.cfg = host.cfg /\ host'.tog3 = host.tog3
      BY <1>1, <2>8, <3>1, CompletedFields
    <3>3. QED
      BY <2>1, <2>3, <3>2 DEF HostKept, Configuring
  <2>9. QED
    BY <2>1, <2>4, <2>5, <2>6, <2>7, <2>8
<1>5. CASE HostOut2
  <2>1. Quiet /\ bus_rst' = bus_rst /\ received' = received /\ ~In3Due /\ ~SetupDue
    BY <1>5, ControlTypes, TokenOne DEF HostOut2, Bus
  <2>2. PICK data : host' = [host EXCEPT !.again = data]
    BY <1>5 DEF HostOut2
  <2>3. /\ host'.cfg = host.cfg /\ host'.tog3 = host.tog3 /\ host'.stage = host.stage
        /\ host'.req = host.req
    BY <1>1, <2>2 DEF Hosts
  <2>4. transfer'.token = "out"
    BY <1>5 DEF HostOut2
  <2>5. QED
    BY <2>1, <2>3, <2>4 DEF HostKept, Configuring, Asked, In3Due
<1>6. CASE HostGivesUp
  <2>1. Quiet /\ bus_rst' = bus_rst /\ received' = received /\ ~In3Due /\ transfer' = transfer
    BY <1>6, ControlTypes, TokenOne DEF HostGivesUp, Bus
  <2>2. host'.stage = "idle" /\ host'.cfg = host.cfg /\ host'.tog3 = host.tog3
    BY <1>1, <1>6 DEF HostGivesUp, Ended, Hosts
  <2>3. QED
    BY <2>1, <2>2 DEF HostKept, Configuring, In3Due
<1>7. CASE HostReset
  <2>1. received' = received /\ transfer' = transfer /\ bus_rst'
    BY <1>7 DEF HostReset, output
  <2>2. PICK d, t : host' = [Ended(d, t) EXCEPT !.addr = 0, !.cfg = FALSE, !.again = <<>>,
                                                !.astray = FALSE]
    BY <1>7 DEF HostReset
  <2>3. host'.stage = "idle" /\ ~host'.cfg
    BY <1>1, <2>2 DEF Ended, Hosts
  <2>4. QED
    BY <2>1, <2>3 DEF HostDetached, In3Due
<1>8. QED
  BY <1>2, <1>3, <1>4, <1>5, <1>6, <1>7 DEF Host

LEMMA TakenText ==
    ASSUME TypeInv, HostIn3
    PROVE  /\ Quiet /\ host.cfg /\ uep3.tx = "ACK"
           /\ bus_rst' = bus_rst /\ host'.cfg = host.cfg
           /\ host'.stage = host.stage /\ host'.req = host.req
           /\ uep3.ttog = host.tog3 =>
                received' = Append(received, uep3.data) /\ host'.tog3 = 1 - host.tog3
           /\ uep3.ttog # host.tog3 => received' = received /\ host'.tog3 = host.tog3
           /\ ~SetupDue'
<1>1. host \in Hosts
  BY ControlTypes
<1>2. transfer' = None \/ transfer' = [token |-> "in", ep |-> 3]
  BY DEF HostIn3, Raise
<1>3. ~SetupDue'
  BY <1>2 DEF SetupDue, None
<1>4. CASE uep3.ttog = host.tog3
  <2>1. host' = [host EXCEPT !.tog3 = 1 - @]
    BY <1>4 DEF HostIn3
  <2>2. /\ host'.tog3 = 1 - host.tog3 /\ host'.cfg = host.cfg /\ host'.stage = host.stage
        /\ host'.req = host.req
    BY <1>1, <2>1 DEF Hosts
  <2>3. QED
    BY <1>3, <1>4, <2>2 DEF HostIn3, Bus
<1>5. CASE uep3.ttog # host.tog3
  BY <1>3, <1>5 DEF HostIn3, Bus
<1>6. QED
  BY <1>4, <1>5

LEMMA TextHost ==
    ASSUME TypeInv, ControlInv, BusyInv, TextInv, ToggleInv, Host
    PROVE  TextInv'
<1>1. UNCHANGED <<uep3, main, armed>> /\ uep3.data \in Texts /\ received \in Seq(Texts)
      /\ uep3.data \in Nat /\ main.text \in Nat
  BY HostFrame DEF TypeInv, Uep3s, Mains, Texts
<1>2. \A i \in DOMAIN received : received[i] \in Nat
  <2>1. \A i \in DOMAIN received : received[i] \in Texts
    BY <1>1
  <2>2. QED
    BY <2>1 DEF Texts
<1>3. CASE HostIn3
  <2>1. /\ Quiet /\ host.cfg /\ uep3.tx = "ACK"
        /\ bus_rst' = bus_rst /\ host'.cfg = host.cfg
        /\ uep3.ttog = host.tog3 =>
             received' = Append(received, uep3.data) /\ host'.tog3 = 1 - host.tog3
        /\ uep3.ttog # host.tog3 => received' = received /\ host'.tog3 = host.tog3
    BY <1>3, TakenText
  <2>2. CASE uep3.ttog # host.tog3
    BY <1>1, <2>1, <2>2 DEF TextInv, Newer, Shown, Allowed
  <2>3. CASE uep3.ttog = host.tog3
    <3>1. armed = uep3.data /\ Newer(armed)
      BY <2>1, <2>3, ControlTypes, TokenOne DEF TextInv
    <3>2. /\ DOMAIN received' = DOMAIN received \cup {Len(received) + 1}
          /\ Len(received) + 1 \notin DOMAIN received
          /\ \A i \in DOMAIN received : received'[i] = received[i] /\ i < Len(received) + 1
          /\ received'[Len(received) + 1] = armed
      BY <1>1, <2>1, <2>3, <3>1, AppendNewest
    <3>3. \A i, j \in DOMAIN received' : i < j => received'[i] < received'[j]
      <4>1. SUFFICES ASSUME NEW i \in DOMAIN received', NEW j \in DOMAIN received', i < j
                     PROVE  received'[i] < received'[j]
        OBVIOUS
      <4>2. i \in DOMAIN received
        <5>1. i \in Int /\ j \in Int /\ Len(received) \in Nat
          BY <1>1, <3>2
        <5>2. CASE i = Len(received) + 1
          BY <3>2, <4>1, <5>1, <5>2
        <5>3. QED
          BY <3>2, <5>2
      <4>3. QED
        BY <3>1, <3>2, <4>1, <4>2 DEF TextInv, Newer
    <3>4. /\ Shown(armed)'
          /\ \A m \in Nat : m > armed /\ Newer(m) => Newer(m)'
      BY <1>1, <3>2 DEF Shown, Newer
    <3>5. host'.tog3 # uep3.ttog
      BY <2>1, <2>3 DEF TypeInv, Hosts
    <3>6. Newer(main.text + 1)'
      BY <1>1, <3>1, <3>4 DEF TextInv, Newer
    <3>7. Allowed \/ main.pc \in {"test", "wait"} => Newer(main.text)'
      BY <1>1, <2>1, <3>1, <3>4 DEF TextInv, Newer
    <3>8. Allowed' <=> Allowed
      BY <1>1 DEF Allowed
    <3>9. QED
      BY <1>1, <2>1, <3>3, <3>4, <3>5, <3>6, <3>7, <3>8 DEF TextInv
  <2>4. QED
    BY <2>2, <2>3
<1>4. CASE received' = received /\ HostKept
  BY <1>1, <1>4 DEF HostKept, TextInv, Newer, Shown, Allowed
<1>5. CASE received' = received /\ HostConfigured
  <2>1. ~host.cfg /\ ~bus_rst
    BY <1>5 DEF HostConfigured, Quiet, ToggleInv, Configuring
  <2>2. uep3.tx = "ACK" => Newer(armed)
    BY <2>1 DEF TextInv
  <2>3. QED
    BY <1>1, <1>5, <2>2 DEF TextInv, Newer, Shown, Allowed
<1>6. CASE received' = received /\ HostDetached
  BY <1>1, <1>6 DEF HostDetached, TextInv, Newer, Shown, Allowed
<1>7. QED
  BY <1>3, <1>4, <1>5, <1>6, SenderHost

LEMMA TextHandler ==
    ASSUME TypeInv, ControlInv, BusyInv, TextInv, ToggleInv, HandleTransfer \/ HandleReset
    PROVE  TextInv'
<1>1. UNCHANGED <<main, host, received>> /\ uep3 \in Uep3s
  BY DEF HandleTransfer, HandleReset, HandleSetup, HandleIn0, HandleOut0, HandleIn3, HandleOut2,
     output, TypeInv
<1>2. CASE uep3'.tx = "NAK" /\ uep3'.data = uep3.data
  BY <1>1, <1>2 DEF TextInv, Newer, Shown, Allowed
<1>3. CASE HandleReset
  <2>1. uep3' = [FreshUep3 EXCEPT !.data = uep3.data]
    BY <1>3 DEF HandleReset
  <2>2. uep3'.tx = "NAK" /\ uep3'.data = uep3.data
    BY <2>1 DEF FreshUep3
  <2>3. QED
    BY <1>2, <2>2
<1>4. CASE HandleTransfer /\ HandleIn3
  BY <1>1, <1>2, <1>4 DEF HandleIn3, Emptied, Uep3s
<1>5. CASE HandleTransfer /\ (HandleIn0 \/ HandleOut0 \/ HandleOut2)
  <2>1. UNCHANGED <<uep3, armed, bus_rst>>
    BY <1>5 DEF HandleTransfer, HandleIn0, HandleOut0, HandleOut2, device, output
  <2>2. ~In3Due /\ ~In3Due'
    <3>1. transfer' = None
      BY <1>5 DEF HandleTransfer
    <3>2. In0Due \/ Out0Due \/ Out2Due
      BY <1>5 DEF HandleIn0, HandleOut0, HandleOut2, In0Due, Out0Due, Out2Due
    <3>3. QED
      BY <3>1, <3>2, NoneDue DEF In0Due, Out0Due, Out2Due, In3Due
  <2>3. QED
    BY <1>1, <2>1, <2>2 DEF TextInv, Newer, Shown, Allowed
<1>6. CASE HandleTransfer /\ HandleSetup
  <2>1. SetupDue /\ ~In3Due /\ ~In3Due' /\ bus_rst' = bus_rst /\ armed' = armed
    <3>1. transfer' = None
      BY <1>6 DEF HandleTransfer
    <3>2. QED
      BY <1>6, <3>1, NoneDue DEF HandleTransfer, HandleSetup, SetupDue, In3Due
  <2>2. CASE uep3' = uep3
    BY <1>1, <2>1, <2>2 DEF TextInv, Newer, Shown, Allowed
  <2>3. CASE SetupConfiguration(transfer.req)
    <3>1. uep3'.tx = uep3.tx /\ uep3'.data = uep3.data
      BY <1>1, <2>3 DEF SetupConfiguration, Uep3s
    <3>2. ~host.cfg
      <4>1. CASE bus_rst
        BY <4>1 DEF ControlInv, StageInv
      <4>2. CASE ~bus_rst
        <5>1. host.stage = FirstStage(transfer.req) /\ host.req = transfer.req
              /\ transfer.req.kind = "configuration"
          BY <2>1, <2>3, <4>2 DEF ControlInv, StageInv, SetupConfiguration
        <5>2. QED
          BY <5>1 DEF FirstStage, ReadKinds, ToggleInv
      <4>3. QED
        BY <4>1, <4>2
    <3>3. QED
      BY <1>1, <2>1, <3>1, <3>2 DEF TextInv, Newer, Shown, Allowed
  <2>4. QED
    BY <1>6, <2>2, <2>3 DEF HandleSetup, SetupDescriptor, SetupStall, SetupRead, SetupAddress,
       SetupStatusOnly, SetupLine, SetupAsk
<1>7. QED
  BY <1>3, <1>4, <1>5, <1>6 DEF HandleTransfer

LEMMA ToggleMain ==
    ASSUME TypeInv, BusyInv, TextInv, ToggleInv, Main PROVE ToggleInv'
<1>1. /\ main \in Mains /\ uep3 \in Uep3s
      /\ UNCHANGED <<transfer, bus_rst, host, received, races>>
  BY DEF TypeInv, Main, Sending, Write, TakeBuffer, Poll, Test, TryAgain, TestLen, Copy, Load,
     Store, Mark, Arm, PollUnit, PollClear, Rests, output
<1>. USE <1>1 DEF ToggleInv, In3Due, Shown, Asked, SetupDue
<1>2. CASE UNCHANGED <<armed, uep3>> /\ main'.pc # "store"
  BY <1>2
<1>3. CASE Write \/ Test \/ TryAgain \/ TestLen \/ Mark \/ Poll \/ PollUnit \/ PollClear
  <2>1. UNCHANGED <<armed, uep3>>
    BY <1>3
       DEF Write, Test, TryAgain, TestLen, Mark, Poll, PollUnit, PollClear, device, output
  <2>2. main'.pc # "store"
    <3>1. CASE Test \/ TestLen \/ Mark \/ PollClear
      <4>1. \E pc \in {"wait", "idle", "testLen", "copy", "arm"} : Goto(pc)
        BY <3>1 DEF Test, TestLen, Mark, PollClear
      <4>2. QED
        BY <4>1, GotoFields
    <3>2. CASE Write \/ TryAgain
      BY <3>2 DEF Write, TryAgain, Mains
    <3>3. CASE Poll \/ PollUnit
      BY <3>3, PollFields
    <3>4. QED
      BY <1>3, <3>1, <3>2, <3>3
  <2>3. QED
    BY <1>2, <2>1, <2>2
<1>4. CASE TakeBuffer \/ Copy
  <2>1. armed' = armed /\ uep3'.tx = uep3.tx /\ uep3'.ttog = uep3.ttog
    BY <1>4 DEF TakeBuffer, Copy, Uep3s, output
  <2>2. main'.pc # "store"
    <3>1. CASE TakeBuffer
      BY <3>1 DEF TakeBuffer, Mains
    <3>2. CASE Copy
      <4>1. Goto("load")
        BY <3>2 DEF Copy
      <4>2. QED
        BY <4>1, GotoFields
    <3>3. QED
      BY <1>4, <3>1, <3>2
  <2>3. QED
    BY <2>1, <2>2
<1>5. CASE Load
  <2>1. main'.pc = "store" /\ main'.tog = uep3.ttog /\ main.pc = "load"
    BY <1>5 DEF Load, Mains
  <2>2. UNCHANGED <<armed, uep3>>
    BY <1>5 DEF Load, device, output
  <2>3. uep3.tx = "NAK"
    BY <2>1 DEF BusyInv, Allowed
  <2>4. QED
    BY <2>1, <2>2, <2>3
<1>6. CASE Store \/ Arm
  <2>1. main.pc \in {"store", "arm"} /\ uep3.tx = "NAK" /\ ~In3Due
    BY <1>6 DEF Store, Arm, BusyInv, Allowed
  <2>2. uep3'.tx = "ACK" /\ main'.pc # "store"
    <3>1. uep3'.tx = "ACK"
      BY <1>6 DEF Store, Arm, Uep3s
    <3>2. Goto("mark") \/ Goto("idle")
      BY <1>6 DEF Store, Arm
    <3>3. QED
      BY <3>1, <3>2, GotoFields
  <2>3. \/ main.pc = "store" /\ uep3'.ttog = main.tog
        \/ uep3'.ttog = uep3.ttog
    BY <1>6 DEF Store, Arm, Uep3s
  <2>4. QED
    BY <2>1, <2>2, <2>3
<1>7. QED
  BY <1>3, <1>4, <1>5, <1>6 DEF Main, Sending

LEMMA ToggleHost ==
    ASSUME TypeInv, ControlInv, BusyInv, TextInv, ToggleInv, Host
    PROVE  ToggleInv'
<1>1. UNCHANGED <<uep3, main, armed, races>> /\ uep3 \in Uep3s /\ host \in Hosts
      /\ uep3.data \in Texts /\ received \in Seq(Texts)
  BY HostFrame DEF TypeInv, Uep3s
<1>2. CASE HostIn3
  <2>1. /\ Quiet /\ host.cfg /\ uep3.tx = "ACK"
        /\ bus_rst' = bus_rst /\ host'.cfg = host.cfg
        /\ host'.stage = host.stage /\ host'.req = host.req
        /\ uep3.ttog = host.tog3 =>
             received' = Append(received, uep3.data) /\ host'.tog3 = 1 - host.tog3
        /\ uep3.ttog # host.tog3 => received' = received /\ host'.tog3 = host.tog3
    BY <1>2, TakenText
  <2>2. host'.tog3 # uep3.ttog
    BY <1>1, <2>1 DEF Hosts, Uep3s
  <2>3. main.pc # "store"
    BY <2>1 DEF BusyInv, Allowed
  <2>4. ~(host.stage = "statusIn" /\ host.req.kind = "configuration")
    BY <2>1 DEF ToggleInv
  <2>5. "toggle" \notin races => Shown(armed)'
    <3>1. CASE uep3.ttog = host.tog3
      <4>1. armed = uep3.data
        BY <2>1 DEF TextInv
      <4>2. DOMAIN received' = DOMAIN received \cup {Len(received) + 1}
            /\ received'[Len(received) + 1] = armed
        BY <1>1, <2>1, <3>1, <4>1, AppendNewest
      <4>3. QED
        BY <1>1, <4>2 DEF Shown
    <3>2. CASE uep3.ttog # host.tog3
      BY <1>1, <2>1, <3>2 DEF ToggleInv, Shown
    <3>3. QED
      BY <3>1, <3>2
  <2>6. QED
    BY <1>1, <2>1, <2>2, <2>3, <2>4, <2>5 DEF ToggleInv
<1>3. CASE received' = received /\ HostKept
  BY <1>1, <1>3 DEF HostKept, ToggleInv, Shown, Configuring
<1>4. CASE received' = received /\ HostConfigured
  BY <1>1, <1>4 DEF HostConfigured, ToggleInv, Shown, Configuring
<1>5. CASE received' = received /\ HostDetached
  BY <1>1, <1>5 DEF HostDetached, ToggleInv, Shown, Asked, Open
<1>6. QED
  BY <1>2, <1>3, <1>4, <1>5, SenderHost

LEMMA ToggleHandler ==
    ASSUME TypeInv, ControlInv, BusyInv, TextInv, ToggleInv, HandleTransfer \/ HandleReset
    PROVE  ToggleInv'
<1>1. UNCHANGED <<main, host, received>> /\ uep3 \in Uep3s /\ host \in Hosts
      /\ transfer' = None
  BY DEF HandleTransfer, HandleReset, HandleSetup, HandleIn0, HandleOut0, HandleIn3, HandleOut2,
     output, TypeInv
<1>2. ~In3Due' /\ ~SetupDue'
  BY <1>1, NoneDue
<1>3. CASE HandleReset
  <2>1. bus_rst /\ armed' = 0
    BY <1>3 DEF HandleReset
  <2>2. host.stage = "idle" /\ ~host.cfg
    BY <2>1 DEF ControlInv, StageInv
  <2>3. QED
    BY <1>1, <1>2, <2>1, <2>2 DEF ToggleInv
<1>4. CASE HandleTransfer /\ HandleIn3
  <2>1. In3Due /\ uep3.tx = "ACK" /\ armed' = armed
        /\ ("toggle" \in races' <=> "toggle" \in races)
    BY <1>4 DEF HandleIn3, In3Due, BusyInv
  <2>2. uep3'.tx = "NAK" /\ uep3'.ttog = 1 - uep3.ttog
    BY <1>1, <1>4 DEF HandleIn3, Emptied, Uep3s
  <2>3. host.cfg => uep3'.ttog = host.tog3
    BY <1>1, <2>1, <2>2 DEF ToggleInv, Hosts, Uep3s
  <2>4. main.pc # "store"
    BY <2>1 DEF BusyInv, Allowed
  <2>5. ~(host.stage = "statusIn" /\ host.req.kind = "configuration")
    BY <2>1 DEF ToggleInv, ControlInv, StageInv
  <2>6. QED
    BY <1>1, <1>2, <2>1, <2>2, <2>3, <2>4, <2>5 DEF ToggleInv, Shown
<1>5. CASE HandleTransfer /\ (HandleIn0 \/ HandleOut0 \/ HandleOut2)
  <2>1. UNCHANGED <<uep3, armed, races>>
    BY <1>5 DEF HandleIn0, HandleOut0, HandleOut2, device, output
  <2>2. ~SetupDue
    BY <1>5 DEF HandleIn0, HandleOut0, HandleOut2, SetupDue
  <2>3. QED
    BY <1>1, <1>2, <2>1, <2>2 DEF ToggleInv, Shown, Asked
<1>6. CASE HandleTransfer /\ HandleSetup
  <2> DEFINE r == transfer.req
  <2>1. SetupDue /\ bus_rst' = bus_rst /\ armed' = armed /\ ~In3Due
    BY <1>6 DEF HandleTransfer, HandleSetup, SetupDue, In3Due
  <2>2. ~bus_rst => host.req = r
    BY <2>1 DEF ControlInv, StageInv
  <2>3. bus_rst => host.stage = "idle" /\ ~host.cfg
    BY DEF ControlInv, StageInv
  <2>4. CASE r.kind # "configuration"
    <3>1. uep3' = uep3
      BY <1>6, <2>4 DEF HandleSetup, SetupDescriptor, SetupStall, SetupRead, SetupAddress,
         SetupConfiguration, SetupStatusOnly, SetupLine, SetupAsk
    <3>2. races' = races
      BY <1>6, <2>4 DEF HandleSetup
    <3>3. QED
      BY <1>1, <1>2, <2>1, <2>2, <2>3, <2>4, <3>1, <3>2 DEF ToggleInv, Shown
  <2>5. CASE r.kind = "configuration"
    <3>1. uep3'.tx = uep3.tx /\ uep3'.ttog = 0
      <4>1. SetupConfiguration(r)
        BY <1>6, <2>5 DEF HandleSetup, SetupDescriptor, SetupStall, SetupRead, SetupAddress,
           SetupStatusOnly, SetupLine, SetupAsk, Known
      <4>2. uep3' = [uep3 EXCEPT !.ttog = 0]
        BY <4>1 DEF SetupConfiguration
      <4>3. QED
        BY <1>1, <4>2 DEF Uep3s
    <3>2. /\ "toggle" \notin races' => "toggle" \notin races
          /\ main.pc = "store" /\ main.tog = 1 => "toggle" \in races'
      BY <1>6, <2>5 DEF HandleSetup
    <3>3. ~host.cfg
      <4>1. ~bus_rst => host.stage = "statusIn" /\ host.req.kind = "configuration"
        BY <2>1, <2>5 DEF ControlInv, StageInv, FirstStage, ReadKinds
      <4>2. QED
        BY <2>3, <4>1 DEF ToggleInv
    <3>4. main.tog \in {0, 1}
      BY DEF TypeInv, Mains
    <3>5. QED
      BY <1>1, <1>2, <2>1, <3>1, <3>2, <3>3, <3>4 DEF ToggleInv, Shown
  <2>6. QED
    BY <2>4, <2>5
<1>7. QED
  BY <1>3, <1>4, <1>5, <1>6 DEF HandleTransfer

SenderInv == BusyInv /\ TextInv /\ ToggleInv

LEMMA SenderStep == TypeInv /\ ControlInv /\ SenderInv /\ [Next]_vars => SenderInv'
<1> SUFFICES ASSUME TypeInv, ControlInv, SenderInv, [Next]_vars PROVE SenderInv'
  OBVIOUS
<1>1. BusyInv /\ TextInv /\ ToggleInv /\ BusyInv'
  BY BusyStep DEF SenderInv
<1>2. CASE UNCHANGED vars
  <2>1. TextInv'
    BY <1>1, <1>2 DEF vars, device, output, TextInv, Newer, Shown, Allowed, In3Due
  <2>2. ToggleInv'
    BY <1>1, <1>2 DEF vars, device, output, ToggleInv, Shown, In3Due, Asked, SetupDue
  <2>3. QED
    BY <1>1, <2>1, <2>2 DEF SenderInv
<1>3. QED
  BY <1>1, <1>2, TextMain, TextHandler, TextHost, ToggleMain, ToggleHandler, ToggleHost
     DEF Next, SenderInv

LEMMA SenderInit == Init => SenderInv
<1> SUFFICES ASSUME Init PROVE SenderInv
  OBVIOUS
<1>1. TextInv /\ ToggleInv
  BY DEF Init, TextInv, ToggleInv, Newer, Shown, Allowed, In3Due, Asked, Open, AtRest,
     FreshUep3, None
<1>2. QED
  BY <1>1, BusyInit DEF SenderInv

(* The terminal shows the texts in the order they were printed and none       *)
(* twice, whatever handshake is lost; and a text whose endpoint is free again *)
(* has been shown, or a SET_CONFIGURATION fell between USBFS_SendEndpointNEW's *)
(* read and write of UEP_CTRL_TX.                                             *)
THEOREM UsbOutputOnce == Spec => []OutputOnce
<1>1. TypeInv /\ SenderInv => OutputOnce
  <2> SUFFICES ASSUME TypeInv, SenderInv PROVE OutputOnce
    OBVIOUS
  <2>1. \A i, j \in DOMAIN received : i < j => received[i] < received[j]
    BY DEF SenderInv, TextInv
  <2>2. ASSUME main.pc # "mark", ~busy, armed # 0, "toggle" \notin races
        PROVE  armed \in ToSet(received)
    <3>1. uep3.tx = "NAK" /\ armed > 0
      BY <2>2 DEF SenderInv, BusyInv, TypeInv, Uep3s, Texts
    <3>2. Shown(armed)
      BY <2>2, <3>1 DEF SenderInv, ToggleInv
    <3>3. QED
      BY <3>2 DEF Shown, ToSet
  <2>3. QED
    BY <2>1, <2>2 DEF OutputOnce
<1>2. QED
  BY <1>1, TypeInit, TypeStep, PollInit, PollStep, ControlInit, ControlStep, SenderInit,
     SenderStep, PTL DEF Spec

-----------------------------------------------------------------------------
(* What the user types: units in order. *)

LEMMA TextsAt ==
    ASSUME NEW s \in Seq(Texts)
    PROVE  /\ Len(s) \in Nat /\ DOMAIN s = 1..Len(s)
           /\ \A i \in DOMAIN s : s[i] \in Nat
<1>1. \A i \in DOMAIN s : s[i] \in Texts
  OBVIOUS
<1>2. QED
  BY <1>1 DEF Texts

LEMMA JoinAt ==
    ASSUME NEW s \in Seq(Texts), NEW t \in Seq(Texts)
    PROVE  /\ s \o t \in Seq(Texts) /\ DOMAIN (s \o t) = 1..(Len(s) + Len(t))
           /\ Len(s \o t) = Len(s) + Len(t)
           /\ \A i \in 1..(Len(s) + Len(t)) :
                  (s \o t)[i] = IF i <= Len(s) THEN s[i] ELSE t[i - Len(s)]
BY ConcatProperties

LEMMA JoinRising ==
    ASSUME NEW s \in Seq(Texts), NEW t \in Seq(Texts), Rising(s), Rising(t), Below(s, t)
    PROVE  Rising(s \o t)
<1> DEFINE u == s \o t
<1>1. /\ DOMAIN u = 1..(Len(s) + Len(t)) /\ Len(s) \in Nat /\ Len(t) \in Nat
      /\ DOMAIN s = 1..Len(s) /\ DOMAIN t = 1..Len(t)
      /\ \A i \in 1..(Len(s) + Len(t)) : u[i] = IF i <= Len(s) THEN s[i] ELSE t[i - Len(s)]
  BY JoinAt, TextsAt
<1> HIDE DEF u
<1>2. SUFFICES ASSUME NEW i \in DOMAIN u, NEW j \in DOMAIN u, i < j
               PROVE  u[i] < u[j]
  BY DEF Rising, u
<1>3. CASE j <= Len(s)
  <2>1. i \in DOMAIN s /\ j \in DOMAIN s /\ u[i] = s[i] /\ u[j] = s[j]
    BY <1>1, <1>2, <1>3
  <2>2. QED
    BY <1>2, <2>1 DEF Rising
<1>4. CASE i <= Len(s) /\ j > Len(s)
  <2>1. i \in DOMAIN s /\ j - Len(s) \in DOMAIN t /\ u[i] = s[i] /\ u[j] = t[j - Len(s)]
    BY <1>1, <1>2, <1>4
  <2>2. QED
    BY <2>1 DEF Below
<1>5. CASE i > Len(s)
  <2>1. i - Len(s) \in DOMAIN t /\ j - Len(s) \in DOMAIN t /\ i - Len(s) < j - Len(s)
        /\ u[i] = t[i - Len(s)] /\ u[j] = t[j - Len(s)]
    BY <1>1, <1>2, <1>5
  <2>2. QED
    BY <2>1 DEF Rising
<1>6. j <= Len(s) \/ (i <= Len(s) /\ j > Len(s)) \/ i > Len(s)
  BY <1>1
<1>7. QED
  BY <1>3, <1>4, <1>5, <1>6

LEMMA JoinBounds ==
    ASSUME NEW s \in Seq(Texts), NEW t \in Seq(Texts)
    PROVE  /\ \A n \in Nat : UpTo(s, n) /\ UpTo(t, n) => UpTo(s \o t, n)
           /\ \A u \in Seq(Texts) : Below(s, u) /\ Below(t, u) => Below(s \o t, u)
           /\ \A u \in Seq(Texts) : Below(u, s) /\ Below(u, t) => Below(u, s \o t)
           /\ \A n : Among(n, s) \/ Among(n, t) => Among(n, s \o t)
<1> DEFINE v == s \o t
<1>1. /\ DOMAIN v = 1..(Len(s) + Len(t)) /\ Len(s) \in Nat /\ Len(t) \in Nat
      /\ DOMAIN s = 1..Len(s) /\ DOMAIN t = 1..Len(t)
      /\ \A i \in 1..(Len(s) + Len(t)) : v[i] = IF i <= Len(s) THEN s[i] ELSE t[i - Len(s)]
  BY JoinAt, TextsAt
<1> HIDE DEF v
<1>2. \A i \in DOMAIN v : \/ i \in DOMAIN s /\ v[i] = s[i]
                          \/ i - Len(s) \in DOMAIN t /\ v[i] = t[i - Len(s)]
  BY <1>1
<1>3. \A i \in DOMAIN s : i \in DOMAIN v /\ v[i] = s[i]
  BY <1>1
<1>4. \A i \in DOMAIN t : Len(s) + i \in DOMAIN v /\ v[Len(s) + i] = t[i]
  <2>1. SUFFICES ASSUME NEW i \in DOMAIN t PROVE Len(s) + i \in DOMAIN v /\ v[Len(s) + i] = t[i]
    OBVIOUS
  <2>2. i \in 1..Len(t) /\ Len(s) + i \in 1..(Len(s) + Len(t)) /\ (Len(s) + i) - Len(s) = i
        /\ ~(Len(s) + i <= Len(s))
    BY <1>1
  <2>3. QED
    BY <1>1, <2>2
<1>5. \A n \in Nat : UpTo(s, n) /\ UpTo(t, n) => UpTo(v, n)
  BY <1>2 DEF UpTo
<1>6. \A u \in Seq(Texts) : Below(s, u) /\ Below(t, u) => Below(v, u)
  BY <1>2 DEF Below
<1>7. \A u \in Seq(Texts) : Below(u, s) /\ Below(u, t) => Below(u, v)
  BY <1>2 DEF Below
<1>8. \A n : Among(n, s) \/ Among(n, t) => Among(n, v)
  BY <1>3, <1>4 DEF Among
<1>9. QED
  BY <1>5, <1>6, <1>7, <1>8 DEF v

(* Newest drops from the front, and never everything. *)
LEMMA NewestAt ==
    ASSUME NEW s \in Seq(Texts)
    PROVE  \E k \in Nat :
              /\ k <= Len(s) /\ (Len(s) > 0 => k < Len(s))
              /\ DOMAIN Newest(s) = 1..(Len(s) - k)
              /\ \A i \in 1..(Len(s) - k) : Newest(s)[i] = s[k + i]
<1> DEFINE k == IF Len(s) > InBuf THEN Len(s) - InBuf ELSE 0
<1>1. k \in Nat /\ k <= Len(s) /\ (Len(s) > 0 => k < Len(s)) /\ Len(s) \in Nat
  BY ConstantsType
<1>2. Newest(s) = SubSeq(s, 1 + k, Len(s))
  BY DEF Newest
<1> HIDE DEF k
<1>3. \A i \in (1 + k)..Len(s) : s[i] \in Texts
  BY <1>1
<1>4. /\ Newest(s) \in Seq(Texts)
      /\ Len(Newest(s)) = Len(s) - k
      /\ \A i \in 1..(Len(s) - k) : Newest(s)[i] = s[k + i]
  BY <1>1, <1>2, <1>3
<1>5. QED
  BY <1>1, <1>4

LEMMA NewestKeeps ==
    ASSUME NEW s \in Seq(Texts)
    PROVE  /\ Rising(s) => Rising(Newest(s))
           /\ \A n \in Nat : UpTo(s, n) => UpTo(Newest(s), n)
           /\ \A u \in Seq(Texts) : Below(u, s) => Below(u, Newest(s))
           /\ Len(s) > 0 => Among(s[Len(s)], Newest(s))
<1> DEFINE v == Newest(s)
<1>1. PICK k \in Nat :
              /\ k <= Len(s) /\ (Len(s) > 0 => k < Len(s))
              /\ DOMAIN v = 1..(Len(s) - k)
              /\ \A i \in 1..(Len(s) - k) : v[i] = s[k + i]
  BY NewestAt
<1>2. Len(s) \in Nat /\ DOMAIN s = 1..Len(s)
  BY TextsAt
<1> HIDE DEF v
<1>3. \A i \in DOMAIN v : i \in Int /\ k + i \in DOMAIN s /\ v[i] = s[k + i]
  BY <1>1, <1>2
<1>4. Rising(s) => Rising(v)
  BY <1>3 DEF Rising
<1>5. \A n \in Nat : UpTo(s, n) => UpTo(v, n)
  BY <1>3 DEF UpTo
<1>6. \A u \in Seq(Texts) : Below(u, s) => Below(u, v)
  BY <1>3 DEF Below
<1>7. ASSUME Len(s) > 0 PROVE Among(s[Len(s)], v)
  <2>1. Len(s) - k \in DOMAIN v /\ k + (Len(s) - k) = Len(s)
    BY <1>1, <1>2, <1>7
  <2>2. v[Len(s) - k] = s[Len(s)]
    BY <1>3, <2>1
  <2>3. QED
    BY <2>1, <2>2 DEF Among
<1>8. QED
  BY <1>4, <1>5, <1>6, <1>7 DEF v

InputInv == OrderInv /\ LastInv

LEMMA EmptyOrder ==
    /\ Rising(<<>>) /\ \A n : UpTo(<<>>, n)
    /\ \A s : Below(s, <<>>) /\ Below(<<>>, s)
BY DEF Rising, UpTo, Below

LEMMA InputTypes ==
    ASSUME TypeInv
    PROVE  /\ inputbuffer \in Seq(Texts) /\ handled \in Seq(Texts) /\ typed \in Nat
           /\ Out2Due => transfer.data \in Seq(Texts) /\ Len(transfer.data) > 0
           /\ main \in Mains /\ host \in Hosts /\ host.again \in Seq(Texts)
<1>1. ASSUME Out2Due PROVE transfer.data \in Seq(Texts) /\ Len(transfer.data) > 0
  <2>1. transfer.data \in Seq(Texts) /\ transfer.data # <<>>
    BY <1>1, TransferCases DEF TypeInv, Out2Due
  <2>2. QED
    BY <2>1
<1>2. QED
  BY <1>1 DEF TypeInv, Hosts, Texts

(* Steps that leave the input alone. *)
LEMMA InputKept ==
    ASSUME InputInv, UNCHANGED <<inputbuffer, handled, typed, inrace, main>>,
           host'.again \in {host.again, <<>>},
           \/ transfer' = transfer \/ (~Out2Due /\ ~Out2Due')
    PROVE  InputInv'
BY DEF InputInv, OrderInv, LastInv, Pending, Out2Due

LEMMA InputTyped == ASSUME TypeInv, InputInv, HostOut2 PROVE InputInv'
<1>1. /\ Quiet /\ ~Out2Due /\ host \in Hosts
      /\ UNCHANGED <<inputbuffer, handled, main>>
  BY ControlTypes, TokenOne DEF HostOut2, Bus
<1>2. PICK n \in 1..Packet, heard \in Heard :
        LET data == IF host.again # <<>> THEN host.again
                    ELSE [i \in 1..n |-> typed + i] IN
        /\ host.again = <<>> => main.text + typed + n <= MaxTraffic
        /\ typed' = data[Len(data)]
        /\ transfer' = [token |-> "out", ep |-> 2, data |-> data]
        /\ host' = [host EXCEPT !.again = IF heard THEN <<>> ELSE data]
        /\ inrace' = IF heard THEN inrace ELSE inrace \union {"again"}
        /\ Counted(heard)
  BY DEF HostOut2
<1> DEFINE data == IF host.again # <<>> THEN host.again ELSE [i \in 1..n |-> typed + i]
<1>3. heard \in BOOLEAN /\ n \in Nat \ {0} /\ typed \in Nat
  BY <1>2, HeardType, ConstantsType, InputTypes
<1>4. /\ typed' = data[Len(data)]
      /\ transfer' = [token |-> "out", ep |-> 2, data |-> data]
      /\ host' = [host EXCEPT !.again = IF heard THEN <<>> ELSE data]
      /\ inrace' = IF heard THEN inrace ELSE inrace \union {"again"}
  BY <1>2
<1>5. host.again = <<>> => /\ Len(data) = n /\ DOMAIN data = 1..n
                           /\ \A i \in 1..n : data[i] = typed + i
  BY <1>3
<1> HIDE DEF data
<1>6. /\ Out2Due' /\ transfer'.data = data
      /\ host'.again = IF heard THEN <<>> ELSE data
  <2>1. host.again \in Seq(Texts)
    BY InputTypes
  <2>2. QED
    BY <1>1, <1>4 DEF Out2Due, Hosts
<1>7. LastInv'
  BY <1>1, <1>4, <1>6 DEF InputInv, LastInv
<1>8. ASSUME "again" \notin inrace' PROVE OrderInv'
  <2>1. heard /\ "again" \notin inrace /\ host.again = <<>>
    BY <1>3, <1>4, <1>8 DEF InputInv, OrderInv
  <2>2. /\ Rising(handled) /\ Rising(inputbuffer)
        /\ UpTo(handled, typed) /\ UpTo(inputbuffer, typed)
        /\ \A i \in DOMAIN handled, j \in Pending : handled[i] < inputbuffer[j]
    BY <2>1 DEF InputInv, OrderInv
  <2>3. typed' = typed + n
    BY <1>3, <1>4, <1>5, <2>1
  <2>4. Rising(data) /\ UpTo(data, typed')
    BY <1>3, <1>5, <2>1, <2>3 DEF Rising, UpTo
  <2>5. /\ \A i \in DOMAIN handled : handled[i] \in Nat
        /\ \A i \in DOMAIN inputbuffer : inputbuffer[i] \in Nat
    BY InputTypes, TextsAt
  <2>6. UpTo(handled, typed') /\ UpTo(inputbuffer, typed')
    BY <1>3, <2>2, <2>3, <2>5 DEF UpTo
  <2>7. Below(handled, data) /\ Below(inputbuffer, data)
    BY <1>3, <1>5, <2>1, <2>2, <2>5 DEF UpTo, Below
  <2>8. QED
    BY <1>1, <1>6, <2>1, <2>2, <2>4, <2>6, <2>7 DEF OrderInv, Pending
<1>9. QED
  BY <1>7, <1>8 DEF InputInv, OrderInv

LEMMA InputStored ==
    ASSUME TypeInv, InputInv, HandleTransfer, HandleOut2 PROVE InputInv'
<1> DEFINE data == transfer.data
           all  == inputbuffer \o data
<1>1. /\ Out2Due /\ UNCHANGED <<handled, typed, main, host>> /\ ~Out2Due'
      /\ inputbuffer' = Newest(all)
      /\ inrace' = (inrace \ {"clear"}) \union (IF main.pc \in {"poll", "clear"} THEN {"clear"} ELSE {})
  BY NoneDue DEF HandleTransfer, HandleOut2, Out2Due
<1>2. /\ inputbuffer \in Seq(Texts) /\ handled \in Seq(Texts) /\ typed \in Nat
      /\ data \in Seq(Texts) /\ Len(data) > 0
  BY <1>1, InputTypes
<1>3. all \in Seq(Texts) /\ Len(all) > 0 /\ all[Len(all)] = data[Len(data)]
  <2>1. /\ all \in Seq(Texts) /\ Len(all) = Len(inputbuffer) + Len(data)
        /\ \A i \in 1..(Len(inputbuffer) + Len(data)) :
              all[i] = IF i <= Len(inputbuffer) THEN inputbuffer[i]
                       ELSE data[i - Len(inputbuffer)]
    BY <1>2, JoinAt
  <2>2. Len(inputbuffer) \in Nat /\ Len(data) \in Nat
    BY <1>2
  <2> HIDE DEF data, all
  <2>3. Len(all) \in 1..(Len(inputbuffer) + Len(data)) /\ ~(Len(all) <= Len(inputbuffer))
        /\ Len(all) - Len(inputbuffer) = Len(data)
    BY <1>2, <2>1, <2>2
  <2>4. QED
    BY <2>1, <2>2, <2>3
<1>4. data[Len(data)] = typed
  BY <1>1 DEF InputInv, LastInv
<1> HIDE DEF all, data
<1>5. Among(typed, inputbuffer')
  BY <1>1, <1>3, <1>4, NewestKeeps
<1>6. LastInv'
  <2>1. "clear" \notin inrace' => main.pc \notin {"poll", "clear"}
    BY <1>1
  <2>2. host.again # <<>> => host.again[Len(host.again)] = typed
    BY DEF InputInv, LastInv
  <2>3. QED
    BY <1>1, <1>5, <2>1, <2>2 DEF LastInv, Pending, Among
<1>7. ASSUME "again" \notin inrace' PROVE OrderInv'
  <2>1. "again" \notin inrace
    BY <1>1, <1>7
  <2>2. /\ host.again = <<>>
        /\ Rising(handled) /\ Rising(inputbuffer)
        /\ UpTo(handled, typed) /\ UpTo(inputbuffer, typed)
        /\ \A i \in DOMAIN handled, j \in Pending : handled[i] < inputbuffer[j]
        /\ Rising(data) /\ UpTo(data, typed)
        /\ Below(handled, data) /\ Below(inputbuffer, data)
    BY <1>1, <2>1 DEF InputInv, OrderInv, data
  <2>3. Below(inputbuffer, data) => Rising(all) /\ UpTo(all, typed)
    BY <1>2, <2>2, JoinRising, JoinBounds DEF all
  <2>4. Rising(inputbuffer') /\ UpTo(inputbuffer', typed)
    BY <1>1, <1>2, <1>3, <2>2, <2>3, NewestKeeps
  <2>5. ASSUME NEW i \in DOMAIN handled, NEW j \in Pending'
        PROVE  handled[i] < inputbuffer'[j]
    <3>1. PICK k \in Nat : /\ DOMAIN inputbuffer' = 1..(Len(all) - k)
                           /\ \A m \in 1..(Len(all) - k) : inputbuffer'[m] = all[k + m]
      BY <1>1, <1>3, NewestAt
    <3>2. /\ Len(inputbuffer) \in Nat /\ Len(data) \in Nat /\ main.at \in Nat
          /\ DOMAIN inputbuffer = 1..Len(inputbuffer) /\ DOMAIN data = 1..Len(data)
          /\ Len(all) = Len(inputbuffer) + Len(data)
          /\ \A m \in 1..(Len(inputbuffer) + Len(data)) :
                all[m] = IF m <= Len(inputbuffer) THEN inputbuffer[m]
                         ELSE data[m - Len(inputbuffer)]
      <4>1. main.at \in Nat
        BY InputTypes DEF Mains
      <4>2. QED
        BY <1>2, <4>1, JoinAt, TextsAt DEF all
    <3>3. /\ j \in 1..(Len(all) - k) /\ main.pc # "clear" /\ (main.pc = "poll" => main.at < j)
          /\ inputbuffer'[j] = all[k + j]
      BY <1>1, <2>5, <3>1 DEF Pending
    <3>4. CASE k + j <= Len(inputbuffer)
      <4>1. k + j \in Pending /\ inputbuffer'[j] = inputbuffer[k + j]
        BY <3>1, <3>2, <3>3, <3>4 DEF Pending
      <4>2. QED
        BY <2>2, <4>1
    <3>5. CASE ~(k + j <= Len(inputbuffer))
      <4>1. /\ (k + j) - Len(inputbuffer) \in DOMAIN data
            /\ inputbuffer'[j] = data[(k + j) - Len(inputbuffer)]
        BY <3>1, <3>2, <3>3, <3>5
      <4>2. QED
        BY <2>2, <4>1 DEF Below
    <3>6. QED
      BY <3>4, <3>5
  <2>6. QED
    BY <1>1, <2>2, <2>4, <2>5 DEF OrderInv
<1>8. QED
  BY <1>6, <1>7 DEF InputInv, OrderInv

LEMMA InputPolled == ASSUME TypeInv, InputInv, Poll PROVE InputInv'
<1>1. /\ UNCHANGED <<transfer, host, inputbuffer, typed, handled, inrace>>
      /\ main.pc = "idle" /\ main'.pc = "poll" /\ main'.at = 0
      /\ main'.size = Len(inputbuffer)
  BY InputTypes DEF Poll, Rests, input, Mains
<1>2. DOMAIN inputbuffer = 1..Len(inputbuffer) /\ Len(inputbuffer) \in Nat
  BY InputTypes, TextsAt
<1>3. Pending' = Pending
  BY <1>1, <1>2 DEF Pending
<1>4. QED
  BY <1>1, <1>3 DEF InputInv, OrderInv, LastInv, Out2Due

LEMMA InputPolledUnit == ASSUME TypeInv, PollInv, InputInv, PollUnit PROVE InputInv'
<1> DEFINE unit == inputbuffer[main.at + 1]
<1>1. /\ UNCHANGED <<transfer, host, inputbuffer, typed, inrace>>
      /\ main.pc = "poll" /\ handled' = Append(handled, unit)
      /\ main'.pc = (IF main.at + 1 < main.size THEN "poll" ELSE "clear")
      /\ main'.at = main.at + 1 /\ main'.size = main.size
  BY InputTypes DEF PollUnit, Rests, Mains
<1>2. /\ inputbuffer \in Seq(Texts) /\ handled \in Seq(Texts) /\ typed \in Nat
      /\ Len(inputbuffer) \in Nat /\ DOMAIN inputbuffer = 1..Len(inputbuffer)
      /\ main.at \in Nat /\ main.size \in Nat
  BY InputTypes, TextsAt DEF Mains
<1>3. main.at + 1 \in Pending
  BY <1>1, <1>2 DEF PollInv, Pending
<1>4. unit \in Texts
  BY <1>2, <1>3 DEF Pending
<1> HIDE DEF unit
<1>5. /\ DOMAIN handled' = 1..(Len(handled) + 1) /\ DOMAIN handled = 1..Len(handled)
      /\ Len(handled) \in Nat /\ handled'[Len(handled) + 1] = unit
      /\ \A i \in DOMAIN handled : handled'[i] = handled[i]
  BY <1>1, <1>2, <1>4
<1>6. Pending' = {j \in Pending : main.at + 1 < j /\ main.at + 1 < main.size}
  BY <1>1, <1>2 DEF Pending
<1>7. LastInv'
  <2>1. ASSUME typed > 0, "clear" \notin inrace, ~Out2Due
        PROVE  Among(typed, handled') \/ \E j \in Pending' : inputbuffer[j] = typed
    <3>1. main.size = Len(inputbuffer)
      BY <1>1, <2>1 DEF InputInv, LastInv
    <3>2. CASE Among(typed, handled)
      BY <1>5, <3>2 DEF Among
    <3>3. CASE \E j \in Pending : inputbuffer[j] = typed
      <4>1. PICK j \in Pending : inputbuffer[j] = typed
        BY <3>3
      <4>2. j \in 1..Len(inputbuffer) /\ main.at < j
        BY <1>1, <1>2 DEF Pending
      <4>3. CASE j = main.at + 1
        BY <1>5, <4>1, <4>3 DEF Among, unit
      <4>4. CASE j # main.at + 1
        BY <1>2, <1>6, <3>1, <4>1, <4>2, <4>4
      <4>5. QED
        BY <4>3, <4>4
    <3>4. QED
      BY <2>1, <3>2, <3>3 DEF InputInv, LastInv
  <2>2. QED
    BY <1>1, <2>1 DEF InputInv, LastInv, Out2Due
<1>8. ASSUME "again" \notin inrace PROVE OrderInv'
  <2>1. /\ host.again = <<>>
        /\ Rising(handled) /\ Rising(inputbuffer)
        /\ UpTo(handled, typed) /\ UpTo(inputbuffer, typed)
        /\ \A i \in DOMAIN handled, j \in Pending : handled[i] < inputbuffer[j]
        /\ Out2Due => /\ Rising(transfer.data) /\ UpTo(transfer.data, typed)
                      /\ Below(handled, transfer.data) /\ Below(inputbuffer, transfer.data)
    BY <1>8 DEF InputInv, OrderInv
  <2>2. \A i \in DOMAIN handled : handled[i] < unit
    BY <1>3, <2>1 DEF unit
  <2>3. Rising(handled')
    BY <1>5, <2>1, <2>2 DEF Rising
  <2>4. UpTo(handled', typed)
    BY <1>3, <1>5, <2>1 DEF UpTo, unit, Pending
  <2>5. Out2Due => Below(handled', transfer.data)
    BY <1>3, <1>5, <2>1 DEF Below, unit, Pending
  <2>6. \A j \in Pending' : unit < inputbuffer[j]
    BY <1>2, <1>3, <1>6, <2>1 DEF Rising, unit, Pending
  <2>7. \A i \in DOMAIN handled', j \in Pending' : handled'[i] < inputbuffer[j]
    BY <1>5, <1>6, <2>1, <2>6
  <2>8. QED
    BY <1>1, <2>1, <2>3, <2>4, <2>5, <2>7 DEF OrderInv, Out2Due
<1>9. QED
  BY <1>1, <1>7, <1>8 DEF InputInv, OrderInv

LEMMA InputMain == ASSUME TypeInv, PollInv, InputInv, Main PROVE InputInv'
<1>1. UNCHANGED <<transfer, host>> /\ main \in Mains
  BY MainFrame, InputTypes
<1>2. CASE PollClear
  <2>1. main.pc = "clear" /\ inputbuffer' = <<>> /\ UNCHANGED <<typed, handled, inrace>>
    BY <1>2 DEF PollClear
  <2>2. QED
    <3>1. Pending = {} /\ Pending' = {} /\ main'.pc = "idle"
      BY <1>1, <1>2, <2>1, GotoFields DEF PollClear, Pending
    <3>2. QED
      BY <1>1, <2>1, <3>1, EmptyOrder DEF InputInv, OrderInv, LastInv, Out2Due
<1>3. CASE Write \/ TakeBuffer \/ Test \/ TryAgain \/ TestLen \/ Copy \/ Load \/ Store \/ Mark
           \/ Arm
  <2>1. UNCHANGED <<inputbuffer, typed, handled, inrace>>
    BY <1>3 DEF Write, TakeBuffer, Test, TryAgain, TestLen, Copy, Load, Store, Mark, Arm, input
  <2>2. main.pc \notin {"poll", "clear"}
    BY <1>3 DEF Write, TakeBuffer, Test, TryAgain, TestLen, Copy, Load, Store, Mark, Arm
  <2>3. main'.pc \notin {"poll", "clear"}
    <3>1. CASE Test \/ TestLen \/ Copy \/ Store \/ Mark \/ Arm
      <4>1. \E pc \in {"wait", "idle", "testLen", "copy", "arm", "load", "mark"} : Goto(pc)
        BY <3>1 DEF Test, TestLen, Copy, Store, Mark, Arm
      <4>2. QED
        BY <1>1, <4>1, GotoFields
    <3>2. CASE Write \/ TakeBuffer \/ TryAgain \/ Load
      BY <1>1, <3>2 DEF Write, TakeBuffer, TryAgain, Load, Mains
    <3>3. QED
      BY <1>3, <3>1, <3>2
  <2>4. QED
    <3>1. Pending' = Pending
      BY <2>1, <2>2, <2>3 DEF Pending
    <3>2. QED
      BY <1>1, <2>1, <2>2, <2>3, <3>1 DEF InputInv, OrderInv, LastInv, Out2Due
<1>4. QED
  BY <1>2, <1>3, InputPolled, InputPolledUnit DEF Main, Sending

LEMMA InputHost == ASSUME TypeInv, InputInv, Host PROVE InputInv'
<1>1. UNCHANGED <<inputbuffer, handled, main>> /\ host \in Hosts
  BY HostFrame, InputTypes
<1>2. CASE ~HostOut2
  <2>1. UNCHANGED <<typed, inrace>>
    BY <1>2 DEF Host, HostSetup, HostIn0, HostOut0, HostIn3, HostGivesUp, HostReset, input
  <2>2. host'.again \in {host.again, <<>>}
    <3>1. ASSUME NEW r \in Requests, HostSetup(r) PROVE host'.again = host.again
      BY <1>1, <3>1 DEF HostSetup, Hosts
    <3>2. CASE HostIn3
      BY <1>1, <3>2 DEF HostIn3, Hosts
    <3>3. CASE HostGivesUp
      BY <1>1, <3>3 DEF HostGivesUp, Ended, Hosts
    <3>4. CASE HostReset
      <4>1. PICK d, t : host' = [Ended(d, t) EXCEPT !.addr = 0, !.cfg = FALSE, !.again = <<>>,
                                                    !.astray = FALSE]
        BY <3>4 DEF HostReset
      <4>2. QED
        BY <1>1, <4>1 DEF Ended, Hosts
    <3>5. CASE HostIn0 \/ HostOut0
      <4>1. Ended(FALSE, host.torn).again = host.again
            /\ [host EXCEPT !.stage = "statusIn"].again = host.again
        BY <1>1 DEF Ended, Hosts
      <4>2. \A heard \in BOOLEAN : Completed(heard).again = host.again
        BY <1>1, CompletedFields
      <4>3. \A heard \in BOOLEAN : host.stage = "in" => TakeData(heard).again = host.again
        BY <1>1, TakeDataFields
      <4>4. CASE HostIn0
        <5>1. \/ host' = Ended(FALSE, host.torn) \/ host' = host
              \/ \E heard \in Heard :
                    /\ Counted(heard)
                    /\ \/ host.stage = "in" /\ host' = TakeData(heard)
                       \/ host' = Completed(heard)
          BY <4>4 DEF HostIn0
        <5>2. QED
          BY <4>1, <4>2, <4>3, <5>1, HeardType
      <4>5. CASE HostOut0
        <5>1. \/ host' = Ended(FALSE, host.torn) \/ host' = host
              \/ host' = [host EXCEPT !.stage = "statusIn"] \/ host' = Completed(TRUE)
          BY <4>5 DEF HostOut0
        <5>2. QED
          BY <4>1, <4>2, <5>1
      <4>6. QED
        BY <3>5, <4>4, <4>5
    <3>6. QED
      BY <1>2, <3>1, <3>2, <3>3, <3>4, <3>5 DEF Host
  <2>3. transfer' = transfer \/ (~Out2Due /\ ~Out2Due')
    <3>1. transfer' # transfer => ~Out2Due
      BY HostFrame, ControlTypes, TokenOne
    <3>2. \/ transfer' = transfer \/ transfer' = None
          \/ transfer' = [token |-> "out", ep |-> 0, tog |-> 1]
          \/ \E r : transfer' = [token |-> "setup", req |-> r]
          \/ \E e : transfer' = [token |-> "in", ep |-> e]
      BY <1>2 DEF Host, HostSetup, HostIn0, HostOut0, HostIn3, HostGivesUp, HostReset, Raise
    <3>3. QED
      BY <3>1, <3>2 DEF Out2Due, None
  <2>4. QED
    BY <1>1, <2>1, <2>2, <2>3, InputKept
<1>3. QED
  BY <1>2, InputTyped

LEMMA InputStep == TypeInv /\ PollInv /\ InputInv /\ [Next]_vars => InputInv'
<1> SUFFICES ASSUME TypeInv, PollInv, InputInv, [Next]_vars PROVE InputInv'
  OBVIOUS
<1>1. CASE UNCHANGED vars
  BY <1>1, InputKept DEF vars, input
<1>2. CASE HandleReset
  <2>1. UNCHANGED <<inputbuffer, handled, typed, inrace, main, host, transfer>>
    BY <1>2 DEF HandleReset, input
  <2>2. QED
    BY <2>1, InputKept
<1>3. CASE HandleTransfer /\ ~HandleOut2
  <2>1. transfer' = None /\ UNCHANGED <<inputbuffer, handled, typed, inrace, main, host>>
    BY <1>3 DEF HandleTransfer, HandleSetup, HandleIn0, HandleOut0, HandleIn3, input
  <2>2. ~Out2Due /\ ~Out2Due'
    <3>1. SetupDue \/ In0Due \/ Out0Due \/ In3Due
      BY <1>3 DEF HandleTransfer, HandleSetup, HandleIn0, HandleOut0, HandleIn3, SetupDue,
         In0Due, Out0Due, In3Due
    <3>2. QED
      BY <2>1, <3>1, NoneDue DEF SetupDue, In0Due, Out0Due, In3Due, Out2Due
  <2>3. QED
    BY <2>1, <2>2, InputKept
<1>4. QED
  BY <1>1, <1>2, <1>3, InputStored, InputMain, InputHost DEF Next

LEMMA InputInit == Init => InputInv
<1> SUFFICES ASSUME Init PROVE InputInv
  OBVIOUS
<1>1. /\ handled = <<>> /\ inputbuffer = <<>> /\ typed = 0 /\ host.again = <<>> /\ ~Out2Due
  BY DEF Init, Out2Due, None
<1>2. QED
  BY <1>1, EmptyOrder DEF Init, AtRest, InputInv, OrderInv, LastInv, Pending

(* poll_input handles the units in the order they were typed and none twice,  *)
(* unless the host had to repeat a packet; and the last one is handled or in  *)
(* the buffer, however much HandleDataOut had to drop, and though it may      *)
(* shift the buffer under handle_usbfs_input, unless it came between the      *)
(* beginning of poll_input and its emptying of the buffer.                    *)
THEOREM UsbInputInOrder == Spec => []InputInOrder
<1>1. TypeInv /\ InputInv => InputInOrder
  <2> SUFFICES ASSUME TypeInv, InputInv PROVE InputInOrder
    OBVIOUS
  <2>1. "again" \in inrace \/ \A i, j \in DOMAIN handled : i < j => handled[i] < handled[j]
    BY DEF InputInv, OrderInv, Rising
  <2>2. ASSUME Quiet, typed > 0, "clear" \notin inrace
        PROVE  typed \in ToSet(handled) \union ToSet(inputbuffer)
    <3>1. ~Out2Due
      BY <2>2, ControlTypes, TokenOne
    <3>2. Among(typed, handled) \/ Among(typed, inputbuffer)
      BY <2>2, <3>1 DEF InputInv, LastInv, Pending, Among
    <3>3. QED
      BY <3>2 DEF Among, ToSet
  <2>3. QED
    BY <2>1, <2>2 DEF InputInOrder
<1>2. QED
  BY <1>1, TypeInit, TypeStep, PollInit, PollStep, InputInit, InputStep, PTL DEF Spec

=============================================================================
