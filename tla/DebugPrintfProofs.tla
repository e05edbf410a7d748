------------------------- MODULE DebugPrintfProofs -------------------------
(***************************************************************************)
(* Theorems about the debug channel, for every value of its constants.     *)
(***************************************************************************)
EXTENDS DebugPrintf, TLAPS

-----------------------------------------------------------------------------
(* What Chunk returns. *)

LEMMA BytesType ==
    ASSUME NEW w \in Word0
    PROVE  Bytes(w) \in 0..59
BY DEF Bytes, Word0

LEMMA ChunkType ==
    ASSUME NEW w \in Word0, NEW d \in Word1
    PROVE  /\ Chunk(w, d) \in Seq(Nat)
           /\ Len(Chunk(w, d)) = Bytes(w)
<1>1. Bytes(w) \in 0..59
  BY BytesType
<1>2. \A i \in 1..Bytes(w) :
         (IF i <= 3 THEN w.c[i] ELSE IF i <= 7 THEN d[i - 3] ELSE 0) \in Nat
  BY <1>1 DEF Word0, Word1
<1>3. Chunk(w, d) \in [1..Bytes(w) -> Nat]
  BY <1>2 DEF Chunk
<1>4. Bytes(w) \in Nat
  BY <1>1
<1>5. QED
  BY <1>3, <1>4

(* A word that announces at most three bytes is read from DMDATA0 alone. *)
LEMMA ChunkShort ==
    ASSUME NEW w \in Word0, NEW d \in Word1, NEW e \in Word1, Bytes(w) <= 3
    PROVE  Chunk(w, d) = Chunk(w, e)
<1>1. Bytes(w) \in 0..59
  BY BytesType
<1>2. \A i \in 1..Bytes(w) : i <= 3
  BY <1>1
<1>3. QED
  BY <1>2 DEF Chunk

LEMMA ChunkNone ==
    ASSUME NEW w, NEW d, Bytes(w) = 0
    PROVE  Chunk(w, d) = <<>>
<1>1. 1..0 = {}
  OBVIOUS
<1>2. Chunk(w, d) =
         [i \in {} |-> IF i <= 3 THEN w.c[i] ELSE IF i <= 7 THEN d[i - 3] ELSE 0]
  BY <1>1 DEF Chunk
<1>3. QED
  BY <1>2

(* The four low bits of a word that announces at most seven bytes are all.  *)
LEMMA LowType ==
    ASSUME NEW w \in Word0
    PROVE  Low(w) \in Word0 /\ (Bytes(w) <= 7 => Low(w) = w)
<1>1. w.n \in 0..63 /\ w.n % 16 \in 0..63
  BY DEF Word0
<1>2. Low(w) \in Word0
  BY <1>1 DEF Low, Word0
<1>3. Bytes(w) <= 7 => w.n <= 11
  BY <1>1 DEF Bytes
<1>4. w.n <= 11 => w.n % 16 = w.n
  BY <1>1
<1>5. w.n % 16 = w.n => Low(w) = w
  BY DEF Low, Word0
<1>6. QED
  BY <1>2, <1>3, <1>4, <1>5

-----------------------------------------------------------------------------
(* Type correctness.  Beside TypeOK the invariant says which call can be at *)
(* which place, and that a call that prints still has a byte to send.       *)

CallInv ==
    /\ tpc \in {"spin", "timeoutLoad", "timeoutStore", "store1", "store0"} =>
          call.op \in {"write", "putchar"}
    /\ tpc = "store1" => call.op = "write"
    /\ tpc = "entry" => call.op \in {"write", "peek", "putchar"}
    /\ tpc \in {"inputCount", "inputBytes"} =>
          call.op \in {"write", "peek", "putchar", "poll"}
    /\ tpc = "peek" => call.op = "peek"
    /\ tpc \in {"pollEntry", "pollAck"} => call.op = "poll"
    /\ call.op \in {"write", "putchar"} => call.place < call.size
    /\ call.op = "putchar" => call.size = 1 /\ call.place = 0

(* The word the host holds for the target acknowledges, and has three bytes *)
(* at most; so has every word of the host in DMDATA0.                       *)
HostWordInv ==
    /\ ~append.b7 /\ append.n <= 7
    /\ "stray" \notin harm =>
          /\ ~Held.b7 => Held.n <= 7
          /\ hpc = "cmd" /\ ~rr.b7 => rr.n <= 7

(* Only a request hides DMDATA0, and only from a halted hart. *)
MaskInv == masked => halted /\ hpc = "cmd"

Types == RegisterTypes /\ TargetTypes /\ HostTypes /\ HistoryTypes

TypeInv == Types /\ CountsFit /\ CallInv /\ HostWordInv /\ MaskInv

HostActs == Attach \/ BeginCommand \/ Request \/ HostStep \/ HostFault

LEMMA WordTypes ==
    /\ Zero \in Word0 /\ Boot \in Word0 /\ PollAck \in Word0
    /\ NoBytes1 \in Word1
    /\ ~Zero.b7 /\ Zero.n = 0 /\ Boot.b7 /\ PollAck.b7
    /\ Bytes(Zero) = 0 /\ Bytes(Boot) = 0 /\ Bytes(PollAck) = 0
BY DEF Zero, Boot, PollAck, Word, NoBytes, NoBytes1, Word0, Word1, Bytes

LEMMA HeldType ==
    ASSUME Types
    PROVE  Held \in Word0
BY DEF Types, RegisterTypes, HostTypes, Held

LEMMA AppendSeq ==
    ASSUME NEW s \in Seq(Nat), NEW t \in Seq(Nat)
    PROVE  s \o t \in Seq(Nat)
OBVIOUS

LEMMA TypeInit == Init => TypeInv
<1> SUFFICES ASSUME Init PROVE TypeInv
  OBVIOUS
<1>1. Types
  <2>1. <<>> \in Seq(Nat)
    OBVIOUS
  <2>2. NoCall \in Calls
    BY DEF NoCall, Calls
  <2>3. QED
    BY <2>1, <2>2, WordTypes
       DEF Init, Types, RegisterTypes, TargetTypes, HostTypes, HistoryTypes
<1>2. CallInv
  BY DEF Init, CallInv, NoCall
<1>3. HostWordInv /\ CountsFit /\ MaskInv
  BY WordTypes DEF Init, HostWordInv, CountsFit, MaskInv, Held
<1>4. QED
  BY <1>1, <1>2, <1>3 DEF TypeInv

(* What ToSend and Buf return at the place where a chunk is stored. *)
LEMMA ToSendType ==
    ASSUME TypeInv, tpc \in {"store1", "store0"}
    PROVE  /\ ToSend \in 1..7
           /\ call.place + ToSend <= call.size
           /\ \A i \in Nat : Buf(i) \in Nat
<1>1. /\ call.size \in Nat /\ call.base \in Nat /\ call.place \in Nat
      /\ call.place < call.size
  BY DEF TypeInv, Types, TargetTypes, Calls, CallInv
<1>2. ToSend \in 1..7 /\ call.place + ToSend <= call.size
  BY <1>1 DEF ToSend
<1>3. QED
  BY <1>1, <1>2 DEF Buf

(* What a step leaves in the locals. *)
LEMMA LocalsType ==
    ASSUME NEW c \in Calls, NEW t \in Nat, NEW d \in Word0, Locals(c, t, d)
    PROVE  call' \in Calls /\ timer' \in Nat /\ dmd' \in Word0
BY WordTypes DEF Locals, NoLocals, NoCall, Calls

LEMMA NoLocalsType ==
    ASSUME NoLocals
    PROVE  call' \in Calls /\ timer' \in Nat /\ dmd' \in Word0
BY WordTypes DEF NoLocals, NoCall, Calls

(* The steps of the target keep the types. *)
LEMMA TypeTarget ==
    ASSUME TypeInv, TargetStep
    PROVE  Types'
<1>. USE DEF TypeInv, Types
<1>h. HostTypes'
  BY DEF TargetStep, HostTypes,
     SetupDATA1, SetupDATA0, CheckTimedOut, Peek, SpinBusy, SpinFree, TimeoutLoad,
     TimeoutStore, InputCount, InputBytes, StoreDATA1, StoreDATA0, PollEntry,
     PollAckStore, Goto, unchangedByTarget, hostVars, requestVars
<1>1. CASE SetupDATA1
  <2>1. TargetTypes'
    BY <1>1 DEF SetupDATA1, TargetTypes
  <2>2. RegisterTypes'
    BY <1>1, WordTypes DEF SetupDATA1, RegisterTypes
  <2>3. HistoryTypes'
    BY <1>1 DEF SetupDATA1, HistoryTypes, Note, Harms, unchangedByTarget
  <2>4. QED
    BY <1>h, <2>1, <2>2, <2>3
<1>2. CASE SetupDATA0
  <2>1. TargetTypes'
    BY <1>2 DEF SetupDATA0, TargetTypes
  <2>2. RegisterTypes'
    BY <1>2, WordTypes DEF SetupDATA0, RegisterTypes
  <2>3. HistoryTypes'
    <3>1. HeldByHost \in Seq(Nat) /\ Chunk(append, data1) \in Seq(Nat)
      BY ChunkType DEF HeldByHost, HostTypes, RegisterTypes
    <3>2. printed \o HeldByHost \in Seq(Nat) /\ handled \o Chunk(append, data1) \in Seq(Nat)
      BY <3>1, AppendSeq DEF HistoryTypes
    <3>3. QED
      BY <1>2, <3>2 DEF SetupDATA0, HistoryTypes, unchangedByTarget
  <2>4. QED
    BY <1>h, <2>1, <2>2, <2>3
<1>3. CASE CheckTimedOut
  <2>1. TargetTypes'
    BY <1>3, LocalsType DEF CheckTimedOut, Goto, TargetTypes
  <2>2. RegisterTypes'
    BY <1>3 DEF CheckTimedOut, ReadOnly, Goto, unchangedByTarget, RegisterTypes
  <2>3. HistoryTypes'
    BY <1>3 DEF CheckTimedOut, ReadOnly, Goto, unchangedByTarget, HistoryTypes
  <2>4. QED
    BY <1>h, <2>1, <2>2, <2>3
<1>4. CASE Peek
  <2>1. TargetTypes'
    BY <1>4, LocalsType DEF Peek, Goto, TargetTypes
  <2>2. RegisterTypes'
    BY <1>4 DEF Peek, ReadOnly, Goto, unchangedByTarget, RegisterTypes
  <2>3. HistoryTypes'
    BY <1>4 DEF Peek, ReadOnly, Goto, unchangedByTarget, HistoryTypes
  <2>4. QED
    BY <1>h, <2>1, <2>2, <2>3
<1>5. CASE SpinBusy
  <2>1. TargetTypes'
    BY <1>5, LocalsType DEF SpinBusy, Goto, TargetTypes
  <2>2. RegisterTypes'
    BY <1>5 DEF SpinBusy, ReadOnly, Goto, unchangedByTarget, RegisterTypes
  <2>3. HistoryTypes'
    BY <1>5 DEF SpinBusy, ReadOnly, Goto, unchangedByTarget, HistoryTypes
  <2>4. QED
    BY <1>h, <2>1, <2>2, <2>3
<1>6. CASE SpinFree
  <2>1. TargetTypes'
    BY <1>6, LocalsType, ConstantsAssumption DEF SpinFree, Goto, TargetTypes, Store
  <2>2. RegisterTypes'
    BY <1>6 DEF SpinFree, ReadOnly, Goto, unchangedByTarget, RegisterTypes
  <2>3. HistoryTypes'
    BY <1>6 DEF SpinFree, ReadOnly, Goto, unchangedByTarget, HistoryTypes
  <2>4. QED
    BY <1>h, <2>1, <2>2, <2>3
<1>7. CASE TimeoutLoad
  <2>1. TargetTypes'
    BY <1>7, LocalsType DEF TimeoutLoad, Goto, TargetTypes, RegisterTypes
  <2>2. RegisterTypes'
    BY <1>7 DEF TimeoutLoad, ReadOnly, Goto, unchangedByTarget, RegisterTypes
  <2>3. HistoryTypes'
    BY <1>7 DEF TimeoutLoad, ReadOnly, Goto, unchangedByTarget, HistoryTypes
  <2>4. QED
    BY <1>h, <2>1, <2>2, <2>3
<1>8. CASE TimeoutStore
  <2>1. TargetTypes'
    BY <1>8, NoLocalsType DEF TimeoutStore, Goto, TargetTypes
  <2>2. RegisterTypes'
    BY <1>8 DEF TimeoutStore, RegisterTypes, TargetTypes, Word0
  <2>3. HistoryTypes'
    BY <1>8 DEF TimeoutStore, Goto, HistoryTypes, Note, Harms, unchangedByTarget
  <2>4. QED
    BY <1>h, <2>1, <2>2, <2>3
<1>9. CASE InputCount
  <2>1. TargetTypes'
    BY <1>9, LocalsType DEF InputCount, Goto, TargetTypes, RegisterTypes, AfterInput, Store
  <2>2. RegisterTypes'
    BY <1>9 DEF InputCount, ReadOnly, Goto, unchangedByTarget, RegisterTypes
  <2>3. HistoryTypes'
    BY <1>9 DEF InputCount, ReadOnly, Goto, unchangedByTarget, HistoryTypes
  <2>4. QED
    BY <1>h, <2>1, <2>2, <2>3
<1>10. CASE InputBytes
  <2>1. TargetTypes'
    BY <1>10, LocalsType, WordTypes DEF InputBytes, Goto, TargetTypes, AfterInput, Store
  <2>2. RegisterTypes'
    BY <1>10 DEF InputBytes, ReadOnly, Goto, unchangedByTarget, RegisterTypes
  <2>3. HistoryTypes'
    <3>1. [data0 EXCEPT !.n = dmd.n] \in Word0
      BY DEF RegisterTypes, TargetTypes, Word0
    <3>2. handled \o Chunk([data0 EXCEPT !.n = dmd.n], data1) \in Seq(Nat)
      BY <3>1, ChunkType, AppendSeq DEF HistoryTypes, RegisterTypes
    <3>3. harm' \subseteq Harms
      BY <1>10 DEF InputBytes, Note, Harms, HistoryTypes
    <3>4. QED
      BY <1>10, <3>2, <3>3 DEF InputBytes, Goto, HistoryTypes, unchangedByTarget
  <2>4. QED
    BY <1>h, <2>1, <2>2, <2>3
<1>11. CASE StoreDATA1
  <2>1. TargetTypes'
    BY <1>11, LocalsType DEF StoreDATA1, Goto, TargetTypes
  <2>2. RegisterTypes'
    BY <1>11, ToSendType DEF StoreDATA1, Goto, RegisterTypes, Word1
  <2>3. HistoryTypes'
    BY <1>11 DEF StoreDATA1, ReadOnly, Goto, unchangedByTarget, HistoryTypes
  <2>4. QED
    BY <1>h, <2>1, <2>2, <2>3
<1>12. CASE StoreDATA0
  <2>0. /\ ToSend \in 1..7 /\ call.place + ToSend <= call.size
        /\ \A j \in Nat : Buf(j) \in Nat
    BY <1>12, ToSendType DEF StoreDATA0, Goto
  <2>1. TargetTypes'
    <3>1. [call EXCEPT !.place = @ + ToSend] \in Calls
      BY <2>0 DEF TargetTypes, Calls
    <3>2. QED
      BY <1>12, <3>1, LocalsType, WordTypes DEF StoreDATA0, Goto, TargetTypes
  <2>2. RegisterTypes'
    <3>1. ToSend + 4 \in 0..63 /\ [j \in 1..3 |-> Buf(j)] \in [1..3 -> Nat]
      BY <2>0
    <3>2. data0' \in Word0
      BY <1>12, <3>1 DEF StoreDATA0, Word, Word0
    <3>3. QED
      BY <1>12, <3>2 DEF StoreDATA0, RegisterTypes
  <2>3. HistoryTypes'
    <3>1. [j \in 1..ToSend |-> Buf(j)] \in Seq(Nat)
      BY <2>0
    <3>2. published \o [j \in 1..ToSend |-> Buf(j)] \in Seq(Nat)
      BY <3>1, AppendSeq DEF HistoryTypes
    <3>3. QED
      BY <1>12, <3>2 DEF StoreDATA0, Goto, HistoryTypes, unchangedByTarget
  <2>4. QED
    BY <1>h, <2>1, <2>2, <2>3
<1>13. CASE PollEntry
  <2>1. TargetTypes'
    BY <1>13, LocalsType DEF PollEntry, Goto, TargetTypes
  <2>2. RegisterTypes'
    BY <1>13 DEF PollEntry, ReadOnly, Goto, unchangedByTarget, RegisterTypes
  <2>3. HistoryTypes'
    BY <1>13 DEF PollEntry, ReadOnly, Goto, unchangedByTarget, HistoryTypes
  <2>4. QED
    BY <1>h, <2>1, <2>2, <2>3
<1>14. CASE PollAckStore
  <2>1. TargetTypes'
    BY <1>14, NoLocalsType DEF PollAckStore, Goto, TargetTypes
  <2>2. RegisterTypes'
    BY <1>14, WordTypes DEF PollAckStore, RegisterTypes
  <2>3. HistoryTypes'
    BY <1>14 DEF PollAckStore, ReadOnly, Goto, unchangedByTarget, HistoryTypes
  <2>4. QED
    BY <1>h, <2>1, <2>2, <2>3
<1>q. QED
  BY <1>1, <1>2, <1>3, <1>4, <1>5, <1>6, <1>7, <1>8, <1>9, <1>10, <1>11, <1>12, <1>13,
     <1>14 DEF TargetStep

(* The program's calls and a reset keep the types. *)
LEMMA TypeCall ==
    ASSUME TypeInv, Call \/ Reset
    PROVE  Types'
<1>1. ASSUME NEW op \in {"write", "peek", "putchar", "poll"}, NEW size \in Nat,
             NEW pc \in {"entry", "pollEntry"}, Enter(op, size, pc)
      PROVE  Types'
  <2>1. [op |-> op, size |-> size, base |-> outCount, place |-> 0] \in Calls
    BY DEF TypeInv, Types, TargetTypes, Calls
  <2>2. TargetTypes'
    BY <1>1, <2>1, ConstantsAssumption DEF Enter, TypeInv, Types, TargetTypes
  <2>3. RegisterTypes' /\ HostTypes' /\ HistoryTypes'
    BY <1>1 DEF Enter, TypeInv, Types, RegisterTypes, HostTypes, HistoryTypes,
       unchangedByTarget, hostVars, requestVars
  <2>4. QED
    BY <2>2, <2>3 DEF Types
<1>2. CASE Reset
  <2>1. TargetTypes'
    BY <1>2, NoLocalsType DEF Reset, TypeInv, Types, TargetTypes
  <2>2. RegisterTypes' /\ HostTypes' /\ HistoryTypes'
    BY <1>2 DEF Reset, TypeInv, Types, RegisterTypes, HostTypes, HistoryTypes,
       unchangedByTarget, hostVars, requestVars
  <2>3. QED
    BY <2>1, <2>2 DEF Types
<1>3. CASE CallWrite
  <2>1. PICK s \in Sizes \ {0} : Enter("write", s, "entry")
    BY <1>3 DEF CallWrite
  <2>2. s \in Nat
    BY ConstantsAssumption
  <2>3. QED
    BY <1>1, <2>1, <2>2
<1>4. CASE CallPeek \/ CallPutchar \/ CallPoll
  BY <1>1, <1>4 DEF CallPeek, CallPutchar, CallPoll
<1>5. QED
  BY <1>2, <1>3, <1>4 DEF Call

(* The copies of the registers the host keeps. *)
LEMMA CopiesType ==
    ASSUME NEW w \in Word0, NEW d \in Word1, Copies(w, d)
    PROVE  rr' \in Word0 /\ r2' \in Word1
BY WordTypes DEF Copies

(* The keys of one turn make a word of the host. *)
LEMMA GatherType ==
    ASSUME TypeInv, NEW k \in 0..3, Gather(k)
    PROVE  /\ Gathered(k) \in Word0
           /\ ~Gathered(k).b7 /\ Gathered(k).n <= 7
           /\ keyCount' \in Nat
           /\ typed' \in Seq(Nat)
<1>1. keyCount \in Nat /\ append \in Word0 /\ typed \in Seq(Nat)
  BY DEF TypeInv, Types, HostTypes, HistoryTypes
<1>2. Gathered(k) \in Word0
  <2>1. KeyWord(k) \in Word0
    BY <1>1 DEF KeyWord, Word, Word0
  <2>2. QED
    BY <1>1, <2>1 DEF Gathered
<1>3. ~Gathered(k).b7 /\ Gathered(k).n <= 7
  BY DEF Gathered, KeyWord, Word, TypeInv, HostWordInv
<1>4. [i \in 1..k |-> keyCount + i] \in Seq(Nat)
  BY <1>1
<1>5. typed' \in Seq(Nat)
  BY <1>1, <1>4, AppendSeq DEF Gather
<1>6. keyCount' \in Nat
  BY <1>1 DEF Gather
<1>7. QED
  BY <1>2, <1>3, <1>5, <1>6

(* The steps of the host keep the types. *)
LEMMA TypeHost ==
    ASSUME TypeInv, HostActs
    PROVE  Types'
<1>. USE DEF TypeInv, Types
<1>t. TargetTypes'
  BY DEF TargetTypes, HostActs, Attach, BeginCommand, EndCommand, FailSave, FailRestore,
     HostStep, HostFault, Request, RequestHalt, RequestResume, RequestDATA0, RequestDATA1,
     Requested, ReadDATA0, ReadDATA1, WriteDATA1,
     Acknowledge, FailReadDATA0, FailReadDATA1, FailAcknowledge, HostGoto,
     unchangedByHost, targetVars
<1>s. \A w : AckStep(w) \in {"wr1", "wr0"}
  BY DEF AckStep
<1>c. /\ rr \in Word0 /\ r2 \in Word1 /\ data0 \in Word0 /\ data1 \in Word1
      /\ Low(data0) \in Word0
  BY LowType DEF RegisterTypes, HostTypes
<1>k. Held \in Word0
  BY HeldType
<1>p. printed \o Chunk(rr, r2) \in Seq(Nat)
  BY <1>c, ChunkType, AppendSeq DEF HistoryTypes
<1>1. CASE Attach
  <2>1. RegisterTypes' /\ HostTypes' /\ HistoryTypes'
    BY <1>1 DEF Attach, HostGoto, RegisterTypes, HostTypes, HistoryTypes, unchangedByHost, requestVars
  <2>2. QED
    BY <1>t, <2>1
<1>2. CASE ReadDATA0
  <2>1. PICK k \in 0..3 : ReadDATA0!(k)
    BY <1>2 DEF ReadDATA0
  <2>2. rr' \in Word0 /\ r2' \in Word1
    BY <1>c, <2>1, CopiesType
  <2>3. HostTypes'
    BY <1>s, <2>1, <2>2, GatherType DEF HostTypes, HostGoto, unchangedByHost, requestVars
  <2>4. RegisterTypes' /\ HistoryTypes'
    BY <2>1, GatherType DEF RegisterTypes, HistoryTypes, HostGoto, unchangedByHost, requestVars
  <2>5. QED
    BY <1>t, <2>3, <2>4
<1>3. CASE ReadDATA1
  <2>1. rr' \in Word0 /\ r2' \in Word1
    BY <1>3, <1>c, CopiesType DEF ReadDATA1
  <2>2. RegisterTypes' /\ HostTypes' /\ HistoryTypes'
    BY <1>3, <1>s, <2>1 DEF ReadDATA1, HostGoto, RegisterTypes, HostTypes,
       HistoryTypes, unchangedByHost, requestVars
  <2>3. QED
    BY <1>t, <2>2
<1>4. CASE WriteDATA1
  <2>1. rr' \in Word0 /\ r2' \in Word1
    BY <1>4, <1>c, CopiesType DEF WriteDATA1
  <2>2. RegisterTypes' /\ HostTypes' /\ HistoryTypes'
    BY <1>4, <2>1, WordTypes DEF WriteDATA1, HostGoto, RegisterTypes, HostTypes,
       HistoryTypes, unchangedByHost, requestVars
  <2>3. QED
    BY <1>t, <2>2
<1>5. CASE Acknowledge
  <2>1. rr' \in Word0 /\ r2' \in Word1
    BY <1>5, <1>c, CopiesType DEF Acknowledge
  <2>2. RegisterTypes' /\ HostTypes' /\ HistoryTypes'
    BY <1>5, <1>p, <2>1, WordTypes DEF Acknowledge, HostGoto, RegisterTypes, HostTypes,
       HistoryTypes, unchangedByHost, requestVars
  <2>3. QED
    BY <1>t, <2>2
<1>f. ASSUME NEW e \in Harms, NEW yes, Fail(e, yes)
      PROVE  /\ RegisterTypes' /\ faults' \in Nat /\ commands' \in Nat
             /\ taken' \in BOOLEAN /\ harm' \subseteq Harms
  BY <1>f DEF Fail, Note, RegisterTypes, HostTypes, HistoryTypes
<1>h. {"d0read", "d1read", "ack"} \subseteq Harms
  BY DEF Harms
<1>6. CASE FailReadDATA0
  <2>1. PICK k \in 0..3 : Gather(k) /\ Fail("d0read", Gathered(k) # Zero)
    BY <1>6 DEF FailReadDATA0
  <2>2. rr' \in Word0 /\ r2' \in Word1
    BY <1>6, <1>c, CopiesType DEF FailReadDATA0
  <2>3. HostTypes' /\ RegisterTypes' /\ HistoryTypes'
    BY <1>6, <1>f, <1>h, <2>1, <2>2, GatherType, WordTypes
       DEF FailReadDATA0, HostGoto, HostTypes, HistoryTypes, unchangedByHost, requestVars
  <2>4. QED
    BY <1>t, <2>3
<1>7. CASE FailReadDATA1
  <2>1. rr' \in Word0 /\ r2' \in Word1
    BY <1>7, <1>c, CopiesType, WordTypes DEF FailReadDATA1
  <2>2. HostTypes' /\ RegisterTypes' /\ HistoryTypes'
    BY <1>7, <1>f, <1>h, <1>s, <2>1
       DEF FailReadDATA1, HostGoto, HostTypes, HistoryTypes, unchangedByHost, requestVars
  <2>3. QED
    BY <1>t, <2>2
<1>8. CASE FailAcknowledge
  <2>1. rr' \in Word0 /\ r2' \in Word1
    BY <1>8, <1>c, CopiesType DEF FailAcknowledge
  <2>2. HostTypes' /\ RegisterTypes' /\ HistoryTypes'
    BY <1>8, <1>f, <1>h, <1>p, <2>1, WordTypes
       DEF FailAcknowledge, HostGoto, HostTypes, HistoryTypes, unchangedByHost, requestVars
  <2>3. QED
    BY <1>t, <2>2
<1>9. CASE BeginCommand \/ FailSave
  <2>1. rr' \in Word0 /\ r2' \in Word1
    <3>1. \A w \in Strays : w \in Word0
      BY ConstantsAssumption
    <3>2. CASE BeginCommand
      BY <1>c, <3>2, CopiesType DEF BeginCommand
    <3>3. CASE FailSave
      <4>1. PICK w \in Strays : Copies(w, r2)
        BY <3>3 DEF FailSave
      <4>2. QED
        BY <1>c, <3>1, <4>1, CopiesType
    <3>4. QED
      BY <1>9, <3>2, <3>3
  <2>2. hpc' = "cmd" /\ UNCHANGED <<data0, data1, append, requestVars, published, handled>>
    BY <1>9 DEF BeginCommand, FailSave, HostGoto, unchangedByHost
  <2>3. /\ UNCHANGED <<keyCount, printed, typed, taken>>
        /\ faults' \in Nat /\ commands' \in Nat
    <3>1. /\ UNCHANGED <<keyCount, printed, typed, taken>>
          /\ faults' \in {faults, faults + 1} /\ commands' = commands + 1
      BY <1>9 DEF BeginCommand, FailSave
    <3>2. QED
      BY <3>1 DEF HostTypes
  <2>5. harm' \subseteq Harms
    BY <1>9 DEF BeginCommand, FailSave, HistoryTypes, Note, Harms
  <2>4. RegisterTypes' /\ HostTypes' /\ HistoryTypes'
    BY <2>1, <2>2, <2>3, <2>5 DEF RegisterTypes, HostTypes, HistoryTypes, requestVars
  <2>6. QED
    BY <1>t, <2>4
<1>10. CASE EndCommand \/ FailRestore
  <2>1. rr' \in Word0 /\ r2' \in Word1
    BY <1>10, <1>c, CopiesType DEF EndCommand, FailRestore, Restored
  <2>2. /\ hpc' = "loop" /\ masked' = FALSE /\ kept' = Zero /\ data0' \in Word0
        /\ UNCHANGED <<data1, append, keyCount, commands, halted,
                       published, handled, printed, typed, taken>>
    BY <1>10, <1>c DEF EndCommand, FailRestore, Restored, Fail
  <2>3. faults' \in Nat /\ harm' \subseteq Harms
    <3>1. faults' \in {faults, faults + 1}
      BY <1>10 DEF EndCommand, FailRestore, Fail
    <3>2. harm' \in {harm, harm \cup {"stray"}, harm \cup {"command"}}
      BY <1>10 DEF EndCommand, FailRestore, Fail, Note
    <3>3. QED
      BY <3>1, <3>2 DEF Harms, HostTypes, HistoryTypes
  <2>4. RegisterTypes' /\ HostTypes' /\ HistoryTypes'
    BY <2>1, <2>2, <2>3, WordTypes DEF RegisterTypes, HostTypes, HistoryTypes
  <2>5. QED
    BY <1>t, <2>4
<1>11. CASE Request
  <2>1. UNCHANGED <<hpc, append, rr, r2, keyCount, faults,
                    published, handled, printed, typed, taken>>
    BY <1>11 DEF Request, RequestHalt, RequestResume, RequestDATA0, RequestDATA1, Requested
  <2>2. data0' \in Word0 /\ data1' \in Word1
    BY <1>11, <1>c, WordTypes, ConstantsAssumption DEF Request, RequestHalt, RequestResume,
       RequestDATA0, RequestDATA1
  <2>3. /\ halted' \in BOOLEAN /\ masked' \in BOOLEAN /\ kept' \in Word0
        /\ commands' \in Nat
    <3>1. CASE RequestDATA0
      <4>1. commands' = commands + 1 /\ halted' = halted
            /\ masked' = halted /\ kept' \in {Held, Zero}
        BY <3>1 DEF RequestDATA0
      <4>2. QED
        BY <1>k, <4>1, WordTypes DEF HostTypes
    <3>2. CASE RequestHalt \/ RequestResume \/ RequestDATA1
      BY <3>2, WordTypes DEF RequestHalt, RequestResume, RequestDATA1, requestVars, HostTypes
    <3>3. QED
      BY <1>11, <3>1, <3>2 DEF Request
  <2>4. harm' \subseteq Harms
    BY <1>11 DEF Request, RequestHalt, RequestResume, RequestDATA0, RequestDATA1, Note,
       Harms, HistoryTypes
  <2>5. RegisterTypes' /\ HostTypes' /\ HistoryTypes'
    BY <2>1, <2>2, <2>3, <2>4 DEF RegisterTypes, HostTypes, HistoryTypes
  <2>6. QED
    BY <1>t, <2>5
<1>12. QED
  BY <1>1, <1>2, <1>3, <1>4, <1>5, <1>6, <1>7, <1>8, <1>9, <1>10, <1>11
     DEF HostActs, HostStep, HostFault

(* The harm done so far is never forgotten. *)
LEMMA HarmGrows ==
    ASSUME Next
    PROVE  harm \subseteq harm'
<1>1. CASE TargetStep \/ Call \/ Reset
  BY <1>1 DEF TargetStep, Call, CallWrite, CallPeek, CallPutchar, CallPoll, Enter, Reset,
     SetupDATA1, SetupDATA0, CheckTimedOut, Peek, SpinBusy, SpinFree, TimeoutLoad,
     TimeoutStore, InputCount, InputBytes, StoreDATA1, StoreDATA0, PollEntry,
     PollAckStore, ReadOnly, Note
<1>2. CASE HostActs
  BY <1>2 DEF HostActs, Attach, BeginCommand, EndCommand, FailSave, FailRestore, HostStep,
     HostFault, Request, RequestHalt, RequestResume, RequestDATA0, RequestDATA1,
     ReadDATA0, ReadDATA1, WriteDATA1, Acknowledge,
     FailReadDATA0, FailReadDATA1, FailAcknowledge, Fail, Note
<1>3. QED
  BY <1>1, <1>2 DEF Next, HostActs

(* What the target leaves alone; only a running hart takes a step. *)
LEMMA TargetFrame ==
    ASSUME TargetStep \/ Call \/ Reset
    PROVE  /\ UNCHANGED <<hpc, append, rr, r2, printed, halted, masked, kept>>
           /\ TargetStep \/ Call => ~halted
           /\ Reset \/ Call => data0' = data0
BY DEF TargetStep, Call, CallWrite, CallPeek, CallPutchar, CallPoll, Enter, Reset,
   SetupDATA1, SetupDATA0, CheckTimedOut, Peek, SpinBusy, SpinFree, TimeoutLoad,
   TimeoutStore, InputCount, InputBytes, StoreDATA1, StoreDATA0, PollEntry,
   PollAckStore, Goto, unchangedByTarget, hostVars, requestVars

(* So what the target finds in DMDATA0 is the protocol's word. *)
LEMMA HeldTarget ==
    ASSUME TypeInv, TargetStep \/ Call \/ Reset
    PROVE  /\ TargetStep \/ Call => ~masked /\ Held = data0 /\ Held' = data0'
           /\ data0' = data0 => Held' = Held
BY TargetFrame DEF TypeInv, MaskInv, Held

(* What the host leaves alone. *)
LEMMA HostFrame ==
    ASSUME HostActs
    PROVE  UNCHANGED <<tpc, call, dmd, published, handled>>
BY DEF HostActs, Attach, BeginCommand, EndCommand, FailSave, FailRestore, HostStep,
   HostFault, Request, RequestHalt, RequestResume, RequestDATA0, RequestDATA1, Requested,
   ReadDATA0, ReadDATA1, WriteDATA1, Acknowledge,
   FailReadDATA0, FailReadDATA1, FailAcknowledge, HostGoto, unchangedByHost, targetVars

(* The protocol's word changes only by an acknowledgement or a restore, and *)
(* DMDATA1 only by the word the host writes before it acknowledges.         *)
LEMMA HeldHost ==
    ASSUME TypeInv, HostActs, "stray" \notin harm'
    PROVE  /\ \/ Held' = Held
              \/ Acknowledge /\ Held' = append
              \/ EndCommand /\ Held' = rr
           /\ data1' = data1 \/ WriteDATA1
<1>1. CASE Attach \/ BeginCommand \/ ReadDATA0 \/ ReadDATA1 \/ WriteDATA1
  BY <1>1 DEF Attach, BeginCommand, ReadDATA0, ReadDATA1, WriteDATA1, HostGoto,
     unchangedByHost, requestVars, Held
<1>2. CASE Acknowledge
  BY <1>2 DEF Acknowledge, HostGoto, unchangedByHost, requestVars, Held, TypeInv, MaskInv
<1>3. CASE EndCommand
  BY <1>3 DEF EndCommand, Restored, Held
<1>4. CASE FailReadDATA0 \/ FailReadDATA1 \/ FailAcknowledge \/ FailSave
  <2>1. UNCHANGED <<data0, data1, masked, kept>>
    BY <1>4 DEF FailReadDATA0, FailReadDATA1, FailAcknowledge, FailSave, Fail, HostGoto,
       unchangedByHost, requestVars
  <2>2. QED
    BY <2>1 DEF Held
<1>5. CASE FailRestore
  BY <1>5 DEF FailRestore, Restored, Fail, Note, Held
<1>6. CASE Request
  <2>1. CASE RequestHalt \/ RequestResume \/ RequestDATA1
    BY <2>1 DEF RequestHalt, RequestResume, RequestDATA1, requestVars, Note, Held
  <2>2. CASE RequestDATA0
    <3>1. PICK w \in Strays : RequestDATA0!(w)
      BY <2>2 DEF RequestDATA0
    <3>2. data1' = data1
      BY <2>2 DEF RequestDATA0
    <3>3. CASE halted
      BY <3>1, <3>2, <3>3 DEF Held
    <3>4. CASE ~halted
      <4>1. data0' = data0
        <5>1. data0 # w => harm' = harm \cup {"stray"}
          BY <3>1, <3>4 DEF Note
        <5>2. data0' = w
          BY <3>1
        <5>3. QED
          BY <5>1, <5>2
      <4>2. ~masked
        BY <3>4 DEF TypeInv, MaskInv
      <4>3. ~masked'
        BY <3>1, <3>4
      <4>4. QED
        BY <3>2, <4>1, <4>2, <4>3 DEF Held
    <3>5. QED
      BY <3>3, <3>4
  <2>3. QED
    BY <1>6, <2>1, <2>2 DEF Request
<1>7. QED
  BY <1>1, <1>2, <1>3, <1>4, <1>5, <1>6 DEF HostActs, HostStep, HostFault

(* A call stays consistent with its place. *)
LEMMA CallStep ==
    ASSUME TypeInv, Next
    PROVE  CallInv'
<1>. USE DEF TypeInv, CallInv
<1>1. CASE Reset
  BY <1>1 DEF Reset, NoLocals, NoCall
<1>2. ASSUME NEW op, NEW size, NEW pc, Enter(op, size, pc),
             \/ op = "write" /\ size \in Nat \ {0} /\ pc = "entry"
             \/ op = "peek" /\ pc = "entry"
             \/ op = "putchar" /\ size = 1 /\ pc = "entry"
             \/ op = "poll" /\ pc = "pollEntry"
      PROVE  CallInv'
  BY <1>2 DEF Enter
<1>3. CASE Call
  BY <1>2, <1>3, ConstantsAssumption DEF Call, CallWrite, CallPeek, CallPutchar, CallPoll
<1>4. CASE HostActs
  BY <1>4, HostFrame
<1>5. CASE SetupDATA1 \/ SetupDATA0
  BY <1>5 DEF SetupDATA1, SetupDATA0
<1>6. CASE CheckTimedOut \/ Peek \/ PollEntry
  <2>1. CASE CheckTimedOut
    BY <2>1 DEF CheckTimedOut, Goto, Locals, NoLocals, NoCall
  <2>2. CASE Peek
    BY <2>2 DEF Peek, Goto, Locals, NoLocals, NoCall
  <2>3. CASE PollEntry
    <3>1. tpc = "pollEntry" => call.op = "poll"
      BY DEF CallInv
    <3>2. QED
      BY <2>3, <3>1 DEF PollEntry, Goto, Locals, NoLocals, NoCall
  <2>4. QED
    BY <1>6, <2>1, <2>2, <2>3
<1>11. CASE SpinBusy \/ TimeoutLoad
  BY <1>11 DEF SpinBusy, TimeoutLoad, Goto, Locals, NoLocals, NoCall
<1>12. CASE TimeoutStore \/ PollAckStore
  BY <1>12 DEF TimeoutStore, PollAckStore, Goto, NoLocals, NoCall
<1>7. CASE SpinFree \/ StoreDATA1
  BY <1>7 DEF SpinFree, StoreDATA1, Goto, Locals, NoLocals, NoCall, Store
<1>8. CASE InputCount \/ InputBytes
  BY <1>8 DEF InputCount, InputBytes, Goto, Locals, NoLocals, NoCall, AfterInput, Store
<1>9. CASE StoreDATA0
  <2>1. ToSend \in 1..7
    BY <1>9, ToSendType DEF StoreDATA0, Goto
  <2>2. call \in Calls
    BY DEF Types, TargetTypes
  <2>3. QED
    BY <1>9, <2>1, <2>2 DEF StoreDATA0, Goto, Locals, NoLocals, NoCall, Calls
<1>10. QED
  BY <1>1, <1>3, <1>4, <1>5, <1>6, <1>7, <1>8, <1>9, <1>11, <1>12
     DEF Next, TargetStep, HostActs

(* Words of the host stay words of the host, and no word of either side     *)
(* announces more than the registers hold.                                  *)
LEMMA WordsTarget ==
    ASSUME TypeInv, TargetStep \/ Call \/ Reset
    PROVE  HostWordInv' /\ CountsFit' /\ MaskInv'
<1>f. UNCHANGED <<hpc, append, rr, r2, printed, halted, masked, kept>>
  BY TargetFrame
<1>m. MaskInv'
  BY <1>f DEF TypeInv, MaskInv
<1>h. harm \subseteq harm'
  BY HarmGrows DEF Next
<1>t. data0 \in Word0 /\ dmd \in Word0 /\ Held \in Word0
  BY HeldType DEF TypeInv, Types, RegisterTypes, TargetTypes
<1>1. CASE data0' = data0
  <2>1. Held' = Held
    BY <1>1, HeldTarget
  <2>2. dmd' \in {dmd, data0, Zero}
    BY <1>1 DEF TargetStep, Call, CallWrite, CallPeek, CallPutchar, CallPoll, Enter, Reset,
       SetupDATA1, SetupDATA0, CheckTimedOut, Peek, SpinBusy, SpinFree, TimeoutLoad,
       TimeoutStore, InputCount, InputBytes, StoreDATA1, StoreDATA0, PollEntry,
       PollAckStore, Goto, Locals, NoLocals
  <2>3. dmd' = data0 => data0 = Held \/ dmd' = dmd \/ dmd' = Zero
    <3>1. TargetStep \/ Call => data0 = Held
      BY HeldTarget
    <3>2. Reset => dmd' = Zero
      BY DEF Reset, NoLocals
    <3>3. QED
      BY <3>1, <3>2
  <2>4. "stray" \notin harm => Bytes(dmd') <= 7
    BY <2>2, <2>3, WordTypes DEF TypeInv, CountsFit
  <2>5. CountsFit'
    BY <1>f, <1>h, <2>1, <2>4 DEF TypeInv, CountsFit
  <2>6. HostWordInv'
    BY <1>f, <1>h, <2>1 DEF TypeInv, HostWordInv
  <2>7. QED
    BY <1>m, <2>5, <2>6
<1>2. CASE data0' # data0
  <2>1. SetupDATA0 \/ TimeoutStore \/ StoreDATA0 \/ PollAckStore
    BY <1>2, TargetFrame DEF TargetStep, SetupDATA1, CheckTimedOut, Peek, SpinBusy,
       SpinFree, TimeoutLoad, InputCount, InputBytes, StoreDATA1, PollEntry, ReadOnly
  <2>2. Held' = data0' /\ Held = data0
    BY <2>1, HeldTarget DEF TargetStep
  <2>3. dmd' \in {dmd, Zero}
    BY <2>1 DEF SetupDATA0, TimeoutStore, StoreDATA0, PollAckStore, Locals, NoLocals
  <2>4. data0'.b7 /\ ("stray" \notin harm => Bytes(data0') <= 7)
    <3>1. CASE SetupDATA0 \/ PollAckStore
      BY <3>1, WordTypes DEF SetupDATA0, PollAckStore
    <3>2. CASE TimeoutStore
      <4>1. data0' = [dmd EXCEPT !.b7 = TRUE, !.b6 = TRUE]
        BY <3>2 DEF TimeoutStore
      <4>2. data0'.b7 /\ data0'.n = dmd.n
        BY <1>t, <4>1 DEF Word0
      <4>3. Bytes(data0') = Bytes(dmd)
        BY <4>2 DEF Bytes
      <4>4. QED
        BY <4>2, <4>3 DEF TypeInv, CountsFit
    <3>3. CASE StoreDATA0
      <4>1. ToSend \in 1..7
        BY <3>3, ToSendType DEF StoreDATA0, Goto
      <4>2. data0'.b7 /\ data0'.n = ToSend + 4
        BY <3>3 DEF StoreDATA0, Word
      <4>3. QED
        BY <4>1, <4>2 DEF Bytes
    <3>4. QED
      BY <2>1, <3>1, <3>2, <3>3
  <2>5. CountsFit'
    BY <1>f, <1>h, <2>2, <2>3, <2>4, WordTypes DEF TypeInv, CountsFit
  <2>6. HostWordInv'
    BY <1>f, <1>h, <2>2, <2>4 DEF TypeInv, HostWordInv
  <2>7. QED
    BY <1>m, <2>5, <2>6
<1>3. QED
  BY <1>1, <1>2

LEMMA WordsHost ==
    ASSUME TypeInv, HostActs
    PROVE  HostWordInv' /\ CountsFit' /\ MaskInv'
<1>h. harm \subseteq harm'
  BY HarmGrows DEF Next, HostActs
<1>f. dmd' = dmd
  BY HostFrame
<1>t. data0 \in Word0 /\ rr \in Word0 /\ append \in Word0 /\ Held \in Word0
  BY HeldType DEF TypeInv, Types, RegisterTypes, HostTypes
<1>m. MaskInv'
  <2>1. CASE Request
    BY <2>1 DEF Request, RequestHalt, RequestResume, RequestDATA0, RequestDATA1, Requested,
       requestVars, TypeInv, MaskInv
  <2>2. CASE EndCommand \/ FailRestore
    BY <2>2 DEF EndCommand, FailRestore, Restored, MaskInv
  <2>3. CASE \/ Attach \/ BeginCommand \/ ReadDATA0 \/ ReadDATA1 \/ WriteDATA1 \/ Acknowledge
             \/ FailReadDATA0 \/ FailReadDATA1 \/ FailAcknowledge \/ FailSave
    <3>1. hpc # "cmd" /\ UNCHANGED <<halted, masked, kept>>
      BY <2>3 DEF Attach, BeginCommand, ReadDATA0, ReadDATA1, WriteDATA1, Acknowledge,
         FailReadDATA0, FailReadDATA1, FailAcknowledge, FailSave, HostGoto,
         unchangedByHost, requestVars
    <3>2. QED
      BY <3>1 DEF TypeInv, MaskInv
  <2>4. QED
    BY <2>1, <2>2, <2>3 DEF HostActs, HostStep, HostFault
<1>a. /\ ~append'.b7 /\ append'.n <= 7 /\ append' \in Word0
  <2>1. append' \in {append, Zero} \/ \E k \in 0..3 : Gather(k) /\ append' = Gathered(k)
    BY DEF HostActs, Attach, BeginCommand, EndCommand, FailSave, FailRestore, HostStep,
       HostFault, Request, RequestHalt, RequestResume, RequestDATA0, RequestDATA1,
       Requested, ReadDATA0, ReadDATA1, WriteDATA1, Acknowledge,
       FailReadDATA0, FailReadDATA1, FailAcknowledge
  <2>2. QED
    BY <1>t, <2>1, WordTypes, GatherType DEF TypeInv, HostWordInv
<1>b. Bytes(append') <= 7
  BY <1>a DEF Bytes, Word0
<1>1. SUFFICES ASSUME "stray" \notin harm'
               PROVE  /\ Bytes(Held') <= 7 /\ Bytes(rr') <= 7
                      /\ ~Held'.b7 => Held'.n <= 7
                      /\ hpc' = "cmd" /\ ~rr'.b7 => rr'.n <= 7
  BY <1>a, <1>b, <1>f, <1>h, <1>m DEF TypeInv, HostWordInv, CountsFit
<1>2. /\ Bytes(Held) <= 7 /\ Bytes(rr) <= 7
      /\ ~Held.b7 => Held.n <= 7
      /\ hpc = "cmd" /\ ~rr.b7 => rr.n <= 7
      /\ ~append.b7 /\ append.n <= 7 /\ Bytes(append) <= 7
  BY <1>1, <1>h DEF TypeInv, HostWordInv, CountsFit
<1>3. Bytes(Held') <= 7 /\ (~Held'.b7 => Held'.n <= 7)
  BY <1>1, <1>2, HeldHost DEF EndCommand, Restored
<1>4. Bytes(rr') <= 7 /\ (hpc' = "cmd" /\ ~rr'.b7 => rr'.n <= 7)
  <2>1. CASE Request
    <3>1. UNCHANGED <<hpc, rr>>
      BY <2>1 DEF Request, RequestHalt, RequestResume, RequestDATA0, RequestDATA1, Requested
    <3>2. QED
      BY <1>2, <3>1
  <2>2. CASE FailSave
    BY <1>1, <2>2 DEF FailSave, Note
  <2>3. CASE BeginCommand
    <3>1. rr' = data0 /\ hpc = "loop"
      BY <2>3 DEF BeginCommand, HostGoto, Copies
    <3>2. data0 = Held
      BY <3>1 DEF TypeInv, MaskInv, Held
    <3>3. QED
      BY <1>2, <3>1, <3>2
  <2>4. CASE ReadDATA0
    <3>1. rr' \in {Zero, Low(data0)} /\ hpc = "loop" /\ hpc' # "cmd"
      BY <2>4 DEF ReadDATA0, HostGoto, Copies, AckStep
    <3>2. data0 = Held
      BY <3>1 DEF TypeInv, MaskInv, Held
    <3>3. QED
      BY <1>2, <1>t, <3>1, <3>2, LowType, WordTypes
  <2>5. CASE \/ Attach \/ ReadDATA1 \/ WriteDATA1 \/ Acknowledge \/ EndCommand
             \/ FailReadDATA0 \/ FailReadDATA1 \/ FailAcknowledge \/ FailRestore
    <3>1. rr' \in {rr, Zero} /\ hpc' # "cmd"
      BY <2>5 DEF Attach, ReadDATA1, WriteDATA1, Acknowledge, EndCommand, FailReadDATA0,
         FailReadDATA1, FailAcknowledge, FailRestore, Restored, HostGoto, Copies, AckStep
    <3>2. QED
      BY <1>2, <3>1, WordTypes
  <2>6. QED
    BY <2>1, <2>2, <2>3, <2>4, <2>5 DEF HostActs, HostStep, HostFault
<1>5. QED
  BY <1>3, <1>4

LEMMA TypeStep == TypeInv /\ [Next]_vars => TypeInv'
<1> SUFFICES ASSUME TypeInv, [Next]_vars PROVE TypeInv'
  OBVIOUS
<1>1. CASE TargetStep \/ Call \/ Reset
  <2>1. Types'
    BY <1>1, TypeTarget, TypeCall
  <2>2. CallInv'
    BY <1>1, CallStep DEF Next
  <2>3. QED
    BY <1>1, <2>1, <2>2, WordsTarget DEF TypeInv
<1>2. CASE HostActs
  <2>1. CallInv'
    BY <1>2, CallStep DEF Next, HostActs
  <2>2. QED
    BY <1>2, <2>1, TypeHost, WordsHost DEF TypeInv
<1>3. CASE UNCHANGED vars
  BY <1>3 DEF vars, targetVars, hostVars, requestVars, TypeInv, Types, RegisterTypes,
     TargetTypes, HostTypes, HistoryTypes, CallInv, HostWordInv, CountsFit, MaskInv, Held,
     Bytes
<1>4. QED
  BY <1>1, <1>2, <1>3 DEF Next, HostActs

(* Every variable always has its type; and no count that either side reads  *)
(* in DMDATA0 exceeds the seven bytes the two registers hold, whatever the  *)
(* program prints and whatever a request writes while it holds the hart     *)
(* halted, however timeouts, resets and failed transactions of the terminal *)
(* fall, until a save or a restore of DMDATA0 fails or a request lets the   *)
(* hart see a word of its own.                                              *)
THEOREM TypeCorrect == Spec => []TypeOK
<1>1. TypeInv => TypeOK
  BY DEF TypeInv, Types, TypeOK
<1>2. QED
  BY <1>1, TypeInit, TypeStep, PTL DEF Spec

-----------------------------------------------------------------------------
(* Mutual exclusion on the two registers. *)

(* Only the target sets bit 7, and only while it owns the registers or bit  *)
(* 7 is set already; so the host never loses a turn it has.                 *)
LEMMA OwnershipTarget ==
    ASSUME Ownership, TypeInv, "stray" \notin harm, TargetStep \/ Call \/ Reset
    PROVE  Ownership'
<1>h. hpc' = hpc /\ rr' = rr
  BY TargetFrame
<1>0. /\ Reading => Held.b7
      /\ TargetOwns => ~Held.b7
      /\ hpc = "cmd" /\ rr.b7 => Held.b7
  BY DEF Ownership
<1>r. Reading' <=> Reading
  BY <1>h DEF Reading
<1>1. CASE data0' = data0
  <2>1. Held' = Held
    BY <1>1, HeldTarget
  <2>2. TargetOwns' => ~Held.b7
    <3>1. CASE Call \/ Reset
      BY <3>1 DEF Call, CallWrite, CallPeek, CallPutchar, CallPoll, Enter, Reset, TargetOwns
    <3>2. CASE SetupDATA1 \/ SetupDATA0 \/ TimeoutStore \/ StoreDATA0 \/ PollAckStore
      BY <3>2 DEF SetupDATA1, SetupDATA0, TimeoutStore, StoreDATA0, PollAckStore, Goto,
         TargetOwns
    <3>3. CASE CheckTimedOut \/ SpinBusy \/ TimeoutLoad
      BY <3>3 DEF CheckTimedOut, SpinBusy, TimeoutLoad, Goto, TargetOwns
    <3>4. CASE Peek \/ SpinFree \/ PollEntry
      <4>1. Held = data0
        BY <3>4, HeldTarget DEF TargetStep
      <4>2. tpc' \in {"inputCount", "store1", "store0"} => ~data0.b7
        BY <3>4 DEF Peek, SpinFree, PollEntry, Goto, Store
      <4>3. TargetOwns' => tpc' \in {"inputCount", "store1", "store0"}
        BY <3>4 DEF Peek, SpinFree, PollEntry, Goto, Store, TargetOwns
      <4>4. QED
        BY <4>1, <4>2, <4>3
    <3>5. CASE InputCount \/ InputBytes \/ StoreDATA1
      BY <1>0, <3>5 DEF InputCount, InputBytes, StoreDATA1, Goto, TargetOwns
    <3>6. QED
      BY <3>1, <3>2, <3>3, <3>4, <3>5 DEF TargetStep
  <2>3. QED
    BY <1>0, <1>h, <1>r, <2>1, <2>2 DEF Ownership
<1>2. CASE data0' # data0
  <2>1. SetupDATA0 \/ TimeoutStore \/ StoreDATA0 \/ PollAckStore
    BY <1>2, TargetFrame DEF TargetStep, SetupDATA1, CheckTimedOut, Peek, SpinBusy,
       SpinFree, TimeoutLoad, InputCount, InputBytes, StoreDATA1, PollEntry, ReadOnly
  <2>2. Held' = data0'
    BY <2>1, HeldTarget DEF TargetStep
  <2>3. data0'.b7
    <3>1. CASE TimeoutStore
      BY <3>1 DEF TimeoutStore, TypeInv, Types, TargetTypes, Word0
    <3>2. CASE SetupDATA0 \/ StoreDATA0 \/ PollAckStore
      BY <3>2, WordTypes DEF SetupDATA0, StoreDATA0, PollAckStore, Word
    <3>3. QED
      BY <2>1, <3>1, <3>2
  <2>4. ~TargetOwns'
    BY <2>1 DEF SetupDATA0, TimeoutStore, StoreDATA0, PollAckStore, Goto, TargetOwns
  <2>5. QED
    BY <2>2, <2>3, <2>4 DEF Ownership
<1>3. QED
  BY <1>1, <1>2

(* Only an acknowledgement and a restore clear bit 7, and then the target   *)
(* is not between a read that saw it clear and its own store.               *)
LEMMA OwnershipHost ==
    ASSUME Ownership, TypeInv, "stray" \notin harm, HostActs
    PROVE  Ownership'
<1> SUFFICES ASSUME "stray" \notin harm'
             PROVE  /\ Reading' => Held'.b7
                    /\ TargetOwns' => ~Held'.b7
                    /\ hpc' = "cmd" /\ rr'.b7 => Held'.b7
  BY DEF Ownership
<1>0. /\ Reading => Held.b7
      /\ TargetOwns => ~Held.b7
      /\ hpc = "cmd" /\ rr.b7 => Held.b7
      /\ ~append.b7
  BY DEF Ownership, TypeInv, HostWordInv
<1>t. TargetOwns' <=> TargetOwns
  BY HostFrame DEF TargetOwns
<1>h. \/ Held' = Held
      \/ Acknowledge /\ Held' = append
      \/ EndCommand /\ Held' = rr
  BY HeldHost
<1>1. CASE Acknowledge
  <2>1. hpc = "wr0" /\ hpc' = "loop"
    BY <1>1 DEF Acknowledge, HostGoto
  <2>2. Held' \in {Held, append}
    BY <1>h, <2>1 DEF EndCommand, Restored
  <2>3. QED
    BY <1>0, <1>t, <2>1, <2>2 DEF Reading
<1>2. CASE EndCommand \/ FailRestore
  <2>1. hpc = "cmd" /\ hpc' = "loop"
    BY <1>2 DEF EndCommand, FailRestore, Restored
  <2>2. Held' \in {Held, rr}
    BY <1>h, <2>1 DEF Acknowledge, HostGoto
  <2>3. QED
    BY <1>0, <1>t, <2>1, <2>2 DEF Reading
<1>3. CASE Request
  <2>1. hpc' = hpc /\ rr' = rr /\ hpc = "cmd"
    BY <1>3 DEF Request, RequestHalt, RequestResume, RequestDATA0, RequestDATA1, Requested
  <2>2. Held' \in {Held, rr}
    BY <1>h, <2>1 DEF Acknowledge, HostGoto
  <2>3. Held' = Held
    <3>1. ~EndCommand
      BY <2>1 DEF EndCommand, Restored
    <3>2. QED
      BY <1>h, <2>1, <3>1 DEF Acknowledge, HostGoto
  <2>4. QED
    BY <1>0, <1>t, <2>1, <2>3 DEF Reading
<1>4. CASE \/ Attach \/ BeginCommand \/ ReadDATA0 \/ ReadDATA1 \/ WriteDATA1
           \/ FailReadDATA0 \/ FailReadDATA1 \/ FailAcknowledge
  <2>1. UNCHANGED <<data0, masked, kept>> /\ hpc # "cmd"
    BY <1>4 DEF Attach, BeginCommand, ReadDATA0, ReadDATA1, WriteDATA1, FailReadDATA0,
       FailReadDATA1, FailAcknowledge, Fail, HostGoto, unchangedByHost, requestVars
  <2>2. Held' = Held /\ Held = data0
    BY <2>1 DEF Held, TypeInv, MaskInv
  <2>3. Reading' => data0.b7 \/ Reading
    BY <1>4 DEF Attach, BeginCommand, ReadDATA0, ReadDATA1, WriteDATA1, FailReadDATA0,
       FailReadDATA1, FailAcknowledge, HostGoto, AckStep, Reading
  <2>4. hpc' = "cmd" => rr' = data0
    BY <1>4 DEF Attach, BeginCommand, ReadDATA0, ReadDATA1, WriteDATA1, FailReadDATA0,
       FailReadDATA1, FailAcknowledge, HostGoto, AckStep, Copies
  <2>5. QED
    BY <1>0, <1>t, <2>2, <2>3, <2>4
<1>5. CASE FailSave
  BY <1>5 DEF FailSave, Note
<1>6. QED
  BY <1>1, <1>2, <1>3, <1>4, <1>5 DEF HostActs, HostStep, HostFault

LEMMA OwnershipStep == TypeInv /\ Ownership /\ [Next]_vars => Ownership'
<1> SUFFICES ASSUME TypeInv, Ownership, [Next]_vars PROVE Ownership'
  OBVIOUS
<1>1. CASE Next
  <2>1. CASE "stray" \in harm
    <3>1. "stray" \in harm'
      BY <1>1, <2>1, HarmGrows
    <3>2. QED
      BY <3>1 DEF Ownership
  <2>2. CASE "stray" \notin harm
    BY <1>1, <2>2, OwnershipTarget, OwnershipHost DEF Next, HostActs
  <2>3. QED
    BY <2>1, <2>2
<1>2. CASE UNCHANGED vars
  BY <1>2 DEF vars, targetVars, hostVars, requestVars, Ownership, Reading, TargetOwns, Held
<1>3. QED
  BY <1>1, <1>2

(* At no time does each side hold a read of bit 7 that says the turn is its *)
(* own: no timeout's store or reset, both of which store out of turn, no    *)
(* lost transaction of the terminal, no request that overwrites DMDATA0     *)
(* while it holds the hart halted and no restore over a newer word brings   *)
(* the two together.  Only a stray word does: one a request lets the hart   *)
(* see, or one that a failed save or a failed restore leaves in DMDATA0.    *)
THEOREM MutualExclusion == Spec => []Ownership
<1>1. Init => Ownership
  BY DEF Init, Ownership, Reading, TargetOwns
<1>2. QED
  BY <1>1, TypeInit, TypeStep, OwnershipStep, PTL DEF Spec

-----------------------------------------------------------------------------
(* Output, exactly once. *)

(* What a chunk under way looks like.  While the target is about to publish *)
(* it, DMDATA1 already holds its last bytes; while the host is between its  *)
(* two reads, DMDATA0 still announces as many bytes as the host's copy; and *)
(* a reset that has zeroed DMDATA1 zeroed nothing the host has yet to read. *)
ChunkInv ==
    /\ "stray" \notin harm /\ tpc = "store0" /\ call.op = "write" =>
          \A i \in 1..4 : data1[i] = Buf(i + 3)
    /\ hpc = "rd1" => Bytes(rr) > 3

OutputQuiet == harm \cap OutputHarms = {}

OutputInv ==
    OutputQuiet =>
        /\ published = printed \o Pending
        /\ hpc = "rd1" => Bytes(Held) = Bytes(rr)
        /\ tpc = "setup2" =>
              /\ hpc # "rd1"
              /\ hpc \notin {"wr1", "wr0"} /\ Held.b7 => Bytes(Held) <= 3

(* The same for the keys: the word in DMDATA0 is marked as handled only     *)
(* where the target is about to release it.                                 *)
InputQuiet == harm \cap InputHarms = {}

InputInv ==
    /\ InputQuiet /\ tpc = "inputBytes" => dmd = Held
    /\ InputQuiet =>
        /\ typed = handled \o Mail \o Chunk(append, data1)
        /\ tpc \in {"store1", "store0", "pollAck"} => Mail = <<>>
        /\ ~Held.b7 /\ taken => tpc \in {"store1", "store0", "pollAck", "setup1", "setup2"}

LEMMA ChunkStep ==
    ASSUME TypeInv, Ownership, ChunkInv, Next
    PROVE  ChunkInv'
<1>h. harm \subseteq harm'
  BY HarmGrows
<1>1. ("stray" \notin harm /\ tpc = "store0" /\ call.op = "write" =>
          \A i \in 1..4 : data1[i] = Buf(i + 3))'
  <2>1. CASE StoreDATA1
    <3>1. call' = call /\ data1' = [i \in 1..4 |-> Buf(i + 3)]
      BY <2>1 DEF StoreDATA1, Goto, Locals
    <3>2. \A i : Buf(i)' = Buf(i)
      BY <3>1 DEF Buf, ToSend
    <3>3. QED
      BY <3>1, <3>2
  <2>2. CASE SpinFree
    BY <2>2 DEF SpinFree, Goto, Locals, Store
  <2>3. CASE InputCount \/ InputBytes
    BY <2>3 DEF InputCount, InputBytes, Goto, Locals, AfterInput, Store
  <2>4. CASE StoreDATA0
    BY <2>4 DEF StoreDATA0, Goto
  <2>5. CASE \/ SetupDATA1 \/ SetupDATA0 \/ CheckTimedOut \/ Peek \/ SpinBusy \/ TimeoutLoad
             \/ TimeoutStore \/ PollEntry \/ PollAckStore \/ Call \/ Reset
    BY <2>5 DEF SetupDATA1, SetupDATA0, CheckTimedOut, Peek, SpinBusy, TimeoutLoad,
       TimeoutStore, PollEntry, PollAckStore, Goto, Call, CallWrite, CallPeek,
       CallPutchar, CallPoll, Enter, Reset
  <2>6. CASE HostActs
    <3> SUFFICES ASSUME "stray" \notin harm', tpc' = "store0", call'.op = "write"
                 PROVE  \A i \in 1..4 : data1'[i] = Buf(i + 3)'
      OBVIOUS
    <3>1. tpc' = tpc /\ call' = call
      BY <2>6, HostFrame
    <3>2. data1' = data1 \/ WriteDATA1
      BY <2>6, HeldHost
    <3>3. ~WriteDATA1
      <4>1. TargetOwns /\ "stray" \notin harm
        BY <1>h, <3>1 DEF TargetOwns
      <4>2. WriteDATA1 => Reading
        BY DEF WriteDATA1, HostGoto, Reading
      <4>3. QED
        BY <4>1, <4>2 DEF Ownership
    <3>4. \A i : Buf(i)' = Buf(i)
      BY <3>1 DEF Buf, ToSend
    <3>5. QED
      BY <1>h, <3>1, <3>2, <3>3, <3>4 DEF ChunkInv
  <2>7. QED
    BY <2>1, <2>2, <2>3, <2>4, <2>5, <2>6 DEF Next, TargetStep, HostActs
<1>2. (hpc = "rd1" => Bytes(rr) > 3)'
  <2>1. CASE ReadDATA0
    <3>1. hpc' = "rd1" => rr' = Low(data0) /\ Bytes(Low(data0)) \in 4..7
      BY <2>1 DEF ReadDATA0, HostGoto, Copies, AckStep
    <3>2. QED
      BY <3>1
  <2>2. CASE \/ Attach \/ ReadDATA1 \/ WriteDATA1 \/ Acknowledge \/ HostFault
             \/ BeginCommand \/ EndCommand \/ Request
    <3>1. hpc' # "rd1"
      BY <2>2 DEF Attach, ReadDATA1, WriteDATA1, Acknowledge, HostFault, FailReadDATA0,
         FailReadDATA1, FailAcknowledge, FailSave, FailRestore, BeginCommand, EndCommand,
         Request, RequestHalt, RequestResume, RequestDATA0, RequestDATA1, Requested,
         Restored, HostGoto, AckStep
    <3>2. QED
      BY <3>1
  <2>3. CASE TargetStep \/ Call \/ Reset
    <3>1. hpc' = hpc /\ rr' = rr
      BY <2>3, TargetFrame
    <3>2. QED
      BY <3>1 DEF ChunkInv
  <2>4. QED
    BY <2>1, <2>2, <2>3 DEF Next, HostStep
<1>3. QED
  BY <1>1, <1>2 DEF ChunkInv

(* What is under way is a sequence of bytes. *)
LEMMA PendingType ==
    ASSUME TypeInv
    PROVE  Pending \in Seq(Nat) /\ HeldByHost \in Seq(Nat)
<1>1. Chunk(rr, data1) \in Seq(Nat) /\ Chunk(rr, r2) \in Seq(Nat)
      /\ Chunk(Held, data1) \in Seq(Nat)
  BY ChunkType, HeldType DEF TypeInv, Types, RegisterTypes, HostTypes
<1>2. QED
  BY <1>1 DEF Pending, HeldByHost

(* The chunk the target publishes is the one a reader finds. *)
LEMMA PublishedChunk ==
    ASSUME TypeInv, ChunkInv, "stray" \notin harm, StoreDATA0
    PROVE  Chunk(data0', data1') = [i \in 1..ToSend |-> Buf(i)]
<1>1. ToSend \in 1..7 /\ (call.op = "putchar" => ToSend = 1)
  <2>1. ToSend \in 1..7
    BY ToSendType DEF StoreDATA0, Goto
  <2>2. call.op = "putchar" => ToSend = 1
    BY DEF TypeInv, CallInv, ToSend
  <2>3. QED
    BY <2>1, <2>2
<1>2. data0'.n = ToSend + 4 /\ data0'.c = [i \in 1..3 |-> Buf(i)] /\ data1' = data1
  BY DEF StoreDATA0, Word
<1>3. Bytes(data0') = ToSend
  BY <1>1, <1>2 DEF Bytes
<1>4. \A i \in 1..ToSend : i > 3 => data1[i - 3] = Buf(i)
  <2>1. SUFFICES ASSUME NEW i \in 1..ToSend, i > 3 PROVE data1[i - 3] = Buf(i)
    OBVIOUS
  <2>2. call.op = "write" /\ tpc = "store0"
    BY <1>1, <2>1 DEF StoreDATA0, Goto, TypeInv, CallInv
  <2>3. i - 3 \in 1..4 /\ (i - 3) + 3 = i
    BY <1>1, <2>1
  <2>4. QED
    BY <2>2, <2>3 DEF ChunkInv
<1>5. \A i \in 1..ToSend :
         (IF i <= 3 THEN data0'.c[i] ELSE IF i <= 7 THEN data1[i - 3] ELSE 0) = Buf(i)
  BY <1>1, <1>2, <1>4
<1>6. QED
  BY <1>2, <1>3, <1>5 DEF Chunk

(* A chunk that is read from unchanged registers is unchanged. *)
LEMMA PendingFrame ==
    ASSUME hpc' = hpc, rr' = rr, r2' = r2, Held' = Held, data1' = data1
    PROVE  Pending' = Pending /\ HeldByHost' = HeldByHost
BY DEF Pending, HeldByHost, Reading

LEMMA OutputTarget ==
    ASSUME TypeInv, Ownership, ChunkInv, OutputInv, TargetStep \/ Call \/ Reset
    PROVE  OutputInv'
<1> SUFFICES ASSUME OutputQuiet'
             PROVE  /\ published' = printed' \o Pending'
                    /\ hpc' = "rd1" => Bytes(Held') = Bytes(rr')
                    /\ tpc' = "setup2" =>
                          /\ hpc' # "rd1"
                          /\ hpc' \notin {"wr1", "wr0"} /\ Held'.b7 => Bytes(Held') <= 3
  BY DEF OutputInv
<1>0. /\ published = printed \o Pending
      /\ hpc = "rd1" => Bytes(Held) = Bytes(rr)
      /\ tpc = "setup2" =>
            /\ hpc # "rd1"
            /\ hpc \notin {"wr1", "wr0"} /\ Held.b7 => Bytes(Held) <= 3
      /\ "stray" \notin harm /\ "stray" \notin harm'
      /\ Reading => Held.b7
      /\ TargetOwns => ~Held.b7
  <2>1. OutputQuiet
    BY HarmGrows DEF Next, OutputQuiet
  <2>2. "stray" \notin harm /\ "stray" \notin harm'
    BY <2>1 DEF OutputQuiet, OutputHarms
  <2>3. QED
    BY <2>1, <2>2 DEF OutputInv, Ownership
<1>h. /\ TargetStep \/ Call => Held = data0 /\ Held' = data0'
      /\ data0' = data0 => Held' = Held
  BY HeldTarget
<1>f. UNCHANGED <<hpc, append, rr, r2, printed>>
  BY TargetFrame
<1>t. /\ data0 \in Word0 /\ data1 \in Word1 /\ rr \in Word0 /\ r2 \in Word1
      /\ published \in Seq(Nat) /\ printed \in Seq(Nat)
      /\ Pending \in Seq(Nat) /\ HeldByHost \in Seq(Nat)
  BY PendingType DEF TypeInv, Types, RegisterTypes, HostTypes, HistoryTypes
<1>n. \A s \in Seq(Nat) : s \o <<>> = s
  OBVIOUS
<1>1. CASE \/ CheckTimedOut \/ Peek \/ SpinBusy \/ SpinFree \/ TimeoutLoad \/ InputCount
           \/ InputBytes \/ PollEntry \/ Call \/ Reset
  <2>1. data0' = data0 /\ data1' = data1 /\ published' = published
    BY <1>1 DEF CheckTimedOut, Peek, SpinBusy, SpinFree, TimeoutLoad, InputCount,
       InputBytes, PollEntry, ReadOnly, Call, CallWrite, CallPeek, CallPutchar, CallPoll,
       Enter, Reset
  <2>2. tpc' # "setup2"
    BY <1>1 DEF CheckTimedOut, Peek, SpinBusy, SpinFree, TimeoutLoad, InputCount,
       InputBytes, PollEntry, Goto, AfterInput, Store, Call, CallWrite, CallPeek,
       CallPutchar, CallPoll, Enter, Reset
  <2>3. QED
    BY <1>0, <1>f, <1>h, <2>1, <2>2, PendingFrame
<1>2. CASE SetupDATA1
  <2>0. Held = data0 /\ Held' = data0'
    BY <1>2, <1>h DEF TargetStep
  <2>1. /\ data0' = data0 /\ data1' = NoBytes1 /\ published' = published
        /\ "reset" \notin harm'
    BY <1>2 DEF SetupDATA1, OutputQuiet, OutputHarms
  <2>2. ~(data0.b7 /\ Bytes(data0) > 3 /\ hpc \notin {"wr1", "wr0"})
    BY <1>2, <2>1 DEF SetupDATA1, Note
  <2>3. hpc # "rd1"
    BY <1>0, <2>0, <2>2 DEF ChunkInv, Reading
  <2>4. Bytes(data0) \in 0..59
    BY <1>t, BytesType
  <2>5. Pending' = Pending
    <3>1. CASE hpc \in {"wr1", "wr0"}
      BY <1>f, <2>0, <3>1 DEF Pending, HeldByHost, Reading
    <3>2. CASE hpc \notin {"rd1", "wr1", "wr0"} /\ data0.b7
      <4>1. Chunk(data0, data1) = Chunk(data0, NoBytes1)
        <5>1. ~(Bytes(data0) > 3)
          BY <2>2, <3>2
        <5>2. Bytes(data0) <= 3
          BY <2>4, <5>1
        <5>3. QED
          BY <1>t, <5>2, ChunkShort, WordTypes
      <4>2. QED
        BY <1>f, <2>0, <2>1, <3>2, <4>1 DEF Pending, Reading
    <3>3. CASE hpc \notin {"rd1", "wr1", "wr0"} /\ ~data0.b7
      BY <1>f, <2>0, <2>1, <3>3 DEF Pending, Reading
    <3>4. QED
      BY <2>3, <3>1, <3>2, <3>3
  <2>6. hpc \notin {"wr1", "wr0"} /\ data0.b7 => Bytes(data0) <= 3
    <3>1. hpc \notin {"wr1", "wr0"} /\ data0.b7 => ~(Bytes(data0) > 3)
      BY <2>2
    <3>2. QED
      BY <2>4, <3>1
  <2>7. QED
    BY <1>0, <1>f, <2>0, <2>1, <2>3, <2>5, <2>6
<1>3. CASE SetupDATA0
  <2>0. Held = data0 /\ Held' = data0'
    BY <1>3, <1>h DEF TargetStep
  <2>1. /\ data0' = Boot /\ data1' = data1 /\ published' = printed \o HeldByHost
        /\ tpc = "setup2" /\ tpc' = "idle"
    BY <1>3 DEF SetupDATA0
  <2>2. Bytes(Boot) = 0
    BY DEF Bytes, Boot, Word
  <2>3. Pending' = HeldByHost
    <3>1. CASE Reading
      BY <1>f, <2>0, <2>1, <3>1 DEF Pending, HeldByHost, Reading
    <3>2. CASE ~Reading
      <4>1. HeldByHost = <<>>
        BY <3>2 DEF HeldByHost, Reading
      <4>2. Pending' = <<>>
        BY <1>f, <2>0, <2>1, <2>2, <3>2, ChunkNone DEF Pending, Reading
      <4>3. QED
        BY <4>1, <4>2
    <3>3. QED
      BY <3>1, <3>2
  <2>4. QED
    BY <1>0, <1>f, <2>0, <2>1, <2>3
<1>4. CASE TimeoutStore
  <2>0. Held = data0 /\ Held' = data0'
    BY <1>4, <1>h DEF TargetStep
  <2>1. /\ data0' = [dmd EXCEPT !.b7 = TRUE, !.b6 = TRUE] /\ data1' = data1
        /\ published' = published /\ tpc' = "idle" /\ "collision" \notin harm'
    BY <1>4 DEF TimeoutStore, Goto, OutputQuiet, OutputHarms
  <2>2. dmd.b7 /\ data0 = dmd
    BY <1>4, <2>1 DEF TimeoutStore, Note
  <2>3. data0'.b7 /\ data0'.n = data0.n /\ data0'.c = data0.c
    BY <1>t, <2>0, <2>1, <2>2 DEF Word0
  <2>4. Bytes(data0') = Bytes(data0) /\ Chunk(data0', data1) = Chunk(data0, data1)
    BY <2>3 DEF Bytes, Chunk
  <2>5. Pending' = Pending
    BY <1>f, <2>0, <2>1, <2>2, <2>3, <2>4 DEF Pending, HeldByHost, Reading
  <2>6. QED
    BY <1>0, <1>f, <2>0, <2>1, <2>4, <2>5
<1>5. CASE StoreDATA1
  <2>0. Held = data0 /\ Held' = data0'
    BY <1>5, <1>h DEF TargetStep
  <2>1. /\ data0' = data0 /\ published' = published /\ tpc = "store1" /\ tpc' = "store0"
    BY <1>5 DEF StoreDATA1, Goto
  <2>2. ~data0.b7 /\ ~Reading
    BY <1>0, <2>0, <2>1 DEF TargetOwns
  <2>3. Pending = <<>> /\ Pending' = <<>>
    BY <1>f, <2>0, <2>1, <2>2 DEF Pending, Reading
  <2>4. QED
    BY <1>0, <1>f, <2>0, <2>1, <2>2, <2>3 DEF Reading
<1>6. CASE StoreDATA0
  <2>0. Held = data0 /\ Held' = data0'
    BY <1>6, <1>h DEF TargetStep
  <2>1. /\ published' = published \o [i \in 1..ToSend |-> Buf(i)] /\ data0'.b7
        /\ tpc = "store0" /\ tpc' \in {"spin", "idle"}
    BY <1>6 DEF StoreDATA0, Goto, Word
  <2>2. ~data0.b7 /\ ~Reading
    BY <1>0, <2>0, <2>1 DEF TargetOwns
  <2>3. Pending = <<>>
    BY <2>0, <2>2 DEF Pending
  <2>4. Pending' = [i \in 1..ToSend |-> Buf(i)]
    BY <1>0, <1>6, <1>f, <2>0, <2>1, <2>2, PublishedChunk DEF Pending, Reading
  <2>5. QED
    BY <1>0, <1>f, <1>n, <1>t, <2>1, <2>2, <2>3, <2>4 DEF Reading
<1>7. CASE PollAckStore
  <2>0. Held = data0 /\ Held' = data0'
    BY <1>7, <1>h DEF TargetStep
  <2>1. /\ published' = published /\ data0' = PollAck /\ tpc = "pollAck" /\ tpc' = "idle"
    BY <1>7 DEF PollAckStore, Goto
  <2>2. ~data0.b7 /\ ~Reading
    BY <1>0, <2>0, <2>1 DEF TargetOwns
  <2>3. Bytes(PollAck) = 0
    BY DEF Bytes, PollAck, Word
  <2>4. Pending = <<>> /\ Pending' = <<>>
    BY <1>f, <2>0, <2>1, <2>2, <2>3, ChunkNone DEF Pending, Reading
  <2>5. QED
    BY <1>0, <1>f, <2>0, <2>1, <2>2, <2>4 DEF Reading
<1>8. QED
  BY <1>1, <1>2, <1>3, <1>4, <1>5, <1>6, <1>7 DEF TargetStep

LEMMA OutputHost ==
    ASSUME TypeInv, Ownership, ChunkInv, OutputInv, HostActs
    PROVE  OutputInv'
<1> SUFFICES ASSUME OutputQuiet'
             PROVE  /\ published' = printed' \o Pending'
                    /\ hpc' = "rd1" => Bytes(Held') = Bytes(rr')
                    /\ tpc' = "setup2" =>
                          /\ hpc' # "rd1"
                          /\ hpc' \notin {"wr1", "wr0"} /\ Held'.b7 => Bytes(Held') <= 3
  BY DEF OutputInv
<1>0. /\ published = printed \o Pending
      /\ hpc = "rd1" => Bytes(Held) = Bytes(rr)
      /\ tpc = "setup2" =>
            /\ hpc # "rd1"
            /\ hpc \notin {"wr1", "wr0"} /\ Held.b7 => Bytes(Held) <= 3
      /\ "stray" \notin harm'
      /\ Bytes(Held) <= 7
  <2>1. OutputQuiet
    BY HarmGrows DEF Next, HostActs, OutputQuiet
  <2>2. "stray" \notin harm /\ "stray" \notin harm'
    BY <2>1 DEF OutputQuiet, OutputHarms
  <2>3. QED
    BY <2>1, <2>2 DEF OutputInv, TypeInv, CountsFit
<1>h. \/ Held' = Held
      \/ Acknowledge /\ Held' = append
  <2>1. EndCommand => Held = rr
    BY DEF EndCommand, Note, OutputQuiet, OutputHarms
  <2>2. QED
    BY <1>0, <2>1, HeldHost
<1>f. UNCHANGED <<tpc, published>>
  BY HostFrame
<1>t. /\ Held \in Word0 /\ data1 \in Word1 /\ rr \in Word0 /\ r2 \in Word1
      /\ published \in Seq(Nat) /\ printed \in Seq(Nat)
      /\ Pending \in Seq(Nat) /\ HeldByHost \in Seq(Nat)
  BY PendingType, HeldType DEF TypeInv, Types, RegisterTypes, HostTypes, HistoryTypes
<1>n. \A s \in Seq(Nat) : s \o <<>> = s
  OBVIOUS
<1>1. CASE \/ Attach \/ FailReadDATA0 \/ BeginCommand \/ FailSave \/ EndCommand
           \/ FailRestore \/ Request
  <2>1. /\ ~Reading /\ ~Reading' /\ hpc' # "rd1" /\ hpc' \notin {"wr1", "wr0"}
        /\ hpc \notin {"wr1", "wr0"} /\ printed' = printed /\ ~Acknowledge
        /\ ~WriteDATA1
    BY <1>1 DEF Attach, FailReadDATA0, BeginCommand, FailSave, EndCommand, FailRestore,
       Request, RequestHalt, RequestResume, RequestDATA0, RequestDATA1, Requested, Restored,
       HostGoto, Reading, Acknowledge, WriteDATA1
  <2>2. Held' = Held /\ data1' = data1
    BY <1>0, <1>h, <2>1, HeldHost
  <2>3. Pending' = Pending
    BY <2>1, <2>2 DEF Pending
  <2>4. QED
    BY <1>0, <1>f, <2>1, <2>2, <2>3
<1>2. CASE ReadDATA0
  <2>1. /\ UNCHANGED <<data0, data1, printed>> /\ hpc = "loop" /\ Held' = Held
        /\ Held = data0
    BY <1>2, <1>h DEF ReadDATA0, HostGoto, Acknowledge, Held, TypeInv, MaskInv
  <2>a. Low(data0) = data0 /\ data0 \in Word0
    BY <1>0, <1>t, <2>1, LowType
  <2>2. CASE ~data0.b7
    <3>1. hpc' = "loop"
      BY <1>2, <2>2 DEF ReadDATA0, HostGoto
    <3>2. Pending' = Pending
      BY <2>1, <3>1 DEF Pending, Reading
    <3>3. QED
      BY <1>0, <1>f, <2>1, <3>1, <3>2
  <2>3. CASE data0.b7 /\ Bytes(data0) \in 4..7
    <3>1. hpc' = "rd1" /\ rr' = data0
      BY <1>2, <2>a, <2>3 DEF ReadDATA0, HostGoto, Copies
    <3>2. Pending' = Chunk(data0, data1) /\ Pending = Chunk(data0, data1)
      BY <2>1, <2>3, <3>1 DEF Pending, HeldByHost, Reading
    <3>3. QED
      BY <1>0, <1>f, <2>1, <2>3, <3>1, <3>2
  <2>4. CASE data0.b7 /\ Bytes(data0) \notin 4..7
    <3>1. hpc' \in {"wr1", "wr0"} /\ rr' = data0 /\ r2' = r2
      BY <1>2, <2>a, <2>4 DEF ReadDATA0, HostGoto, Copies, AckStep
    <3>2. Bytes(data0) <= 3
      <4>1. Bytes(data0) \in 0..59 /\ Bytes(data0) <= 7
        BY <1>0, <2>1, <2>a, BytesType
      <4>2. QED
        BY <2>4, <4>1
    <3>3. Pending' = Chunk(data0, r2) /\ Pending = Chunk(data0, data1)
      BY <2>1, <2>4, <3>1 DEF Pending, HeldByHost, Reading
    <3>4. Pending' = Pending
      BY <1>t, <2>a, <3>2, <3>3, ChunkShort
    <3>5. QED
      BY <1>0, <1>f, <2>1, <3>1, <3>4
  <2>5. QED
    BY <2>2, <2>3, <2>4
<1>3. CASE ReadDATA1
  <2>1. /\ UNCHANGED <<data1, printed>> /\ hpc = "rd1" /\ hpc' \in {"wr1", "wr0"}
        /\ rr' = rr /\ r2' = data1
    BY <1>3 DEF ReadDATA1, HostGoto, Copies, AckStep
  <2>2. Pending' = Pending
    BY <2>1 DEF Pending, HeldByHost, Reading
  <2>3. QED
    BY <1>0, <1>f, <2>1, <2>2
<1>4. CASE WriteDATA1
  <2>1. /\ printed' = printed /\ hpc = "wr1" /\ hpc' = "wr0" /\ rr' = rr /\ r2' = r2
    BY <1>4 DEF WriteDATA1, HostGoto, Copies
  <2>2. Pending' = Pending
    BY <2>1 DEF Pending, HeldByHost, Reading
  <2>3. QED
    BY <1>0, <1>f, <2>1, <2>2
<1>5. CASE Acknowledge
  <2>1. /\ Held' = append /\ printed' = printed \o Chunk(rr, r2)
        /\ hpc = "wr0" /\ hpc' = "loop"
    BY <1>5 DEF Acknowledge, HostGoto, unchangedByHost, requestVars, Held, TypeInv, MaskInv
  <2>2. Pending = Chunk(rr, r2)
    BY <2>1 DEF Pending, HeldByHost, Reading
  <2>3. Pending' = <<>> /\ ~Held'.b7
    BY <2>1 DEF Pending, Reading, TypeInv, HostWordInv
  <2>4. printed' \in Seq(Nat)
    BY <1>t, <2>1, <2>2, AppendSeq
  <2>5. QED
    BY <1>0, <1>f, <1>n, <2>1, <2>2, <2>3, <2>4
<1>6. CASE FailReadDATA1 \/ FailAcknowledge
  BY <1>6 DEF FailReadDATA1, FailAcknowledge, Fail, Note, OutputQuiet, OutputHarms
<1>7. QED
  BY <1>1, <1>2, <1>3, <1>4, <1>5, <1>6 DEF HostActs, HostStep, HostFault

OutputInd == TypeInv /\ Ownership /\ ChunkInv /\ OutputInv

LEMMA OutputInit == Init => OutputInd
<1> SUFFICES ASSUME Init PROVE OutputInd
  OBVIOUS
<1>1. Ownership /\ ChunkInv
  BY DEF Init, Ownership, Reading, TargetOwns, ChunkInv
<1>2. Pending = <<>>
  BY WordTypes DEF Init, Pending, Reading, Held
<1>3. published = printed \o Pending
  BY <1>2 DEF Init
<1>4. OutputInv
  BY <1>3 DEF Init, OutputInv
<1>5. QED
  BY <1>1, <1>4, TypeInit DEF OutputInd

LEMMA OutputStep == OutputInd /\ [Next]_vars => OutputInd'
<1> SUFFICES ASSUME OutputInd, [Next]_vars PROVE OutputInd'
  OBVIOUS
<1>. USE DEF OutputInd
<1>1. TypeInv' /\ Ownership'
  BY TypeStep, OwnershipStep
<1>2. CASE Next
  BY <1>1, <1>2, ChunkStep, OutputTarget, OutputHost DEF Next, HostActs
<1>3. CASE UNCHANGED vars
  <2>1. ChunkInv'
    BY <1>3 DEF vars, targetVars, hostVars, ChunkInv, Buf, ToSend
  <2>2. OutputInv'
    <3>1. Held' = Held /\ Pending' = Pending
      BY <1>3 DEF vars, targetVars, hostVars, requestVars, Held, Pending, HeldByHost, Reading
    <3>2. QED
      BY <1>3, <3>1 DEF vars, targetVars, hostVars, OutputInv, OutputQuiet
  <2>3. QED
    BY <1>1, <2>1, <2>2
<1>4. QED
  BY <1>2, <1>3

(* Unless one of the six output harms happens, what the terminal has       *)
(* printed and what the registers hold is exactly what the program has      *)
(* published: nothing lost, repeated, reordered or altered, for every       *)
(* length of message, every timeout, any number of resets, and requests     *)
(* that overwrite DMDATA0 while they hold the hart halted.                  *)
THEOREM OutputIsExactlyOnce == Spec => []OutputExactlyOnce
<1>1. OutputInd => OutputExactlyOnce
  BY DEF OutputInd, OutputInv, OutputQuiet, OutputExactlyOnce
<1>2. QED
  BY <1>1, OutputInit, OutputStep, PTL DEF Spec

-----------------------------------------------------------------------------
(* Input, exactly once. *)

(* A word of the host has its keys in DMDATA0. *)
LEMMA ShortWords ==
    ASSUME TypeInv, NEW d \in Word1
    PROVE  /\ Chunk(append, d) = Chunk(append, data1)
           /\ "stray" \notin harm /\ ~Held.b7 => Chunk(Held, d) = Chunk(Held, data1)
<1>1. Held \in Word0 /\ append \in Word0 /\ data1 \in Word1
  BY HeldType DEF TypeInv, Types, RegisterTypes, HostTypes
<1>2. Bytes(append) <= 3 /\ ("stray" \notin harm /\ ~Held.b7 => Bytes(Held) <= 3)
  <2>1. append.n \in 0..63 /\ Held.n \in 0..63
    BY <1>1 DEF Word0
  <2>2. QED
    BY <2>1 DEF TypeInv, HostWordInv, Bytes
<1>3. QED
  BY <1>1, <1>2, ChunkShort

LEMMA MailType ==
    ASSUME TypeInv
    PROVE  Mail \in Seq(Nat) /\ Chunk(append, data1) \in Seq(Nat)
<1>1. Chunk(Held, data1) \in Seq(Nat) /\ Chunk(append, data1) \in Seq(Nat)
  BY ChunkType, HeldType DEF TypeInv, Types, RegisterTypes, HostTypes
<1>2. QED
  BY <1>1 DEF Mail

LEMMA InputTarget ==
    ASSUME TypeInv, Ownership, InputInv, TargetStep \/ Call \/ Reset
    PROVE  InputInv'
<1>f. UNCHANGED <<hpc, append, rr, r2, printed>>
  BY TargetFrame
<1>t. /\ data0 \in Word0 /\ data1 \in Word1 /\ append \in Word0 /\ dmd \in Word0
      /\ typed \in Seq(Nat) /\ handled \in Seq(Nat) /\ taken \in BOOLEAN
      /\ Mail \in Seq(Nat) /\ Chunk(append, data1) \in Seq(Nat)
  BY MailType DEF TypeInv, Types, RegisterTypes, HostTypes, TargetTypes, HistoryTypes
<1>h. TargetStep \/ Call => ~masked /\ Held = data0 /\ Held' = data0'
  BY HeldTarget
<1>1. (InputQuiet /\ tpc = "inputBytes" => dmd = Held)'
  <2>1. tpc' = "inputBytes" => TargetStep
    BY DEF Call, CallWrite, CallPeek, CallPutchar, CallPoll, Enter, Reset
  <2>2. tpc' = "inputBytes" => dmd' = data0'
    BY <2>1 DEF TargetStep,
       SetupDATA1, SetupDATA0, CheckTimedOut, Peek, SpinBusy, SpinFree, TimeoutLoad,
       TimeoutStore, InputCount, InputBytes, StoreDATA1, StoreDATA0, PollEntry,
       PollAckStore, Goto, Locals, ReadOnly, AfterInput, Store
  <2>3. QED
    BY <1>h, <2>1, <2>2
<1>2. ASSUME InputQuiet'
      PROVE  /\ typed' = handled' \o Mail' \o Chunk(append', data1')
             /\ tpc' \in {"store1", "store0", "pollAck"} => Mail' = <<>>
             /\ ~Held'.b7 /\ taken' =>
                   tpc' \in {"store1", "store0", "pollAck", "setup1", "setup2"}
  <2>0. /\ typed = handled \o Mail \o Chunk(append, data1)
        /\ tpc \in {"store1", "store0", "pollAck"} => Mail = <<>>
        /\ ~Held.b7 /\ taken => tpc \in {"store1", "store0", "pollAck", "setup1", "setup2"}
        /\ TargetOwns => ~Held.b7
        /\ "stray" \notin harm
    <3>1. InputQuiet
      BY <1>2, HarmGrows DEF Next, InputQuiet
    <3>2. "stray" \notin harm
      BY <3>1 DEF InputQuiet, InputHarms
    <3>3. QED
      BY <3>1, <3>2 DEF InputInv, Ownership
  <2>n. handled \o <<>> = handled
    BY <1>t
  <2>1. CASE CheckTimedOut \/ Peek \/ SpinBusy \/ TimeoutLoad \/ PollEntry \/ Call \/ Reset
    <3>1. UNCHANGED <<data0, data1, typed, handled, taken>>
      BY <2>1 DEF CheckTimedOut, Peek, SpinBusy, TimeoutLoad, PollEntry, ReadOnly, Call,
         CallWrite, CallPeek, CallPutchar, CallPoll, Enter, Reset
    <3>2. /\ tpc' \notin {"store1", "store0", "pollAck"}
          /\ tpc' # "setup1" => tpc \notin {"store1", "store0", "pollAck", "setup1",
             "setup2"}
      BY <2>1 DEF CheckTimedOut, Peek, SpinBusy, TimeoutLoad, PollEntry, Goto, Call,
         CallWrite, CallPeek, CallPutchar, CallPoll, Enter, Reset
    <3>3. Held' = Held
      BY <3>1, HeldTarget
    <3>4. QED
      BY <1>f, <2>0, <3>1, <3>2, <3>3 DEF Mail
  <2>2. CASE SpinFree
    <3>0. ~masked /\ Held = data0 /\ Held' = data0'
      BY <1>h, <2>2 DEF TargetStep
    <3>1. /\ UNCHANGED <<data0, data1, typed, handled, taken>>
          /\ tpc = "spin" /\ ~data0.b7
          /\ tpc' \in {"store1", "store0"} => data0 = Zero
          /\ tpc' \in {"inputCount", "store1", "store0"}
      BY <2>2 DEF SpinFree, Goto, ReadOnly, Store
    <3>2. data0 = Zero => Mail = <<>>
      BY <3>0, ChunkNone, WordTypes DEF Mail, Bytes
    <3>3. QED
      BY <3>0, <1>f, <2>0, <3>1, <3>2 DEF Mail
  <2>3. CASE InputCount
    <3>0. ~masked /\ Held = data0 /\ Held' = data0'
      BY <1>h, <2>3 DEF TargetStep
    <3>1. /\ UNCHANGED <<data0, data1, typed, handled, taken>> /\ tpc = "inputCount"
          /\ tpc' # "inputBytes" => Bytes(data0) \notin 1..15
      BY <2>3 DEF InputCount, Goto, ReadOnly
    <3>2. Bytes(data0) \in 0..15
      <4>1. Bytes(data0) \in 0..59 /\ Bytes(Held) <= 7
        BY <1>t, <2>0, BytesType DEF TypeInv, CountsFit
      <4>2. QED
        BY <3>0, <4>1
    <3>3. Bytes(data0) \notin 1..15 => Mail = <<>>
      BY <3>0, <3>2, ChunkNone DEF Mail
    <3>4. ~data0.b7 /\ ~taken
      BY <2>0, <3>0, <3>1 DEF TargetOwns
    <3>5. QED
      BY <3>0, <1>f, <2>0, <3>1, <3>3, <3>4 DEF Mail
  <2>4. CASE InputBytes
    <3>0. ~masked /\ Held = data0 /\ Held' = data0'
      BY <1>h, <2>4 DEF TargetStep
    <3>1. /\ UNCHANGED <<data0, data1, typed>> /\ taken' /\ tpc = "inputBytes"
          /\ handled' = handled \o Chunk([data0 EXCEPT !.n = dmd.n], data1)
          /\ tpc' = AfterInput
      BY <2>4 DEF InputBytes, Goto
    <3>2. call.op # "peek"
      BY <1>2, <2>4 DEF InputBytes, Note, InputQuiet, InputHarms
    <3>3. tpc' \in {"store1", "store0", "pollAck"}
      BY <3>1, <3>2 DEF AfterInput, Store
    <3>4. [data0 EXCEPT !.n = dmd.n] = data0
      <4>1. dmd = data0
        BY <1>2, <3>0, <3>1, HarmGrows DEF Next, InputInv, InputQuiet
      <4>2. QED
        BY <1>t, <4>1 DEF Word0
    <3>5. Mail = Chunk(data0, data1)
      BY <2>0, <3>0, <3>1 DEF Mail, TargetOwns
    <3>6. Mail' = <<>>
      BY <3>0, <3>1 DEF Mail
    <3>7. handled' = handled \o Mail /\ handled' \in Seq(Nat)
      BY <1>t, <3>1, <3>4, <3>5, AppendSeq
    <3>8. handled' \o <<>> = handled'
      BY <3>7
    <3>9. typed' = handled' \o <<>> \o Chunk(append', data1')
      BY <1>f, <2>0, <3>1, <3>7, <3>8
    <3>10. QED
      BY <3>3, <3>6, <3>9
  <2>5. CASE SetupDATA1 \/ StoreDATA1
    <3>0. ~masked /\ Held = data0 /\ Held' = data0'
      BY <1>h, <2>5 DEF TargetStep
    <3>1. /\ UNCHANGED <<data0, typed, handled, taken>>
          /\ \/ tpc = "store1" /\ tpc' = "store0"
             \/ tpc = "setup1" /\ tpc' = "setup2"
      BY <2>5 DEF SetupDATA1, StoreDATA1, Goto
    <3>2. data1' \in Word1
      BY TypeStep DEF Next, TypeInv, Types, RegisterTypes
    <3>3. Mail' = Mail /\ Chunk(append', data1') = Chunk(append, data1)
      BY <2>0, <3>0, <1>f, <3>1, <3>2, ShortWords DEF Mail
    <3>4. QED
      BY <2>0, <3>0, <3>1, <3>3
  <2>6. CASE SetupDATA0
    <3>0. ~masked /\ Held = data0 /\ Held' = data0'
      BY <1>h, <2>6 DEF TargetStep
    <3>1. /\ data0'.b7 /\ data1' = data1 /\ handled' = handled /\ tpc' = "idle"
          /\ typed' = handled \o Chunk(append, data1)
      BY <2>6, WordTypes DEF SetupDATA0
    <3>2. Mail' = <<>>
      BY <3>0, <3>1 DEF Mail
    <3>3. QED
      BY <1>f, <2>n, <3>0, <3>1, <3>2
  <2>7. CASE StoreDATA0 \/ PollAckStore
    <3>0. ~masked /\ Held = data0 /\ Held' = data0'
      BY <1>h, <2>7 DEF TargetStep
    <3>1. /\ data0'.b7 /\ UNCHANGED <<data1, typed, handled>>
          /\ tpc \in {"store0", "pollAck"} /\ tpc' \in {"spin", "idle"}
      BY <2>7, WordTypes DEF StoreDATA0, PollAckStore, Goto, Word
    <3>2. Mail' = <<>> /\ Mail = <<>>
      BY <3>0, <2>0, <3>1 DEF Mail
    <3>3. QED
      BY <1>f, <2>0, <3>0, <3>1, <3>2
  <2>8. CASE TimeoutStore
    <3>0. ~masked /\ Held = data0 /\ Held' = data0'
      BY <1>h, <2>8 DEF TargetStep
    <3>1. /\ data0' = [dmd EXCEPT !.b7 = TRUE, !.b6 = TRUE] /\ tpc' = "idle"
          /\ UNCHANGED <<data1, typed, handled>>
          /\ dmd.b7 /\ data0 = dmd
      BY <1>2, <2>8 DEF TimeoutStore, Goto, Note, InputQuiet, InputHarms
    <3>2. data0'.b7
      BY <1>t, <3>1 DEF Word0
    <3>3. Mail' = <<>> /\ Mail = <<>>
      BY <3>0, <3>1, <3>2 DEF Mail
    <3>4. QED
      BY <1>f, <2>0, <3>0, <3>1, <3>2, <3>3
  <2>9. QED
    BY <2>1, <2>2, <2>3, <2>4, <2>5, <2>6, <2>7, <2>8 DEF TargetStep
<1>3. QED
  BY <1>1, <1>2 DEF InputInv

(* The keys of one turn are the bytes of the word they are put in. *)
LEMMA GatheredKeys ==
    ASSUME TypeInv, NEW k \in 0..3, Gather(k), append = Zero
    PROVE  Chunk(Gathered(k), data1) = [i \in 1..k |-> keyCount + i]
<1>1. CASE k = 0
  <2>1. Gathered(k) = Zero
    BY <1>1 DEF Gathered
  <2>2. Chunk(Zero, data1) = <<>>
    BY WordTypes, ChunkNone DEF Bytes
  <2>3. [i \in 1..k |-> keyCount + i] = <<>>
    <3>1. 1..k = {}
      BY <1>1
    <3>2. [i \in 1..k |-> keyCount + i] = [i \in {} |-> keyCount + i]
      BY <3>1
    <3>3. QED
      BY <3>2
  <2>4. QED
    BY <2>1, <2>2, <2>3
<1>2. CASE k # 0
  <2>1. Gathered(k).n = k + 4
        /\ Gathered(k).c = [i \in 1..3 |-> IF i <= k THEN keyCount + i ELSE 0]
    BY <1>2 DEF Gathered, KeyWord, Word
  <2>2. Bytes(Gathered(k)) = k
    BY <1>2, <2>1 DEF Bytes
  <2>3. QED
    BY <2>1, <2>2 DEF Chunk
<1>3. QED
  BY <1>1, <1>2

LEMMA InputHost ==
    ASSUME TypeInv, Ownership, InputInv, HostActs
    PROVE  InputInv'
<1>f. UNCHANGED <<tpc, dmd, handled>>
  BY HostFrame
<1>t. /\ data1 \in Word1 /\ append \in Word0 /\ data1' \in Word1
      /\ typed \in Seq(Nat) /\ handled \in Seq(Nat) /\ keyCount \in Nat
      /\ Mail \in Seq(Nat) /\ Chunk(append, data1) \in Seq(Nat)
  BY MailType, TypeStep DEF Next, HostActs, TypeInv, Types, RegisterTypes, HostTypes,
     HistoryTypes
<1>z. Chunk(Zero, data1) = <<>>
  BY WordTypes, ChunkNone DEF Bytes
<1>n. /\ \A s \in Seq(Nat) : s \o <<>> = s
      /\ handled \o Mail \in Seq(Nat) /\ handled \o Chunk(append, data1) \in Seq(Nat)
  BY <1>t, AppendSeq
<1>d. ASSUME InputQuiet'
      PROVE  /\ "stray" \notin harm'
             /\ \/ Held' = Held
                \/ Acknowledge /\ Reading /\ Held' = append
             /\ data1' = data1 \/ WriteDATA1
  <2>0. "stray" \notin harm' /\ "command" \notin harm'
    BY <1>d DEF InputQuiet, InputHarms
  <2>1. EndCommand => Held = rr
    BY <2>0 DEF EndCommand, Note
  <2>2. Acknowledge => Reading
    BY DEF Acknowledge, HostGoto, Reading
  <2>3. QED
    BY <2>0, <2>1, <2>2, HeldHost
<1>1. (InputQuiet /\ tpc = "inputBytes" => dmd = Held)'
  <2> SUFFICES ASSUME InputQuiet', tpc' = "inputBytes" PROVE dmd' = Held'
    OBVIOUS
  <2>1. InputQuiet /\ "stray" \notin harm
    BY HarmGrows DEF Next, HostActs, InputQuiet, InputHarms
  <2>2. ~Reading
    BY <1>f, <2>1 DEF Ownership, TargetOwns
  <2>3. Held' = Held
    BY <1>d, <2>2
  <2>4. QED
    BY <1>f, <2>1, <2>3 DEF InputInv
<1>2. ASSUME InputQuiet'
      PROVE  /\ typed' = handled' \o Mail' \o Chunk(append', data1')
             /\ tpc' \in {"store1", "store0", "pollAck"} => Mail' = <<>>
             /\ ~Held'.b7 /\ taken' =>
                   tpc' \in {"store1", "store0", "pollAck", "setup1", "setup2"}
  <2>0. /\ typed = handled \o Mail \o Chunk(append, data1)
        /\ tpc \in {"store1", "store0", "pollAck"} => Mail = <<>>
        /\ ~Held.b7 /\ taken => tpc \in {"store1", "store0", "pollAck", "setup1", "setup2"}
        /\ "stray" \notin harm
        /\ Reading => Held.b7 /\ ~TargetOwns
    <3>1. InputQuiet
      BY <1>2, HarmGrows DEF Next, HostActs, InputQuiet
    <3>2. "stray" \notin harm
      BY <3>1 DEF InputQuiet, InputHarms
    <3>3. QED
      BY <3>1, <3>2 DEF InputInv, Ownership
  <2>1. CASE \/ Attach \/ ReadDATA1 \/ WriteDATA1 \/ FailReadDATA1 \/ BeginCommand
             \/ EndCommand \/ FailSave \/ FailRestore \/ Request
    <3>1. UNCHANGED <<append, typed, taken>> /\ ~Acknowledge
      BY <2>1 DEF Attach, ReadDATA1, WriteDATA1, FailReadDATA1, Fail, BeginCommand,
         EndCommand, FailSave, FailRestore, Restored, Request, RequestHalt, RequestResume,
         RequestDATA0, RequestDATA1, Requested, HostGoto, Acknowledge
    <3>2. Held' = Held
      BY <1>2, <1>d, <3>1
    <3>3. Mail' = Mail /\ Chunk(append', data1') = Chunk(append, data1)
      BY <1>t, <2>0, <3>1, <3>2, ShortWords DEF Mail
    <3>4. QED
      BY <1>f, <2>0, <3>1, <3>2, <3>3
  <2>2. CASE ReadDATA0
    <3>1. PICK k \in 0..3 : Gather(k) /\ append' = Gathered(k)
                            /\ UNCHANGED <<data0, data1, taken>>
      BY <2>2 DEF ReadDATA0
    <3>2. Mail' = Mail /\ Held' = Held
      <4>1. ~Acknowledge
        BY <2>2 DEF ReadDATA0, HostGoto, Acknowledge
      <4>2. Held' = Held
        BY <1>2, <1>d, <4>1
      <4>3. QED
        BY <3>1, <4>2 DEF Mail
    <3>3. typed' = typed \o [i \in 1..k |-> keyCount + i]
      BY <3>1 DEF Gather
    <3>4. [i \in 1..k |-> keyCount + i] \in Seq(Nat)
      BY <1>t
    <3>5. CASE append = Zero
      <4>1. typed = handled \o Mail
        BY <1>n, <1>z, <2>0, <3>5
      <4>2. Chunk(append', data1') = [i \in 1..k |-> keyCount + i]
        BY <3>1, <3>5, GatheredKeys
      <4>3. QED
        BY <1>f, <2>0, <3>1, <3>2, <3>3, <4>1, <4>2
    <3>6. CASE append # Zero
      <4>1. k = 0
        BY <3>1, <3>6 DEF Gather
      <4>2. append' = append
        BY <3>1, <4>1 DEF Gathered
      <4>3. [i \in 1..k |-> keyCount + i] = <<>>
        <5>1. Len([i \in 1..k |-> keyCount + i]) = 0
          BY <4>1
        <5>2. QED
          BY <3>4, <5>1
      <4>4. typed' = typed
        BY <1>n, <1>t, <3>3, <4>3
      <4>5. QED
        BY <1>f, <2>0, <3>1, <3>2, <4>2, <4>4
    <3>7. QED
      BY <3>5, <3>6
  <2>3. CASE Acknowledge
    <3>1. /\ Held' = append /\ append' = Zero /\ ~taken'
          /\ UNCHANGED <<data1, typed>> /\ Reading
      BY <2>3 DEF Acknowledge, HostGoto, Reading, unchangedByHost, requestVars, Held,
         TypeInv, MaskInv
    <3>2. Mail = <<>> /\ tpc \notin {"store1", "store0", "pollAck"}
      BY <2>0, <3>1 DEF TargetOwns, Mail
    <3>3. Mail' = Chunk(append, data1)
      BY <3>1 DEF Mail, TypeInv, HostWordInv
    <3>4. typed = handled \o Chunk(append, data1)
      BY <1>n, <1>t, <2>0, <3>2
    <3>5. typed' = (handled \o Mail') \o <<>>
      BY <1>n, <3>1, <3>3, <3>4
    <3>6. QED
      BY <1>f, <1>z, <3>1, <3>2, <3>5
  <2>4. CASE FailReadDATA0
    <3>1. PICK k \in 0..3 : Gather(k) /\ Fail("d0read", Gathered(k) # Zero)
      BY <2>4 DEF FailReadDATA0
    <3>2. UNCHANGED <<data0, data1, taken>> /\ append' = Zero /\ Gathered(k) = Zero
      BY <1>2, <2>4, <3>1 DEF FailReadDATA0, Fail, Note, InputQuiet, InputHarms
    <3>3. k = 0 /\ append = Zero
      <4>1. k # 0 => Gathered(k).n = k + 4
        BY DEF Gathered, KeyWord, Word
      <4>2. k = 0
        BY <3>2, <4>1, WordTypes
      <4>3. QED
        BY <3>2, <4>2 DEF Gathered
    <3>4. [i \in 1..k |-> keyCount + i] = <<>>
      <4>1. Len([i \in 1..k |-> keyCount + i]) = 0 /\ [i \in 1..k |-> keyCount + i] \in Seq(Nat)
        BY <1>t, <3>3
      <4>2. QED
        BY <4>1
    <3>5. typed' = typed
      BY <1>n, <1>t, <3>1, <3>4 DEF Gather
    <3>6. Mail' = Mail /\ Held' = Held
      <4>1. ~Acknowledge
        BY <2>4 DEF FailReadDATA0, Fail, Acknowledge, HostGoto
      <4>2. Held' = Held
        BY <1>2, <1>d, <4>1
      <4>3. QED
        BY <3>2, <4>2 DEF Mail
    <3>7. QED
      BY <1>f, <2>0, <3>2, <3>3, <3>5, <3>6
  <2>5. CASE FailAcknowledge
    BY <1>2, <2>5 DEF FailAcknowledge, Fail, Note, InputQuiet, InputHarms
  <2>6. QED
    BY <2>1, <2>2, <2>3, <2>4, <2>5 DEF HostActs, HostStep, HostFault
<1>3. QED
  BY <1>1, <1>2 DEF InputInv

InputInd == TypeInv /\ Ownership /\ InputInv

LEMMA InputInit == Init => InputInd
<1> SUFFICES ASSUME Init PROVE InputInd
  OBVIOUS
<1>1. Ownership
  BY DEF Init, Ownership, Reading, TargetOwns
<1>2. Mail = <<>> /\ Chunk(append, data1) = <<>>
  BY WordTypes, ChunkNone DEF Init, Mail, Held
<1>3. typed = handled \o Mail \o Chunk(append, data1)
  BY <1>2 DEF Init
<1>4. InputInv
  BY <1>2, <1>3 DEF Init, InputInv, Held
<1>5. QED
  BY <1>1, <1>4, TypeInit DEF InputInd

LEMMA InputStep == InputInd /\ [Next]_vars => InputInd'
<1> SUFFICES ASSUME InputInd, [Next]_vars PROVE InputInd'
  OBVIOUS
<1>. USE DEF InputInd
<1>1. TypeInv' /\ Ownership'
  BY TypeStep, OwnershipStep
<1>2. CASE Next
  BY <1>1, <1>2, InputTarget, InputHost DEF Next, HostActs
<1>3. CASE UNCHANGED vars
  <2>1. InputInv'
    <3>1. Held' = Held /\ Mail' = Mail
      BY <1>3 DEF vars, targetVars, hostVars, requestVars, Held, Mail
    <3>2. QED
      BY <1>3, <3>1 DEF vars, targetVars, hostVars, InputInv, InputQuiet
  <2>2. QED
    BY <1>1, <2>1
<1>4. QED
  BY <1>2, <1>3

(* Unless one of the six input harms happens, the keys typed are the keys  *)
(* handled, then those in DMDATA0, then those in appendword: none lost,     *)
(* none handled twice, none out of order, resets included.                  *)
THEOREM InputIsExactlyOnce == Spec => []InputExactlyOnce
<1>1. InputInd => InputExactlyOnce
  BY DEF InputInd, InputInv, InputQuiet, InputExactlyOnce
<1>2. QED
  BY <1>1, InputInit, InputStep, PTL DEF Spec
-----------------------------------------------------------------------------
(* The channel implements TerminalChannel.  A store of DMDATA0 sends, an    *)
(* acknowledgement delivers, a turn of the terminal loop types, the handler *)
(* of the target handles, the end of SetupDebugPrintf discards; every other *)
(* step leaves the four streams as they are.                                *)

LEMMA PrefixOfConcat ==
    ASSUME NEW s \in Seq(Nat), NEW t \in Seq(Nat)
    PROVE  SubSeq(s \o t, 1, Len(s)) = s
<1> DEFINE u == SubSeq(s \o t, 1, Len(s))
<1>1. s \o t \in Seq(Nat) /\ Len(s \o t) = Len(s) + Len(t) /\ Len(s) \in Nat /\ Len(t) \in Nat
  OBVIOUS
<1>2. \A i \in 1..Len(s) : (s \o t)[i] = s[i] /\ (s \o t)[i] \in Nat
  BY <1>1
<1>3. u \in Seq(Nat) /\ Len(u) = Len(s) /\ \A i \in 1..Len(s) : u[i] = s[i]
  BY <1>1, <1>2
<1>4. QED
  BY <1>3

LEMMA ConcatLonger ==
    ASSUME NEW s \in Seq(Nat), NEW t \in Seq(Nat)
    PROVE  Len(s) <= Len(s \o t)
<1>1. Len(s \o t) = Len(s) + Len(t) /\ Len(s) \in Nat /\ Len(t) \in Nat
  OBVIOUS
<1>2. QED
  BY <1>1

LEMMA SuffixOfConcat ==
    ASSUME NEW s \in Seq(Nat), NEW t \in Seq(Nat)
    PROVE  SubSeq(s \o t, Len(s) + 1, Len(s) + Len(t)) = t
OBVIOUS

(* A stream with a few bytes after it extends the stream. *)
LEMMA Extended ==
    ASSUME NEW s \in Seq(Nat), NEW t \in Seq(Nat), NEW max \in Nat, Len(t) \in 1..max
    PROVE  Channel!Extends(s \o t, s, max)
<1>1. Len(s \o t) = Len(s) + Len(t) /\ Len(s) \in Nat
  OBVIOUS
<1>2. Len(s \o t) \in Len(s) + 1 .. Len(s) + max
  BY <1>1
<1>3. QED
  BY <1>2, PrefixOfConcat DEF Channel!Extends

(* What the two invariants say while nothing has gone wrong. *)
Intact ==
    /\ published = printed \o Pending
    /\ typed = handled \o Mail \o Chunk(append, data1)

LEMMA Undamaged ==
    ASSUME OutputInd, InputInd, harm = {}
    PROVE  Intact
<1>1. OutputQuiet /\ InputQuiet
  BY DEF OutputQuiet, InputQuiet
<1>2. QED
  BY <1>1 DEF OutputInd, OutputInv, InputInd, InputInv, Intact

LEMMA StreamTypes ==
    ASSUME TypeInv
    PROVE  /\ published \in Seq(Nat) /\ printed \in Seq(Nat)
           /\ typed \in Seq(Nat) /\ handled \in Seq(Nat)
           /\ Pending \in Seq(Nat) /\ HeldByHost \in Seq(Nat)
           /\ Mail \in Seq(Nat) /\ Chunk(append, data1) \in Seq(Nat)
BY PendingType, MailType DEF TypeInv, Types, HistoryTypes

(* The target sends only when the terminal has printed all it sent before. *)
LEMMA StoreSends ==
    ASSUME TypeInv, Ownership, Intact, harm = {}, StoreDATA0
    PROVE  Channel!Send
<1> DEFINE t == [i \in 1..ToSend |-> Buf(i)]
<1>1. tpc = "store0" /\ published' = published \o t
  BY DEF StoreDATA0, Goto
<1>2. published = printed
  <2>1. ~Held.b7 /\ ~Reading
    BY <1>1 DEF Ownership, TargetOwns
  <2>2. Pending = <<>>
    BY <2>1 DEF Pending
  <2>3. printed \o <<>> = printed
    BY StreamTypes
  <2>4. QED
    BY <2>2, <2>3 DEF Intact
<1>3. t \in Seq(Nat) /\ Len(t) \in 1..7
  <2>1. ToSend \in 1..7 /\ \A i \in Nat : Buf(i) \in Nat
    BY <1>1, ToSendType
  <2>2. t \in [1..ToSend -> Nat]
    BY <2>1
  <2>3. QED
    BY <2>1, <2>2
<1>4. Channel!Extends(published', published, 7)
  BY <1>1, <1>3, Extended, StreamTypes
<1>5. UNCHANGED <<printed, typed, handled>>
  BY DEF StoreDATA0, Goto, unchangedByTarget
<1>6. QED
  BY <1>2, <1>4, <1>5 DEF Channel!Send

(* The host acknowledges when it holds the whole of what was sent. *)
LEMMA AcknowledgeDelivers ==
    ASSUME TypeInv, Intact, Acknowledge
    PROVE  printed' = published /\ UNCHANGED <<published, typed, handled>>
<1>1. hpc = "wr0" /\ printed' = printed \o Chunk(rr, r2)
  BY DEF Acknowledge, HostGoto
<1>2. Pending = Chunk(rr, r2)
  BY <1>1 DEF Pending, HeldByHost, Reading
<1>3. UNCHANGED <<published, typed, handled>>
  BY DEF Acknowledge, HostGoto, unchangedByHost
<1>4. QED
  BY <1>1, <1>2, <1>3 DEF Intact

(* A turn of the loop types what it gathers. *)
LEMMA GatherTypes ==
    ASSUME TypeInv, NEW k \in 0..3, Gather(k)
    PROVE  IF k = 0 THEN typed' = typed ELSE Channel!Extends(typed', typed, 3)
<1> DEFINE t == [i \in 1..k |-> keyCount + i]
<1>1. typed' = typed \o t
  BY DEF Gather
<1>2. t \in Seq(Nat) /\ Len(t) = k
  <2>1. keyCount \in Nat
    BY DEF TypeInv, Types, HostTypes
  <2>2. t \in [1..k -> Nat]
    BY <2>1
  <2>3. QED
    BY <2>2
<1>3. CASE k = 0
  <2>1. t = <<>>
    BY <1>2, <1>3
  <2>2. typed \o <<>> = typed
    BY StreamTypes
  <2>3. QED
    BY <1>1, <1>3, <2>1, <2>2
<1>4. CASE k # 0
  <2>1. Len(t) \in 1..3
    BY <1>2, <1>4
  <2>2. Channel!Extends(typed \o t, typed, 3)
    BY <1>2, <2>1, Extended, StreamTypes
  <2>3. QED
    BY <1>1, <1>4, <2>2
<1>5. QED
  BY <1>3, <1>4

(* The handler is given the next keys that were typed, three at most. *)
LEMMA InputHandles ==
    ASSUME TypeInv, Ownership, InputInv, Intact, harm = {}, InputBytes
    PROVE  Channel!Handle \/ UNCHANGED <<published, printed, typed, handled>>
<1>1. /\ tpc = "inputBytes" /\ UNCHANGED <<published, printed, typed>>
      /\ handled' = handled \o Chunk([data0 EXCEPT !.n = dmd.n], data1)
  BY DEF InputBytes, Goto, unchangedByTarget
<1>t. data0 \in Word0 /\ data1 \in Word1
  BY DEF TypeInv, Types, RegisterTypes
<1>2. InputQuiet
  BY DEF InputQuiet
<1>h. Held = data0
  BY HeldTarget DEF TargetStep
<1>3. [data0 EXCEPT !.n = dmd.n] = data0
  <2>1. dmd = data0
    BY <1>1, <1>2, <1>h DEF InputInv
  <2>2. QED
    BY <1>t, <2>1 DEF Word0
<1>4. ~data0.b7
  BY <1>1, <1>h DEF Ownership, TargetOwns
<1>5. CASE taken
  BY <1>1, <1>2, <1>4, <1>h, <1>5 DEF InputInv
<1>6. CASE ~taken
  <2>1. Mail = Chunk(data0, data1) /\ handled' = handled \o Mail
    BY <1>1, <1>3, <1>4, <1>h, <1>6 DEF Mail
  <2>2. Len(Mail) \in 0..3
    <3>1. Len(Mail) = Bytes(data0)
      BY <1>t, <2>1, ChunkType, BytesType
    <3>2. data0.n \in 0..63 /\ data0.n <= 7
      BY <1>t, <1>h, <1>4 DEF Word0, TypeInv, HostWordInv
    <3>3. Bytes(data0) <= 3
      BY <3>2 DEF Bytes
    <3>4. Bytes(data0) \in Nat
      BY <3>2 DEF Bytes
    <3>5. QED
      BY <3>1, <3>3, <3>4
  <2>3. handled' \in Seq(Nat) /\ Len(handled') = Len(handled) + Len(Mail)
    BY <2>1, StreamTypes
  <2>4. typed = handled' \o Chunk(append, data1)
    BY <2>1 DEF Intact
  <2>5. handled' = SubSeq(typed, 1, Len(handled'))
    BY <2>3, <2>4, PrefixOfConcat, StreamTypes
  <2>6. Len(handled') <= Len(typed)
    <3>1. Len(handled') <= Len(handled' \o Chunk(append, data1))
      BY <2>3, ConcatLonger, StreamTypes
    <3>2. QED
      BY <2>4, <3>1
  <2>7. CASE Len(Mail) = 0
    <3>1. Mail = <<>>
      BY <2>7, StreamTypes
    <3>2. handled \o <<>> = handled
      BY StreamTypes
    <3>3. QED
      BY <1>1, <2>1, <3>1, <3>2
  <2>8. CASE Len(Mail) # 0
    <3>1. Len(Mail) \in 1..3
      BY <2>2, <2>8
    <3>2. Channel!Extends(handled', handled, 3)
      BY <2>1, <3>1, Extended, StreamTypes
    <3>3. Channel!Handle
      BY <1>1, <2>5, <2>6, <3>2 DEF Channel!Handle
    <3>4. QED
      BY <3>3
  <2>9. QED
    BY <2>7, <2>8
<1>7. QED
  BY <1>5, <1>6 DEF TypeInv, Types, HistoryTypes

(* A boot discards what nobody has read, and the keys in the registers. *)
LEMMA SetupDiscards ==
    ASSUME TypeInv, Intact, SetupDATA0
    PROVE  Channel!Discard
<1>1. /\ published' = printed \o HeldByHost
      /\ typed' = handled \o Chunk(append, data1)
      /\ UNCHANGED <<printed, handled>>
  BY DEF SetupDATA0, unchangedByTarget
<1>2. published' \in {published, printed}
  <2>1. CASE Reading
    BY <1>1, <2>1 DEF Intact, Pending
  <2>2. CASE ~Reading
    <3>1. HeldByHost = <<>>
      BY <2>2 DEF HeldByHost, Reading
    <3>2. printed \o <<>> = printed
      BY StreamTypes
    <3>3. QED
      BY <1>1, <3>1, <3>2
  <2>3. QED
    BY <2>1, <2>2
<1>3. \E i \in Len(handled) + 1 .. Len(typed) + 1 :
          typed' = handled \o SubSeq(typed, i, Len(typed))
  <2> DEFINE s == handled \o Mail
             t == Chunk(append, data1)
  <2>1. s \in Seq(Nat) /\ t \in Seq(Nat) /\ typed = s \o t
    BY StreamTypes, AppendSeq DEF Intact
  <2>2. /\ Len(s) = Len(handled) + Len(Mail) /\ Len(typed) = Len(s) + Len(t)
        /\ Len(handled) \in Nat /\ Len(Mail) \in Nat /\ Len(t) \in Nat
    BY <2>1, StreamTypes
  <2>3. SubSeq(typed, Len(s) + 1, Len(typed)) = t
    BY <2>1, <2>2, SuffixOfConcat
  <2>4. Len(s) + 1 \in Len(handled) + 1 .. Len(typed) + 1
    BY <2>2
  <2>5. typed' = handled \o SubSeq(typed, Len(s) + 1, Len(typed))
    BY <1>1, <2>3
  <2>6. QED
    BY <2>4, <2>5
<1>4. QED
  BY <1>1, <1>2, <1>3 DEF Channel!Discard

LEMMA ChannelTarget ==
    ASSUME TypeInv, Ownership, InputInv, Intact, harm = {}, TargetStep \/ Call \/ Reset
    PROVE  \/ Channel!Send \/ Channel!Handle \/ Channel!Discard
           \/ UNCHANGED <<published, printed, typed, handled>>
<1>1. CASE StoreDATA0
  BY <1>1, StoreSends
<1>2. CASE InputBytes
  BY <1>2, InputHandles
<1>3. CASE SetupDATA0
  BY <1>3, SetupDiscards
<1>4. CASE \/ SetupDATA1 \/ CheckTimedOut \/ Peek \/ SpinBusy \/ SpinFree \/ TimeoutLoad
           \/ TimeoutStore \/ InputCount \/ StoreDATA1 \/ PollEntry \/ PollAckStore
           \/ Call \/ Reset
  <2>1. UNCHANGED <<published, typed, handled>>
    BY <1>4 DEF SetupDATA1, CheckTimedOut, Peek, SpinBusy, SpinFree, TimeoutLoad,
       TimeoutStore, InputCount, StoreDATA1, PollEntry, PollAckStore, ReadOnly, Call,
       CallWrite, CallPeek, CallPutchar, CallPoll, Enter, Reset
  <2>2. QED
    BY <2>1, TargetFrame
<1>5. QED
  BY <1>1, <1>2, <1>3, <1>4 DEF TargetStep

LEMMA ChannelHost ==
    ASSUME TypeInv, Intact, harm' = {}, HostActs
    PROVE  \/ Channel!Deliver \/ Channel!Type
           \/ UNCHANGED <<published, printed, typed, handled>>
<1>f. UNCHANGED <<published, handled>>
  BY HostFrame
<1>1. CASE Acknowledge
  <2>1. printed' = published /\ UNCHANGED <<published, typed, handled>>
    BY <1>1, AcknowledgeDelivers
  <2>2. QED
    BY <2>1 DEF Channel!Deliver
<1>2. CASE ReadDATA0
  <2>1. PICK k \in 0..3 : Gather(k)
    BY <1>2 DEF ReadDATA0
  <2>2. printed' = printed
    BY <1>2 DEF ReadDATA0
  <2>3. IF k = 0 THEN typed' = typed ELSE Channel!Extends(typed', typed, 3)
    BY <2>1, GatherTypes
  <2>4. QED
    BY <1>f, <2>2, <2>3 DEF Channel!Type
<1>3. CASE FailReadDATA0
  <2>1. PICK k \in 0..3 : Gather(k)
    BY <1>3 DEF FailReadDATA0
  <2>2. printed' = printed
    BY <1>3 DEF FailReadDATA0
  <2>3. IF k = 0 THEN typed' = typed ELSE Channel!Extends(typed', typed, 3)
    BY <2>1, GatherTypes
  <2>4. QED
    BY <1>f, <2>2, <2>3 DEF Channel!Type
<1>4. CASE FailReadDATA1 \/ FailAcknowledge
  BY <1>4 DEF FailReadDATA1, FailAcknowledge, Fail, Note
<1>5. CASE \/ Attach \/ BeginCommand \/ ReadDATA1 \/ WriteDATA1 \/ EndCommand
           \/ FailSave \/ FailRestore \/ Request
  <2>1. UNCHANGED <<printed, typed>>
    BY <1>5 DEF Attach, BeginCommand, ReadDATA1, WriteDATA1, EndCommand, FailSave,
       FailRestore, Request, RequestHalt, RequestResume, RequestDATA0, RequestDATA1,
       Requested
  <2>2. QED
    BY <1>f, <2>1
<1>6. QED
  BY <1>1, <1>2, <1>3, <1>4, <1>5 DEF HostActs, HostStep, HostFault

LEMMA ChannelStep ==
    ASSUME OutputInd, InputInd, [Next]_vars
    PROVE  [Channel!Next]_(Channel!vars)
<1>1. CASE UNCHANGED vars
  BY <1>1 DEF vars, Channel!vars
<1>2. CASE Next /\ harm' # {}
  BY <1>2 DEF Channel!Next
<1>3. CASE Next /\ harm' = {}
  <2>1. harm = {}
    BY <1>3, HarmGrows
  <2>2. Intact /\ TypeInv /\ Ownership /\ InputInv
    BY <2>1, Undamaged DEF InputInd
  <2>3. \/ Channel!Send \/ Channel!Deliver \/ Channel!Type
        \/ Channel!Handle \/ Channel!Discard
        \/ UNCHANGED <<published, printed, typed, handled>>
    BY <1>3, <2>1, <2>2, ChannelTarget, ChannelHost DEF Next, HostActs
  <2>4. CASE \/ Channel!Send \/ Channel!Deliver \/ Channel!Type
             \/ Channel!Handle \/ Channel!Discard
    BY <1>3, <2>1, <2>4 DEF Channel!Next
  <2>5. CASE UNCHANGED <<published, printed, typed, handled>>
    BY <1>3, <2>1, <2>5 DEF Channel!vars
  <2>6. QED
    BY <2>3, <2>4, <2>5
<1>4. QED
  BY <1>1, <1>2, <1>3

(* The registers, the polling, the status bits and the timeouts together    *)
(* keep the promise of TerminalChannel until one of the harms happens: the  *)
(* program sends only when the terminal has printed all it sent before, the *)
(* terminal prints each send whole, the handler is given the typed keys in  *)
(* order, and only a boot discards.                                         *)
THEOREM ChannelIsImplemented == Spec => ImplementsChannel
<1>1. Init => Channel!Init
  BY DEF Init, Channel!Init
<1>2. QED
  BY <1>1, OutputInit, OutputStep, InputInit, InputStep, ChannelStep, PTL
     DEF Spec, ImplementsChannel, Channel!Spec

=============================================================================
