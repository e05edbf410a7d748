-------------------------- MODULE GdbServerProofs --------------------------
(***************************************************************************)
(* Theorems about the GDB server, for every program, size of the           *)
(* breakpoint table, choice of commands, and bound.                        *)
(***************************************************************************)
EXTENDS GdbServer, TLAPS, SequenceTheorems, FiniteSetTheorems, LeastNumber

-----------------------------------------------------------------------------
(* What travels between the client and the server. *)

Dollar == <<"$">>
Hash   == <<"#">>
Escape == <<"}">>
High   == <<"hi">>
Brk    == <<"break">>
Masked == <<"esc", Hash>>

Requests == {Request(c, a) : c \in Commands, a \in Addrs}
Sums     == {<<q>> : q \in Requests} \cup {<<q, Escape, Masked>> : q \in Requests}
Bytes    == {Dollar, Hash, Escape, High, Brk, Masked}
            \cup Requests \cup {<<"lo", s>> : s \in Sums}

Stops   == {"T02", "T05"}
Replies == {"T02", "T05", "OK", "data", "E 00"}

(* What comes from the client: the bytes s, and then breaks. *)
Reads(s) ==
    /\ Len(s) <= Len(rx)
    /\ \A i \in 1..Len(rx) : rx[i] = IF i <= Len(s) THEN s[i] ELSE Brk

(* Where the parser stands in the packet, and what is still to come. *)
At(state, buffer, sum, rest) ==
    /\ gdbbufferstate = state /\ gdbbuffer = buffer /\ gdbrunningcsum = sum
    /\ Reads(rest)

(* The parser in a packet that holds the request q alone ... *)
InPlain(q) ==
    LET low == <<"lo", <<q>> >> IN
    \/ gdbbufferstate = 0 /\ Reads(<<Dollar, q, Hash, High, low>>)
    \/ At(1, <<Dollar>>, <<Dollar>>, <<q, Hash, High, low>>)
    \/ At(1, <<Dollar, q>>, <<Dollar, q>>, <<Hash, High, low>>)
    \/ At(2, <<Dollar, q, Hash>>, <<Dollar, q>>, <<High, low>>)
    \/ At(3, <<Dollar, q, Hash>>, <<Dollar, q>>, <<low>>)

(* ... and in one whose byte after it comes escaped. *)
InEscaped(q) ==
    LET low  == <<"lo", <<q, Escape, Masked>> >>
        full == <<Dollar, q, Escape, Masked>> IN
    \/ /\ gdbbufferstate = 0
       /\ Reads(<<Dollar, q, Escape, Masked, Hash, High, low>>)
    \/ At(1, <<Dollar>>, <<Dollar>>, <<q, Escape, Masked, Hash, High, low>>)
    \/ At(1, <<Dollar, q>>, <<Dollar, q>>, <<Escape, Masked, Hash, High, low>>)
    \/ At(9, <<Dollar, q>>, <<Dollar, q, Escape>>, <<Masked, Hash, High, low>>)
    \/ At(1, <<Dollar, q, Hash>>, full, <<Hash, High, low>>)
    \/ At(2, <<Dollar, q, Hash, Hash>>, full, <<High, low>>)
    \/ At(3, <<Dollar, q, Hash, Hash>>, full, <<low>>)

InPacket(q) ==
    \/ payload = <<q>> /\ InPlain(q)
    \/ payload = <<q, Hash>> /\ InEscaped(q)

Between == payload = <<>> /\ gdbbufferstate = 0 /\ Reads(<<>>)
Absent  == gdb \in {"gone", "connecting"} /\ rx = <<>> /\ payload = <<>>

(* The parser is where the bytes it was given have brought it; a client     *)
(* that comes finds nothing left of the one before.                         *)
WireInv ==
    /\ rx \in Seq(Bytes) /\ tx \in Seq(Replies)
    /\ Between \/ Absent \/ \E q \in Requests : InPacket(q)
    /\ listenMode = 1 => Absent /\ tx = <<>> /\ ~due
    /\ gdb = "connecting" => listenMode = 1

-----------------------------------------------------------------------------
(* Lemmas about sequences. *)

LEMMA Spelled ==
    ASSUME NEW S, NEW s \in Seq(S)
    PROVE  /\ Len(s) = 1 => s = <<s[1]>>
           /\ Len(s) = 2 => s = <<s[1], s[2]>>
           /\ Len(s) = 3 => s = <<s[1], s[2], s[3]>>
           /\ Len(s) = 4 => s = <<s[1], s[2], s[3], s[4]>>
           /\ Len(s) = 5 => s = <<s[1], s[2], s[3], s[4], s[5]>>
           /\ Len(s) = 7 => s = <<s[1], s[2], s[3], s[4], s[5], s[6], s[7]>>
  OBVIOUS

LEMMA Appended1 ==
    ASSUME NEW S, NEW a \in S, NEW b \in S
    PROVE  Append(<<a>>, b) = <<a, b>>
<1>1. <<a>> \in Seq(S) /\ Len(<<a>>) = 1
  OBVIOUS
<1>2. Append(<<a>>, b) \in Seq(S) /\ Len(Append(<<a>>, b)) = 2
        /\ Append(<<a>>, b)[1] = a
        /\ Append(<<a>>, b)[2] = b
  BY <1>1, AppendProperties
<1> QED BY <1>2, Spelled

LEMMA Appended2 ==
    ASSUME NEW S, NEW a \in S, NEW b \in S, NEW c \in S
    PROVE  Append(<<a, b>>, c) = <<a, b, c>>
<1>1. <<a, b>> \in Seq(S) /\ Len(<<a, b>>) = 2
  OBVIOUS
<1>2. Append(<<a, b>>, c) \in Seq(S) /\ Len(Append(<<a, b>>, c)) = 3
        /\ Append(<<a, b>>, c)[1] = a
        /\ Append(<<a, b>>, c)[2] = b
        /\ Append(<<a, b>>, c)[3] = c
  BY <1>1, AppendProperties
<1> QED BY <1>2, Spelled

LEMMA Appended3 ==
    ASSUME NEW S, NEW a \in S, NEW b \in S, NEW c \in S, NEW d \in S
    PROVE  Append(<<a, b, c>>, d) = <<a, b, c, d>>
<1>1. <<a, b, c>> \in Seq(S) /\ Len(<<a, b, c>>) = 3
  OBVIOUS
<1>2. Append(<<a, b, c>>, d) \in Seq(S) /\ Len(Append(<<a, b, c>>, d)) = 4
        /\ Append(<<a, b, c>>, d)[1] = a
        /\ Append(<<a, b, c>>, d)[2] = b
        /\ Append(<<a, b, c>>, d)[3] = c
        /\ Append(<<a, b, c>>, d)[4] = d
  BY <1>1, AppendProperties
<1> QED BY <1>2, Spelled

(* What HandleGDBPacket is given: the buffer between "$" and "#". *)
LEMMA Trimmed ==
    ASSUME NEW a, NEW b, NEW c, NEW d
    PROVE  /\ SubSeq(<<a, b, c>>, 2, Len(<<a, b, c>>) - 1) = <<b>>
           /\ SubSeq(<<a, b, c, d>>, 2, Len(<<a, b, c, d>>) - 1) = <<b, c>>
<1> DEFINE S == {a, b, c, d}
           s == <<a, b, c>>
           t == <<a, b, c, d>>
<1>1. s \in Seq(S) /\ t \in Seq(S) /\ Len(s) = 3 /\ Len(t) = 4
      /\ s[2] = b /\ t[2] = b /\ t[3] = c
  OBVIOUS
<1> HIDE DEF s, t, S
<1>2. SubSeq(s, 2, 2) \in Seq(S) /\ Len(SubSeq(s, 2, 2)) = 1 /\ SubSeq(s, 2, 2)[1] = b
  <2>1. \A i \in 2..2 : s[i] \in S
    BY <1>1
  <2> QED BY <1>1, <2>1, SubSeqProperties
<1>3. SubSeq(t, 2, 3) \in Seq(S) /\ Len(SubSeq(t, 2, 3)) = 2
      /\ SubSeq(t, 2, 3)[1] = b /\ SubSeq(t, 2, 3)[2] = c
  <2>1. \A i \in 2..3 : t[i] \in S
    BY <1>1
  <2> QED BY <1>1, <2>1, SubSeqProperties
<1>4. SubSeq(s, 2, 2) = <<b>>
  BY ONLY <1>2, Spelled
<1>5. SubSeq(t, 2, 3) = <<b, c>>
  BY ONLY <1>3, Spelled
<1>6. Len(s) - 1 = 2 /\ Len(t) - 1 = 3
  BY <1>1
<1>7. SubSeq(s, 2, Len(s) - 1) = <<b>> /\ SubSeq(t, 2, Len(t) - 1) = <<b, c>>
  BY ONLY <1>4, <1>5, <1>6
<1> QED BY <1>7 DEF s, t
-----------------------------------------------------------------------------
(* Lemmas about the bytes. *)

LEMMA ByteTypes ==
    /\ Brk \in Bytes /\ Dollar \in Bytes /\ Hash \in Bytes
    /\ Escape \in Bytes /\ High \in Bytes /\ Masked \in Bytes
    /\ \A q \in Requests : /\ q \in Bytes
                           /\ <<"lo", <<q>> >> \in Bytes
                           /\ <<"lo", <<q, Escape, Masked>> >> \in Bytes
  BY DEF Bytes, Sums

(* The framing takes none of these bytes for another. *)
LEMMA BytesDiffer ==
    /\ Dollar[1] = "$" /\ Hash[1] = "#" /\ Escape[1] = "}" /\ High[1] = "hi"
    /\ Brk[1] = "break" /\ Masked[1] = "esc" /\ Masked[2] = Hash
    /\ \A q \in Requests : q[1] = "data"
  BY DEF Dollar, Hash, Escape, High, Brk, Masked, Requests, Request

LEMMA PayloadKinds ==
    ASSUME NEW p \in Payloads
    PROVE  \E q \in Requests : p = <<q>> \/ p = <<q, Hash>>
<1>1. 0 \in Addrs /\ BreakAddrs \subseteq Addrs
  <2>1. Cardinality(Addrs) \in Nat /\ Cardinality(Addrs) # 0
    BY GdbAssumption, FS_CardinalityType, FS_EmptySet
  <2>2. 0 \in 0..Cardinality(Addrs) - 1
    BY <2>1
  <2> QED BY <2>2, GdbAssumption
<1>2. \E c \in Commands, a \in Addrs : p = <<Request(c, a)>> \/ p = <<Request(c, a), Hash>>
  BY <1>1 DEF Payloads, Hash
<1> QED BY <1>2 DEF Requests

LEMMA Framed ==
    ASSUME NEW q \in Requests
    PROVE  /\ Frame(<<q>>) = <<Dollar, q, Hash, High, <<"lo", <<q>> >> >>
           /\ Frame(<<q, Hash>>) =
                <<Dollar, q, Escape, Masked, Hash, High, <<"lo", <<q, Escape, Masked>> >> >>
<1>1. Stuffed(q) = <<q>>
  BY BytesDiffer DEF Stuffed, Special
<1>2. Stuffed(Hash) = <<Escape, Masked>>
  BY BytesDiffer DEF Stuffed, Special, Escape, Masked
<1>3. StuffedAll(<<q>>) = <<q>>
  BY <1>1 DEF StuffedAll
<1>4. StuffedAll(<<q, Hash>>) = <<q, Escape, Masked>>
  <2> DEFINE S == {q, Escape, Masked}
             s == <<q>> \o <<Escape, Masked>>
  <2>1. StuffedAll(<<q, Hash>>) = s
    <3> DEFINE p == <<q, Hash>>
    <3>1. Len(p) = 2 /\ p[1] = q /\ p[2] = Hash
      OBVIOUS
    <3> HIDE DEF p
    <3>2. StuffedAll(p) = Stuffed(q) \o Stuffed(Hash)
      BY <3>1 DEF StuffedAll
    <3> QED BY <3>2, <1>1, <1>2 DEF p
  <2>2. <<q>> \in Seq(S) /\ <<Escape, Masked>> \in Seq(S)
    OBVIOUS
  <2>3. s \in Seq(S) /\ Len(s) = 3 /\ s[1] = q /\ s[2] = Escape /\ s[3] = Masked
    BY <2>2, ConcatProperties
  <2> HIDE DEF s
  <2>4. s = <<q, Escape, Masked>>
    BY <2>3, Spelled
  <2> QED BY <2>1, <2>4
<1>5. ASSUME NEW l \in Seq(Bytes), NEW h \in Bytes
      PROVE  /\ l = <<q>> => <<Dollar>> \o l \o <<Hash, High, h>>
                              = <<Dollar, q, Hash, High, h>>
             /\ l = <<q, Escape, Masked>> => <<Dollar>> \o l \o <<Hash, High, h>>
                              = <<Dollar, q, Escape, Masked, Hash, High, h>>
  <2> DEFINE d == <<Dollar>>
             e == <<Hash, High, h>>
             s == d \o l
             t == s \o e
  <2>1. d \in Seq(Bytes) /\ Len(d) = 1 /\ d[1] = Dollar
        /\ e \in Seq(Bytes) /\ Len(e) = 3 /\ e[1] = Hash /\ e[2] = High /\ e[3] = h
    BY ByteTypes
  <2> HIDE DEF d, e
  <2>2. s \in Seq(Bytes) /\ Len(s) = 1 + Len(l) /\ s[1] = Dollar
        /\ \A i \in 1..Len(l) : s[i + 1] = l[i]
    BY <2>1, ConcatProperties
  <2> HIDE DEF s
  <2>3. t \in Seq(Bytes) /\ Len(t) = Len(s) + 3 /\ \A i \in 1..Len(s) : t[i] = s[i]
        /\ t[Len(s) + 1] = Hash /\ t[Len(s) + 2] = High /\ t[Len(s) + 3] = h
    <3>1. t \in Seq(Bytes) /\ Len(t) = Len(s) + 3
          /\ \A i \in 1..Len(s) + 3 : t[i] = IF i <= Len(s) THEN s[i] ELSE e[i - Len(s)]
      <4>1. s \in Seq(Bytes) /\ e \in Seq(Bytes) /\ Len(e) = 3
        BY <2>1, <2>2
      <4>2. /\ t \in Seq(Bytes) /\ Len(t) = Len(s) + Len(e)
            /\ \A i \in 1..Len(s) + Len(e) : t[i] = IF i <= Len(s) THEN s[i] ELSE e[i - Len(s)]
        BY ONLY <4>1, ConcatProperties
      <4> QED BY ONLY <4>1, <4>2
    <3> HIDE DEF t
    <3>2. Len(s) \in Nat
      BY <2>2
    <3>3. \A i \in 1..Len(s) : t[i] = s[i]
      BY ONLY <3>1, <3>2
    <3>4. t[Len(s) + 1] = e[1] /\ t[Len(s) + 2] = e[2] /\ t[Len(s) + 3] = e[3]
      BY ONLY <3>1, <3>2
    <3> QED BY <3>1, <3>3, <3>4, <2>1
  <2> HIDE DEF t
  <2>4. CASE l = <<q>>
    <3>1. Len(t) = 5 /\ t[1] = Dollar /\ t[2] = q /\ t[3] = Hash /\ t[4] = High /\ t[5] = h
      BY <2>2, <2>3, <2>4
    <3>2. t = <<Dollar, q, Hash, High, h>>
      BY <2>3, <3>1, Spelled
    <3> QED BY <2>4, <3>2 DEF t, s, d, e
  <2>5. CASE l = <<q, Escape, Masked>>
    <3>1. Len(l) = 3 /\ l[1] = q /\ l[2] = Escape /\ l[3] = Masked
      BY <2>5
    <3>2. Len(s) = 4 /\ s[1] = Dollar /\ s[2] = q /\ s[3] = Escape /\ s[4] = Masked
      BY <2>2, <3>1
    <3>3. Len(t) = 7 /\ t[1] = Dollar /\ t[2] = q /\ t[3] = Escape /\ t[4] = Masked
          /\ t[5] = Hash /\ t[6] = High /\ t[7] = h
      BY <2>3, <3>2
    <3>4. t = <<Dollar, q, Escape, Masked, Hash, High, h>>
      BY <2>3, <3>3, Spelled
    <3> QED BY <2>5, <3>4 DEF t, s, d, e
  <2>6. l = <<q>> => l # <<q, Escape, Masked>>
    OBVIOUS
  <2> QED BY <2>4, <2>5, <2>6
<1>6. <<q>> \in Seq(Bytes) /\ <<q, Escape, Masked>> \in Seq(Bytes)
      /\ <<"lo", <<q>> >> \in Bytes /\ <<"lo", <<q, Escape, Masked>> >> \in Bytes
  BY ByteTypes
<1> QED BY <1>3, <1>4, <1>5, <1>6 DEF Frame, Dollar, Hash, High

(* A byte of the packet is taken; a break is; another break comes. *)
LEMMA ReadsOn ==
    ASSUME rx \in Seq(Bytes), NEW s \in Seq(Bytes), s # <<>>, Reads(s)
    PROVE  /\ rx # <<>> /\ Head(rx) = s[1]
           /\ rx' = Tail(rx) => Reads(Tail(s))'
<1> DEFINE r == Tail(s)
<1>1. Len(s) > 0 /\ r \in Seq(Bytes) /\ Len(r) = Len(s) - 1
      /\ \A i \in 1..Len(r) : r[i] = s[i + 1]
  BY HeadTailProperties
<1> HIDE DEF r
<1>2. Len(rx) > 0 /\ rx # <<>> /\ Head(rx) = s[1]
  BY <1>1 DEF Reads
<1>3. ASSUME rx' = Tail(rx)
      PROVE  Reads(r)'
  <2>1. rx' \in Seq(Bytes) /\ Len(rx') = Len(rx) - 1
        /\ \A i \in 1..Len(rx') : rx'[i] = rx[i + 1]
    BY <1>2, <1>3, HeadTailProperties
  <2>2. ASSUME NEW i \in 1..Len(rx')
        PROVE  rx'[i] = IF i <= Len(r) THEN r[i] ELSE Brk
    <3>1. rx'[i] = rx[i + 1] /\ i + 1 \in 1..Len(rx)
      BY <2>1
    <3>2. rx[i + 1] = IF i + 1 <= Len(s) THEN s[i + 1] ELSE Brk
      BY <3>1 DEF Reads
    <3> QED BY <3>1, <3>2, <1>1
  <2>3. Len(r) <= Len(rx')
    BY <1>1, <2>1 DEF Reads
  <2> QED BY <2>2, <2>3 DEF Reads
<1> QED BY <1>2, <1>3 DEF r

LEMMA ReadsBreak ==
    ASSUME rx \in Seq(Bytes), Reads(<<>>), rx # <<>>
    PROVE  /\ Head(rx) = Brk
           /\ rx' = Tail(rx) => Reads(<<>>)'
<1>1. Len(rx) > 0 /\ \A i \in 1..Len(rx) : rx[i] = Brk
  BY DEF Reads
<1>2. ASSUME rx' = Tail(rx)
      PROVE  Reads(<<>>)'
  <2>1. rx' \in Seq(Bytes) /\ Len(rx') = Len(rx) - 1
        /\ \A i \in 1..Len(rx') : rx'[i] = rx[i + 1]
    BY <1>2, HeadTailProperties
  <2> QED BY <1>1, <2>1 DEF Reads
<1> QED BY <1>1, <1>2

LEMMA ReadsMore ==
    ASSUME rx \in Seq(Bytes), NEW s \in Seq(Bytes), Reads(s), rx' = Append(rx, Brk)
    PROVE  Reads(s)'
<1>1. Len(rx') = Len(rx) + 1 /\ \A i \in 1..Len(rx) : rx'[i] = rx[i]
      /\ rx'[Len(rx) + 1] = Brk
  BY ByteTypes, AppendProperties
<1>2. ASSUME NEW i \in 1..Len(rx')
      PROVE  rx'[i] = IF i <= Len(s) THEN s[i] ELSE Brk
  <2>1. CASE i \in 1..Len(rx)
    BY <2>1, <1>1 DEF Reads
  <2>2. CASE i = Len(rx) + 1
    BY <2>2, <1>1 DEF Reads
  <2> QED BY <2>1, <2>2, <1>1
<1> QED BY <1>1, <1>2 DEF Reads

(* Some bytes are a sequence of bytes, and not the empty one. *)
LEMMA SomeBytes ==
    ASSUME NEW a \in Bytes, NEW b \in Bytes, NEW c \in Bytes, NEW d \in Bytes,
           NEW e \in Bytes, NEW f \in Bytes, NEW g \in Bytes
    PROVE  /\ <<a>> \in Seq(Bytes) \ {<<>>}
           /\ <<a, b>> \in Seq(Bytes) \ {<<>>}
           /\ <<a, b, c>> \in Seq(Bytes) \ {<<>>}
           /\ <<a, b, c, d>> \in Seq(Bytes) \ {<<>>}
           /\ <<a, b, c, d, e>> \in Seq(Bytes) \ {<<>>}
           /\ <<a, b, c, d, e, f>> \in Seq(Bytes) \ {<<>>}
           /\ <<a, b, c, d, e, f, g>> \in Seq(Bytes) \ {<<>>}
  OBVIOUS

(* The rests of a packet. *)
LEMMA Rests ==
    ASSUME NEW q \in Requests
    PROVE  LET low == <<"lo", <<q>> >>  low2 == <<"lo", <<q, Escape, Masked>> >> IN
           /\ <<Dollar, q, Hash, High, low>> \in Seq(Bytes) \ {<<>>}
           /\ <<q, Hash, High, low>> \in Seq(Bytes) \ {<<>>}
           /\ <<Hash, High, low>> \in Seq(Bytes) \ {<<>>}
           /\ <<High, low>> \in Seq(Bytes) \ {<<>>}
           /\ <<low>> \in Seq(Bytes) \ {<<>>}
           /\ <<Dollar, q, Escape, Masked, Hash, High, low2>> \in Seq(Bytes) \ {<<>>}
           /\ <<q, Escape, Masked, Hash, High, low2>> \in Seq(Bytes) \ {<<>>}
           /\ <<Escape, Masked, Hash, High, low2>> \in Seq(Bytes) \ {<<>>}
           /\ <<Masked, Hash, High, low2>> \in Seq(Bytes) \ {<<>>}
           /\ <<Hash, High, low2>> \in Seq(Bytes) \ {<<>>}
           /\ <<High, low2>> \in Seq(Bytes) \ {<<>>}
           /\ <<low2>> \in Seq(Bytes) \ {<<>>}
<1> DEFINE low == <<"lo", <<q>> >>
           low2 == <<"lo", <<q, Escape, Masked>> >>
<1>1. q \in Bytes /\ low \in Bytes /\ low2 \in Bytes
  BY ByteTypes
<1> HIDE DEF low, low2
<1> SUFFICES
           /\ <<Dollar, q, Hash, High, low>> \in Seq(Bytes) \ {<<>>}
           /\ <<q, Hash, High, low>> \in Seq(Bytes) \ {<<>>}
           /\ <<Hash, High, low>> \in Seq(Bytes) \ {<<>>}
           /\ <<High, low>> \in Seq(Bytes) \ {<<>>}
           /\ <<low>> \in Seq(Bytes) \ {<<>>}
           /\ <<Dollar, q, Escape, Masked, Hash, High, low2>> \in Seq(Bytes) \ {<<>>}
           /\ <<q, Escape, Masked, Hash, High, low2>> \in Seq(Bytes) \ {<<>>}
           /\ <<Escape, Masked, Hash, High, low2>> \in Seq(Bytes) \ {<<>>}
           /\ <<Masked, Hash, High, low2>> \in Seq(Bytes) \ {<<>>}
           /\ <<Hash, High, low2>> \in Seq(Bytes) \ {<<>>}
           /\ <<High, low2>> \in Seq(Bytes) \ {<<>>}
           /\ <<low2>> \in Seq(Bytes) \ {<<>>}
  BY Zenon DEF low, low2
<1> QED BY ONLY <1>1, ByteTypes, SomeBytes

LEMMA NothingToRead ==
    ASSUME rx = <<>>, NEW q \in Requests
    PROVE  ~InPacket(q)
<1>1. \A s \in Seq(Bytes) \ {<<>>} : ~Reads(s)
  BY DEF Reads
<1> QED BY <1>1, Rests, Zenon DEF InPacket, InPlain, InEscaped, At

(* One byte is taken from what is to come. *)
LEMMA ReadsFirst ==
    ASSUME rx \in Seq(Bytes), rx' = Tail(rx),
           NEW s \in Seq(Bytes) \ {<<>>}, NEW a, NEW r, s[1] = a, Tail(s) = r, Reads(s)
    PROVE  Head(rx) = a /\ Reads(r)'
<1>1. Head(rx) = s[1] /\ Reads(Tail(s))'
  BY ReadsOn
<1>2. Reads(r)'
  BY <1>1
<1> QED BY <1>1, <1>2

LEMMA Reads1 ==
    ASSUME rx \in Seq(Bytes), rx' = Tail(rx),
           NEW a \in Bytes
    PROVE  Reads(<<a>>) => Head(rx) = a /\ Reads(<<>>)'
<1>1. <<a>> \in Seq(Bytes) \ {<<>>} /\ <<a>>[1] = a /\ Tail(<<a>>) = <<>>
  OBVIOUS
<1> QED BY <1>1, ReadsFirst

LEMMA Reads2 ==
    ASSUME rx \in Seq(Bytes), rx' = Tail(rx),
           NEW a \in Bytes, NEW b \in Bytes
    PROVE  Reads(<<a, b>>) => Head(rx) = a /\ Reads(<<b>>)'
<1>1. <<a, b>> \in Seq(Bytes) \ {<<>>} /\ <<a, b>>[1] = a /\ Tail(<<a, b>>) = <<b>>
  OBVIOUS
<1> QED BY <1>1, ReadsFirst

LEMMA Reads3 ==
    ASSUME rx \in Seq(Bytes), rx' = Tail(rx),
           NEW a \in Bytes, NEW b \in Bytes, NEW c \in Bytes
    PROVE  Reads(<<a, b, c>>) => Head(rx) = a /\ Reads(<<b, c>>)'
<1>1. <<a, b, c>> \in Seq(Bytes) \ {<<>>} /\ <<a, b, c>>[1] = a /\ Tail(<<a, b, c>>) = <<b, c>>
  OBVIOUS
<1> QED BY <1>1, ReadsFirst

LEMMA Reads4 ==
    ASSUME rx \in Seq(Bytes), rx' = Tail(rx),
           NEW a \in Bytes, NEW b \in Bytes, NEW c \in Bytes, NEW d \in Bytes
    PROVE  Reads(<<a, b, c, d>>) => Head(rx) = a /\ Reads(<<b, c, d>>)'
<1>1. <<a, b, c, d>> \in Seq(Bytes) \ {<<>>} /\ <<a, b, c, d>>[1] = a /\ Tail(<<a, b, c, d>>) = <<b, c, d>>
  OBVIOUS
<1> QED BY <1>1, ReadsFirst

LEMMA Reads5 ==
    ASSUME rx \in Seq(Bytes), rx' = Tail(rx),
           NEW a \in Bytes, NEW b \in Bytes, NEW c \in Bytes, NEW d \in Bytes,
           NEW e \in Bytes
    PROVE  Reads(<<a, b, c, d, e>>) => Head(rx) = a /\ Reads(<<b, c, d, e>>)'
<1>1. <<a, b, c, d, e>> \in Seq(Bytes) \ {<<>>} /\ <<a, b, c, d, e>>[1] = a /\ Tail(<<a, b, c, d, e>>) = <<b, c, d, e>>
  OBVIOUS
<1> QED BY <1>1, ReadsFirst

LEMMA Reads6 ==
    ASSUME rx \in Seq(Bytes), rx' = Tail(rx),
           NEW a \in Bytes, NEW b \in Bytes, NEW c \in Bytes, NEW d \in Bytes,
           NEW e \in Bytes, NEW f \in Bytes
    PROVE  Reads(<<a, b, c, d, e, f>>) => Head(rx) = a /\ Reads(<<b, c, d, e, f>>)'
<1>1. <<a, b, c, d, e, f>> \in Seq(Bytes) \ {<<>>} /\ <<a, b, c, d, e, f>>[1] = a /\ Tail(<<a, b, c, d, e, f>>) = <<b, c, d, e, f>>
  OBVIOUS
<1> QED BY <1>1, ReadsFirst

LEMMA Reads7 ==
    ASSUME rx \in Seq(Bytes), rx' = Tail(rx),
           NEW a \in Bytes, NEW b \in Bytes, NEW c \in Bytes, NEW d \in Bytes,
           NEW e \in Bytes, NEW f \in Bytes, NEW g \in Bytes
    PROVE  Reads(<<a, b, c, d, e, f, g>>) => Head(rx) = a /\ Reads(<<b, c, d, e, f, g>>)'
<1>1. <<a, b, c, d, e, f, g>> \in Seq(Bytes) \ {<<>>} /\ <<a, b, c, d, e, f, g>>[1] = a /\ Tail(<<a, b, c, d, e, f, g>>) = <<b, c, d, e, f, g>>
  OBVIOUS
<1> QED BY <1>1, ReadsFirst

-----------------------------------------------------------------------------
(* What the server does with a byte: it is part of a packet, ... *)

Taken ==
    /\ listenMode = 2 /\ rx # <<>> /\ rx' = Tail(rx) /\ due' = TRUE
    /\ UNCHANGED <<listenMode, gdb, bounds>>

Gathered ==
    /\ Taken /\ Quiet /\ payload' = payload /\ payload # <<>>
    /\ \E q \in Requests : InPacket(q)'

(* ... the last one, with which the packet is handled, ... *)
Handled ==
    /\ Taken /\ HandlePacket(payload) /\ payload' = <<>>
    /\ \E q \in Requests : payload = <<q>> \/ payload = <<q, Hash>>
    /\ gdbbufferstate = 3 /\ Between'

(* ... or a break. *)
Broken == Taken /\ Break(Brk) /\ payload = <<>> /\ payload' = <<>> /\ Between'

LEMMA ByteTaken ==
    ASSUME HandleClientData
    PROVE  LET c == Head(rx) IN
           /\ Taken /\ payload' = IF gdbbufferstate = 3 THEN <<>> ELSE payload
           /\ gdbbufferstate = 0 /\ c[1] = "$" =>
                  Quiet /\ gdbrunningcsum' = <<c>> /\ gdbbuffer' = <<c>> /\ gdbbufferstate' = 1
           /\ gdbbufferstate = 1 /\ c[1] = "#" =>
                  /\ Quiet /\ gdbrunningcsum' = gdbrunningcsum
                  /\ gdbbuffer' = Append(gdbbuffer, c) /\ gdbbufferstate' = 2
           /\ gdbbufferstate = 1 /\ c[1] = "}" =>
                  /\ Quiet /\ gdbrunningcsum' = Append(gdbrunningcsum, c)
                  /\ gdbbuffer' = gdbbuffer /\ gdbbufferstate' = 9
           /\ gdbbufferstate = 1 /\ c[1] \notin {"#", "}"} =>
                  /\ Quiet /\ gdbrunningcsum' = Append(gdbrunningcsum, c)
                  /\ gdbbuffer' = Append(gdbbuffer, c) /\ gdbbufferstate' = 1
           /\ gdbbufferstate = 9 =>
                  /\ Quiet /\ gdbrunningcsum' = Append(gdbrunningcsum, c)
                  /\ gdbbuffer' = Append(gdbbuffer, c[2]) /\ gdbbufferstate' = 1
           /\ gdbbufferstate = 2 =>
                  /\ Quiet /\ gdbrunningcsum' = gdbrunningcsum
                  /\ gdbbuffer' = gdbbuffer /\ gdbbufferstate' = 3
           /\ gdbbufferstate = 3 => CheckLow(c)
           /\ gdbbufferstate = 0 /\ c[1] # "$" => Break(c)
<1> DEFINE c == Head(rx)
<1> HIDE DEF c
<1>1. Taken /\ payload' = IF gdbbufferstate = 3 THEN <<>> ELSE payload
  BY DEF HandleClientData, Taken
<1>2. Begin(c) \/ Collect(c) \/ Unescape(c) \/ CheckHigh(c) \/ CheckLow(c) \/ Break(c)
  BY DEF HandleClientData, c
<1>3. Begin(c) => /\ gdbbufferstate = 0 /\ c[1] = "$" /\ Quiet
                  /\ gdbrunningcsum' = <<c>> /\ gdbbuffer' = <<c>> /\ gdbbufferstate' = 1
  BY Zenon DEF Begin
<1>4. Collect(c) =>
        /\ gdbbufferstate = 1 /\ Quiet
        /\ gdbrunningcsum' = IF c[1] = "#" THEN gdbrunningcsum ELSE Append(gdbrunningcsum, c)
        /\ gdbbuffer' = IF c[1] = "}" THEN gdbbuffer ELSE Append(gdbbuffer, c)
        /\ c[1] = "#" => gdbbufferstate' = 2
        /\ c[1] = "}" => gdbbufferstate' = 9
        /\ c[1] \notin {"#", "}"} => gdbbufferstate' = 1
  <2>1. ASSUME gdbbufferstate' = CASE c[1] = "#" -> 2 [] c[1] = "}" -> 9 [] OTHER -> 1
        PROVE  /\ c[1] = "#" => gdbbufferstate' = 2
               /\ c[1] = "}" => gdbbufferstate' = 9
               /\ c[1] \notin {"#", "}"} => gdbbufferstate' = 1
    BY <2>1
  <2> QED BY <2>1, Zenon DEF Collect
<1>5. Unescape(c) => /\ gdbbufferstate = 9 /\ Quiet
                     /\ gdbrunningcsum' = Append(gdbrunningcsum, c)
                     /\ gdbbuffer' = Append(gdbbuffer, c[2]) /\ gdbbufferstate' = 1
  BY Zenon DEF Unescape
<1>6. CheckHigh(c) => /\ gdbbufferstate = 2 /\ Quiet /\ gdbrunningcsum' = gdbrunningcsum
                      /\ gdbbuffer' = gdbbuffer /\ gdbbufferstate' = 3
  BY Zenon DEF CheckHigh
<1>7. CheckLow(c) => gdbbufferstate = 3
  BY Zenon DEF CheckLow
<1>8. Break(c) => gdbbufferstate = 0 /\ c[1] = "break"
  BY Zenon DEF Break
<1>9. /\ 0 # 1 /\ 0 # 2 /\ 0 # 3 /\ 0 # 9 /\ 1 # 2 /\ 1 # 3 /\ 1 # 9
      /\ 2 # 3 /\ 2 # 9 /\ 3 # 9
      /\ "$" # "break" /\ "#" # "}"
  OBVIOUS
<1>10. gdbbufferstate = 0 => Begin(c) \/ Break(c)
  BY ONLY <1>2, <1>4, <1>5, <1>6, <1>7, <1>9, Zenon
<1>11. gdbbufferstate = 1 => Collect(c)
  BY ONLY <1>2, <1>3, <1>5, <1>6, <1>7, <1>8, <1>9, Zenon
<1>12. gdbbufferstate = 9 => Unescape(c)
  BY ONLY <1>2, <1>3, <1>4, <1>6, <1>7, <1>8, <1>9, Zenon
<1>13. gdbbufferstate = 2 => CheckHigh(c)
  BY ONLY <1>2, <1>3, <1>4, <1>5, <1>7, <1>8, <1>9, Zenon
<1>14. gdbbufferstate = 3 => CheckLow(c)
  BY ONLY <1>2, <1>3, <1>4, <1>5, <1>6, <1>8, <1>9, Zenon
<1>15. gdbbufferstate = 0 /\ c[1] = "$" => Begin(c)
  BY ONLY <1>10, <1>8, <1>9, Zenon
<1>16. gdbbufferstate = 0 /\ c[1] # "$" => Break(c)
  BY ONLY <1>10, <1>3, Zenon
<1> QED BY ONLY <1>1, <1>3, <1>4, <1>5, <1>6, <1>9, <1>11, <1>12, <1>13, <1>14, <1>15,
           <1>16, Zenon DEF c

(* A packet with no byte escaped. *)
LEMMA PlainHandling ==
    ASSUME rx \in Seq(Bytes), HandleClientData, NEW q \in Requests,
           payload = <<q>>, InPlain(q)
    PROVE  Gathered \/ Handled
<1> DEFINE low == <<"lo", <<q>> >>
<1>1. rx' = Tail(rx)
  BY DEF HandleClientData
<1>2. low \in Bytes /\ low[2] = <<q>>
  BY ByteTypes
<1> HIDE DEF low
<1>3. /\ payload # <<>> /\ Append(<<Dollar>>, q) = <<Dollar, q>>
      /\ Append(<<Dollar, q>>, Hash) = <<Dollar, q, Hash>>
  <2>1. Dollar \in Bytes /\ q \in Bytes /\ Hash \in Bytes
    BY ByteTypes
  <2> QED BY <2>1, Appended1, Appended2, Zenon
<1>4. q \in Bytes /\ q[1] = "data"
  BY ByteTypes, BytesDiffer
<1>10. 0 # 3 /\ 1 # 3 /\ 2 # 3 /\ "data" \notin {"#", "}"}
  OBVIOUS
<1>5. CASE gdbbufferstate = 0 /\ Reads(<<Dollar, q, Hash, High, low>>)
  <2>1. Head(rx) = Dollar /\ Reads(<<q, Hash, High, low>>)'
    BY <1>1, <1>2, <1>4, <1>5, Reads5, ByteTypes, Zenon
  <2>3. gdbbufferstate = 0 /\ Head(rx)[1] = "$" /\ gdbbufferstate # 3
    BY <2>1, <1>5, <1>4, <1>10, BytesDiffer, Zenon DEF At
  <2>2. /\ Taken /\ payload' = payload /\ Quiet /\ gdbbufferstate' = 1
        /\ gdbbuffer' = <<Dollar>> /\ gdbrunningcsum' = <<Dollar>>
    BY <2>1, <2>3, <1>5, <1>3, ByteTaken, Zenon DEF At
  <2> QED BY <2>1, <2>2, <1>3, Zenon DEF Gathered, InPacket, InPlain, At, low
<1>6. CASE At(1, <<Dollar>>, <<Dollar>>, <<q, Hash, High, low>>)
  <2>1. Head(rx) = q /\ Reads(<<Hash, High, low>>)'
    BY <1>1, <1>2, <1>4, <1>6, Reads4, ByteTypes, Zenon DEF At
  <2>3. gdbbufferstate = 1 /\ Head(rx)[1] \notin {"#", "}"} /\ gdbbufferstate # 3
    BY <2>1, <1>6, <1>4, <1>10, BytesDiffer, Zenon DEF At
  <2>2. /\ Taken /\ payload' = payload /\ Quiet /\ gdbbufferstate' = 1
        /\ gdbbuffer' = <<Dollar, q>> /\ gdbrunningcsum' = <<Dollar, q>>
    BY <2>1, <2>3, <1>6, <1>3, ByteTaken, Zenon DEF At
  <2> QED BY <2>1, <2>2, <1>3, Zenon DEF Gathered, InPacket, InPlain, At, low
<1>7. CASE At(1, <<Dollar, q>>, <<Dollar, q>>, <<Hash, High, low>>)
  <2>1. Head(rx) = Hash /\ Reads(<<High, low>>)'
    BY <1>1, <1>2, <1>4, <1>7, Reads3, ByteTypes, Zenon DEF At
  <2>3. gdbbufferstate = 1 /\ Head(rx)[1] = "#" /\ gdbbufferstate # 3
    BY <2>1, <1>7, <1>4, <1>10, BytesDiffer, Zenon DEF At
  <2>2. /\ Taken /\ payload' = payload /\ Quiet /\ gdbbufferstate' = 2
        /\ gdbbuffer' = <<Dollar, q, Hash>> /\ gdbrunningcsum' = <<Dollar, q>>
    BY <2>1, <2>3, <1>7, <1>3, ByteTaken, Zenon DEF At
  <2> QED BY <2>1, <2>2, <1>3, Zenon DEF Gathered, InPacket, InPlain, At, low
<1>8. CASE At(2, <<Dollar, q, Hash>>, <<Dollar, q>>, <<High, low>>)
  <2>1. Head(rx) = High /\ Reads(<<low>>)'
    BY <1>1, <1>2, <1>4, <1>8, Reads2, ByteTypes, Zenon DEF At
  <2>3. gdbbufferstate = 2 /\ gdbbufferstate # 3
    BY <2>1, <1>8, <1>4, <1>10, BytesDiffer, Zenon DEF At
  <2>2. /\ Taken /\ payload' = payload /\ Quiet /\ gdbbufferstate' = 3
        /\ gdbbuffer' = <<Dollar, q, Hash>> /\ gdbrunningcsum' = <<Dollar, q>>
    BY <2>1, <2>3, <1>8, <1>3, ByteTaken, Zenon DEF At
  <2> QED BY <2>1, <2>2, <1>3, Zenon DEF Gathered, InPacket, InPlain, At, low
<1>9. CASE At(3, <<Dollar, q, Hash>>, <<Dollar, q>>, <<low>>)
  <2>1. Head(rx) = low /\ Reads(<<>>)'
    BY <1>1, <1>2, <1>4, <1>9, Reads1, ByteTypes, Zenon DEF At
  <2>2. Taken /\ payload' = <<>> /\ CheckLow(low)
    BY <2>1, <1>9, ByteTaken DEF At
  <2>3. Tail(gdbrunningcsum) = low[2]
    BY <1>2, <1>9 DEF At
  <2>4. SubSeq(gdbbuffer, 2, Len(gdbbuffer) - 1) = payload
    BY <1>9, Trimmed DEF At
  <2>5. HandlePacket(payload) /\ gdbbufferstate = 3 /\ gdbbufferstate' = 0
    BY <2>2, <2>3, <2>4, Zenon DEF CheckLow
  <2> QED BY <2>1, <2>2, <2>5, Zenon DEF Handled, Between
<1> QED BY <1>5, <1>6, <1>7, <1>8, <1>9, Zenon DEF InPlain, low

(* A packet with an escaped byte. *)
LEMMA EscapedHandling ==
    ASSUME rx \in Seq(Bytes), HandleClientData, NEW q \in Requests,
           payload = <<q, Hash>>, InEscaped(q)
    PROVE  Gathered \/ Handled
<1> DEFINE low  == <<"lo", <<q, Escape, Masked>> >>
           full == <<Dollar, q, Escape, Masked>>
<1>1. rx' = Tail(rx)
  BY DEF HandleClientData
<1>2. low \in Bytes /\ low[2] = <<q, Escape, Masked>> /\ Tail(full) = <<q, Escape, Masked>>
  <2>1. low \in Bytes
    BY ByteTypes, Zenon
  <2>2. low[2] = <<q, Escape, Masked>>
    OBVIOUS
  <2>3. Tail(full) = <<q, Escape, Masked>>
    OBVIOUS
  <2> QED BY <2>1, <2>2, <2>3
<1>3. /\ payload # <<>> /\ Append(<<Dollar>>, q) = <<Dollar, q>>
      /\ Append(<<Dollar, q>>, Escape) = <<Dollar, q, Escape>>
      /\ Append(<<Dollar, q, Escape>>, Masked) = full
      /\ Append(<<Dollar, q>>, Hash) = <<Dollar, q, Hash>>
      /\ Append(<<Dollar, q, Hash>>, Hash) = <<Dollar, q, Hash, Hash>>
  <2>1. Dollar \in Bytes /\ q \in Bytes /\ Hash \in Bytes /\ Escape \in Bytes
        /\ Masked \in Bytes
    BY ByteTypes
  <2>2. Append(<<Dollar>>, q) = <<Dollar, q>>
    BY <2>1, Appended1, Zenon
  <2>3. Append(<<Dollar, q>>, Escape) = <<Dollar, q, Escape>>
    BY <2>1, Appended2, Zenon
  <2>4. Append(<<Dollar, q, Escape>>, Masked) = full
    BY <2>1, Appended3
  <2>5. Append(<<Dollar, q>>, Hash) = <<Dollar, q, Hash>>
    BY <2>1, Appended2, Zenon
  <2>6. Append(<<Dollar, q, Hash>>, Hash) = <<Dollar, q, Hash, Hash>>
    BY <2>1, Appended3
  <2>7. payload # <<>>
    OBVIOUS
  <2> QED BY <2>2, <2>3, <2>4, <2>5, <2>6, <2>7, Zenon
<1> HIDE DEF low, full
<1>4. q \in Bytes /\ q[1] = "data"
  BY ByteTypes, BytesDiffer
<1>5. 0 # 3 /\ 1 # 3 /\ 2 # 3 /\ 9 # 3 /\ "data" \notin {"#", "}"}
  OBVIOUS
<1>6. CASE gdbbufferstate = 0 /\ Reads(<<Dollar, q, Escape, Masked, Hash, High, low>>)
  <2>1. Head(rx) = Dollar /\ Reads(<<q, Escape, Masked, Hash, High, low>>)'
    BY <1>1, <1>2, <1>4, <1>6, Reads7, ByteTypes, Zenon DEF At
  <2>2. gdbbufferstate = 0 /\ gdbbufferstate # 3 /\ Head(rx)[1] = "$"
    BY <2>1, <1>6, <1>4, <1>5, BytesDiffer, Zenon DEF At
  <2>3. /\ Taken /\ payload' = payload /\ Quiet /\ gdbbufferstate' = 1
        /\ gdbbuffer' = <<Dollar>>
        /\ gdbrunningcsum' = <<Dollar>>
    BY <2>1, <2>2, <1>6, <1>3, ByteTaken, Zenon DEF At
  <2> QED BY <2>1, <2>3, <1>3, Zenon DEF Gathered, InPacket, InEscaped, At, low, full
<1>7. CASE At(1, <<Dollar>>, <<Dollar>>, <<q, Escape, Masked, Hash, High, low>>)
  <2>1. Head(rx) = q /\ Reads(<<Escape, Masked, Hash, High, low>>)'
    BY <1>1, <1>2, <1>4, <1>7, Reads6, ByteTypes, Zenon DEF At
  <2>2. gdbbufferstate = 1 /\ gdbbufferstate # 3 /\ Head(rx)[1] \notin {"#", "}"}
    BY <2>1, <1>7, <1>4, <1>5, BytesDiffer, Zenon DEF At
  <2>3. /\ Taken /\ payload' = payload /\ Quiet /\ gdbbufferstate' = 1
        /\ gdbbuffer' = <<Dollar, q>>
        /\ gdbrunningcsum' = <<Dollar, q>>
    BY <2>1, <2>2, <1>7, <1>3, ByteTaken, Zenon DEF At
  <2> QED BY <2>1, <2>3, <1>3, Zenon DEF Gathered, InPacket, InEscaped, At, low, full
<1>8. CASE At(1, <<Dollar, q>>, <<Dollar, q>>, <<Escape, Masked, Hash, High, low>>)
  <2>1. Head(rx) = Escape /\ Reads(<<Masked, Hash, High, low>>)'
    BY <1>1, <1>2, <1>4, <1>8, Reads5, ByteTypes, Zenon DEF At
  <2>2. gdbbufferstate = 1 /\ gdbbufferstate # 3 /\ Head(rx)[1] = "}"
    BY <2>1, <1>8, <1>4, <1>5, BytesDiffer, Zenon DEF At
  <2>3. /\ Taken /\ payload' = payload /\ Quiet /\ gdbbufferstate' = 9
        /\ gdbbuffer' = <<Dollar, q>>
        /\ gdbrunningcsum' = <<Dollar, q, Escape>>
    BY <2>1, <2>2, <1>8, <1>3, ByteTaken, Zenon DEF At
  <2> QED BY <2>1, <2>3, <1>3, Zenon DEF Gathered, InPacket, InEscaped, At, low, full
<1>9. CASE At(9, <<Dollar, q>>, <<Dollar, q, Escape>>, <<Masked, Hash, High, low>>)
  <2>1. Head(rx) = Masked /\ Reads(<<Hash, High, low>>)'
    BY <1>1, <1>2, <1>4, <1>9, Reads4, ByteTypes, Zenon DEF At
  <2>2. gdbbufferstate = 9 /\ gdbbufferstate # 3 /\ Head(rx)[2] = Hash
    BY <2>1, <1>9, <1>4, <1>5, BytesDiffer, Zenon DEF At
  <2>3. /\ Taken /\ payload' = payload /\ Quiet /\ gdbbufferstate' = 1
        /\ gdbbuffer' = <<Dollar, q, Hash>>
        /\ gdbrunningcsum' = full
    BY <2>1, <2>2, <1>9, <1>3, ByteTaken, Zenon DEF At
  <2> QED BY <2>1, <2>3, <1>3, Zenon DEF Gathered, InPacket, InEscaped, At, low, full
<1>10. CASE At(1, <<Dollar, q, Hash>>, full, <<Hash, High, low>>)
  <2>1. Head(rx) = Hash /\ Reads(<<High, low>>)'
    BY <1>1, <1>2, <1>4, <1>10, Reads3, ByteTypes, Zenon DEF At
  <2>2. gdbbufferstate = 1 /\ gdbbufferstate # 3 /\ Head(rx)[1] = "#"
    BY <2>1, <1>10, <1>4, <1>5, BytesDiffer, Zenon DEF At
  <2>3. /\ Taken /\ payload' = payload /\ Quiet /\ gdbbufferstate' = 2
        /\ gdbbuffer' = <<Dollar, q, Hash, Hash>>
        /\ gdbrunningcsum' = full
    BY <2>1, <2>2, <1>10, <1>3, ByteTaken, Zenon DEF At
  <2> QED BY <2>1, <2>3, <1>3, Zenon DEF Gathered, InPacket, InEscaped, At, low, full
<1>11. CASE At(2, <<Dollar, q, Hash, Hash>>, full, <<High, low>>)
  <2>1. Head(rx) = High /\ Reads(<<low>>)'
    BY <1>1, <1>2, <1>4, <1>11, Reads2, ByteTypes, Zenon DEF At
  <2>2. gdbbufferstate = 2 /\ gdbbufferstate # 3
    BY <2>1, <1>11, <1>4, <1>5, BytesDiffer, Zenon DEF At
  <2>3. /\ Taken /\ payload' = payload /\ Quiet /\ gdbbufferstate' = 3
        /\ gdbbuffer' = <<Dollar, q, Hash, Hash>>
        /\ gdbrunningcsum' = full
    BY <2>1, <2>2, <1>11, <1>3, ByteTaken, Zenon DEF At
  <2> QED BY <2>1, <2>3, <1>3, Zenon DEF Gathered, InPacket, InEscaped, At, low, full
<1>12. CASE At(3, <<Dollar, q, Hash, Hash>>, full, <<low>>)
  <2>1. Head(rx) = low /\ Reads(<<>>)'
    BY <1>1, <1>2, <1>4, <1>12, Reads1, ByteTypes, Zenon DEF At
  <2>2. Taken /\ payload' = <<>> /\ CheckLow(low)
    BY <2>1, <1>12, ByteTaken DEF At
  <2>3. Tail(gdbrunningcsum) = low[2]
    BY <1>2, <1>12 DEF At
  <2>4. SubSeq(gdbbuffer, 2, Len(gdbbuffer) - 1) = payload
    BY <1>12, Trimmed DEF At
  <2>5. HandlePacket(payload) /\ gdbbufferstate = 3 /\ gdbbufferstate' = 0
    BY <2>2, <2>3, <2>4, <1>12, Zenon DEF CheckLow, At
  <2> QED BY <2>1, <2>2, <2>5, Zenon DEF Handled, Between
<1> QED BY <1>6, <1>7, <1>8, <1>9, <1>10, <1>11, <1>12, Zenon DEF InEscaped, low, full

LEMMA Handling ==
    ASSUME WireInv, HandleClientData
    PROVE  Gathered \/ Handled \/ Broken
<1>1. rx \in Seq(Bytes) /\ rx # <<>> /\ rx' = Tail(rx)
  BY DEF WireInv, HandleClientData
<1>2. CASE Between
  <2>1. Head(rx) = Brk /\ Reads(<<>>)'
    BY <1>1, <1>2, ReadsBreak DEF Between
  <2>2. 0 # 3 /\ "break" # "$"
    OBVIOUS
  <2>3. Taken /\ payload' = payload /\ Break(Brk)
    BY <2>1, <2>2, <1>2, ByteTaken, BytesDiffer, Zenon DEF Between
  <2>4. gdbbufferstate' = gdbbufferstate
    BY <2>3 DEF Break, parser
  <2> QED BY <2>1, <2>3, <2>4, <1>2, Zenon DEF Broken, Between
<1>3. ASSUME NEW q \in Requests, InPacket(q)
      PROVE  Gathered \/ Handled
  BY <1>1, <1>3, PlainHandling, EscapedHandling, Zenon DEF InPacket
<1>4. ~Absent
  BY <1>1 DEF Absent
<1> QED BY <1>2, <1>3, <1>4, Zenon DEF WireInv

-----------------------------------------------------------------------------
(* The hart, its saved registers, the table. *)

Words    == {"insn", "ebreak"}
Programs == [Addrs -> Words]
Harts    == [run : BOOLEAN, pc : Addrs, regs : Whose, step : BOOLEAN]
Saves    == [regs : Whose, pc : Addrs]
Tables   == [Slots -> [used : BOOLEAN, addy : Addrs, prev : Words]]
Promises == {"regs", "write", "step bit", "overwritten", "monitor", "rehalt",
             "detached running", "late break", "poll", "control"}

LEMMA AddrFacts ==
    /\ 0 \in Addrs
    /\ \A a \in Addrs : After(a) \in Addrs
<1>1. Cardinality(Addrs) \in Nat /\ Cardinality(Addrs) # 0
  BY GdbAssumption, FS_CardinalityType, FS_EmptySet
<1>2. Addrs = 0..Cardinality(Addrs) - 1
  BY GdbAssumption
<1> DEFINE n == Cardinality(Addrs)
<1> HIDE DEF n
<1>3. n \in Nat \ {0} /\ Addrs = 0..n - 1
  BY <1>1, <1>2 DEF n
<1>4. \A a \in 0..n - 1 : (a + 1) % n \in 0..n - 1
  BY ONLY <1>3
<1>5. \A a \in Addrs : After(a) \in Addrs
  BY <1>3, <1>4 DEF After, n
<1>6. 0 \in Addrs
  BY <1>3
<1> QED BY <1>5, <1>6

LEMMA HartFields ==
    ASSUME NEW h \in Harts
    PROVE  /\ Halted(h) \in Harts /\ Halted(h).run = FALSE /\ Halted(h).pc = h.pc
           /\ Halted(h).regs = h.regs /\ Halted(h).step = h.step
           /\ Accessed(h) \in Harts /\ Accessed(h).run = h.run /\ Accessed(h).pc = h.pc
           /\ Accessed(h).step = h.step
           /\ \A on \in BOOLEAN :
                 /\ Stepping(h, on) \in Harts /\ Stepping(h, on).run = h.run
                 /\ Stepping(h, on).pc = h.pc /\ Stepping(h, on).regs = h.regs
                 /\ Stepping(h, on).step = on
  BY DEF Harts, Whose, Halted, Accessed, Stepping

LEMMA ResumedFields ==
    ASSUME NEW h \in Harts, NEW f
    PROVE  /\ Resumed(h, f) \in Harts /\ Resumed(h, f).pc = h.pc
           /\ Resumed(h, f).regs = h.regs /\ Resumed(h, f).step = h.step
           /\ f # "resume" => Resumed(h, f).run
  BY DEF Harts, Resumed

LEMMA ExecutedFields ==
    ASSUME NEW h \in Harts
    PROVE  /\ Executed(h) \in Harts /\ Executed(h).run = h.run
           /\ Executed(h).regs = h.regs /\ Executed(h).step = h.step
  BY AddrFacts DEF Harts, Executed

LEMMA FreeRunsFields ==
    ASSUME NEW h \in Harts, NEW g \in FreeRuns(h)
    PROVE  g \in Harts /\ g.run = h.run /\ g.regs = h.regs /\ g.step = h.step
<1>1. PICK a \in Addrs : g = [h EXCEPT !.pc = a]
  BY DEF FreeRuns
<1> QED BY <1>1 DEF Harts

LEMMA SavedFields ==
    ASSUME NEW h \in Harts, backup_regs \in Saves, NEW f
    PROVE  /\ Saved(h, f) \in Saves
           /\ f = "save" => Saved(h, f).regs = backup_regs.regs
           /\ f # "save" /\ ~h.run => Saved(h, f).regs = h.regs
  BY DEF Harts, Saves, Whose, Saved

LEMMA RestoredFields ==
    ASSUME NEW h \in Harts, NEW bk \in Saves, NEW f
    PROVE  /\ Restored(h, bk, f) \in Harts
           /\ Restored(h, bk, f).run = h.run /\ Restored(h, bk, f).step = h.step
           /\ h.run => Restored(h, bk, f) = h
           /\ ~h.run /\ f # "restore" => Restored(h, bk, f).regs = bk.regs
<1>1. CASE h.run
  BY <1>1 DEF Restored
<1>2. CASE ~h.run
  <2>1. Restored(h, bk, f) = [h EXCEPT !.regs = IF f = "restore" THEN "scratch" ELSE bk.regs,
                                       !.pc = bk.pc]
    BY <1>2 DEF Restored
  <2> QED BY <1>2, <2>1 DEF Harts, Saves, Whose
<1> QED BY <1>1, <1>2

LEMMA ResetFields ==
    ASSUME NEW h \in Harts, NEW g \in Reset(h)
    PROVE  /\ g \in Harts /\ g.run = h.run /\ g.regs = "own"
           /\ g.step => h.step
<1>1. PICK s \in {FALSE, h.step} : g = [h EXCEPT !.pc = 0, !.regs = "own", !.step = s]
  BY DEF Reset
<1> QED BY <1>1, AddrFacts DEF Harts, Whose

(* The table and the memory stay what they are. *)
LEMMA UncoveredType ==
    ASSUME software_breakpoint \in Tables, mem \in Programs, NEW S \in SUBSET Slots, NEW kept
    PROVE  Uncovered(S, kept) \in Programs
<1>1. ASSUME NEW a \in Addrs
      PROVE  LET here == {i \in S \ kept : software_breakpoint[i].used
                                           /\ software_breakpoint[i].addy = a} IN
             (IF here = {} THEN mem[a] ELSE software_breakpoint[CHOOSE i \in here : TRUE].prev)
                 \in Words
  BY DEF Tables, Programs, Words
<1> QED BY <1>1 DEF Uncovered, Programs

LEMMA FreeType == Free \in [used : BOOLEAN, addy : Addrs, prev : Words] /\ ~Free.used
  BY AddrFacts DEF Free, Words

-----------------------------------------------------------------------------
(* What each packet does, as far as the invariants tell it. *)

StateType ==
    /\ hart \in Harts /\ mem \in Programs /\ code \in Programs
    /\ shadow_running_state \in {0, 1, 1024} /\ gdbasserting_break \in BOOLEAN
    /\ backup_regs \in Saves /\ software_breakpoint \in Tables
    /\ stop \in {"none", "break", "connect", "told"}
    /\ shown \in Whose /\ odd \subseteq {"reason", "cause", "running"}
    /\ lapse \subseteq Promises /\ tx \in Seq(Replies)

LEMMA LapsesType ==
    ASSUME lapse \subseteq Promises, NEW S \in SUBSET Promises, Lapses(S)
    PROVE  lapse' \subseteq Promises /\ lapse \subseteq lapse' /\ S \subseteq lapse'
  BY DEF Lapses

LEMMA LostByType ==
    \A f : LostBy(f) \in SUBSET Promises
  BY DEF LostBy, Promises

LEMMA ReplyType ==
    ASSUME tx \in Seq(Replies), NEW r \in Replies, Reply(r)
    PROVE  tx' \in Seq(Replies) /\ tx' = Append(tx, r)
  BY AppendProperties DEF Reply

(* The reply of the server, whatever it is about. *)
LEMMA ReasonEffect ==
    ASSUME StateType, NEW stepped, SendHaltReason(stepped), hart' \in Harts
    PROVE  /\ gdbasserting_break' = FALSE /\ stop' = "told"
           /\ odd' \subseteq {"reason", "cause", "running"}
           /\ "reason" \in odd' => "reason" \in odd \/ (gdbasserting_break /\ stop # "break")
           /\ "cause" \in odd' =>
                 "cause" \in odd \/ (~stepped /\ stop = "none" /\ mem'[hart'.pc] # "ebreak")
           /\ "running" \in odd' => "running" \in odd \/ hart'.run
           /\ tx' \in Seq(Replies) /\ \E r \in Stops : tx' = Append(tx, r)
<1>1. \E x \in Stops : tx' = Append(tx, x) /\ tx' \in Seq(Replies)
  <2>1. Reply(IF gdbasserting_break THEN "T02" ELSE "T05")
    BY DEF SendHaltReason
  <2>2. (IF gdbasserting_break THEN "T02" ELSE "T05") \in Stops
    BY DEF Stops
  <2>3. Stops \subseteq Replies /\ tx \in Seq(Replies)
    BY DEF Stops, Replies, StateType
  <2> QED BY <2>1, <2>2, <2>3, ReplyType
<1>2. gdbasserting_break' = FALSE /\ stop' = "told"
  BY DEF SendHaltReason
<1>3. odd' = odd
         \cup (IF gdbasserting_break /\ stop # "break" THEN {"reason"} ELSE {})
         \cup (IF ~stepped /\ stop = "none" /\ mem'[hart'.pc] # "ebreak"
               THEN {"cause"} ELSE {})
         \cup (IF hart'.run THEN {"running"} ELSE {})
  BY DEF SendHaltReason
<1>4. odd \subseteq {"reason", "cause", "running"}
  BY DEF StateType
<1>5. odd' \subseteq {"reason", "cause", "running"}
  BY <1>3, <1>4
<1>6. "reason" \in odd' => "reason" \in odd \/ (gdbasserting_break /\ stop # "break")
  BY <1>3
<1>7. "cause" \in odd' =>
         "cause" \in odd \/ (~stepped /\ stop = "none" /\ mem'[hart'.pc] # "ebreak")
  BY <1>3
<1>8. "running" \in odd' => "running" \in odd \/ hart'.run
  BY <1>3
<1> QED BY <1>1, <1>2, <1>5, <1>6, <1>7, <1>8

LEMMA QueryEffect ==
    ASSUME StateType, QueryReason
    PROVE  /\ StateType'
           /\ UNCHANGED <<hart, mem, shadow_running_state, backup_regs, software_breakpoint,
                          code, shown, lapse>>
           /\ gdbasserting_break' = FALSE /\ stop' = "told"
           /\ "reason" \in odd' => "reason" \in odd \/ (gdbasserting_break /\ stop # "break")
           /\ "cause" \in odd' => "cause" \in odd \/ stop = "none"
           /\ "running" \in odd' => "running" \in odd \/ hart.run
           /\ \E r \in Stops : tx' = Append(tx, r)
<1>1. /\ UNCHANGED <<hart, mem, shadow_running_state, backup_regs, software_breakpoint,
                     code, shown, lapse>>
      /\ SendHaltReason(FALSE)
  BY DEF QueryReason, target
<1>2. hart' \in Harts
  BY <1>1 DEF StateType
<1>3. /\ gdbasserting_break' = FALSE /\ stop' = "told"
      /\ odd' \subseteq {"reason", "cause", "running"}
      /\ "reason" \in odd' => "reason" \in odd \/ (gdbasserting_break /\ stop # "break")
      /\ "cause" \in odd' => "cause" \in odd \/ stop = "none"
      /\ "running" \in odd' => "running" \in odd \/ hart'.run
      /\ tx' \in Seq(Replies) /\ \E r \in Stops : tx' = Append(tx, r)
  BY <1>1, <1>2, ReasonEffect
<1>4. StateType'
  BY <1>1, <1>3 DEF StateType
<1> QED BY <1>1, <1>3, <1>4

LEMMA StepEffect ==
    ASSUME StateType, StepPacket
    PROVE  /\ StateType'
           /\ UNCHANGED <<mem, shadow_running_state, software_breakpoint, code, shown>>
           /\ ~hart'.run /\ lapse \subseteq lapse'
           /\ hart'.step => "step bit" \in lapse'
           /\ "regs" \notin lapse' /\ ~hart.run => backup_regs'.regs = backup_regs.regs
           /\ gdbasserting_break' = FALSE /\ stop' = "told"
           /\ "reason" \in odd' => "reason" \in odd \/ (gdbasserting_break /\ stop # "break")
           /\ "cause" \in odd' => "cause" \in odd \/ "control" \in lapse'
           /\ "running" \in odd' => "running" \in odd
           /\ \E r \in Stops : tx' = Append(tx, r)
<1>1. PICK f \in {"none", "save", "restore", "step on", "resume", "step off"} :
        LET h == Halted(Restored(hart, backup_regs, f)) IN
        /\ Suffer(f) /\ Lapses(LostBy(f) \cup (IF f = "step off" THEN {"step bit"} ELSE {}))
        /\ \E g \in CASE f = "resume" -> {h}
                     [] f = "step on" /\ ~hart.step -> FreeRuns(h)
                     [] OTHER -> {Executed(h)} :
              /\ hart' = Stepping(g, f = "step off") /\ backup_regs' = Saved(g, f)
        /\ UNCHANGED <<mem, shadow_running_state, software_breakpoint, code, shown>>
        /\ SendHaltReason(f \notin {"step on", "resume"})
  BY Zenon DEF StepPacket
<1> DEFINE r == Restored(hart, backup_regs, f)
           h == Halted(r)
           S == LostBy(f) \cup (IF f = "step off" THEN {"step bit"} ELSE {})
<1>2. hart \in Harts /\ backup_regs \in Saves /\ lapse \subseteq Promises
  BY DEF StateType
<1>3. r \in Harts /\ (~hart.run /\ f # "restore" => r.regs = backup_regs.regs)
  BY <1>2, RestoredFields
<1>4. h \in Harts /\ h.run = FALSE /\ h.regs = r.regs
  BY <1>3, HartFields
<1> HIDE DEF r, h
<1>5. PICK g \in CASE f = "resume" -> {h}
                   [] f = "step on" /\ ~hart.step -> FreeRuns(h)
                   [] OTHER -> {Executed(h)} :
        hart' = Stepping(g, f = "step off") /\ backup_regs' = Saved(g, f)
  BY <1>1 DEF h, r
<1>6. g \in Harts /\ g.run = FALSE /\ g.regs = h.regs
  <2>1. g = h \/ g \in FreeRuns(h) \/ g = Executed(h)
    BY <1>5
  <2>2. CASE g \in FreeRuns(h)
    BY <2>2, <1>4, FreeRunsFields
  <2>3. CASE g = Executed(h)
    BY <2>3, <1>4, ExecutedFields
  <2> QED BY <2>1, <2>2, <2>3, <1>4
<1>7. Lapses(S) /\ SendHaltReason(f \notin {"step on", "resume"})
      /\ UNCHANGED <<mem, shadow_running_state, software_breakpoint, code, shown>>
  BY <1>1
<1>8. hart' \in Harts /\ hart'.run = FALSE /\ hart'.step = (f = "step off")
  <2>1. (f = "step off") \in BOOLEAN
    OBVIOUS
  <2> QED BY <1>5, <1>6, <2>1, HartFields, Zenon
<1>9. backup_regs' \in Saves
      /\ (f = "save" => backup_regs'.regs = backup_regs.regs)
      /\ (f # "save" => backup_regs'.regs = r.regs)
  BY <1>2, <1>4, <1>5, <1>6, SavedFields
<1>10. lapse' \subseteq Promises /\ lapse \subseteq lapse' /\ S \subseteq lapse'
  <2>1. S \in SUBSET Promises
    BY LostByType DEF Promises
  <2> HIDE DEF S
  <2> QED BY <1>2, <1>7, <2>1, LapsesType
<1>11. /\ f \in {"save", "restore"} => "regs" \in lapse'
       /\ f \in {"step on", "resume"} => "control" \in lapse'
       /\ f = "step off" => "step bit" \in lapse'
  BY <1>10 DEF LostBy
<1>12. "regs" \notin lapse' /\ ~hart.run => backup_regs'.regs = backup_regs.regs
  BY <1>3, <1>9, <1>11
<1>13. /\ gdbasserting_break' = FALSE /\ stop' = "told"
       /\ odd' \subseteq {"reason", "cause", "running"}
       /\ "reason" \in odd' => "reason" \in odd \/ (gdbasserting_break /\ stop # "break")
       /\ "cause" \in odd' => "cause" \in odd \/ f \in {"step on", "resume"}
       /\ "running" \in odd' => "running" \in odd \/ hart'.run
       /\ tx' \in Seq(Replies) /\ \E x \in Stops : tx' = Append(tx, x)
  BY <1>7, <1>8, ReasonEffect
<1>14. StateType'
  BY <1>7, <1>8, <1>9, <1>10, <1>13 DEF StateType
<1> QED BY <1>7, <1>8, <1>10, <1>11, <1>12, <1>13, <1>14

LEMMA ContinueEffect ==
    ASSUME StateType, NEW c, Continue(c)
    PROVE  /\ StateType'
           /\ UNCHANGED <<gdbasserting_break, software_breakpoint, code, shown, odd, tx>>
           /\ shadow_running_state' = 1 /\ stop' = "none" /\ lapse \subseteq lapse'
           /\ shadow_running_state # 1 => hart'.run \/ "control" \in lapse'
           /\ shadow_running_state # 1 /\ ~hart.run /\ "regs" \notin lapse' =>
                  hart'.regs = backup_regs.regs
           /\ hart'.step => "step bit" \in lapse'
           /\ "write" \notin lapse' => mem' = mem
<1>1. PICK f \in {"none", "restore", "write", "read", "step on", "resume"} :
      LET known == Matching(backup_regs.pc)
          steps == known # {} \/ c = "C"
          h     == Stepping(hart, hart.step \/ (steps /\ f # "step on")) IN
      /\ Suffer(f) /\ (f = "write" => known # {}) /\ (f = "read" => known = {}) /\ Wake
      /\ (f = "step on" => steps) /\ (f = "resume" => shadow_running_state # 1)
      /\ Lapses(LostBy(f) \cup (IF h.step THEN {"step bit"} ELSE {}))
      /\ backup_regs' = Skipped(backup_regs, f)
      /\ mem' = IF f = "write"
                THEN [mem EXCEPT ![backup_regs.pc] =
                        software_breakpoint[CHOOSE i \in known : TRUE].prev]
                ELSE mem
      /\ hart' = IF shadow_running_state = 1 THEN h
                 ELSE Resumed(Restored(h, backup_regs', f), f)
      /\ shadow_running_state' = 1
      /\ UNCHANGED <<gdbasserting_break, software_breakpoint, code, shown, odd, tx>>
  BY Zenon DEF Continue
<1> DEFINE known == Matching(backup_regs.pc)
           on == hart.step \/ ((known # {} \/ c = "C") /\ f # "step on")
           h == Stepping(hart, on)
<1>2. hart \in Harts /\ backup_regs \in Saves /\ lapse \subseteq Promises
      /\ mem \in Programs /\ software_breakpoint \in Tables
  BY DEF StateType
<1>3. h \in Harts /\ h.run = hart.run
  <2>1. on \in BOOLEAN
    BY <1>2 DEF Harts
  <2> QED BY <2>1, <1>2, HartFields
<1> HIDE DEF h
<1>4. /\ (f = "write" => known # {}) /\ Wake
      /\ Lapses(LostBy(f) \cup (IF h.step THEN {"step bit"} ELSE {}))
      /\ backup_regs' = Skipped(backup_regs, f)
      /\ mem' = IF f = "write"
                THEN [mem EXCEPT ![backup_regs.pc] =
                        software_breakpoint[CHOOSE i \in known : TRUE].prev]
                ELSE mem
      /\ hart' = IF shadow_running_state = 1 THEN h
                 ELSE Resumed(Restored(h, backup_regs', f), f)
      /\ shadow_running_state' = 1
      /\ UNCHANGED <<gdbasserting_break, software_breakpoint, code, shown, odd, tx>>
  BY <1>1 DEF h
<1>5. backup_regs' \in Saves /\ backup_regs'.regs = backup_regs.regs
  BY <1>2, <1>4, AddrFacts DEF Skipped, Saves
<1>6. lapse' \subseteq Promises /\ lapse \subseteq lapse' /\ LostBy(f) \subseteq lapse'
      /\ (h.step => "step bit" \in lapse')
  <2>1. LostBy(f) \cup (IF h.step THEN {"step bit"} ELSE {}) \in SUBSET Promises
    BY LostByType DEF Promises
  <2>2. LostBy(f) \cup (IF h.step THEN {"step bit"} ELSE {}) \subseteq lapse'
        /\ lapse' \subseteq Promises /\ lapse \subseteq lapse'
    BY <2>1, <1>2, <1>4, LapsesType
  <2> QED BY <2>2
<1>7. mem' \in Programs /\ ("write" \notin lapse' => mem' = mem)
  <2>1. f # "write" => mem' = mem
    BY <1>4
  <2>2. f = "write" => "write" \in lapse'
    BY <1>6 DEF LostBy
  <2>3. ASSUME f = "write"
        PROVE  mem' \in Programs
    <3>1. (CHOOSE i \in known : TRUE) \in Slots
      BY <1>4, <2>3 DEF Matching
    <3>2. software_breakpoint[CHOOSE i \in known : TRUE].prev \in Words
      BY <3>1, <1>2 DEF Tables
    <3> HIDE DEF known
    <3>3. mem' = [mem EXCEPT ![backup_regs.pc] =
                        software_breakpoint[CHOOSE i \in known : TRUE].prev]
      BY <1>4, <2>3
    <3> QED BY <3>2, <3>3, <1>2 DEF Programs
  <2> QED BY <2>1, <2>2, <2>3, <1>2
<1>8. hart' \in Harts /\ hart'.step = h.step
      /\ (shadow_running_state # 1 /\ f # "resume" => hart'.run)
      /\ (shadow_running_state # 1 /\ ~hart.run /\ f # "restore" =>
              hart'.regs = backup_regs.regs)
  <2>1. CASE shadow_running_state = 1
    BY <2>1, <1>3, <1>4
  <2>2. CASE shadow_running_state # 1
    <3> DEFINE r == Restored(h, backup_regs', f)
    <3>1. r \in Harts /\ r.step = h.step
          /\ (~h.run /\ f # "restore" => r.regs = backup_regs'.regs)
      BY <1>3, <1>5, RestoredFields
    <3>2. hart' = Resumed(r, f)
      BY <2>2, <1>4
    <3> HIDE DEF r
    <3> QED BY <3>1, <3>2, <1>3, <1>5, ResumedFields
  <2> QED BY <2>1, <2>2
<1>9. /\ "regs" \notin lapse' => f # "restore"
      /\ f = "resume" => "control" \in lapse'
  BY <1>6 DEF LostBy
<1>10. stop' = "none"
  BY <1>4 DEF Wake
<1>11. StateType'
  BY <1>2, <1>4, <1>5, <1>6, <1>7, <1>8, <1>10 DEF StateType
<1>12. /\ UNCHANGED <<gdbasserting_break, software_breakpoint, code, shown, odd, tx>>
       /\ shadow_running_state' = 1
  BY <1>4
<1>13. shadow_running_state # 1 /\ ~hart.run /\ "regs" \notin lapse' =>
          hart'.regs = backup_regs.regs
  BY <1>8, <1>9
<1> QED BY <1>6, <1>7, <1>8, <1>9, <1>10, <1>11, <1>12, <1>13

LEMMA ReadMemEffect ==
    ASSUME StateType, ReadMem
    PROVE  /\ StateType'
           /\ UNCHANGED <<mem, shadow_running_state, backup_regs, gdbasserting_break,
                          software_breakpoint, code, stop, shown, odd, lapse>>
           /\ hart'.run = hart.run /\ hart'.step = hart.step
           /\ tx' = Append(tx, "data")
<1>1. hart' \in Harts /\ hart'.run = hart.run /\ hart'.step = hart.step
  <2>1. hart \in Harts /\ hart' = Accessed(hart)
    BY DEF ReadMem, StateType
  <2> QED BY <2>1, HartFields
<1>2. tx' \in Seq(Replies) /\ tx' = Append(tx, "data")
  <2>1. "data" \in Replies
    BY DEF Replies
  <2> QED BY <2>1, ReplyType DEF ReadMem, StateType
<1> QED BY <1>1, <1>2 DEF ReadMem, StateType

LEMMA WriteRAMEffect ==
    ASSUME StateType, NEW a \in Addrs, WriteRAM(a)
    PROVE  /\ StateType'
           /\ UNCHANGED <<shadow_running_state, backup_regs, gdbasserting_break,
                          software_breakpoint, stop, shown, odd>>
           /\ hart'.run = hart.run /\ hart'.step = hart.step /\ lapse \subseteq lapse'
           /\ \E r \in {"OK", "E 00"} : tx' = Append(tx, r)
           /\ \/ /\ mem' = [mem EXCEPT ![a] = "insn"] /\ code' = [code EXCEPT ![a] = "insn"]
                 /\ Matching(a) # {} => "overwritten" \in lapse'
              \/ UNCHANGED <<mem, code>>
<1>1. hart' \in Harts /\ hart'.run = hart.run /\ hart'.step = hart.step
  <2>1. hart \in Harts /\ hart' = Accessed(hart)
    BY DEF WriteRAM, StateType
  <2> QED BY <2>1, HartFields
<1>2. \/ /\ mem' = [mem EXCEPT ![a] = "insn"] /\ code' = [code EXCEPT ![a] = "insn"]
         /\ Reply("OK") /\ Lapses(IF Matching(a) # {} THEN {"overwritten"} ELSE {})
      \/ UNCHANGED <<mem, code, lapse>> /\ Reply("E 00")
  BY DEF WriteRAM
<1>3. \E r \in {"OK", "E 00"} : tx' \in Seq(Replies) /\ tx' = Append(tx, r)
  <2>1. "OK" \in Replies /\ "E 00" \in Replies
    BY DEF Replies
  <2> QED BY <2>1, <1>2, ReplyType DEF StateType
<1>4. lapse' \subseteq Promises /\ lapse \subseteq lapse'
      /\ \/ /\ mem' = [mem EXCEPT ![a] = "insn"] /\ code' = [code EXCEPT ![a] = "insn"]
            /\ Matching(a) # {} => "overwritten" \in lapse'
         \/ UNCHANGED <<mem, code>>
  <2>1. CASE UNCHANGED <<mem, code, lapse>>
    BY <2>1 DEF StateType
  <2>2. CASE /\ mem' = [mem EXCEPT ![a] = "insn"] /\ code' = [code EXCEPT ![a] = "insn"]
             /\ Lapses(IF Matching(a) # {} THEN {"overwritten"} ELSE {})
    <3>1. (IF Matching(a) # {} THEN {"overwritten"} ELSE {}) \in SUBSET Promises
      BY DEF Promises
    <3>2. lapse' \subseteq Promises /\ lapse \subseteq lapse'
          /\ (IF Matching(a) # {} THEN {"overwritten"} ELSE {}) \subseteq lapse'
      BY <3>1, <2>2, LapsesType DEF StateType
    <3> QED BY <3>2, <2>2
  <2> QED BY <1>2, <2>1, <2>2
<1>5. mem' \in Programs /\ code' \in Programs
  BY <1>4 DEF StateType, Programs, Words
<1>6. UNCHANGED <<shadow_running_state, backup_regs, gdbasserting_break,
                  software_breakpoint, stop, shown, odd>>
  BY DEF WriteRAM
<1>7. StateType'
  BY <1>1, <1>3, <1>4, <1>5, <1>6 DEF StateType
<1> QED BY <1>1, <1>3, <1>4, <1>6, <1>7

LEMMA CatchEffect ==
    ASSUME StateType, NEW f, Catch(f)
    PROVE  /\ shadow_running_state' = 0 /\ backup_regs' \in Saves
           /\ shadow_running_state = 0 => backup_regs' = backup_regs
           /\ lapse' \subseteq Promises /\ lapse \subseteq lapse' /\ LostBy(f) \subseteq lapse'
<1>1. backup_regs' \in Saves /\ (shadow_running_state = 0 => backup_regs' = backup_regs)
  <2>1. Halted(hart) \in Harts
    BY HartFields DEF StateType
  <2> QED BY <2>1, SavedFields DEF StateType, Catch, Caught
<1>2. lapse' \subseteq Promises /\ lapse \subseteq lapse' /\ LostBy(f) \subseteq lapse'
  BY LostByType, LapsesType DEF Catch, StateType
<1> QED BY <1>1, <1>2 DEF Catch

LEMMA ReadRegistersEffect ==
    ASSUME StateType, ReadRegisters
    PROVE  /\ StateType'
           /\ UNCHANGED <<mem, gdbasserting_break, software_breakpoint, code, stop, odd>>
           /\ shadow_running_state' = 0 /\ lapse \subseteq lapse'
           /\ shadow_running_state = 0 => backup_regs' = backup_regs /\ hart' = hart
           /\ shown' = backup_regs'.regs /\ hart'.step = hart.step
           /\ tx' = Append(tx, "data")
<1>1. PICK f \in {"none", "save"} : Catch(f)
  BY DEF ReadRegisters
<1>2. hart' \in Harts /\ hart'.step = hart.step /\ (shadow_running_state = 0 => hart' = hart)
  <2>1. hart \in Harts
        /\ hart' = IF shadow_running_state # 0 THEN Halted(hart) ELSE hart
    BY DEF ReadRegisters, StateType
  <2>2. Halted(hart) \in Harts /\ Halted(hart).step = hart.step
    BY <2>1, HartFields
  <2> QED BY <2>1, <2>2
<1>3. tx' \in Seq(Replies) /\ tx' = Append(tx, "data")
  <2>1. "data" \in Replies
    BY DEF Replies
  <2> QED BY <2>1, ReplyType DEF ReadRegisters, StateType
<1>4. /\ shadow_running_state' = 0 /\ backup_regs' \in Saves
      /\ shadow_running_state = 0 => backup_regs' = backup_regs
      /\ lapse' \subseteq Promises /\ lapse \subseteq lapse'
  BY <1>1, CatchEffect
<1>5. shown' = backup_regs'.regs /\ shown' \in Whose
      /\ UNCHANGED <<mem, gdbasserting_break, software_breakpoint, code, stop, odd>>
  BY <1>4 DEF ReadRegisters, Saves
<1>6. StateType'
  BY <1>2, <1>3, <1>4, <1>5 DEF StateType
<1> QED BY <1>2, <1>3, <1>4, <1>5, <1>6

LEMMA WriteRegisterEffect ==
    ASSUME StateType, WriteRegister
    PROVE  /\ StateType'
           /\ UNCHANGED <<mem, gdbasserting_break, software_breakpoint, code, stop, shown,
                          odd, tx>>
           /\ shadow_running_state' = 0 /\ lapse \subseteq lapse'
           /\ shadow_running_state = 0 => backup_regs' = backup_regs /\ hart'.run = hart.run
           /\ hart'.step = hart.step
<1>1. PICK f \in {"none", "save", "restore"} :
          /\ Catch(f)
          /\ hart' = Restored(IF shadow_running_state # 0 THEN Halted(hart) ELSE hart,
                              backup_regs', f)
  BY DEF WriteRegister
<1>2. /\ shadow_running_state' = 0 /\ backup_regs' \in Saves
      /\ shadow_running_state = 0 => backup_regs' = backup_regs
      /\ lapse' \subseteq Promises /\ lapse \subseteq lapse'
  BY <1>1, CatchEffect
<1> DEFINE h == IF shadow_running_state # 0 THEN Halted(hart) ELSE hart
<1>3. h \in Harts /\ h.step = hart.step /\ (shadow_running_state = 0 => h.run = hart.run)
  <2>1. hart \in Harts
    BY DEF StateType
  <2>2. Halted(hart) \in Harts /\ Halted(hart).step = hart.step
    BY <2>1, HartFields
  <2> QED BY <2>1, <2>2
<1>4. hart' = Restored(h, backup_regs', f)
  BY <1>1
<1> HIDE DEF h
<1>5. hart' \in Harts /\ hart'.step = hart.step
      /\ (shadow_running_state = 0 => hart'.run = hart.run)
  BY <1>2, <1>3, <1>4, RestoredFields
<1>6. UNCHANGED <<mem, gdbasserting_break, software_breakpoint, code, stop, shown, odd, tx>>
  BY DEF WriteRegister
<1>7. StateType'
  BY <1>2, <1>5, <1>6 DEF StateType
<1> QED BY <1>2, <1>5, <1>6, <1>7

LEMMA SetBreakpointEffect ==
    ASSUME StateType, NEW a \in Addrs, SetBreakpoint(a)
    PROVE  /\ StateType'
           /\ UNCHANGED <<shadow_running_state, backup_regs, gdbasserting_break, code, stop,
                          shown, odd>>
           /\ hart'.run = hart.run /\ hart'.step = hart.step /\ lapse \subseteq lapse'
           /\ \E r \in {"OK", "E 00"} : tx' = Append(tx, r)
           /\ \/ UNCHANGED <<mem, software_breakpoint>>
              \/ /\ Matching(a) = {}
                 /\ \E i \in Slots :
                       /\ ~software_breakpoint[i].used
                       /\ software_breakpoint' =
                             [software_breakpoint EXCEPT ![i] = NewBreakpoint(a)]
                 /\ "write" \notin lapse' => mem' = [mem EXCEPT ![a] = "ebreak"]
<1> DEFINE free == {i \in Slots : ~software_breakpoint[i].used}
           least == CHOOSE i \in free : \A j \in free : i <= j
<1>1. /\ UNCHANGED <<shadow_running_state, backup_regs, gdbasserting_break, code, stop,
                     shown, odd>>
      /\ hart \in Harts /\ mem \in Programs /\ software_breakpoint \in Tables
      /\ lapse \subseteq Promises
  BY DEF SetBreakpoint, StateType
<1>2. \/ /\ (Reply("OK") \/ Reply("E 00")) /\ (hart' = hart \/ hart' = Accessed(hart))
         /\ UNCHANGED <<mem, software_breakpoint, lapse>>
      \/ /\ Matching(a) = {} /\ free # {} /\ Reply("OK") /\ hart' = Accessed(hart)
         /\ software_breakpoint' = [software_breakpoint EXCEPT ![least] = NewBreakpoint(a)]
         /\ \E f \in {"none", "write"} :
               /\ Lapses(LostBy(f))
               /\ mem' = IF f = "write" THEN mem ELSE [mem EXCEPT ![a] = "ebreak"]
  BY Zenon DEF SetBreakpoint
<1>3. hart' \in Harts /\ hart'.run = hart.run /\ hart'.step = hart.step
  <2>1. hart' = hart \/ hart' = Accessed(hart)
    BY <1>2
  <2>2. Accessed(hart) \in Harts /\ Accessed(hart).run = hart.run
        /\ Accessed(hart).step = hart.step
    BY <1>1, HartFields
  <2> QED BY <2>1, <2>2, <1>1
<1>4. \E r \in {"OK", "E 00"} : tx' \in Seq(Replies) /\ tx' = Append(tx, r)
  <2>1. "OK" \in Replies /\ "E 00" \in Replies
    BY DEF Replies
  <2> QED BY <2>1, <1>2, ReplyType DEF StateType
<1>5. /\ lapse' \subseteq Promises /\ lapse \subseteq lapse' /\ mem' \in Programs
      /\ software_breakpoint' \in Tables
      /\ \/ UNCHANGED <<mem, software_breakpoint>>
         \/ /\ Matching(a) = {}
            /\ \E i \in Slots :
                  /\ ~software_breakpoint[i].used
                  /\ software_breakpoint' =
                        [software_breakpoint EXCEPT ![i] = NewBreakpoint(a)]
            /\ "write" \notin lapse' => mem' = [mem EXCEPT ![a] = "ebreak"]
  <2>1. CASE UNCHANGED <<mem, software_breakpoint, lapse>>
    BY <2>1, <1>1
  <2>2. ASSUME Matching(a) = {}, free # {},
               software_breakpoint' =
                   [software_breakpoint EXCEPT ![least] = NewBreakpoint(a)],
               NEW f \in {"none", "write"}, Lapses(LostBy(f)),
               mem' = IF f = "write" THEN mem ELSE [mem EXCEPT ![a] = "ebreak"]
        PROVE  /\ lapse' \subseteq Promises /\ lapse \subseteq lapse' /\ mem' \in Programs
               /\ software_breakpoint' \in Tables /\ least \in Slots
               /\ ~software_breakpoint[least].used
               /\ "write" \notin lapse' => mem' = [mem EXCEPT ![a] = "ebreak"]
    <3>1. lapse' \subseteq Promises /\ lapse \subseteq lapse' /\ LostBy(f) \subseteq lapse'
      BY <2>2, <1>1, LostByType, LapsesType
    <3>2. "write" \notin lapse' => mem' = [mem EXCEPT ![a] = "ebreak"]
      BY <3>1, <2>2 DEF LostBy
    <3>3. mem' \in Programs
      BY <2>2, <1>1 DEF Programs, Words
    <3>4. least \in free
      <4>1. \E i \in free : \A j \in free : i <= j
        <5>1. free \subseteq Nat /\ free # {}
          BY <2>2, GdbAssumption
        <5> HIDE DEF free
        <5> QED BY <5>1, LeastMember
      <4> QED BY <4>1
    <3>5. NewBreakpoint(a) \in [used : BOOLEAN, addy : Addrs, prev : Words]
      BY <1>1 DEF NewBreakpoint, Programs
    <3>6. least \in Slots /\ ~software_breakpoint[least].used
      BY <3>4
    <3> HIDE DEF least
    <3>7. software_breakpoint' \in Tables
      BY <3>5, <3>6, <2>2, <1>1 DEF Tables
    <3> QED BY <3>1, <3>2, <3>3, <3>6, <3>7
  <2> QED BY <1>2, <2>1, <2>2
<1>6. StateType'
  BY <1>1, <1>3, <1>4, <1>5 DEF StateType
<1> QED BY <1>1, <1>3, <1>4, <1>5, <1>6

LEMMA ClearBreakpointEffect ==
    ASSUME StateType, NEW a \in Addrs, ClearBreakpoint(a)
    PROVE  /\ StateType'
           /\ UNCHANGED <<shadow_running_state, backup_regs, gdbasserting_break, code, stop,
                          shown, odd>>
           /\ hart'.run = hart.run /\ hart'.step = hart.step /\ lapse \subseteq lapse'
           /\ \E r \in {"OK", "E 00"} : tx' = Append(tx, r)
           /\ \/ UNCHANGED <<mem, software_breakpoint>>
              \/ /\ "write" \notin lapse' => mem' = Uncovered(Matching(a), {})
                 /\ software_breakpoint' =
                      [i \in Slots |-> IF i \in Matching(a) THEN Free
                                                            ELSE software_breakpoint[i]]
<1>1. /\ UNCHANGED <<shadow_running_state, backup_regs, gdbasserting_break, code, stop,
                     shown, odd>>
      /\ hart \in Harts /\ mem \in Programs /\ software_breakpoint \in Tables
      /\ lapse \subseteq Promises
  BY DEF ClearBreakpoint, StateType
<1>2. \/ /\ Reply(IF \E i \in Slots : ~software_breakpoint[i].used THEN "OK" ELSE "E 00")
         /\ UNCHANGED <<hart, mem, software_breakpoint, lapse>>
      \/ /\ Reply("OK") /\ hart' = Accessed(hart)
         /\ \E f \in {"none", "write"} :
               /\ Lapses(LostBy(f))
               /\ mem' = Uncovered(Matching(a), IF f = "write" THEN Slots ELSE {})
         /\ software_breakpoint' =
               [i \in Slots |-> IF i \in Matching(a) THEN Free ELSE software_breakpoint[i]]
  BY Zenon DEF ClearBreakpoint
<1>3. hart' \in Harts /\ hart'.run = hart.run /\ hart'.step = hart.step
  <2>1. hart' = hart \/ hart' = Accessed(hart)
    BY <1>2
  <2>2. Accessed(hart) \in Harts /\ Accessed(hart).run = hart.run
        /\ Accessed(hart).step = hart.step
    BY <1>1, HartFields
  <2> QED BY <2>1, <2>2, <1>1
<1>4. \E r \in {"OK", "E 00"} : tx' \in Seq(Replies) /\ tx' = Append(tx, r)
  <2>1. "OK" \in Replies /\ "E 00" \in Replies
    BY DEF Replies
  <2>2. Reply("OK") \/ Reply("E 00")
    BY <1>2
  <2> QED BY <2>1, <2>2, ReplyType DEF StateType
<1>5. /\ lapse' \subseteq Promises /\ lapse \subseteq lapse' /\ mem' \in Programs
      /\ software_breakpoint' \in Tables
      /\ \/ UNCHANGED <<mem, software_breakpoint>>
         \/ /\ "write" \notin lapse' => mem' = Uncovered(Matching(a), {})
            /\ software_breakpoint' =
                 [i \in Slots |-> IF i \in Matching(a) THEN Free ELSE software_breakpoint[i]]
  <2>1. CASE UNCHANGED <<mem, software_breakpoint, lapse>>
    BY <2>1, <1>1
  <2>2. ASSUME software_breakpoint' =
                 [i \in Slots |-> IF i \in Matching(a) THEN Free ELSE software_breakpoint[i]],
               NEW f \in {"none", "write"}, Lapses(LostBy(f)),
               mem' = Uncovered(Matching(a), IF f = "write" THEN Slots ELSE {})
        PROVE  /\ lapse' \subseteq Promises /\ lapse \subseteq lapse' /\ mem' \in Programs
               /\ software_breakpoint' \in Tables
               /\ "write" \notin lapse' => mem' = Uncovered(Matching(a), {})
    <3>1. lapse' \subseteq Promises /\ lapse \subseteq lapse' /\ LostBy(f) \subseteq lapse'
      BY <2>2, <1>1, LostByType, LapsesType
    <3>2. "write" \notin lapse' => mem' = Uncovered(Matching(a), {})
      BY <3>1, <2>2 DEF LostBy
    <3>3. mem' \in Programs
      <4>1. Matching(a) \in SUBSET Slots
        BY DEF Matching
      <4> QED BY <4>1, <2>2, <1>1, UncoveredType
    <3>4. software_breakpoint' \in Tables
      BY <2>2, <1>1, FreeType DEF Tables
    <3> QED BY <3>1, <3>2, <3>3, <3>4
  <2> QED BY <1>2, <2>1, <2>2
<1>6. StateType'
  BY <1>1, <1>3, <1>4, <1>5 DEF StateType
<1> QED BY <1>1, <1>3, <1>4, <1>5, <1>6

LEMMA ResetPartEffect ==
    ASSUME StateType, NEW c, ResetPart(c)
    PROVE  /\ StateType'
           /\ UNCHANGED <<mem, shadow_running_state, gdbasserting_break,
                          software_breakpoint, code, stop, shown, odd>>
           /\ lapse \subseteq lapse' /\ tx' = Append(tx, "OK")
           /\ "monitor" \notin lapse' => ~hart'.run
           /\ lapse' \cap {"regs", "monitor", "rehalt"} = {} => backup_regs'.regs = "own"
           /\ hart'.step => hart.step
<1> DEFINE reset(f) == IF f = "reset" THEN {hart} ELSE Reset(hart)
           S(f) == LostBy(f)
                   \cup (IF hart'.run THEN {"monitor"} ELSE {})
                   \cup (IF ~hart'.run /\ hart'.regs # "own" THEN {"rehalt"} ELSE {})
<1>1. PICK f \in {"none", "save", "resume", "reset"} :
          /\ hart' \in CASE c = "halt"       -> {Halted(hart)}
                         [] c = "reset halt" -> {Halted(h) : h \in reset(f)}
                         [] c = "resume"     -> {Resumed(hart, f)}
                         [] OTHER            -> {Resumed(Halted(h), f) : h \in reset(f)}
          /\ backup_regs' = Saved(hart', f)
          /\ Lapses(S(f))
  BY DEF ResetPart
<1>2. /\ hart \in Harts /\ backup_regs \in Saves /\ lapse \subseteq Promises
      /\ tx \in Seq(Replies)
  BY DEF StateType
<1>3. hart' \in Harts /\ (hart'.step => hart.step)
  <2>1. CASE c = "halt"
    <3>1. hart' = Halted(hart)
      BY <1>1, <2>1
    <3> QED BY <3>1, <1>2, HartFields
  <2>2. CASE c = "resume"
    <3>1. hart' = Resumed(hart, f)
      BY <1>1, <2>2
    <3> QED BY <3>1, <1>2, ResumedFields
  <2>3. CASE c \notin {"halt", "resume"}
    <3>1. PICK h \in reset(f) : hart' = Halted(h) \/ hart' = Resumed(Halted(h), f)
      BY <1>1, <2>3
    <3>2. h \in Harts /\ (h.step => hart.step)
      BY <1>2, <3>1, ResetFields
    <3>3. Halted(h) \in Harts /\ Halted(h).step = h.step
      BY <3>2, HartFields
    <3>4. Resumed(Halted(h), f) \in Harts /\ Resumed(Halted(h), f).step = Halted(h).step
      BY <3>3, ResumedFields
    <3> QED BY <3>1, <3>2, <3>3, <3>4
  <2> QED BY <2>1, <2>2, <2>3
<1>4. backup_regs' \in Saves /\ (f # "save" /\ ~hart'.run => backup_regs'.regs = hart'.regs)
  <2>1. ASSUME NEW h \in Harts
        PROVE  /\ Saved(h, f) \in Saves
               /\ f # "save" /\ ~h.run => Saved(h, f).regs = h.regs
    BY <1>2, SavedFields
  <2> QED BY <2>1, <1>1, <1>3
<1>5. /\ lapse' \subseteq Promises /\ lapse \subseteq lapse' /\ LostBy(f) \subseteq lapse'
      /\ hart'.run => "monitor" \in lapse'
      /\ ~hart'.run /\ hart'.regs # "own" => "rehalt" \in lapse'
  <2>1. S(f) \in SUBSET Promises
    BY LostByType DEF Promises
  <2>2. Lapses(S(f))
    BY <1>1
  <2>3. /\ LostBy(f) \subseteq S(f) /\ (hart'.run => "monitor" \in S(f))
        /\ ~hart'.run /\ hart'.regs # "own" => "rehalt" \in S(f)
    OBVIOUS
  <2> HIDE DEF S
  <2>4. lapse' \subseteq Promises /\ lapse \subseteq lapse' /\ S(f) \subseteq lapse'
    BY <2>1, <2>2, <1>2 DEF Lapses
  <2> QED BY <2>3, <2>4
<1>6. tx' \in Seq(Replies) /\ tx' = Append(tx, "OK")
  <2>1. "OK" \in Replies
    BY DEF Replies
  <2> QED BY <2>1, <1>2, ReplyType DEF ResetPart
<1>7. UNCHANGED <<mem, shadow_running_state, gdbasserting_break, software_breakpoint, code,
                  stop, shown, odd>>
  BY DEF ResetPart
<1>8. StateType'
  BY <1>3, <1>4, <1>5, <1>6, <1>7 DEF StateType
<1>9. "regs" \notin lapse' => f # "save"
  BY <1>5 DEF LostBy
<1>10. /\ "monitor" \notin lapse' => ~hart'.run
       /\ lapse' \cap {"regs", "monitor", "rehalt"} = {} => backup_regs'.regs = "own"
  BY <1>4, <1>5, <1>9
<1> QED BY <1>3, <1>5, <1>6, <1>7, <1>8, <1>10

LEMMA DisconnectEffect ==
    ASSUME StateType, Disconnect, tx' \in Seq(Replies)
    PROVE  /\ StateType'
           /\ UNCHANGED <<backup_regs, gdbasserting_break, code, shown, odd>>
           /\ shadow_running_state' = 1 /\ stop' = "none" /\ lapse \subseteq lapse'
           /\ hart'.run \/ "control" \in lapse'
           /\ hart'.step => hart.step
           /\ software_breakpoint' = [i \in Slots |-> Free]
           /\ "write" \notin lapse' =>
                  mem' = Uncovered({i \in Slots : software_breakpoint[i].used}, {})
           /\ shadow_running_state = 0 /\ "regs" \notin lapse' =>
                  hart'.regs = backup_regs.regs
           /\ shadow_running_state # 0 /\ "detached running" \notin lapse' =>
                  hart'.regs = hart.regs
<1> DEFINE used == {i \in Slots : software_breakpoint[i].used}
<1>1. PICK f \in {"none", "write", "restore", "resume", "step off"} :
          LET h  == Stepping(Halted(hart), hart.step /\ f = "step off")
              h2 == IF used = {} THEN h ELSE Accessed(h) IN
          /\ \E kept \in SUBSET used :
                /\ (f = "write" <=> kept # {}) /\ Cardinality(kept) <= 1
                /\ mem' = Uncovered(used, kept)
          /\ software_breakpoint' = [i \in Slots |-> Free]
          /\ hart' = Resumed(IF shadow_running_state = 0
                             THEN Restored(h2, backup_regs, f) ELSE h2, f)
          /\ Lapses(LostBy(f) \cup (IF shadow_running_state # 0 /\ used # {}
                                    THEN {"detached running"} ELSE {}))
  BY Zenon DEF Disconnect
<1> DEFINE on == hart.step /\ f = "step off"
           k  == Halted(hart)
           h  == Stepping(k, on)
           h2 == IF used = {} THEN h ELSE Accessed(h)
           h3 == IF shadow_running_state = 0 THEN Restored(h2, backup_regs, f) ELSE h2
<1>2. /\ hart \in Harts /\ backup_regs \in Saves /\ lapse \subseteq Promises
      /\ mem \in Programs /\ software_breakpoint \in Tables /\ used \in SUBSET Slots
  BY DEF StateType
<1>3. h \in Harts /\ h.run = FALSE /\ (h.step => hart.step) /\ h.regs = hart.regs
  <2>1. k \in Harts /\ k.run = FALSE /\ k.regs = hart.regs
    BY <1>2, HartFields
  <2>2. on \in BOOLEAN /\ (on => hart.step)
    BY <1>2 DEF Harts
  <2> HIDE DEF on, k
  <2>3. h \in Harts /\ h.run = k.run /\ h.step = on /\ h.regs = k.regs
    BY <2>1, <2>2 DEF Stepping, Harts
  <2> QED BY <2>1, <2>2, <2>3
<1>10. hart' = Resumed(h3, f)
  BY <1>1
<1> HIDE DEF h
<1>4. /\ h2 \in Harts /\ h2.run = FALSE /\ (h2.step => hart.step)
      /\ used = {} => h2.regs = hart.regs
  BY <1>3, HartFields
<1> HIDE DEF h2
<1> DEFINE r == Restored(h2, backup_regs, f)
<1>14. r \in Harts /\ r.step = h2.step /\ (f # "restore" => r.regs = backup_regs.regs)
  <2>1. h2 \in Harts /\ ~h2.run /\ backup_regs \in Saves
    BY <1>2, <1>4
  <2> QED BY <2>1, RestoredFields
<1> HIDE DEF r
<1>5. /\ h3 \in Harts /\ (h3.step => hart.step)
      /\ shadow_running_state = 0 /\ f # "restore" => h3.regs = backup_regs.regs
      /\ shadow_running_state # 0 /\ used = {} => h3.regs = hart.regs
  BY <1>4, <1>14 DEF r
<1> HIDE DEF h3
<1>6. /\ hart' \in Harts /\ (f # "resume" => hart'.run) /\ (hart'.step => hart.step)
      /\ shadow_running_state = 0 /\ f # "restore" => hart'.regs = backup_regs.regs
      /\ shadow_running_state # 0 /\ used = {} => hart'.regs = hart.regs
  <2>1. /\ hart' \in Harts /\ hart'.regs = h3.regs /\ hart'.step = h3.step
        /\ f # "resume" => hart'.run
    BY <1>5, <1>10, ResumedFields
  <2> QED BY <2>1, <1>5
<1>7. /\ lapse' \subseteq Promises /\ lapse \subseteq lapse' /\ LostBy(f) \subseteq lapse'
      /\ shadow_running_state # 0 /\ used # {} => "detached running" \in lapse'
  <2> DEFINE S == LostBy(f) \cup (IF shadow_running_state # 0 /\ used # {}
                                  THEN {"detached running"} ELSE {})
  <2>1. S \in SUBSET Promises
    BY LostByType DEF Promises
  <2>2. Lapses(S)
    BY <1>1
  <2>3. LostBy(f) \subseteq S
        /\ (shadow_running_state # 0 /\ used # {} => "detached running" \in S)
    OBVIOUS
  <2> HIDE DEF S
  <2>4. lapse' \subseteq Promises /\ lapse \subseteq lapse' /\ S \subseteq lapse'
    BY <2>1, <2>2, <1>2, LapsesType
  <2> QED BY <2>3, <2>4
<1>8. /\ "regs" \notin lapse' => f # "restore"
      /\ f = "resume" => "control" \in lapse'
  BY <1>7 DEF LostBy
<1>9. mem' \in Programs /\ ("write" \notin lapse' => mem' = Uncovered(used, {}))
  <2>1. PICK kept \in SUBSET used : (f = "write" <=> kept # {}) /\ mem' = Uncovered(used, kept)
    BY <1>1
  <2>2. mem' \in Programs
    BY <2>1, <1>2, UncoveredType
  <2>3. "write" \notin lapse' => f # "write"
    BY <1>7 DEF LostBy
  <2> QED BY <2>1, <2>2, <2>3
<1>13. software_breakpoint' \in Tables
  BY <1>1, FreeType DEF Tables
<1>11. /\ UNCHANGED <<backup_regs, gdbasserting_break, code, shown, odd>>
       /\ shadow_running_state' = 1 /\ stop' = "none"
  BY DEF Disconnect, Wake
<1>12. StateType'
  BY <1>6, <1>7, <1>9, <1>11, <1>13 DEF StateType
<1> QED BY <1>1, <1>6, <1>7, <1>8, <1>9, <1>11, <1>12

-----------------------------------------------------------------------------
(* What the other steps of the server, and the hart, do. *)

LEMMA ExecuteEffect ==
    ASSUME StateType, Execute
    PROVE  /\ StateType' /\ hart.run
           /\ UNCHANGED <<mem, shadow_running_state, gdbasserting_break,
                          software_breakpoint, listenMode, parser, due, rx, tx, gdb, code,
                          payload, stop, shown, odd, lapse, bounds, faults>>
           /\ hart'.regs = hart.regs /\ hart'.step = hart.step
           /\ ~hart'.run /\ ~hart.step => mem[hart'.pc] = "ebreak"
<1>1. hart \in Harts /\ backup_regs \in Saves
  BY DEF StateType
<1> DEFINE h == Executed(hart)
<1>2. h \in Harts /\ h.regs = hart.regs /\ h.step = hart.step
      /\ (Hit => h = hart)
  BY <1>1, ExecutedFields DEF Executed, Hit
<1>3. hart' = [h EXCEPT !.run = ~Hit /\ ~hart.step]
  BY DEF Execute
<1> HIDE DEF h
<1>4. /\ hart' \in Harts /\ hart'.regs = hart.regs /\ hart'.step = hart.step
      /\ hart'.run = (~Hit /\ ~hart.step) /\ hart'.pc = h.pc
  BY <1>2, <1>3 DEF Harts
<1>5. ~hart'.run /\ ~hart.step => mem[hart'.pc] = "ebreak"
  <2>1. ASSUME ~hart'.run, ~hart.step
        PROVE  Hit
    BY <2>1, <1>4
  <2> QED BY <2>1, <1>2, <1>4 DEF Hit
<1>6. backup_regs' \in Saves
  BY <1>1 DEF Execute, Aged, Saves, Whose
<1>7. /\ hart.run
      /\ UNCHANGED <<mem, shadow_running_state, gdbasserting_break, software_breakpoint,
                     listenMode, parser, due, rx, tx, gdb, code, payload, stop, shown, odd,
                     lapse, bounds, faults>>
  BY DEF Execute
<1>8. StateType'
  BY <1>4, <1>6, <1>7 DEF StateType
<1> QED BY <1>4, <1>5, <1>7, <1>8


LEMMA ReportHaltEffect ==
    ASSUME StateType, ReportHalt, UNCHANGED <<code, shown>>
    PROVE  /\ StateType' /\ ~hart.run /\ shadow_running_state # 0
           /\ UNCHANGED <<hart, mem, software_breakpoint, listenMode>>
           /\ shadow_running_state' = 0 /\ lapse \subseteq lapse'
           /\ "regs" \notin lapse' => backup_regs'.regs = hart.regs
           /\ gdbasserting_break' = FALSE /\ stop' = "told"
           /\ "reason" \in odd' => "reason" \in odd \/ (gdbasserting_break /\ stop # "break")
           /\ "cause" \in odd' =>
                 "cause" \in odd \/ (stop = "none" /\ mem[hart.pc] # "ebreak")
           /\ "running" \in odd' => "running" \in odd
           /\ \E r \in Stops : tx' = Append(tx, r)
<1>1. PICK f \in {"none", "save"} :
          Suffer(f) /\ backup_regs' = Saved(hart, f) /\ Lapses(LostBy(f))
  BY DEF ReportHalt, SaveAndReport
<1>2. /\ ~hart.run /\ shadow_running_state # 0 /\ shadow_running_state' = 0
      /\ UNCHANGED <<hart, mem, software_breakpoint, listenMode>>
      /\ SendHaltReason(FALSE)
  BY DEF ReportHalt, SaveAndReport, target
<1>3. hart \in Harts /\ backup_regs \in Saves /\ lapse \subseteq Promises
      /\ tx \in Seq(Replies)
  BY DEF StateType
<1>4. backup_regs' \in Saves /\ (f # "save" => backup_regs'.regs = hart.regs)
  BY <1>1, <1>2, <1>3, SavedFields
<1>5. lapse' \subseteq Promises /\ lapse \subseteq lapse' /\ LostBy(f) \subseteq lapse'
  BY <1>1, <1>3, LapsesType, LostByType
<1>6. "regs" \notin lapse' => backup_regs'.regs = hart.regs
  BY <1>4, <1>5 DEF LostBy
<1>7. hart' \in Harts /\ hart' = hart /\ mem' = mem
  BY <1>2, <1>3
<1>8. /\ gdbasserting_break' = FALSE /\ stop' = "told"
      /\ odd' \subseteq {"reason", "cause", "running"}
      /\ "reason" \in odd' => "reason" \in odd \/ (gdbasserting_break /\ stop # "break")
      /\ "cause" \in odd' =>
            "cause" \in odd \/ (stop = "none" /\ mem'[hart'.pc] # "ebreak")
      /\ "running" \in odd' => "running" \in odd \/ hart'.run
      /\ tx' \in Seq(Replies) /\ \E r \in Stops : tx' = Append(tx, r)
  BY <1>2, <1>7, ReasonEffect
<1>9. /\ "cause" \in odd' => "cause" \in odd \/ (stop = "none" /\ mem[hart.pc] # "ebreak")
      /\ "running" \in odd' => "running" \in odd
  BY <1>2, <1>7, <1>8
<1>10. StateType'
  BY <1>2, <1>3, <1>4, <1>5, <1>8 DEF StateType
<1> QED BY <1>2, <1>5, <1>6, <1>8, <1>9, <1>10

LEMMA ReportRunEffect ==
    ASSUME StateType, ReportRun, UNCHANGED <<code, shown>>
    PROVE  /\ StateType' /\ hart.run
           /\ UNCHANGED <<hart, mem, backup_regs, gdbasserting_break, stop,
                          software_breakpoint, listenMode, odd, lapse>>
           /\ shadow_running_state' = 1024 /\ tx' = Append(tx, "OK")
<1>1. tx' \in Seq(Replies) /\ tx' = Append(tx, "OK")
  <2>1. "OK" \in Replies
    BY DEF Replies
  <2> QED BY <2>1, ReplyType DEF ReportRun, StateType
<1> QED BY <1>1 DEF ReportRun, StateType, target

LEMMA ReportNothingEffect ==
    ASSUME StateType, ReportNothing, UNCHANGED <<code, shown>>
    PROVE  /\ StateType' /\ lapse \subseteq lapse'
           /\ UNCHANGED <<hart, mem, shadow_running_state, backup_regs, gdbasserting_break,
                          software_breakpoint, listenMode, tx, stop, odd>>
           /\ \/ shadow_running_state = IF hart.run THEN 1024 ELSE 0
              \/ "poll" \in lapse'
<1>1. lapse' \subseteq Promises /\ lapse \subseteq lapse'
      /\ \/ shadow_running_state = IF hart.run THEN 1024 ELSE 0
         \/ "poll" \in lapse'
  BY DEF ReportNothing, StateType, Promises, Lapses
<1>2. UNCHANGED <<hart, mem, shadow_running_state, backup_regs, gdbasserting_break,
                  software_breakpoint, listenMode, tx, stop, odd>>
  BY DEF ReportNothing, target
<1>3. StateType'
  BY <1>1, <1>2 DEF StateType
<1> QED BY <1>1, <1>2, <1>3

LEMMA BreakEffect ==
    ASSUME StateType, Break(Brk)
    PROVE  /\ StateType' /\ lapse \subseteq lapse'
           /\ UNCHANGED <<mem, shadow_running_state, backup_regs, software_breakpoint, parser,
                          tx, code, shown, odd>>
           /\ hart'.run = FALSE /\ hart'.regs = hart.regs
           /\ hart'.step = hart.step
           /\ gdbasserting_break' = TRUE
           /\ shadow_running_state # 0 => stop' = "break"
           /\ shadow_running_state = 0 => stop' = stop /\ "late break" \in lapse'
<1>1. hart \in Harts /\ lapse \subseteq Promises
  BY DEF StateType
<1>2. hart' = Halted(hart)
  BY DEF Break
<1>3. hart' \in Harts /\ hart'.run = FALSE /\ hart'.regs = hart.regs
      /\ hart'.step = hart.step
  BY <1>1, <1>2, HartFields
<1>4. lapse' \subseteq Promises /\ lapse \subseteq lapse'
      /\ (shadow_running_state = 0 => "late break" \in lapse')
  BY <1>1 DEF Break, Lapses, Promises
<1>5. /\ stop' \in {"none", "break", "connect", "told"}
      /\ shadow_running_state # 0 => stop' = "break"
      /\ shadow_running_state = 0 => stop' = stop
  <2>1. stop' = IF shadow_running_state # 0 THEN "break" ELSE stop
    BY DEF Break
  <2> QED BY <2>1 DEF StateType
<1>6. /\ gdbasserting_break' = TRUE
      /\ UNCHANGED <<mem, shadow_running_state, backup_regs, software_breakpoint, parser,
                     tx, code, shown, odd>>
  BY DEF Break
<1>7. StateType'
  BY <1>3, <1>4, <1>5, <1>6 DEF StateType
<1> QED BY <1>3, <1>4, <1>5, <1>6, <1>7

LEMMA AcceptEffect ==
    ASSUME StateType, Accept
    PROVE  /\ StateType' /\ listenMode = 1 /\ gdb = "connecting" /\ lapse \subseteq lapse'
           /\ UNCHANGED <<mem, gdbasserting_break, software_breakpoint, rx, tx, code, payload,
                          shown, odd>>
           /\ stop' = "connect"
           /\ listenMode' = 2 /\ gdbbufferstate' = 0 /\ due' = TRUE /\ gdb' = "stopped"
           /\ hart'.run = FALSE /\ (hart'.step => hart.step) /\ shadow_running_state' = 0
           /\ "regs" \notin lapse' => backup_regs'.regs = hart.regs
<1> DEFINE h == Halted(hart)
           on(f) == hart.step /\ f = "step off"
<1>1. PICK f \in {"none", "save", "step off"} :
          /\ Suffer(f) /\ Lapses(LostBy(f))
          /\ hart' = Stepping(h, on(f))
          /\ backup_regs' = Saved(hart', f)
  BY DEF Accept
<1>2. hart \in Harts /\ backup_regs \in Saves /\ lapse \subseteq Promises
  BY DEF StateType
<1>3. h \in Harts /\ h.run = FALSE /\ h.regs = hart.regs
  BY <1>2, HartFields
<1>4. on(f) \in BOOLEAN /\ (on(f) => hart.step)
  BY <1>2 DEF Harts
<1> HIDE DEF h, on
<1>5. hart' \in Harts /\ hart'.run = FALSE /\ (hart'.step => hart.step)
      /\ hart'.regs = hart.regs
  BY <1>1, <1>3, <1>4, HartFields
<1>6. backup_regs' \in Saves /\ (f # "save" => backup_regs'.regs = hart.regs)
  <2>1. ASSUME NEW g \in Harts
        PROVE  /\ Saved(g, f) \in Saves
               /\ f # "save" /\ ~g.run => Saved(g, f).regs = g.regs
    BY <1>2, SavedFields
  <2> QED BY <2>1, <1>1, <1>5
<1>7. lapse' \subseteq Promises /\ lapse \subseteq lapse' /\ LostBy(f) \subseteq lapse'
  BY <1>1, <1>2, LapsesType, LostByType
<1>8. "regs" \notin lapse' => backup_regs'.regs = hart.regs
  BY <1>6, <1>7 DEF LostBy
<1>9. /\ listenMode = 1 /\ gdb = "connecting"
      /\ UNCHANGED <<mem, gdbasserting_break, software_breakpoint, rx, tx, code, payload,
                     shown, odd>>
      /\ stop' = "connect"
      /\ listenMode' = 2 /\ gdbbufferstate' = 0 /\ due' = TRUE /\ gdb' = "stopped"
      /\ shadow_running_state' = 0
  BY DEF Accept
<1>10. StateType'
  BY <1>5, <1>6, <1>7, <1>9 DEF StateType
<1> QED BY <1>5, <1>7, <1>8, <1>9, <1>10

-----------------------------------------------------------------------------
(* Which packet is handled. *)

Cmd == payload[1][2].cmd

Served(c, a) ==
    \/ c = "?" /\ QueryReason
    \/ c = "s" /\ StepPacket
    \/ c \in {"c", "C"} /\ Continue(c)
    \/ c = "m" /\ ReadMem
    \/ c = "w" /\ WriteRAM(a)
    \/ c = "g" /\ ReadRegisters
    \/ c = "P" /\ WriteRegister
    \/ c = "Z" /\ SetBreakpoint(a)
    \/ c = "z" /\ ClearBreakpoint(a)
    \/ c = "D" /\ Detach
    \/ c \in {"halt", "reset halt", "resume", "reset run"} /\ ResetPart(c)

LEMMA RequestOf ==
    ASSUME NEW q \in Requests, payload = <<q>> \/ payload = <<q, Hash>>
    PROVE  payload # <<>> /\ Cmd = q[2].cmd /\ Cmd \in AllCommands
           /\ payload[1][2].addr \in Addrs
<1>1. payload # <<>> /\ payload[1] = q
  OBVIOUS
<1>2. PICK c \in Commands, a \in Addrs : q = <<"data", [cmd |-> c, addr |-> a]>>
  BY DEF Requests, Request
<1>3. q[2].cmd = c /\ q[2].addr = a
  BY <1>2
<1> QED BY <1>1, <1>3, GdbAssumption DEF Cmd

LEMMA Dispatch ==
    ASSUME Handled
    PROVE  payload # <<>> /\ \E a \in Addrs : Served(Cmd, a)
<1>1. PICK q \in Requests : payload = <<q>> \/ payload = <<q, Hash>>
  BY DEF Handled
<1>2. payload # <<>> /\ Cmd \in AllCommands /\ payload[1][2].addr \in Addrs
  BY <1>1, RequestOf
<1> DEFINE a == payload[1][2].addr
<1>3. HandlePacket(payload)
  BY DEF Handled
<1>4. Served(Cmd, a)
  <2>1. CASE Cmd = "s"
    BY <2>1, <1>3 DEF HandlePacket, Cmd, Served
  <2>2. CASE Cmd \in {"c", "C"}
    BY <2>2, <1>3 DEF HandlePacket, Cmd, Served
  <2>3. CASE Cmd = "m"
    BY <2>3, <1>3 DEF HandlePacket, Cmd, Served
  <2>4. CASE Cmd = "w"
    BY <2>4, <1>3 DEF HandlePacket, Cmd, Served
  <2>5. CASE Cmd = "g"
    BY <2>5, <1>3 DEF HandlePacket, Cmd, Served
  <2>6. CASE Cmd = "P"
    BY <2>6, <1>3 DEF HandlePacket, Cmd, Served
  <2>7. CASE Cmd = "Z"
    BY <2>7, <1>3 DEF HandlePacket, Cmd, Served
  <2>8. CASE Cmd = "z"
    BY <2>8, <1>3 DEF HandlePacket, Cmd, Served
  <2>9. CASE Cmd = "D"
    BY <2>9, <1>3 DEF HandlePacket, Cmd, Served
  <2>10. CASE Cmd \in {"halt", "reset halt", "resume", "reset run"}
    BY <2>10, <1>3 DEF HandlePacket, Cmd, Served
  <2>11. CASE Cmd = "?"
    BY <2>11, <1>3 DEF HandlePacket, Cmd, Served
  <2> QED BY <1>2, <2>11, <2>1, <2>2, <2>3, <2>4, <2>5, <2>6, <2>7, <2>8, <2>9, <2>10
         DEF AllCommands
<1> QED BY <1>2, <1>4

LEMMA ServedType ==
    ASSUME StateType, NEW c, NEW a \in Addrs, Served(c, a)
    PROVE  StateType'
<1>1. ASSUME Detach
      PROVE  StateType'
  <2>1. Disconnect /\ tx' \in Seq(Replies)
    BY <1>1 DEF Detach, StateType
  <2> QED BY <2>1, DisconnectEffect
<1> QED BY <1>1, QueryEffect, StepEffect, ContinueEffect, ReadMemEffect, WriteRAMEffect,
           ReadRegistersEffect, WriteRegisterEffect, SetBreakpointEffect,
           ClearBreakpointEffect, ResetPartEffect, Zenon DEF Served

-----------------------------------------------------------------------------
(* Type correctness, and the framing. *)

Rest ==
    /\ listenMode \in {1, 2} /\ due \in BOOLEAN /\ gdbbufferstate \in {0, 1, 2, 3, 9}
    /\ gdb \in {"gone", "connecting", "stopped", "running", "waiting", "asking", "detached"}

TypeInv == StateType /\ Rest /\ WireInv

(* The same parser, the same bytes. *)
LEMMA PacketFrame ==
    ASSUME UNCHANGED <<parser, rx, payload>>
    PROVE  /\ Between => Between'
           /\ \A q : InPacket(q) => InPacket(q)'
<1>1. \A s : Reads(s) => Reads(s)'
  BY DEF Reads
<1>2. /\ gdbbufferstate' = gdbbufferstate /\ gdbbuffer' = gdbbuffer
      /\ gdbrunningcsum' = gdbrunningcsum /\ rx' = rx /\ payload' = payload
  BY DEF parser
<1>3. Between => Between'
  BY <1>1, <1>2 DEF Between
<1>4. ASSUME NEW q, InPacket(q)
      PROVE  InPacket(q)'
  <2>1. \A st, b, m, r : At(st, b, m, r) => At(st, b, m, r)'
    BY <1>1, <1>2, Zenon DEF At
  <2>2. InPlain(q) => InPlain(q)'
    BY <1>1, <1>2, <2>1, Zenon DEF InPlain
  <2>3. InEscaped(q) => InEscaped(q)'
    BY <1>1, <1>2, <2>1, Zenon DEF InEscaped
  <2> QED BY <1>2, <1>4, <2>2, <2>3, Zenon DEF InPacket
<1> QED BY <1>3, <1>4

LEMMA InitType ==
    ASSUME Init
    PROVE  TypeInv
<1>1. code \in Programs /\ mem = code
  BY DEF Init, Programs, Words
<1>2. software_breakpoint \in Tables
  BY FreeType DEF Init, Tables
<1>3. hart \in Harts /\ backup_regs \in Saves
  BY AddrFacts DEF Init, Harts, Saves, Whose
<1>4. StateType
  <2>1. /\ shadow_running_state \in {0, 1, 1024} /\ gdbasserting_break \in BOOLEAN
        /\ stop \in {"none", "break", "connect", "told"} /\ shown \in Whose /\ odd = {} /\ lapse = {} /\ tx = <<>>
    BY DEF Init, Whose
  <2> QED BY <1>1, <1>2, <1>3, <2>1 DEF StateType
<1>5. Rest
  BY DEF Rest, Init
<1>6. WireInv
  <2>1. rx = <<>> /\ tx = <<>> /\ ~due /\ gdb = "gone" /\ payload = <<>>
    BY DEF Init
  <2> QED BY <2>1 DEF WireInv, Absent
<1> QED BY <1>4, <1>5, <1>6 DEF TypeInv

LEMMA HandlingType ==
    ASSUME TypeInv, HandleClientData
    PROVE  TypeInv'
<1>1. StateType /\ Rest /\ WireInv
  BY DEF TypeInv
<1>2. /\ listenMode = 2 /\ listenMode' = 2 /\ gdb' = gdb /\ due' = TRUE
      /\ rx' \in Seq(Bytes)
  <2>1. rx \in Seq(Bytes) /\ rx # <<>> /\ rx' = Tail(rx)
    BY <1>1 DEF WireInv, HandleClientData
  <2> QED BY <2>1, HeadTailProperties DEF HandleClientData
<1>3. gdb # "connecting"
  BY <1>1, <1>2 DEF WireInv
<1>4. CASE Gathered
  <2>1. StateType'
    BY <1>1, <1>4 DEF Gathered, Quiet, StateType, target
  <2>2. gdbbufferstate' \in {0, 1, 2, 3, 9}
    <3>1. PICK q \in Requests : InPacket(q)'
      BY <1>4 DEF Gathered
    <3> QED BY <3>1 DEF InPacket, InPlain, InEscaped, At
  <2>3. Rest'
    BY <2>2, <1>1, <1>2 DEF Rest
  <2>4. WireInv'
    <3>1. \E q \in Requests : InPacket(q)'
      BY <1>4 DEF Gathered
    <3>2. tx' \in Seq(Replies)
      BY <2>1 DEF StateType
    <3>3. listenMode' # 1 /\ gdb' # "connecting"
      BY <1>2, <1>3
    <3> QED BY <1>2, <3>1, <3>2, <3>3, Zenon DEF WireInv
  <2> QED BY <2>1, <2>3, <2>4 DEF TypeInv
<1>5. CASE Handled \/ Broken
  <2>1. StateType'
    <3>1. CASE Handled
      BY <3>1, <1>1, Dispatch, ServedType
    <3>2. CASE Broken
      BY <3>2, <1>1, BreakEffect DEF Broken
    <3> QED BY <1>5, <3>1, <3>2
  <2>2. Between'
    BY <1>5 DEF Handled, Broken
  <2>3. Rest'
    BY <2>2, <1>1, <1>2 DEF Rest, Between
  <2>4. WireInv'
    <3>1. tx' \in Seq(Replies)
      BY <2>1 DEF StateType
    <3>2. listenMode' # 1 /\ gdb' # "connecting"
      BY <1>2, <1>3
    <3> QED BY <1>2, <2>2, <3>1, <3>2, Zenon DEF WireInv
  <2> QED BY <2>1, <2>3, <2>4 DEF TypeInv
<1> QED BY <1>1, <1>4, <1>5, Handling

LEMMA NetPollType ==
    ASSUME TypeInv, NetPoll
    PROVE  TypeInv'
<1>1. StateType /\ Rest /\ WireInv
  BY DEF TypeInv
<1>2. /\ listenMode = 2 /\ due' = FALSE
      /\ UNCHANGED <<parser, rx, gdb, code, payload, shown>>
      /\ ReportHalt \/ ReportRun \/ ReportNothing
  BY DEF NetPoll
<1>3. StateType' /\ listenMode' = listenMode
  BY <1>1, <1>2, ReportHaltEffect, ReportRunEffect, ReportNothingEffect
<1>4. Rest'
  BY <1>1, <1>2, <1>3 DEF Rest, parser
<1>5. WireInv'
  <2>1. tx' \in Seq(Replies) /\ rx' \in Seq(Bytes)
    BY <1>1, <1>2, <1>3 DEF StateType, WireInv
  <2>2. listenMode' # 1 /\ gdb' # "connecting"
    BY <1>1, <1>2, <1>3 DEF WireInv
  <2>3. Absent => Absent'
    BY <1>2 DEF Absent
  <2>4. Between' \/ Absent' \/ \E q \in Requests : InPacket(q)'
    BY <1>1, <1>2, <2>3, PacketFrame DEF WireInv
  <2> QED BY <2>1, <2>2, <2>4, Zenon DEF WireInv
<1> QED BY <1>3, <1>4, <1>5 DEF TypeInv

LEMMA ExecuteType ==
    ASSUME TypeInv, Execute
    PROVE  TypeInv'
<1>1. StateType /\ Rest /\ WireInv
  BY DEF TypeInv
<1>2. StateType' /\ UNCHANGED <<listenMode, parser, due, rx, tx, gdb, payload>>
  BY <1>1, ExecuteEffect
<1>3. Rest'
  BY <1>1, <1>2 DEF Rest, parser
<1>4. WireInv'
  <2>1. Absent <=> Absent'
    BY <1>2 DEF Absent
  <2>2. Between' \/ Absent' \/ \E q \in Requests : InPacket(q)'
    BY <1>1, <1>2, <2>1, PacketFrame DEF WireInv
  <2>3. rx' \in Seq(Bytes) /\ tx' \in Seq(Replies)
        /\ (listenMode' = 1 => Absent' /\ tx' = <<>> /\ ~due')
        /\ (gdb' = "connecting" => listenMode' = 1)
    BY <1>1, <1>2, <2>1 DEF WireInv
  <2> QED BY <2>2, <2>3, Zenon DEF WireInv
<1> QED BY <1>2, <1>3, <1>4 DEF TypeInv

LEMMA AcceptType ==
    ASSUME TypeInv, Accept
    PROVE  TypeInv'
<1>1. StateType /\ Rest /\ WireInv
  BY DEF TypeInv
<1>2. /\ StateType' /\ listenMode = 1 /\ rx' = rx /\ payload' = payload
      /\ listenMode' = 2 /\ gdbbufferstate' = 0 /\ due' = TRUE /\ gdb' = "stopped"
  BY <1>1, AcceptEffect
<1>3. rx' = <<>> /\ payload' = <<>>
  BY <1>1, <1>2 DEF WireInv, Absent
<1>4. Rest'
  BY <1>2 DEF Rest
<1>5. Between'
  BY <1>2, <1>3 DEF Between, Reads
<1>6. WireInv'
  <2>1. rx' \in Seq(Bytes) /\ tx' \in Seq(Replies)
    BY <1>2, <1>3 DEF StateType
  <2>2. listenMode' # 1 /\ gdb' # "connecting"
    BY <1>2
  <2> QED BY <2>1, <2>2, <1>5, Zenon DEF WireInv
<1> QED BY <1>2, <1>4, <1>6 DEF TypeInv

LEMMA CloseType ==
    ASSUME TypeInv, Close
    PROVE  TypeInv'
<1>1. StateType /\ Rest /\ WireInv
  BY DEF TypeInv
<1>2. /\ gdb = "gone" /\ ~due /\ Disconnect
      /\ listenMode' = 1 /\ rx' = <<>> /\ tx' = <<>> /\ payload' = <<>>
      /\ UNCHANGED <<parser, due, gdb>>
  BY DEF Close
<1>3. StateType'
  <2>1. tx' \in Seq(Replies)
    BY <1>2
  <2> QED BY <2>1, <1>1, <1>2, DisconnectEffect
<1>4. Rest'
  BY <1>1, <1>2 DEF Rest, parser
<1>5. WireInv'
  <2>1. /\ gdb' = "gone" /\ ~due' /\ listenMode' = 1 /\ rx' = <<>> /\ tx' = <<>>
        /\ payload' = <<>>
    BY <1>2
  <2> QED BY <2>1 DEF WireInv, Absent
<1> QED BY <1>3, <1>4, <1>5 DEF TypeInv

(* The client touches nothing of the server. *)
LEMMA OthersType ==
    ASSUME StateType, UNCHANGED Others, tx' \in Seq(Replies)
    PROVE  StateType' /\ UNCHANGED <<listenMode, gdbbufferstate, due>>
  BY DEF StateType, Others, target, parser

LEMMA ConnectType ==
    ASSUME TypeInv, Connect
    PROVE  TypeInv'
<1>1. /\ gdb = "gone" /\ listenMode = 1 /\ gdb' = "connecting"
      /\ UNCHANGED <<Others, rx, tx, payload>>
  BY DEF Connect
<1>2. StateType' /\ UNCHANGED <<listenMode, gdbbufferstate, due>>
  <2>1. UNCHANGED Others /\ tx' \in Seq(Replies)
    BY <1>1 DEF TypeInv, StateType
  <2> QED BY <2>1, OthersType DEF TypeInv
<1>3. Rest'
  BY <1>1, <1>2 DEF Rest, TypeInv
<1>4. WireInv'
  <2>1. rx = <<>> /\ tx = <<>> /\ ~due /\ payload = <<>>
    BY <1>1 DEF TypeInv, WireInv, Absent
  <2>2. /\ gdb' = "connecting" /\ ~due' /\ listenMode' = 1 /\ rx' = <<>> /\ tx' = <<>>
        /\ payload' = <<>>
    BY <2>1, <1>1, <1>2
  <2> QED BY <2>2 DEF WireInv, Absent
<1> QED BY <1>2, <1>3, <1>4 DEF TypeInv

(* A client that is connected is not absent. *)
LEMMA Present ==
    ASSUME WireInv, gdb \notin {"gone", "connecting"}
    PROVE  /\ listenMode # 1
           /\ Between \/ \E q \in Requests : InPacket(q)
           /\ rx = <<>> => Between
<1>1. ~Absent
  BY DEF Absent
<1>2. Between \/ \E q \in Requests : InPacket(q)
  BY <1>1 DEF WireInv
<1>3. listenMode # 1
  BY <1>1 DEF WireInv
<1> QED BY <1>2, <1>3, NothingToRead

LEMMA SendEffect ==
    ASSUME TypeInv, Send
    PROVE  /\ UNCHANGED <<Others, tx>> /\ gdb = "stopped" /\ "monitor" \notin lapse
           /\ rx' \in Seq(Bytes) /\ payload = <<>> /\ payload' # <<>>
           /\ \E q \in Requests : InPacket(q)'
           /\ Cmd' \in {"c", "C", "s"} => gdb' = "running"
           /\ Cmd' = "D" => gdb' = "detached"
           /\ Cmd' = "P" => gdb' = "stopped"
           /\ Cmd' = "?" => gdb' = "asking"
           /\ Cmd' \notin {"?", "c", "C", "s", "D", "P"} => gdb' = "waiting"
<1>1. /\ gdb = "stopped" /\ "monitor" \notin lapse /\ rx = <<>> /\ UNCHANGED <<Others, tx>>
  BY DEF Send
<1>2. PICK p \in Payloads :
          /\ payload' = p /\ rx' = rx \o Frame(p)
          /\ gdb' = CASE p[1][2].cmd \in {"c", "C", "s"} -> "running"
                      [] p[1][2].cmd = "D" -> "detached"
                      [] p[1][2].cmd = "P" -> "stopped"
                      [] p[1][2].cmd = "?" -> "asking"
                      [] OTHER -> "waiting"
  BY DEF Send
<1>3. payload = <<>> /\ gdbbufferstate = 0
  <2>1. Between
    BY <1>1, Present DEF TypeInv
  <2> QED BY <2>1 DEF Between
<1>4. PICK q \in Requests : p = <<q>> \/ p = <<q, Hash>>
  BY PayloadKinds
<1> DEFINE low  == <<"lo", <<q>> >>
           low2 == <<"lo", <<q, Escape, Masked>> >>
           f    == <<Dollar, q, Hash, High, low>>
           f2   == <<Dollar, q, Escape, Masked, Hash, High, low2>>
<1>5. f \in Seq(Bytes) /\ f2 \in Seq(Bytes)
  BY Rests
<1>6. (p = <<q>> => rx' = f) /\ (p = <<q, Hash>> => rx' = f2)
  <2>1. (p = <<q>> => Frame(p) = f) /\ (p = <<q, Hash>> => Frame(p) = f2)
    BY Framed
  <2>2. <<>> \o f = f /\ <<>> \o f2 = f2
    <3> HIDE DEF f, f2
    <3> QED BY <1>5, ConcatEmptySeq
  <2> HIDE DEF f, f2
  <2> QED BY <2>1, <2>2, <1>1, <1>2
<1>7. \A s \in Seq(Bytes) : rx' = s => Reads(s)'
  <2> SUFFICES ASSUME NEW s \in Seq(Bytes), rx' = s
               PROVE  Reads(s)'
    OBVIOUS
  <2> QED BY DEF Reads
<1>8. gdbbufferstate' = 0
  BY <1>1, <1>3 DEF Others, parser
<1>9. InPacket(q)' /\ rx' \in Seq(Bytes)
  <2>1. CASE p = <<q>>
    <3>1. Reads(f)' /\ rx' \in Seq(Bytes) /\ payload' = <<q>>
      BY <2>1, <1>2, <1>5, <1>6, <1>7, Zenon
    <3> QED BY <3>1, <1>8, Zenon DEF InPacket, InPlain
  <2>2. CASE p = <<q, Hash>>
    <3>1. Reads(f2)' /\ rx' \in Seq(Bytes) /\ payload' = <<q, Hash>>
      BY <2>2, <1>2, <1>5, <1>6, <1>7, Zenon
    <3> QED BY <3>1, <1>8, Zenon DEF InPacket, InEscaped
  <2> QED BY <1>4, <2>1, <2>2
<1>10. /\ payload' # <<>>
       /\ Cmd' \in {"c", "C", "s"} => gdb' = "running"
       /\ Cmd' = "D" => gdb' = "detached"
       /\ Cmd' = "P" => gdb' = "stopped"
       /\ Cmd' = "?" => gdb' = "asking"
       /\ Cmd' \notin {"?", "c", "C", "s", "D", "P"} => gdb' = "waiting"
  <2>1. Cmd' = p[1][2].cmd /\ payload' # <<>>
    BY <1>2, <1>4 DEF Cmd
  <2> QED BY <2>1, <1>2
<1> QED BY <1>1, <1>3, <1>9, <1>10

LEMMA SendType ==
    ASSUME TypeInv, Send
    PROVE  TypeInv'
<1>1. /\ UNCHANGED <<Others, tx>> /\ gdb = "stopped" /\ rx' \in Seq(Bytes)
      /\ \E q \in Requests : InPacket(q)'
      /\ gdb' \in {"running", "detached", "stopped", "waiting", "asking"}
  BY SendEffect
<1>2. StateType' /\ UNCHANGED <<listenMode, gdbbufferstate, due>> /\ tx' \in Seq(Replies)
  <2>1. UNCHANGED Others /\ tx' \in Seq(Replies)
    BY <1>1 DEF TypeInv, StateType
  <2> QED BY <2>1, OthersType DEF TypeInv
<1>3. Rest'
  BY <1>1, <1>2 DEF Rest, TypeInv
<1>4. listenMode' # 1 /\ gdb' # "connecting"
  BY <1>1, <1>2, Present DEF TypeInv
<1>5. WireInv'
  BY <1>1, <1>2, <1>4, Zenon DEF WireInv
<1> QED BY <1>2, <1>3, <1>5 DEF TypeInv

LEMMA InterruptType ==
    ASSUME TypeInv, Interrupt
    PROVE  TypeInv'
<1>1. /\ UNCHANGED <<Others, tx, gdb, payload>> /\ gdb = "running"
      /\ rx' = Append(rx, Brk) /\ rx \in Seq(Bytes)
  BY DEF Interrupt, TypeInv, WireInv, Brk
<1>2. StateType' /\ UNCHANGED <<listenMode, gdbbufferstate, due>> /\ tx' \in Seq(Replies)
  <2>1. UNCHANGED Others /\ tx' \in Seq(Replies)
    BY <1>1 DEF TypeInv, StateType
  <2> QED BY <2>1, OthersType DEF TypeInv
<1>3. Rest'
  BY <1>1, <1>2 DEF Rest, TypeInv
<1>4. listenMode' # 1 /\ gdb' # "connecting"
      /\ (Between \/ \E q \in Requests : InPacket(q))
  BY <1>1, <1>2, Present DEF TypeInv
<1>5. rx' \in Seq(Bytes)
  BY <1>1, ByteTypes, AppendProperties
<1>6. \A s \in Seq(Bytes) : Reads(s) => Reads(s)'
  BY <1>1, ReadsMore
<1>7. /\ gdbbufferstate' = gdbbufferstate /\ gdbbuffer' = gdbbuffer
      /\ gdbrunningcsum' = gdbrunningcsum /\ payload' = payload
  BY <1>1 DEF Others, parser
<1>8. Between => Between'
  <2>1. <<>> \in Seq(Bytes)
    OBVIOUS
  <2> QED BY <1>6, <1>7, <2>1, Zenon DEF Between
<1>9. ASSUME NEW q \in Requests, InPacket(q)
      PROVE  InPacket(q)'
  <2>1. \A st, b, m : \A r \in Seq(Bytes) : At(st, b, m, r) => At(st, b, m, r)'
    BY <1>6, <1>7, Zenon DEF At
  <2> DEFINE R == Seq(Bytes)
  <2> HIDE DEF R
  <2>2. LET low == <<"lo", <<q>> >>  low2 == <<"lo", <<q, Escape, Masked>> >> IN
        /\ <<Dollar, q, Hash, High, low>> \in R
        /\ <<q, Hash, High, low>> \in R
        /\ <<Hash, High, low>> \in R
        /\ <<High, low>> \in R
        /\ <<low>> \in R
        /\ <<Dollar, q, Escape, Masked, Hash, High, low2>> \in R
        /\ <<q, Escape, Masked, Hash, High, low2>> \in R
        /\ <<Escape, Masked, Hash, High, low2>> \in R
        /\ <<Masked, Hash, High, low2>> \in R
        /\ <<Hash, High, low2>> \in R
        /\ <<High, low2>> \in R
        /\ <<low2>> \in R
    BY Rests, Zenon DEF R
  <2>3. InPlain(q) => InPlain(q)'
    BY <1>6, <1>7, <2>1, <2>2, Zenon DEF InPlain, R
  <2>4. InEscaped(q) => InEscaped(q)'
    BY <1>6, <1>7, <2>1, <2>2, Zenon DEF InEscaped, R
  <2> QED BY <1>7, <1>9, <2>3, <2>4, Zenon DEF InPacket
<1>10. WireInv'
  BY <1>2, <1>4, <1>5, <1>8, <1>9, Zenon DEF WireInv
<1> QED BY <1>2, <1>3, <1>10 DEF TypeInv

LEMMA ReceiveType ==
    ASSUME TypeInv, Receive
    PROVE  TypeInv'
<1>1. /\ UNCHANGED <<Others, rx, payload>> /\ tx # <<>> /\ gdb # "gone" /\ tx' = Tail(tx)
      /\ gdb' \in {"stopped", gdb}
  BY DEF Receive
<1>2. gdb \notin {"gone", "connecting"} /\ rx \in Seq(Bytes) /\ tx \in Seq(Replies)
  BY <1>1 DEF TypeInv, WireInv
<1>3. tx' \in Seq(Replies)
  BY <1>1, <1>2, HeadTailProperties
<1>4. StateType' /\ UNCHANGED <<listenMode, gdbbufferstate, due>>
  <2>1. UNCHANGED Others
    BY <1>1
  <2> QED BY <2>1, <1>3, OthersType DEF TypeInv
<1>5. Rest'
  BY <1>1, <1>4 DEF Rest, TypeInv
<1>6. listenMode' # 1 /\ gdb' # "connecting"
      /\ (Between \/ \E q \in Requests : InPacket(q))
  BY <1>1, <1>2, <1>4, Present DEF TypeInv
<1>7. UNCHANGED <<parser, rx, payload>>
  BY <1>1 DEF Others
<1>8. Between' \/ \E q \in Requests : InPacket(q)'
  BY <1>6, <1>7, PacketFrame
<1>9. WireInv'
  BY <1>2, <1>3, <1>6, <1>7, <1>8, Zenon DEF WireInv
<1> QED BY <1>4, <1>5, <1>9 DEF TypeInv

LEMMA DropType ==
    ASSUME TypeInv, Drop
    PROVE  TypeInv'
<1>1. /\ UNCHANGED <<Others, tx>> /\ gdb \notin {"gone", "connecting"} /\ gdb' = "gone"
      /\ rx' \in {<<>>, rx} /\ payload' = IF rx' = <<>> THEN <<>> ELSE payload
  BY DEF Drop
<1>2. StateType' /\ UNCHANGED <<listenMode, gdbbufferstate, due>> /\ tx' \in Seq(Replies)
  <2>1. UNCHANGED Others /\ tx' \in Seq(Replies)
    BY <1>1 DEF TypeInv, StateType
  <2> QED BY <2>1, OthersType DEF TypeInv
<1>3. Rest'
  BY <1>1, <1>2 DEF Rest, TypeInv
<1>4. listenMode' # 1 /\ gdb' # "connecting" /\ rx' \in Seq(Bytes)
      /\ (Between \/ \E q \in Requests : InPacket(q))
  <2>1. rx \in Seq(Bytes) /\ <<>> \in Seq(Bytes)
    BY DEF TypeInv, WireInv
  <2>2. listenMode # 1 /\ (Between \/ \E q \in Requests : InPacket(q))
    BY <1>1, Present DEF TypeInv
  <2>3. listenMode' # 1 /\ gdb' # "connecting"
    BY <1>1, <1>2, <2>2
  <2> QED BY <2>1, <2>2, <2>3, <1>1
<1>5. Absent' \/ Between' \/ \E q \in Requests : InPacket(q)'
  <2>1. CASE rx' = <<>>
    BY <2>1, <1>1 DEF Absent
  <2>2. CASE rx' # <<>>
    <3>1. UNCHANGED <<parser, rx, payload>>
      BY <2>2, <1>1 DEF Others
    <3> QED BY <3>1, <1>4, PacketFrame
  <2> QED BY <2>1, <2>2
<1>6. WireInv'
  BY <1>2, <1>4, <1>5, Zenon DEF WireInv
<1> QED BY <1>2, <1>3, <1>6 DEF TypeInv

LEMMA StutterType ==
    ASSUME TypeInv, UNCHANGED vars
    PROVE  TypeInv'
<1>1. /\ UNCHANGED <<Others, tx>>
      /\ UNCHANGED <<parser, rx, payload, gdb>>
  BY DEF vars, Others
<1>2. StateType' /\ UNCHANGED <<listenMode, gdbbufferstate, due>> /\ tx' \in Seq(Replies)
  <2>1. UNCHANGED Others /\ tx' \in Seq(Replies)
    BY <1>1 DEF TypeInv, StateType
  <2> QED BY <2>1, OthersType DEF TypeInv
<1>3. Rest'
  BY <1>1, <1>2 DEF Rest, TypeInv
<1>4. Absent <=> Absent'
  BY <1>1 DEF Absent
<1>5. Absent' \/ Between' \/ \E q \in Requests : InPacket(q)'
  BY <1>1, <1>4, PacketFrame DEF TypeInv, WireInv
<1>6. rx' \in Seq(Bytes) /\ (listenMode' = 1 => Absent' /\ tx' = <<>> /\ ~due')
      /\ (gdb' = "connecting" => listenMode' = 1)
  BY <1>1, <1>2, <1>4 DEF TypeInv, WireInv
<1>7. WireInv'
  BY <1>2, <1>5, <1>6, Zenon DEF WireInv
<1> QED BY <1>2, <1>3, <1>7 DEF TypeInv

LEMMA TypeStep ==
    ASSUME TypeInv, [Next]_vars
    PROVE  TypeInv'
  BY HandlingType, NetPollType, ExecuteType, AcceptType, CloseType, ConnectType, SendType,
     InterruptType, ReceiveType, DropType, StutterType, Zenon DEF Next, Server, Client

LEMMA GdbTyped == Spec => []TypeInv
<1>1. Init => TypeInv
  BY InitType
<1>2. TypeInv /\ [Next]_vars => TypeInv'
  BY TypeStep
<1> QED BY <1>1, <1>2, PTL DEF Spec

(* Every variable holds what its C type allows: the hart, the table, the    *)
(* shadow state, the parser, and what the histories record of them.         *)
THEOREM GdbTypeCorrect == Spec => []TypeOK
<1>1. TypeInv => TypeOK
  BY DEF TypeInv, StateType, Rest, TypeOK, Promises, Harts, Programs, Saves, Tables, Words
<1> QED BY <1>1, GdbTyped, PTL

-----------------------------------------------------------------------------
(* The packets arrive as they were sent. *)

LEMMA Enclosed ==
    ASSUME NEW q \in Requests
    PROVE  /\ <<Dollar>> \o <<q>> \o <<Hash>> = <<Dollar, q, Hash>>
           /\ <<Dollar>> \o <<q, Hash>> \o <<Hash>> = <<Dollar, q, Hash, Hash>>
<1>1. ASSUME NEW l \in Seq(Bytes)
      PROVE  LET t == <<Dollar>> \o l \o <<Hash>> IN
             /\ t \in Seq(Bytes) /\ Len(t) = Len(l) + 2
             /\ t[1] = Dollar /\ t[Len(l) + 2] = Hash
             /\ \A i \in 1..Len(l) : t[i + 1] = l[i]
  <2> DEFINE d == <<Dollar>>
             e == <<Hash>>
             s == d \o l
             t == s \o e
  <2>1. d \in Seq(Bytes) /\ Len(d) = 1 /\ d[1] = Dollar
        /\ e \in Seq(Bytes) /\ Len(e) = 1 /\ e[1] = Hash
    BY ByteTypes
  <2> HIDE DEF d, e
  <2>2. s \in Seq(Bytes) /\ Len(s) = 1 + Len(l) /\ s[1] = Dollar
        /\ \A i \in 1..Len(l) : s[i + 1] = l[i]
    <3>1. s \in Seq(Bytes) /\ Len(s) = Len(d) + Len(l)
          /\ \A i \in 1..Len(d) + Len(l) : s[i] = IF i <= Len(d) THEN d[i] ELSE l[i - Len(d)]
      BY <2>1, ConcatProperties
    <3> HIDE DEF s
    <3> QED BY <3>1, <2>1
  <2> HIDE DEF s
  <2>3. t \in Seq(Bytes) /\ Len(t) = Len(s) + 1
        /\ \A i \in 1..Len(s) + 1 : t[i] = IF i <= Len(s) THEN s[i] ELSE e[i - Len(s)]
    <3>1. s \in Seq(Bytes) /\ e \in Seq(Bytes) /\ Len(e) = 1
      BY <2>1, <2>2
    <3>2. t \in Seq(Bytes) /\ Len(t) = Len(s) + Len(e)
          /\ \A i \in 1..Len(s) + Len(e) : t[i] = IF i <= Len(s) THEN s[i] ELSE e[i - Len(s)]
      BY ONLY <3>1, ConcatProperties
    <3> QED BY ONLY <3>1, <3>2
  <2> HIDE DEF t
  <2>5. /\ t \in Seq(Bytes) /\ Len(t) = Len(l) + 2
        /\ t[1] = Dollar /\ t[Len(l) + 2] = Hash
        /\ \A i \in 1..Len(l) : t[i + 1] = l[i]
    <3>1. Len(l) \in Nat /\ Len(s) = 1 + Len(l)
      BY <2>2
    <3>2. t[1] = s[1] /\ t[Len(l) + 2] = e[1]
      BY ONLY <3>1, <2>3
    <3>3. ASSUME NEW i \in 1..Len(l)
          PROVE  t[i + 1] = s[i + 1]
      BY ONLY <3>1, <3>3, <2>3
    <3> QED BY <2>1, <2>2, <2>3, <3>2, <3>3
  <2> QED BY <2>5 DEF t, s, d, e
<1>2. <<Dollar>> \o <<q>> \o <<Hash>> = <<Dollar, q, Hash>>
  <2> DEFINE l == <<q>>
             t == <<Dollar>> \o l \o <<Hash>>
  <2>1. l \in Seq(Bytes) /\ Len(l) = 1 /\ l[1] = q
    <3>1. q \in Bytes
      BY ByteTypes
    <3> QED BY <3>1
  <2> HIDE DEF l
  <2>2. /\ t \in Seq(Bytes) /\ Len(t) = Len(l) + 2
        /\ t[1] = Dollar /\ t[Len(l) + 2] = Hash
        /\ \A i \in 1..Len(l) : t[i + 1] = l[i]
    BY <1>1, <2>1
  <2> HIDE DEF t
  <2>3. t \in Seq(Bytes) /\ Len(t) = 3 /\ t[1] = Dollar /\ t[2] = q /\ t[3] = Hash
    BY <2>1, <2>2
  <2>4. t = <<Dollar, q, Hash>>
    BY <2>3, Spelled
  <2> QED BY <2>4 DEF t, l
<1>3. <<Dollar>> \o <<q, Hash>> \o <<Hash>> = <<Dollar, q, Hash, Hash>>
  <2> DEFINE l == <<q, Hash>>
             t == <<Dollar>> \o l \o <<Hash>>
  <2>1. l \in Seq(Bytes) /\ Len(l) = 2 /\ l[1] = q /\ l[2] = Hash
    <3>1. q \in Bytes /\ Hash \in Bytes
      BY ByteTypes
    <3> QED BY <3>1
  <2> HIDE DEF l
  <2>2. /\ t \in Seq(Bytes) /\ Len(t) = Len(l) + 2
        /\ t[1] = Dollar /\ t[Len(l) + 2] = Hash
        /\ \A i \in 1..Len(l) : t[i + 1] = l[i]
    BY <1>1, <2>1
  <2> HIDE DEF t
  <2>3. /\ t \in Seq(Bytes) /\ Len(t) = 4 /\ t[1] = Dollar /\ t[2] = q /\ t[3] = Hash
        /\ t[4] = Hash
    BY <2>1, <2>2
  <2>4. t = <<Dollar, q, Hash, Hash>>
    BY <2>3, Spelled
  <2> QED BY <2>4 DEF t, l
<1> QED BY <1>2, <1>3

LEMMA WireMeansIntact ==
    ASSUME TypeInv
    PROVE  PacketsIntact
<1> SUFFICES ASSUME gdb \notin {"gone", "connecting"}
             PROVE  /\ rx = <<>> => gdbbufferstate = 0
                    /\ gdbbufferstate = 3 =>
                          /\ gdbbuffer = << <<"$">> >> \o payload \o << <<"#">> >>
                          /\ Tail(gdbrunningcsum) = Head(rx)[2]
  BY DEF PacketsIntact
<1>1. /\ Between \/ \E q \in Requests : InPacket(q)
      /\ rx = <<>> => Between
  BY Present DEF TypeInv
<1>2. rx = <<>> => gdbbufferstate = 0
  BY <1>1 DEF Between
<1>3. ASSUME gdbbufferstate = 3
      PROVE  /\ gdbbuffer = <<Dollar>> \o payload \o <<Hash>>
             /\ Tail(gdbrunningcsum) = Head(rx)[2]
  <2>1. 3 # 0 /\ 3 # 1 /\ 3 # 2 /\ 3 # 9
    OBVIOUS
  <2>2. PICK q \in Requests : InPacket(q)
    BY <1>1, <1>3, <2>1, Zenon DEF Between
  <2> DEFINE low  == <<"lo", <<q>> >>
             low2 == <<"lo", <<q, Escape, Masked>> >>
  <2>3. \/ payload = <<q>> /\ At(3, <<Dollar, q, Hash>>, <<Dollar, q>>, <<low>>)
        \/ /\ payload = <<q, Hash>>
           /\ At(3, <<Dollar, q, Hash, Hash>>, <<Dollar, q, Escape, Masked>>, <<low2>>)
    BY <2>1, <2>2, <1>3, Zenon DEF InPacket, InPlain, InEscaped, At
  <2>4. \A b \in Bytes : Reads(<<b>>) => Head(rx) = b
    BY DEF Reads, TypeInv, WireInv
  <2>5. low \in Bytes /\ low2 \in Bytes
    BY ByteTypes
  <2>6. CASE payload = <<q>> /\ At(3, <<Dollar, q, Hash>>, <<Dollar, q>>, <<low>>)
    <3>1. Head(rx) = low
      BY <2>4, <2>5, <2>6, Zenon DEF At
    <3>2. Tail(<<Dollar, q>>) = low[2]
      OBVIOUS
    <3> QED BY <2>6, <3>1, <3>2, Enclosed, Zenon DEF At
  <2>7. CASE /\ payload = <<q, Hash>>
             /\ At(3, <<Dollar, q, Hash, Hash>>, <<Dollar, q, Escape, Masked>>, <<low2>>)
    <3>1. Head(rx) = low2
      BY <2>4, <2>5, <2>7, Zenon DEF At
    <3>2. Tail(<<Dollar, q, Escape, Masked>>) = low2[2]
      OBVIOUS
    <3> QED BY <2>7, <3>1, <3>2, Enclosed, Zenon DEF At
  <2> QED BY <2>3, <2>6, <2>7
<1> QED BY <1>2, <1>3 DEF Dollar, Hash

(* Every packet of the client reaches HandleGDBPacket as it was sent, its   *)
(* checksum agrees, and between packets the parser is idle.                 *)
THEOREM GdbPacketsIntact == Spec => []PacketsIntact
<1>1. TypeInv => PacketsIntact
  BY WireMeansIntact
<1> QED BY <1>1, GdbTyped, PTL

-----------------------------------------------------------------------------
(* The program in memory. *)

Covered ==
    /\ \A a \in Addrs : mem[a] = IF Matching(a) # {} THEN "ebreak" ELSE code[a]
    /\ \A i \in Slots : software_breakpoint[i].used =>
          software_breakpoint[i].prev = code[software_breakpoint[i].addy]
Bare == \A i \in Slots : ~software_breakpoint[i].used

LEMMA CodeParts ==
    CodeIntact <=> (lapse \cap {"write", "overwritten"} = {} =>
                        Covered /\ (listenMode = 1 => Bare))
  BY DEF CodeIntact, Covered, Bare

LEMMA CodeKept ==
    ASSUME CodeIntact, UNCHANGED <<mem, code, software_breakpoint>>, lapse \subseteq lapse',
           listenMode' = 1 => listenMode = 1
    PROVE  CodeIntact'
<1>1. \A a : Matching(a)' = Matching(a)
  BY DEF Matching
<1> QED BY <1>1 DEF CodeIntact

LEMMA WriteCode ==
    ASSUME StateType, Covered, NEW a \in Addrs, WriteRAM(a),
           lapse' \cap {"write", "overwritten"} = {}
    PROVE  Covered'
<1>1. /\ UNCHANGED software_breakpoint
      /\ \/ /\ mem' = [mem EXCEPT ![a] = "insn"] /\ code' = [code EXCEPT ![a] = "insn"]
            /\ Matching(a) # {} => "overwritten" \in lapse'
         \/ UNCHANGED <<mem, code>>
  BY WriteRAMEffect
<1>2. \A b : Matching(b)' = Matching(b)
  BY <1>1 DEF Matching
<1>3. CASE UNCHANGED <<mem, code>>
  BY <1>1, <1>2, <1>3 DEF Covered
<1>4. CASE /\ mem' = [mem EXCEPT ![a] = "insn"] /\ code' = [code EXCEPT ![a] = "insn"]
           /\ Matching(a) = {}
  <2>1. mem \in Programs /\ code \in Programs
    BY DEF StateType
  <2>2. \A b \in Addrs : /\ mem'[b] = IF b = a THEN "insn" ELSE mem[b]
                         /\ code'[b] = IF b = a THEN "insn" ELSE code[b]
    BY <1>4, <2>1 DEF Programs
  <2>3. \A b \in Addrs : mem'[b] = IF Matching(b)' # {} THEN "ebreak" ELSE code'[b]
    BY <1>2, <1>4, <2>2 DEF Covered
  <2>4. ASSUME NEW i \in Slots, software_breakpoint[i].used
        PROVE  software_breakpoint[i].prev = code'[software_breakpoint[i].addy]
    <3>1. software_breakpoint[i].addy \in Addrs
      BY DEF StateType, Tables
    <3>2. software_breakpoint[i].addy # a
      BY <2>4, <1>4 DEF Matching
    <3> QED BY <2>2, <2>4, <3>1, <3>2 DEF Covered
  <2> QED BY <1>1, <2>3, <2>4 DEF Covered
<1> QED BY <1>1, <1>3, <1>4

LEMMA SetCode ==
    ASSUME StateType, Covered, NEW a \in Addrs, SetBreakpoint(a),
           lapse' \cap {"write", "overwritten"} = {}
    PROVE  Covered'
<1>1. code' = code
  BY SetBreakpointEffect
<1>2. CASE UNCHANGED <<mem, software_breakpoint>>
  <2>1. \A b : Matching(b)' = Matching(b)
    BY <1>2 DEF Matching
  <2> QED BY <1>1, <1>2, <2>1 DEF Covered
<1>3. ASSUME Matching(a) = {}, NEW i \in Slots, ~software_breakpoint[i].used,
             software_breakpoint' = [software_breakpoint EXCEPT ![i] = NewBreakpoint(a)],
             mem' = [mem EXCEPT ![a] = "ebreak"]
      PROVE  Covered'
  <2>1. mem \in Programs /\ code \in Programs /\ software_breakpoint \in Tables
    BY DEF StateType
  <2>2. /\ \A b \in Addrs : mem'[b] = IF b = a THEN "ebreak" ELSE mem[b]
        /\ \A j \in Slots : software_breakpoint'[j] = IF j = i THEN NewBreakpoint(a)
                                                             ELSE software_breakpoint[j]
    BY <1>3, <2>1 DEF Programs, Tables
  <2>3. NewBreakpoint(a).used /\ NewBreakpoint(a).addy = a /\ NewBreakpoint(a).prev = mem[a]
    BY DEF NewBreakpoint
  <2>4. i \in Matching(a)'
    BY <2>2, <2>3 DEF Matching
  <2>5. ASSUME NEW b \in Addrs, b # a
        PROVE  Matching(b)' = Matching(b)
    BY <1>3, <2>2, <2>3, <2>5 DEF Matching
  <2>6. \A b \in Addrs : mem'[b] = IF Matching(b)' # {} THEN "ebreak" ELSE code'[b]
    BY <1>1, <2>2, <2>4, <2>5 DEF Covered
  <2>7. mem[a] = code[a]
    BY <1>3 DEF Covered
  <2>8. \A j \in Slots : software_breakpoint'[j].used =>
            software_breakpoint'[j].prev = code'[software_breakpoint'[j].addy]
    BY <1>1, <2>2, <2>3, <2>7 DEF Covered
  <2> QED BY <2>6, <2>8 DEF Covered
<1> QED BY <1>2, <1>3, SetBreakpointEffect

LEMMA ClearCode ==
    ASSUME StateType, Covered, NEW a \in Addrs, ClearBreakpoint(a),
           lapse' \cap {"write", "overwritten"} = {}
    PROVE  Covered'
<1>1. code' = code
  BY ClearBreakpointEffect
<1>2. CASE UNCHANGED <<mem, software_breakpoint>>
  <2>1. \A b : Matching(b)' = Matching(b)
    BY <1>2 DEF Matching
  <2> QED BY <1>1, <1>2, <2>1 DEF Covered
<1>3. ASSUME mem' = Uncovered(Matching(a), {}),
             software_breakpoint' = [i \in Slots |-> IF i \in Matching(a) THEN Free
                                                           ELSE software_breakpoint[i]]
      PROVE  Covered'
  <2>1. ~Free.used
    BY FreeType
  <2>2. Matching(a)' = {}
    BY <1>3, <2>1 DEF Matching
  <2>3. \A b : b # a => Matching(b)' = Matching(b)
    BY <1>3, <2>1 DEF Matching
  <2>4. mem'[a] = code[a]
    <3> DEFINE here == {i \in Matching(a) \ {} : software_breakpoint[i].used
                                                 /\ software_breakpoint[i].addy = a}
    <3>1. here = Matching(a)
      BY DEF Matching
    <3>2. mem'[a] = IF here = {} THEN mem[a]
                    ELSE software_breakpoint[CHOOSE i \in here : TRUE].prev
      BY <1>3 DEF Uncovered
    <3>3. here # {} => (CHOOSE i \in here : TRUE) \in here
      OBVIOUS
    <3>4. \A i \in Matching(a) : software_breakpoint[i].prev = code[a]
      BY DEF Covered, Matching
    <3>5. Matching(a) = {} => mem[a] = code[a]
      BY DEF Covered
    <3> QED BY <3>1, <3>2, <3>3, <3>4, <3>5
  <2>5. ASSUME NEW b \in Addrs, b # a
        PROVE  mem'[b] = mem[b]
    <3> DEFINE here == {i \in Matching(a) \ {} : software_breakpoint[i].used
                                                 /\ software_breakpoint[i].addy = b}
    <3>1. here = {}
      BY <2>5 DEF Matching
    <3>2. mem'[b] = IF here = {} THEN mem[b]
                    ELSE software_breakpoint[CHOOSE i \in here : TRUE].prev
      BY <1>3 DEF Uncovered
    <3> QED BY <3>1, <3>2
  <2>6. \A b \in Addrs : mem'[b] = IF Matching(b)' # {} THEN "ebreak" ELSE code'[b]
    BY <1>1, <2>2, <2>3, <2>4, <2>5 DEF Covered
  <2>7. \A i \in Slots : software_breakpoint'[i].used =>
            software_breakpoint'[i] = software_breakpoint[i]
    BY <1>3, <2>1
  <2> QED BY <1>1, <2>6, <2>7 DEF Covered
<1> QED BY <1>2, <1>3, ClearBreakpointEffect

LEMMA DisconnectCode ==
    ASSUME StateType, Covered, Disconnect, tx' \in Seq(Replies),
           lapse' \cap {"write", "overwritten"} = {}
    PROVE  Covered' /\ Bare'
<1> DEFINE used == {i \in Slots : software_breakpoint[i].used}
<1>1. /\ code' = code /\ mem' = Uncovered(used, {})
      /\ software_breakpoint' = [i \in Slots |-> Free]
  BY DisconnectEffect
<1>2. Bare'
  BY <1>1, FreeType DEF Bare
<1>3. \A b : Matching(b)' = {}
  BY <1>2 DEF Matching, Bare
<1>4. ASSUME NEW b \in Addrs
      PROVE  mem'[b] = code[b]
  <2> DEFINE here == {i \in used \ {} : software_breakpoint[i].used
                                        /\ software_breakpoint[i].addy = b}
  <2>1. here = Matching(b)
    BY DEF Matching
  <2>2. mem'[b] = IF here = {} THEN mem[b]
                  ELSE software_breakpoint[CHOOSE i \in here : TRUE].prev
    BY <1>1 DEF Uncovered
  <2>3. here # {} => (CHOOSE i \in here : TRUE) \in here
    OBVIOUS
  <2>4. \A i \in Matching(b) : software_breakpoint[i].prev = code[b]
    BY DEF Covered, Matching
  <2>5. Matching(b) = {} => mem[b] = code[b]
    BY DEF Covered
  <2> QED BY <2>1, <2>2, <2>3, <2>4, <2>5
<1> QED BY <1>1, <1>2, <1>3, <1>4 DEF Covered, Bare

LEMMA ServedCode ==
    ASSUME StateType, Covered, NEW c, NEW a \in Addrs, Served(c, a),
           lapse' \cap {"write", "overwritten"} = {}
    PROVE  Covered'
<1>1. ASSUME UNCHANGED <<mem, code, software_breakpoint>>
      PROVE  Covered'
  <2>1. \A b : Matching(b)' = Matching(b)
    BY <1>1 DEF Matching
  <2> QED BY <1>1, <2>1 DEF Covered
<1>9. CASE QueryReason
  BY <1>1, <1>9, QueryEffect
<1>2. CASE StepPacket
  BY <1>1, <1>2, StepEffect
<1>3. ASSUME Continue(c)
      PROVE  Covered'
  <2>1. UNCHANGED <<code, software_breakpoint>> /\ ("write" \notin lapse' => mem' = mem)
    BY <1>3, ContinueEffect
  <2> QED BY <1>1, <2>1
<1>4. CASE ReadMem
  BY <1>1, <1>4, ReadMemEffect
<1>5. CASE ReadRegisters
  BY <1>1, <1>5, ReadRegistersEffect
<1>6. CASE WriteRegister
  BY <1>1, <1>6, WriteRegisterEffect
<1>7. CASE Detach
  <2>1. Disconnect /\ tx' \in Seq(Replies)
    BY <1>7 DEF Detach, StateType
  <2> QED BY <2>1, DisconnectCode
<1>8. ASSUME ResetPart(c)
      PROVE  Covered'
  BY <1>1, <1>8, ResetPartEffect
<1> QED BY <1>2, <1>3, <1>4, <1>5, <1>6, <1>7, <1>8, <1>9, WriteCode, SetCode, ClearCode, Zenon
       DEF Served

LEMMA Grown ==
    ASSUME StateType, NEW c, NEW a \in Addrs, Served(c, a)
    PROVE  lapse \subseteq lapse'
<1>1. ASSUME Detach
      PROVE  lapse \subseteq lapse'
  <2>1. Disconnect /\ tx' \in Seq(Replies)
    BY <1>1 DEF Detach, StateType
  <2> QED BY <2>1, DisconnectEffect
<1>2. ASSUME ReadMem
      PROVE  lapse \subseteq lapse'
  BY <1>2, ReadMemEffect
<1>3. ASSUME QueryReason
      PROVE  lapse \subseteq lapse'
  BY <1>3, QueryEffect
<1> QED BY <1>1, <1>2, <1>3, StepEffect, ContinueEffect, WriteRAMEffect, ReadRegistersEffect,
           WriteRegisterEffect, SetBreakpointEffect, ClearBreakpointEffect,
           ResetPartEffect, Zenon DEF Served

LEMMA HandlingCode ==
    ASSUME TypeInv, CodeIntact, HandleClientData
    PROVE  CodeIntact'
<1>1. StateType /\ WireInv
  BY DEF TypeInv
<1>2. listenMode = 2 /\ listenMode' = 2
  BY DEF HandleClientData
<1>3. CASE Gathered
  BY <1>2, <1>3, CodeKept DEF Gathered, Quiet, target
<1>4. CASE Broken
  <2>1. Break(Brk)
    BY <1>4 DEF Broken
  <2> QED BY <1>1, <1>2, <2>1, BreakEffect, CodeKept
<1>5. CASE Handled
  <2>1. PICK a \in Addrs : Served(Cmd, a)
    BY <1>5, Dispatch
  <2>2. lapse \subseteq lapse'
    BY <1>1, <2>1, Grown
  <2>3. SUFFICES ASSUME lapse' \cap {"write", "overwritten"} = {}
                 PROVE  Covered'
    BY <1>2 DEF CodeIntact, Covered
  <2>4. Covered
    BY <2>2, <2>3, CodeParts
  <2> QED BY <1>1, <2>1, <2>3, <2>4, ServedCode
<1> QED BY <1>1, <1>3, <1>4, <1>5, Handling

LEMMA CodeStep ==
    ASSUME TypeInv, CodeIntact, [Next]_vars
    PROVE  CodeIntact'
<1>1. StateType
  BY DEF TypeInv
<1>2. CASE NetPoll
  <2>1. listenMode' = listenMode
    BY <1>2 DEF NetPoll, ReportHalt, SaveAndReport, ReportRun, ReportNothing
  <2>2. UNCHANGED <<code, shown>> /\ (ReportHalt \/ ReportRun \/ ReportNothing)
    BY <1>2 DEF NetPoll
  <2>3. UNCHANGED <<mem, code, software_breakpoint>> /\ lapse \subseteq lapse'
    BY <1>1, <2>2, ReportHaltEffect, ReportRunEffect, ReportNothingEffect
  <2> QED BY <2>1, <2>3, CodeKept
<1>3. CASE Execute
  BY <1>1, <1>3, ExecuteEffect, CodeKept
<1>4. CASE Accept
  BY <1>1, <1>4, AcceptEffect, CodeKept
<1>5. CASE Close
  <2>1. Disconnect /\ tx' \in Seq(Replies)
    BY <1>5 DEF Close
  <2>2. lapse \subseteq lapse'
    BY <1>1, <2>1, DisconnectEffect
  <2>3. SUFFICES ASSUME lapse' \cap {"write", "overwritten"} = {}
                 PROVE  Covered' /\ Bare'
    BY DEF CodeIntact, Covered, Bare
  <2>4. Covered
    BY <2>2, <2>3, CodeParts
  <2> QED BY <1>1, <2>1, <2>3, <2>4, DisconnectCode
<1>6. CASE Client \/ UNCHANGED vars
  <2>1. UNCHANGED Others
    BY <1>6 DEF Client, Connect, Send, Interrupt, Receive, Drop, vars, Others
  <2> QED BY <2>1, CodeKept DEF Others, target
<1> QED BY <1>2, <1>3, <1>4, <1>5, <1>6, HandlingCode DEF Next, Server

(* Whatever breakpoints come and go, the memory holds the client's program  *)
(* with an ebreak at each of them and the right word is kept behind it; a   *)
(* server without a client has none.                                        *)
THEOREM GdbCodeIntact == Spec => []CodeIntact
<1>1. Init => CodeIntact
  BY FreeType DEF Init, CodeIntact, Matching
<1>2. TypeInv /\ CodeIntact /\ [Next]_vars => CodeIntact'
  BY CodeStep
<1> QED BY <1>1, <1>2, GdbTyped, PTL DEF Spec

-----------------------------------------------------------------------------
(* What the client believes.  Of the replies on the way only the last may   *)
(* be a stop reply, and then the server knows the hart halted.              *)

Answers == {"OK", "data", "E 00"}
NoStop(t)   == \A i \in DOMAIN t : t[i] \notin Stops
LastStop(t) == t # <<>> /\ t[Len(t)] \in Stops /\ \A i \in 1..Len(t) - 1 : t[i] \notin Stops

Asking   == payload # <<>> /\ Cmd \notin {"?", "c", "C", "s", "D", "P"} /\ tx = <<>>
Querying == payload # <<>> /\ Cmd = "?" /\ tx = <<>>
Repeated == payload = <<>> /\ \E r \in Stops : tx = <<r>>
Answered == payload = <<>> /\ \E r \in Answers : tx = <<r>>
Resuming == payload # <<>> /\ Cmd \in {"c", "C", "s"} /\ tx = <<>>
Running  == payload = <<>> /\ shadow_running_state # 0 /\ NoStop(tx)
Told     == payload = <<>> /\ shadow_running_state = 0 /\ LastStop(tx)

Agreed ==
    /\ payload # <<>> => shadow_running_state = 0
    /\ shadow_running_state = 0 => ~hart.run
    /\ gdb \in {"stopped", "waiting", "asking"} => shadow_running_state = 0
    /\ gdb = "stopped" => tx = <<>> /\ (payload # <<>> => Cmd = "P")
    /\ gdb = "waiting" => Asking \/ Answered
    /\ gdb = "asking" => Querying \/ Repeated
    /\ gdb = "running" => Resuming \/ Running \/ Told

DialogueInv == "monitor" \notin lapse => Agreed

LEMMA Added ==
    ASSUME NEW t \in Seq(Replies), NEW r \in Replies, NoStop(t)
    PROVE  /\ r \in Stops => LastStop(Append(t, r))
           /\ r \notin Stops => NoStop(Append(t, r))
<1>1. /\ Len(Append(t, r)) = Len(t) + 1
      /\ \A i \in 1..Len(t) + 1 : Append(t, r)[i] = IF i <= Len(t) THEN t[i] ELSE r
  BY AppendProperties
<1>2. Append(t, r) # <<>> /\ Len(t) \in Nat /\ DOMAIN t = 1..Len(t)
      /\ DOMAIN Append(t, r) = 1..Len(t) + 1
  BY <1>1, AppendProperties, LenProperties
<1>3. \A i \in 1..Len(t) : Append(t, r)[i] \notin Stops
  BY <1>1, <1>2 DEF NoStop
<1>4. Append(t, r)[Len(t) + 1] = r
  BY <1>1, <1>2
<1>5. r \in Stops => LastStop(Append(t, r))
  BY <1>1, <1>2, <1>3, <1>4 DEF LastStop
<1>6. r \notin Stops => NoStop(Append(t, r))
  BY <1>2, <1>3, <1>4 DEF NoStop
<1> QED BY <1>5, <1>6

LEMMA First ==
    ASSUME NEW t \in Seq(Replies), t # <<>>
    PROVE  /\ NoStop(t) => Head(t) \notin Stops /\ NoStop(Tail(t))
           /\ LastStop(t) /\ Head(t) \in Stops => Tail(t) = <<>>
           /\ LastStop(t) /\ Head(t) \notin Stops => LastStop(Tail(t))
<1> DEFINE u == Tail(t)
<1>1. /\ Head(t) = t[1] /\ u \in Seq(Replies) /\ Len(u) = Len(t) - 1
      /\ \A i \in 1..Len(u) : u[i] = t[i + 1]
  BY HeadTailProperties
<1>2. Len(t) \in Nat /\ Len(t) > 0 /\ DOMAIN t = 1..Len(t) /\ DOMAIN u = 1..Len(u)
      /\ (Len(t) = 1 => u = <<>>) /\ (Len(t) # 1 => u # <<>>)
  <2>1. Len(t) \in Nat /\ DOMAIN t = 1..Len(t) /\ (Len(t) = 0 => t = <<>>)
    BY LenProperties, EmptySeq
  <2>2. Len(u) \in Nat /\ DOMAIN u = 1..Len(u) /\ (Len(u) = 0 <=> u = <<>>)
    BY <1>1, LenProperties, EmptySeq
  <2> QED BY <1>1, <2>1, <2>2
<1> HIDE DEF u
<1>3. NoStop(t) => t[1] \notin Stops /\ NoStop(u)
  BY <1>1, <1>2 DEF NoStop
<1>4. LastStop(t) /\ t[1] \in Stops => u = <<>>
  BY <1>2 DEF LastStop
<1>5. LastStop(t) /\ t[1] \notin Stops => LastStop(u)
  <2> SUFFICES ASSUME LastStop(t), t[1] \notin Stops
               PROVE  LastStop(u)
    OBVIOUS
  <2>1. Len(t) # 1
    BY DEF LastStop
  <2>2. u[Len(u)] = t[Len(t)]
    BY <1>1, <1>2, <2>1
  <2>3. \A i \in 1..Len(u) - 1 : u[i] = t[i + 1] /\ i + 1 \in 1..Len(t) - 1
    BY <1>1, <1>2
  <2> QED BY <1>2, <2>1, <2>2, <2>3 DEF LastStop
<1> QED BY <1>1, <1>3, <1>4, <1>5 DEF u

LEMMA Single ==
    ASSUME NEW r
    PROVE  Append(<<>>, r) = <<r>> /\ Head(<<r>>) = r /\ Tail(<<r>>) = <<>>
           /\ NoStop(<<>>) /\ <<r>> # <<>>
  BY DEF NoStop

LEMMA ServedDialogue ==
    ASSUME StateType, Agreed, payload # <<>>, payload' = <<>>, gdb' = gdb,
           NEW a \in Addrs, Served(Cmd, a), "monitor" \notin lapse'
    PROVE  Agreed'
<1>1. shadow_running_state = 0 /\ ~hart.run
  BY DEF Agreed
<1>2. /\ gdb = "stopped" => tx = <<>> /\ Cmd = "P"
      /\ gdb = "waiting" => Cmd \notin {"?", "c", "C", "s", "D", "P"} /\ tx = <<>>
      /\ gdb = "asking" => Cmd = "?" /\ tx = <<>>
      /\ gdb = "running" => Cmd \in {"c", "C", "s"} /\ tx = <<>>
  BY DEF Agreed, Asking, Answered, Querying, Repeated, Resuming, Running, Told
<1>3. ASSUME Cmd = "s", StepPacket
      PROVE  Agreed'
  <2>1. PICK r \in Stops : tx' = Append(tx, r)
    BY <1>3, StepEffect
  <2>2. shadow_running_state' = 0 /\ ~hart'.run
    BY <1>1, <1>3, StepEffect
  <2>3. gdb \notin {"stopped", "waiting", "asking"}
    BY <1>2, <1>3
  <2>4. gdb = "running" => Told'
    <3>1. NoStop(<<>>)
      BY Single
    <3>2. <<>> \in Seq(Replies)
      OBVIOUS
    <3>3. r \in Replies
      BY DEF Stops, Replies
    <3>4. tx = <<>> => LastStop(tx')
      BY <2>1, <3>1, <3>2, <3>3, Added
    <3> QED BY <1>2, <2>2, <3>4 DEF Told
  <2> QED BY <2>2, <2>3, <2>4 DEF Agreed
<1>4. ASSUME Cmd \in {"c", "C"}, Continue(Cmd)
      PROVE  Agreed'
  <2>1. shadow_running_state' = 1 /\ tx' = tx
    BY <1>4, ContinueEffect
  <2>2. gdb \notin {"stopped", "waiting", "asking"}
    BY <1>2, <1>4
  <2>3. gdb = "running" => Running'
    <3>1. NoStop(<<>>)
      BY Single
    <3>2. tx = <<>> => NoStop(tx')
      BY <2>1, <3>1
    <3> QED BY <1>2, <2>1, <3>2 DEF Running
  <2> QED BY <2>1, <2>2, <2>3 DEF Agreed
<1>5. ASSUME Cmd \notin {"?", "c", "C", "s", "D", "P"}, shadow_running_state' = 0, ~hart'.run,
             NEW r \in Answers, tx' = Append(tx, r)
      PROVE  Agreed'
  <2>1. gdb \notin {"stopped", "asking", "running"}
    BY <1>2, <1>5
  <2>2. gdb = "waiting" => Answered'
    BY <1>2, <1>5, Single DEF Answered
  <2> QED BY <1>5, <2>1, <2>2 DEF Agreed
<1>6. ASSUME Cmd = "m", ReadMem
      PROVE  Agreed'
  <2>1. shadow_running_state' = 0 /\ ~hart'.run /\ tx' = Append(tx, "data")
    BY <1>1, <1>6, ReadMemEffect
  <2> QED BY <1>5, <1>6, <2>1 DEF Answers
<1>7. ASSUME Cmd = "w", WriteRAM(a)
      PROVE  Agreed'
  <2>1. shadow_running_state' = 0 /\ ~hart'.run /\ \E r \in {"OK", "E 00"} : tx' = Append(tx, r)
    BY <1>1, <1>7, WriteRAMEffect
  <2> QED BY <1>5, <1>7, <2>1 DEF Answers
<1>8. ASSUME Cmd = "g", ReadRegisters
      PROVE  Agreed'
  <2>1. shadow_running_state' = 0 /\ ~hart'.run /\ tx' = Append(tx, "data")
    BY <1>1, <1>8, ReadRegistersEffect
  <2> QED BY <1>5, <1>8, <2>1 DEF Answers
<1>9. ASSUME Cmd = "P", WriteRegister
      PROVE  Agreed'
  <2>1. shadow_running_state' = 0 /\ ~hart'.run /\ tx' = tx
    BY <1>1, <1>9, WriteRegisterEffect
  <2>2. gdb \notin {"waiting", "asking", "running"}
    BY <1>2, <1>9
  <2> QED BY <1>2, <2>1, <2>2 DEF Agreed
<1>10. ASSUME Cmd = "Z", SetBreakpoint(a)
       PROVE  Agreed'
  <2>1. shadow_running_state' = 0 /\ ~hart'.run /\ \E r \in {"OK", "E 00"} : tx' = Append(tx, r)
    BY <1>1, <1>10, SetBreakpointEffect
  <2> QED BY <1>5, <1>10, <2>1 DEF Answers
<1>11. ASSUME Cmd = "z", ClearBreakpoint(a)
       PROVE  Agreed'
  <2>1. shadow_running_state' = 0 /\ ~hart'.run /\ \E r \in {"OK", "E 00"} : tx' = Append(tx, r)
    BY <1>1, <1>11, ClearBreakpointEffect
  <2> QED BY <1>5, <1>11, <2>1 DEF Answers
<1>12. ASSUME Cmd = "D", Detach
       PROVE  Agreed'
  <2>1. Disconnect /\ tx' \in Seq(Replies)
    BY <1>12 DEF Detach, StateType
  <2>2. shadow_running_state' = 1
    BY <2>1, DisconnectEffect
  <2>3. gdb \notin {"stopped", "waiting", "asking", "running"}
    BY <1>2, <1>12
  <2> QED BY <2>2, <2>3 DEF Agreed
<1>13. ASSUME Cmd \in {"halt", "reset halt", "resume", "reset run"}, ResetPart(Cmd)
       PROVE  Agreed'
  <2>1. shadow_running_state' = 0 /\ ~hart'.run /\ tx' = Append(tx, "OK")
    BY <1>1, <1>13, ResetPartEffect
  <2> QED BY <1>5, <1>13, <2>1 DEF Answers
<1>14. ASSUME Cmd = "?", QueryReason
       PROVE  Agreed'
  <2>1. PICK r \in Stops : tx' = Append(tx, r)
    BY <1>14, QueryEffect
  <2>2. shadow_running_state' = 0 /\ ~hart'.run
    BY <1>1, <1>14, QueryEffect
  <2>3. gdb \notin {"stopped", "waiting", "running"}
    BY <1>2, <1>14
  <2>4. gdb = "asking" => Repeated'
    BY <1>2, <2>1, Single DEF Repeated
  <2> QED BY <2>2, <2>3, <2>4 DEF Agreed
<1> QED BY <1>14, <1>3, <1>4, <1>6, <1>7, <1>8, <1>9, <1>10, <1>11, <1>12, <1>13, Zenon DEF Served

(* Nothing of the dialogue has changed. *)
LEMMA DialogueKept ==
    ASSUME Agreed, UNCHANGED <<payload, shadow_running_state, gdb, tx>>,
           hart'.run => hart.run
    PROVE  Agreed'
<1>1. Cmd' = Cmd
  BY DEF Cmd
<1> QED BY <1>1 DEF Agreed, Asking, Answered, Querying, Repeated, Resuming, Running, Told

LEMMA HandlingDialogue ==
    ASSUME TypeInv, Agreed, HandleClientData, "monitor" \notin lapse'
    PROVE  Agreed'
<1>1. StateType /\ WireInv
  BY DEF TypeInv
<1>2. gdb' = gdb
  BY DEF HandleClientData
<1>3. CASE Gathered
  BY <1>2, <1>3, DialogueKept DEF Gathered, Quiet, target
<1>4. CASE Broken
  <2>1. Break(Brk) /\ payload' = payload
    BY <1>4 DEF Broken
  <2>2. UNCHANGED <<shadow_running_state, tx>> /\ ~hart'.run
    BY <1>1, <2>1, BreakEffect
  <2> QED BY <1>2, <2>1, <2>2, DialogueKept
<1>5. CASE Handled
  <2>1. payload # <<>> /\ payload' = <<>>
    BY <1>5, Dispatch DEF Handled
  <2>2. PICK a \in Addrs : Served(Cmd, a)
    BY <1>5, Dispatch
  <2> QED BY <1>1, <1>2, <2>1, <2>2, ServedDialogue
<1> QED BY <1>1, <1>3, <1>4, <1>5, Handling

LEMMA NetPollDialogue ==
    ASSUME TypeInv, Agreed, NetPoll
    PROVE  Agreed'
<1>1. StateType /\ tx \in Seq(Replies)
  BY DEF TypeInv, StateType
<1>2. /\ UNCHANGED <<gdb, code, payload, shown>>
      /\ ReportHalt \/ ReportRun \/ ReportNothing
  BY DEF NetPoll
<1>3. Cmd' = Cmd
  BY <1>2 DEF Cmd
<1>4. CASE ReportHalt
  <2>1. /\ shadow_running_state # 0 /\ shadow_running_state' = 0 /\ ~hart'.run
        /\ \E r \in Stops : tx' = Append(tx, r)
    BY <1>1, <1>2, <1>4, ReportHaltEffect
  <2>2. Stops \subseteq Replies
    BY DEF Stops, Replies
  <2>3. gdb \notin {"stopped", "waiting", "asking"} /\ payload = <<>>
    BY <2>1 DEF Agreed
  <2>4. gdb = "running" => Running
    BY <2>1, <2>3 DEF Agreed, Resuming, Told
  <2>5. gdb = "running" => LastStop(tx')
    BY <1>1, <2>1, <2>2, <2>4, Added DEF Running
  <2>6. gdb = "running" => Told'
    BY <1>2, <2>1, <2>3, <2>5 DEF Told
  <2> QED BY <1>2, <2>1, <2>3, <2>6 DEF Agreed
<1>5. CASE ReportRun
  <2>1. /\ hart.run /\ shadow_running_state' = 1024 /\ hart' = hart
        /\ tx' = Append(tx, "OK")
    BY <1>1, <1>2, <1>5, ReportRunEffect
  <2>2. "OK" \in Replies /\ "OK" \notin Stops
    BY DEF Stops, Replies
  <2>3. shadow_running_state # 0
    BY <2>1 DEF Agreed
  <2>4. gdb \notin {"stopped", "waiting", "asking"} /\ payload = <<>>
    BY <2>3 DEF Agreed
  <2>5. gdb = "running" => Running
    BY <2>3, <2>4 DEF Agreed, Resuming, Told
  <2>6. gdb = "running" => NoStop(tx')
    BY <1>1, <2>1, <2>2, <2>5, Added DEF Running
  <2>7. gdb = "running" => Running'
    BY <1>2, <2>1, <2>4, <2>6 DEF Running
  <2> QED BY <1>2, <2>1, <2>4, <2>7 DEF Agreed
<1>6. CASE ReportNothing
  <2>1. UNCHANGED <<hart, shadow_running_state, tx>>
    BY <1>1, <1>2, <1>6, ReportNothingEffect
  <2> QED BY <1>2, <2>1, DialogueKept
<1> QED BY <1>2, <1>4, <1>5, <1>6

LEMMA ReceiveDialogue ==
    ASSUME TypeInv, Agreed, Receive
    PROVE  Agreed'
<1>1. /\ UNCHANGED <<Others, rx, payload>> /\ tx # <<>> /\ gdb # "gone" /\ tx' = Tail(tx)
      /\ gdb' = CASE gdb \in {"running", "asking"} /\ Head(tx) \in Stops -> "stopped"
                  [] gdb = "waiting" /\ Head(tx) \notin Stops \cup {"-"} -> "stopped"
                  [] OTHER -> gdb
  BY DEF Receive, Stops
<1>2. tx \in Seq(Replies) /\ Cmd' = Cmd /\ UNCHANGED <<shadow_running_state, hart>>
  BY <1>1 DEF TypeInv, StateType, Cmd, Others, target
<1>3. /\ payload' # <<>> => shadow_running_state' = 0
      /\ shadow_running_state' = 0 => ~hart'.run
  BY <1>1, <1>2 DEF Agreed
<1>4. gdb # "stopped"
  BY <1>1 DEF Agreed
<1>5. CASE gdb = "waiting"
  <2>1. PICK r \in Answers : payload = <<>> /\ tx = <<r>>
    BY <1>1, <1>5 DEF Agreed, Asking, Answered
  <2>2. Head(tx) \notin Stops \cup {"-"} /\ tx' = <<>>
    BY <1>1, <2>1, Single DEF Answers, Stops
  <2>3. gdb' = "stopped" /\ shadow_running_state = 0
    BY <1>1, <1>5, <2>2 DEF Agreed
  <2> QED BY <1>1, <1>2, <1>3, <2>1, <2>2, <2>3 DEF Agreed
<1>6. CASE gdb = "running"
  <2>1. Running \/ Told
    BY <1>1, <1>6 DEF Agreed, Resuming
  <2>2. CASE Running
    <3>1. Head(tx) \notin Stops /\ NoStop(tx')
      BY <1>1, <1>2, <2>2, First DEF Running
    <3>2. gdb' = "running"
      BY <1>1, <1>6, <3>1
    <3>3. Running'
      BY <1>1, <1>2, <2>2, <3>1 DEF Running
    <3> QED BY <1>3, <3>2, <3>3 DEF Agreed
  <2>3. CASE Told /\ Head(tx) \in Stops
    <3>1. gdb' = "stopped" /\ tx' = <<>>
      BY <1>1, <1>2, <1>6, <2>3, First DEF Told
    <3> QED BY <1>1, <1>2, <1>3, <2>3, <3>1 DEF Agreed, Told
  <2>4. CASE Told /\ Head(tx) \notin Stops
    <3>1. gdb' = "running" /\ LastStop(tx')
      BY <1>1, <1>2, <1>6, <2>4, First DEF Told
    <3>2. Told'
      BY <1>1, <1>2, <2>4, <3>1 DEF Told
    <3> QED BY <1>3, <3>1, <3>2 DEF Agreed
  <2> QED BY <2>1, <2>2, <2>3, <2>4
<1>8. CASE gdb = "asking"
  <2>1. PICK r \in Stops : payload = <<>> /\ tx = <<r>>
    BY <1>1, <1>8 DEF Agreed, Querying, Repeated
  <2>2. Head(tx) \in Stops /\ tx' = <<>>
    BY <1>1, <2>1, Single
  <2>3. gdb' = "stopped" /\ shadow_running_state = 0
    BY <1>1, <1>8, <2>2 DEF Agreed
  <2> QED BY <1>1, <1>2, <1>3, <2>1, <2>2, <2>3 DEF Agreed
<1>7. CASE gdb \notin {"stopped", "waiting", "asking", "running"}
  <2>1. gdb' = gdb
    BY <1>1, <1>7
  <2> QED BY <1>3, <1>7, <2>1 DEF Agreed
<1> QED BY <1>4, <1>5, <1>6, <1>7, <1>8

LEMMA SendDialogue ==
    ASSUME TypeInv, Agreed, Send
    PROVE  Agreed'
<1>1. /\ UNCHANGED <<Others, tx>> /\ gdb = "stopped" /\ payload' # <<>>
      /\ Cmd' \in {"c", "C", "s"} => gdb' = "running"
      /\ Cmd' = "D" => gdb' = "detached"
      /\ Cmd' = "P" => gdb' = "stopped"
      /\ Cmd' = "?" => gdb' = "asking"
      /\ Cmd' \notin {"?", "c", "C", "s", "D", "P"} => gdb' = "waiting"
  BY SendEffect
<1>2. shadow_running_state = 0 /\ ~hart.run /\ tx = <<>>
  BY <1>1 DEF Agreed
<1>3. shadow_running_state' = 0 /\ ~hart'.run /\ tx' = <<>>
  BY <1>1, <1>2 DEF Others, target
<1>4. /\ gdb' = "stopped" => Cmd' = "P"
      /\ gdb' = "waiting" => Asking'
      /\ gdb' = "asking" => Querying'
      /\ gdb' = "running" => Resuming'
  BY <1>1, <1>3 DEF Asking, Querying, Resuming
<1> QED BY <1>3, <1>4 DEF Agreed

LEMMA DialogueStep ==
    ASSUME TypeInv, Agreed, [Next]_vars, "monitor" \notin lapse'
    PROVE  Agreed'
<1>1. StateType /\ WireInv
  BY DEF TypeInv
<1>2. CASE Execute
  BY <1>1, <1>2, ExecuteEffect, DialogueKept
<1>3. CASE Accept
  <2>1. /\ listenMode = 1 /\ UNCHANGED <<tx, payload>> /\ gdb' = "stopped"
        /\ ~hart'.run /\ shadow_running_state' = 0
    BY <1>1, <1>3, AcceptEffect
  <2>2. payload' = <<>> /\ tx' = <<>>
    BY <1>1, <2>1 DEF WireInv, Absent
  <2> QED BY <2>1, <2>2 DEF Agreed
<1>4. CASE Close
  <2>1. Disconnect /\ tx' \in Seq(Replies) /\ payload' = <<>> /\ gdb' = "gone"
    BY <1>4 DEF Close
  <2>2. shadow_running_state' = 1
    BY <1>1, <2>1, DisconnectEffect
  <2> QED BY <2>1, <2>2 DEF Agreed
<1>5. ASSUME UNCHANGED Others, payload' \in {<<>>, payload},
             gdb' \notin {"stopped", "waiting", "asking", "running"}
      PROVE  Agreed'
  <2>1. UNCHANGED <<shadow_running_state, hart>>
    BY <1>5 DEF Others, target
  <2> QED BY <1>5, <2>1 DEF Agreed
<1>6. CASE Connect
  BY <1>5, <1>6 DEF Connect
<1>7. CASE Drop
  BY <1>5, <1>7 DEF Drop
<1>8. CASE Interrupt \/ UNCHANGED vars
  <2>1. UNCHANGED <<payload, shadow_running_state, gdb, tx, hart>>
    BY <1>8 DEF Interrupt, vars, Others, target
  <2> QED BY <2>1, DialogueKept
<1> QED BY <1>2, <1>3, <1>4, <1>6, <1>7, <1>8, HandlingDialogue, NetPollDialogue,
           ReceiveDialogue, SendDialogue, Zenon DEF Next, Server, Client

(* No step takes back an event that voids a promise. *)
LEMMA LapsesStay ==
    ASSUME TypeInv, [Next]_vars
    PROVE  lapse \subseteq lapse'
<1>1. StateType /\ WireInv
  BY DEF TypeInv
<1>2. CASE HandleClientData
  <2>1. CASE Gathered
    BY <2>1 DEF Gathered, Quiet
  <2>2. CASE Broken
    BY <1>1, <2>2, BreakEffect DEF Broken
  <2>3. CASE Handled
    BY <1>1, <2>3, Dispatch, Grown
  <2> QED BY <1>1, <1>2, <2>1, <2>2, <2>3, Handling
<1>3. CASE NetPoll
  <2>1. UNCHANGED <<code, shown>> /\ (ReportHalt \/ ReportRun \/ ReportNothing)
    BY <1>3 DEF NetPoll
  <2> QED BY <1>1, <2>1, ReportHaltEffect, ReportRunEffect, ReportNothingEffect
<1>4. CASE Execute
  BY <1>1, <1>4, ExecuteEffect
<1>5. CASE Accept
  BY <1>1, <1>5, AcceptEffect
<1>6. CASE Close
  <2>1. Disconnect /\ tx' \in Seq(Replies)
    BY <1>6 DEF Close
  <2> QED BY <1>1, <2>1, DisconnectEffect
<1>7. CASE Client \/ UNCHANGED vars
  BY <1>7 DEF Client, Connect, Send, Interrupt, Receive, Drop, Others, vars
<1> QED BY <1>2, <1>3, <1>4, <1>5, <1>6, <1>7 DEF Next, Server

LEMMA GdbDialogue == Spec => []DialogueInv
<1>1. Init => DialogueInv
  BY DEF Init, DialogueInv, Agreed
<1>2. TypeInv /\ DialogueInv /\ [Next]_vars => DialogueInv'
  BY LapsesStay, DialogueStep DEF DialogueInv
<1> QED BY <1>1, <1>2, GdbTyped, PTL DEF Spec

(* The client never believes a running target stopped: a stop reply on the  *)
(* way is the last one and still true, a command that resumes has not been  *)
(* overtaken.                                                               *)
THEOREM GdbBelievedStopped == Spec => []BelievedStopped
<1>1. DialogueInv => BelievedStopped
  BY DEF DialogueInv, Agreed, BelievedStopped
<1> QED BY <1>1, GdbDialogue, PTL

-----------------------------------------------------------------------------
(* The registers.  While the server knows the hart halted they are in its   *)
(* copy, otherwise in the hart; without a client it knows of no halt.       *)

Void == {"regs", "monitor", "rehalt", "detached running"}

Owned ==
    /\ shadow_running_state = 0 => backup_regs.regs = "own"
    /\ shadow_running_state # 0 => hart.regs = "own"
    /\ shown = "own"

RegsInv ==
    /\ lapse \cap Void = {} => Owned
    /\ listenMode = 1 => shadow_running_state # 0

LEMMA ServedRegs ==
    ASSUME StateType, Agreed, payload # <<>>, Owned, NEW c, NEW a \in Addrs, Served(c, a),
           lapse' \cap Void = {}
    PROVE  Owned'
<1>1. shadow_running_state = 0 /\ ~hart.run /\ backup_regs.regs = "own" /\ shown = "own"
  BY DEF Agreed, Owned
<1>2. "regs" \notin lapse' /\ "detached running" \notin lapse'
      /\ lapse' \cap {"regs", "monitor", "rehalt"} = {}
  BY DEF Void
<1>3. ASSUME shadow_running_state' = shadow_running_state, backup_regs' = backup_regs,
             shown' = shown
      PROVE  Owned'
  BY <1>1, <1>3 DEF Owned
<1>14. CASE QueryReason
  BY <1>3, <1>14, QueryEffect
<1>4. CASE StepPacket
  <2>1. /\ UNCHANGED <<shadow_running_state, shown>>
        /\ backup_regs'.regs = backup_regs.regs
    BY <1>1, <1>2, <1>4, StepEffect
  <2> QED BY <1>1, <2>1 DEF Owned
<1>5. ASSUME Continue(c)
      PROVE  Owned'
  <2>1. shadow_running_state # 1
    BY <1>1
  <2>2. shadow_running_state' = 1 /\ shown' = shown /\ hart'.regs = backup_regs.regs
    BY <1>1, <1>2, <1>5, <2>1, ContinueEffect
  <2>3. shadow_running_state' # 0
    BY <2>2
  <2> QED BY <1>1, <2>2, <2>3 DEF Owned
<1>6. CASE ReadMem
  BY <1>3, <1>6, ReadMemEffect
<1>7. ASSUME WriteRAM(a)
      PROVE  Owned'
  BY <1>3, <1>7, WriteRAMEffect
<1>8. CASE ReadRegisters
  <2>1. shadow_running_state' = 0 /\ backup_regs' = backup_regs /\ shown' = backup_regs'.regs
    BY <1>1, <1>8, ReadRegistersEffect
  <2> QED BY <1>1, <2>1 DEF Owned
<1>9. CASE WriteRegister
  <2>1. shadow_running_state' = 0 /\ backup_regs' = backup_regs /\ shown' = shown
    BY <1>1, <1>9, WriteRegisterEffect
  <2> QED BY <1>1, <2>1 DEF Owned
<1>10. ASSUME SetBreakpoint(a)
       PROVE  Owned'
  BY <1>3, <1>10, SetBreakpointEffect
<1>11. ASSUME ClearBreakpoint(a)
       PROVE  Owned'
  BY <1>3, <1>11, ClearBreakpointEffect
<1>12. CASE Detach
  <2>1. Disconnect /\ tx' \in Seq(Replies)
    BY <1>12 DEF Detach, StateType
  <2>2. shadow_running_state' = 1 /\ shown' = shown /\ hart'.regs = backup_regs.regs
    BY <1>1, <1>2, <2>1, DisconnectEffect
  <2> QED BY <1>1, <2>2 DEF Owned
<1>13. ASSUME ResetPart(c)
       PROVE  Owned'
  <2>1. /\ UNCHANGED <<shadow_running_state, shown>>
        /\ backup_regs'.regs = "own"
    BY <1>2, <1>13, ResetPartEffect
  <2> QED BY <1>1, <2>1 DEF Owned
<1> QED BY <1>4, <1>5, <1>6, <1>7, <1>8, <1>9, <1>10, <1>11, <1>12, <1>13, <1>14, Zenon DEF Served

LEMMA RegsStep ==
    ASSUME TypeInv, DialogueInv, RegsInv, [Next]_vars
    PROVE  RegsInv'
<1>1. StateType /\ WireInv /\ lapse \subseteq lapse'
  BY LapsesStay DEF TypeInv
<1>2. listenMode' = 1 => shadow_running_state' # 0
  <2>1. CASE HandleClientData \/ Accept
    BY <2>1 DEF HandleClientData, Accept
  <2>2. CASE NetPoll
    BY <2>2 DEF NetPoll, ReportHalt, SaveAndReport, ReportRun, ReportNothing
  <2>3. CASE Close
    <3>1. shadow_running_state' = 1
      BY <2>3 DEF Close, Disconnect
    <3> QED BY <3>1
  <2>4. CASE Execute \/ Client \/ UNCHANGED vars
    <3>1. UNCHANGED <<listenMode, shadow_running_state>>
      BY <2>4 DEF Execute, Client, Connect, Send, Interrupt, Receive, Drop, Others, vars
    <3> QED BY <3>1 DEF RegsInv
  <2> QED BY <2>1, <2>2, <2>3, <2>4 DEF Next, Server
<1>3. SUFFICES ASSUME lapse' \cap Void = {}
               PROVE  Owned'
  BY <1>2 DEF RegsInv
<1>4. Owned /\ Agreed /\ "regs" \notin lapse' /\ "detached running" \notin lapse'
  BY <1>1, <1>3 DEF RegsInv, DialogueInv, Void
<1>5. CASE HandleClientData
  <2>1. CASE Gathered
    BY <1>4, <2>1 DEF Gathered, Quiet, Owned, target
  <2>2. CASE Broken
    <3>1. /\ UNCHANGED <<shadow_running_state, backup_regs, shown>>
          /\ hart'.regs = hart.regs
      BY <1>1, <2>2, BreakEffect DEF Broken
    <3> QED BY <1>4, <3>1 DEF Owned
  <2>3. CASE Handled
    BY <1>1, <1>3, <1>4, <2>3, Dispatch, ServedRegs
  <2> QED BY <1>1, <1>5, <2>1, <2>2, <2>3, Handling
<1>6. CASE NetPoll
  <2>1. UNCHANGED <<code, shown>> /\ (ReportHalt \/ ReportRun \/ ReportNothing)
    BY <1>6 DEF NetPoll
  <2>2. CASE ReportHalt
    <3>1. /\ shadow_running_state # 0 /\ shadow_running_state' = 0
          /\ backup_regs'.regs = hart.regs
      BY <1>1, <1>4, <2>1, <2>2, ReportHaltEffect
    <3> QED BY <1>4, <2>1, <3>1 DEF Owned
  <2>3. CASE ReportRun
    <3>1. hart.run /\ shadow_running_state' = 1024 /\ hart' = hart
      BY <1>1, <2>1, <2>3, ReportRunEffect
    <3>2. hart.regs = "own"
      BY <1>4, <3>1 DEF Agreed, Owned
    <3>3. shadow_running_state' # 0
      BY <3>1
    <3> QED BY <1>4, <2>1, <3>1, <3>2, <3>3 DEF Owned
  <2>4. CASE ReportNothing
    <3>1. UNCHANGED <<shadow_running_state, backup_regs, hart>>
      BY <1>1, <2>1, <2>4, ReportNothingEffect
    <3> QED BY <1>4, <2>1, <3>1 DEF Owned
  <2> QED BY <2>1, <2>2, <2>3, <2>4
<1>7. CASE Execute
  <2>1. /\ hart.run /\ hart'.regs = hart.regs
        /\ UNCHANGED <<shadow_running_state, shown>>
    BY <1>1, <1>7, ExecuteEffect
  <2>2. shadow_running_state # 0
    BY <1>4, <2>1 DEF Agreed
  <2> QED BY <1>4, <2>1, <2>2 DEF Owned
<1>8. CASE Accept
  <2>1. /\ listenMode = 1 /\ shadow_running_state' = 0 /\ shown' = shown
        /\ backup_regs'.regs = hart.regs
    BY <1>1, <1>4, <1>8, AcceptEffect
  <2>2. shadow_running_state # 0
    BY <2>1 DEF RegsInv
  <2> QED BY <1>4, <2>1, <2>2 DEF Owned
<1>9. CASE Close
  <2>1. Disconnect /\ tx' \in Seq(Replies)
    BY <1>9 DEF Close
  <2>2. /\ shadow_running_state' = 1 /\ shown' = shown
        /\ shadow_running_state = 0 => hart'.regs = backup_regs.regs
        /\ shadow_running_state # 0 => hart'.regs = hart.regs
    BY <1>1, <1>4, <2>1, DisconnectEffect
  <2>3. hart'.regs = "own"
    BY <1>4, <2>2 DEF Owned
  <2>4. shadow_running_state' # 0
    BY <2>2
  <2> QED BY <1>4, <2>2, <2>3, <2>4 DEF Owned
<1>10. CASE Client \/ UNCHANGED vars
  <2>1. UNCHANGED <<shadow_running_state, backup_regs, hart, shown>>
    BY <1>10 DEF Client, Connect, Send, Interrupt, Receive, Drop, Others, vars, target
  <2> QED BY <1>4, <2>1 DEF Owned
<1> QED BY <1>5, <1>6, <1>7, <1>8, <1>9, <1>10 DEF Next, Server

(* Whatever the tool does to a stopped hart, the program goes on with its   *)
(* own registers, and they are what the client is shown.                    *)
THEOREM GdbRegistersOwn == Spec => []RegistersOwn
<1>1. Init => RegsInv
  BY DEF Init, RegsInv, Owned
<1>2. TypeInv /\ DialogueInv /\ RegsInv /\ [Next]_vars => RegsInv'
  BY RegsStep
<1>3. DialogueInv /\ RegsInv => RegistersOwn
  BY DEF DialogueInv, Agreed, RegsInv, Owned, Void, RegistersOwn
<1> QED BY <1>1, <1>2, <1>3, GdbTyped, GdbDialogue, PTL DEF Spec

-----------------------------------------------------------------------------
(* The stop replies.  The break flag stands only between a break byte that  *)
(* found the hart running and the poll that follows it; a halt the server   *)
(* does not know of has a cause, one that it knows of has been told or is   *)
(* the connection's; the step bit is set only where it lapses; and while a  *)
(* packet is under way there has been no "monitor resume".                  *)

Reasoned ==
    /\ gdbasserting_break =>
          stop = "break" /\ due /\ ~hart.run /\ shadow_running_state # 0
    /\ "reason" \notin odd
ReasonInv == lapse \cap {"late break", "monitor", "poll"} = {} => Reasoned

Caused ==
    /\ ~hart.run /\ shadow_running_state # 0 /\ stop = "none" => mem[hart.pc] = "ebreak"
    /\ shadow_running_state = 0 => stop # "none"
    /\ "cause" \notin odd
CauseInv ==
    /\ lapse \cap {"step bit", "monitor", "control"} = {} => Caused
    /\ hart.step => "step bit" \in lapse
    /\ payload # <<>> => "monitor" \notin lapse
    /\ "running" \notin odd

(* The packets are handled of a halted hart, and leave the flag alone.      *)
LEMMA ServedStops ==
    ASSUME StateType, NEW c, NEW a \in Addrs, Served(c, a)
    PROVE  /\ gdbasserting_break' => gdbasserting_break
           /\ "reason" \in odd' => "reason" \in odd \/ (gdbasserting_break /\ stop # "break")
           /\ "cause" \in odd' => "cause" \in odd \/ stop = "none" \/ "control" \in lapse'
           /\ "running" \in odd' => "running" \in odd \/ hart.run
           /\ hart'.step => hart.step \/ "step bit" \in lapse'
           /\ shadow_running_state = 0 =>
                 \/ shadow_running_state' = 0 /\ (stop' = stop \/ stop' = "told")
                 \/ shadow_running_state' # 0 /\ (hart'.run \/ "control" \in lapse')
<1> DEFINE Goal == /\ gdbasserting_break' => gdbasserting_break
                   /\ "reason" \in odd' =>
                         "reason" \in odd \/ (gdbasserting_break /\ stop # "break")
                   /\ "cause" \in odd' =>
                         "cause" \in odd \/ stop = "none" \/ "control" \in lapse'
                   /\ "running" \in odd' => "running" \in odd \/ hart.run
                   /\ hart'.step => hart.step \/ "step bit" \in lapse'
                   /\ shadow_running_state = 0 =>
                         \/ shadow_running_state' = 0 /\ (stop' = stop \/ stop' = "told")
                         \/ shadow_running_state' # 0 /\ (hart'.run \/ "control" \in lapse')
<1>1. ASSUME gdbasserting_break' = gdbasserting_break, odd' = odd,
             hart'.step => hart.step, stop' = stop,
             shadow_running_state' = shadow_running_state \/ shadow_running_state' = 0
      PROVE  Goal
  BY <1>1
<1>2. ASSUME gdbasserting_break' = gdbasserting_break, odd' = odd,
             hart'.step => hart.step \/ "step bit" \in lapse', shadow_running_state' = 1,
             shadow_running_state = 0 => hart'.run \/ "control" \in lapse'
      PROVE  Goal
  <2>1. 1 # 0
    OBVIOUS
  <2>2. shadow_running_state' # 0
    BY <1>2, <2>1, Zenon
  <2> QED BY <1>2, <2>2
<1>3. CASE StepPacket
  <2>1. /\ ~gdbasserting_break' /\ stop' = "told"
        /\ shadow_running_state' = shadow_running_state
        /\ hart'.step => "step bit" \in lapse'
        /\ "reason" \in odd' => "reason" \in odd \/ (gdbasserting_break /\ stop # "break")
        /\ "cause" \in odd' => "cause" \in odd \/ "control" \in lapse'
        /\ "running" \in odd' => "running" \in odd
    BY <1>3, StepEffect
  <2> QED BY <2>1
<1>4. CASE QueryReason
  <2>1. /\ ~gdbasserting_break' /\ stop' = "told"
        /\ shadow_running_state' = shadow_running_state /\ hart' = hart
        /\ "reason" \in odd' => "reason" \in odd \/ (gdbasserting_break /\ stop # "break")
        /\ "cause" \in odd' => "cause" \in odd \/ stop = "none"
        /\ "running" \in odd' => "running" \in odd \/ hart.run
    BY <1>4, QueryEffect
  <2> QED BY <2>1
<1>5. CASE ReadMem
  <2>1. /\ gdbasserting_break' = gdbasserting_break /\ odd' = odd /\ hart'.step = hart.step
        /\ shadow_running_state' = shadow_running_state /\ stop' = stop
    BY <1>5, ReadMemEffect
  <2> QED BY <1>1, <2>1
<1>6. CASE WriteRAM(a)
  <2>1. /\ gdbasserting_break' = gdbasserting_break /\ odd' = odd /\ hart'.step = hart.step
        /\ shadow_running_state' = shadow_running_state /\ stop' = stop
    BY <1>6, WriteRAMEffect
  <2> QED BY <1>1, <2>1
<1>7. CASE ReadRegisters
  <2>1. /\ gdbasserting_break' = gdbasserting_break /\ odd' = odd /\ hart'.step = hart.step
        /\ shadow_running_state' = 0 /\ stop' = stop
    BY <1>7, ReadRegistersEffect
  <2> QED BY <1>1, <2>1
<1>8. CASE WriteRegister
  <2>1. /\ gdbasserting_break' = gdbasserting_break /\ odd' = odd /\ hart'.step = hart.step
        /\ shadow_running_state' = 0 /\ stop' = stop
    BY <1>8, WriteRegisterEffect
  <2> QED BY <1>1, <2>1
<1>9. CASE SetBreakpoint(a)
  <2>1. /\ gdbasserting_break' = gdbasserting_break /\ odd' = odd /\ hart'.step = hart.step
        /\ shadow_running_state' = shadow_running_state /\ stop' = stop
    BY <1>9, SetBreakpointEffect
  <2> QED BY <1>1, <2>1
<1>10. CASE ClearBreakpoint(a)
  <2>1. /\ gdbasserting_break' = gdbasserting_break /\ odd' = odd /\ hart'.step = hart.step
        /\ shadow_running_state' = shadow_running_state /\ stop' = stop
    BY <1>10, ClearBreakpointEffect
  <2> QED BY <1>1, <2>1
<1>11. CASE Detach
  <2>1. Disconnect /\ tx' \in Seq(Replies)
    BY <1>11 DEF Detach, StateType
  <2>2. /\ gdbasserting_break' = gdbasserting_break /\ odd' = odd
        /\ hart'.step => hart.step
        /\ shadow_running_state' = 1 /\ (hart'.run \/ "control" \in lapse')
    BY <2>1, DisconnectEffect
  <2> QED BY <1>2, <2>2
<1>12. CASE ResetPart(c)
  <2>1. /\ gdbasserting_break' = gdbasserting_break /\ odd' = odd
        /\ hart'.step => hart.step
        /\ shadow_running_state' = shadow_running_state /\ stop' = stop
    BY <1>12, ResetPartEffect
  <2> QED BY <1>1, <2>1
<1>13. CASE Continue(c)
  <2>1. shadow_running_state = 0 => shadow_running_state # 1
    OBVIOUS
  <2>2. /\ gdbasserting_break' = gdbasserting_break /\ odd' = odd
        /\ hart'.step => "step bit" \in lapse'
        /\ shadow_running_state' = 1
        /\ shadow_running_state = 0 => hart'.run \/ "control" \in lapse'
    BY <1>13, <2>1, ContinueEffect
  <2> QED BY <1>2, <2>2
<1> QED BY <1>3, <1>4, <1>5, <1>7, <1>8, <1>9, <1>6, <1>10, <1>11, <1>12, <1>13 DEF Served

LEMMA ReasonStep ==
    ASSUME TypeInv, DialogueInv, ReasonInv, [Next]_vars
    PROVE  ReasonInv'
<1>1. StateType /\ WireInv /\ lapse \subseteq lapse'
  BY LapsesStay DEF TypeInv
<1>2. SUFFICES ASSUME lapse' \cap {"late break", "monitor", "poll"} = {}
               PROVE  Reasoned'
  BY DEF ReasonInv
<1>3. Reasoned /\ Agreed /\ "late break" \notin lapse' /\ "poll" \notin lapse'
  BY <1>1, <1>2 DEF ReasonInv, DialogueInv
<1>4. ASSUME ~gdbasserting_break',
             "reason" \in odd' => "reason" \in odd \/ (gdbasserting_break /\ stop # "break")
      PROVE  Reasoned'
  BY <1>3, <1>4 DEF Reasoned
<1>5. ASSUME UNCHANGED <<gdbasserting_break, stop, due, hart, shadow_running_state, odd>>
      PROVE  Reasoned'
  BY <1>3, <1>5 DEF Reasoned
<1>6. CASE HandleClientData
  <2>1. CASE Gathered
    <3>1. due' = TRUE /\ UNCHANGED <<gdbasserting_break, stop, hart, shadow_running_state, odd>>
      BY <2>1 DEF Gathered, Taken, Quiet, target
    <3> QED BY <1>3, <3>1 DEF Reasoned
  <2>2. CASE Broken
    <3>1. due' = TRUE /\ Break(Brk)
      BY <2>2 DEF Broken, Taken
    <3>2. shadow_running_state # 0
      BY <1>1, <1>3, <3>1, BreakEffect
    <3>3. /\ UNCHANGED <<shadow_running_state, odd>> /\ hart'.run = FALSE
          /\ stop' = "break"
      BY <1>1, <3>1, <3>2, BreakEffect
    <3> QED BY <1>3, <3>1, <3>2, <3>3 DEF Reasoned
  <2>3. CASE Handled
    <3>1. payload # <<>> /\ \E a \in Addrs : Served(Cmd, a)
      BY <2>3, Dispatch
    <3>2. ~gdbasserting_break
      BY <1>3, <3>1 DEF Agreed, Reasoned
    <3>3. /\ gdbasserting_break' => gdbasserting_break
          /\ "reason" \in odd' => "reason" \in odd \/ (gdbasserting_break /\ stop # "break")
      BY <1>1, <3>1, ServedStops
    <3> QED BY <1>4, <3>2, <3>3
  <2> QED BY <1>1, <1>6, <2>1, <2>2, <2>3, Handling
<1>7. CASE NetPoll
  <2>1. UNCHANGED <<code, shown>> /\ (ReportHalt \/ ReportRun \/ ReportNothing)
    BY <1>7 DEF NetPoll
  <2>2. CASE ReportHalt
    <3>1. /\ gdbasserting_break' = FALSE
          /\ "reason" \in odd' => "reason" \in odd \/ (gdbasserting_break /\ stop # "break")
      BY <1>1, <2>1, <2>2, ReportHaltEffect
    <3> QED BY <1>4, <3>1
  <2>3. CASE ReportRun
    <3>1. hart.run /\ gdbasserting_break' = gdbasserting_break /\ odd' = odd
      BY <1>1, <2>1, <2>3, ReportRunEffect
    <3>2. ~gdbasserting_break
      BY <1>3, <3>1 DEF Reasoned
    <3> QED BY <1>3, <3>1, <3>2 DEF Reasoned
  <2>4. CASE ReportNothing
    <3>1. /\ gdbasserting_break' = gdbasserting_break /\ odd' = odd
          /\ shadow_running_state = IF hart.run THEN 1024 ELSE 0
      BY <1>1, <1>3, <2>1, <2>4, ReportNothingEffect
    <3>2. ~gdbasserting_break
      BY <1>3, <3>1 DEF Reasoned
    <3> QED BY <1>3, <3>1, <3>2 DEF Reasoned
  <2> QED BY <2>1, <2>2, <2>3, <2>4
<1>8. CASE Execute
  <2>1. hart.run /\ gdbasserting_break' = gdbasserting_break /\ odd' = odd
    BY <1>1, <1>8, ExecuteEffect
  <2>2. ~gdbasserting_break
    BY <1>3, <2>1 DEF Reasoned
  <2> QED BY <1>3, <2>1, <2>2 DEF Reasoned
<1>9. CASE Accept \/ Close
  <2>1. gdbasserting_break' = gdbasserting_break /\ odd' = odd
    BY <1>9 DEF Accept, Close, Disconnect
  <2>2. ~due
    BY <1>1, <1>9 DEF Accept, Close, WireInv
  <2>3. ~gdbasserting_break
    BY <1>3, <2>2 DEF Reasoned
  <2> QED BY <1>3, <2>1, <2>3 DEF Reasoned
<1>10. CASE Client \/ UNCHANGED vars
  BY <1>5, <1>10 DEF Client, Connect, Send, Interrupt, Receive, Drop, Others, vars, target
<1> QED BY <1>6, <1>7, <1>8, <1>9, <1>10 DEF Next, Server

(* A "monitor resume" is a packet of its own. *)
LEMMA Quieted ==
    ASSUME TypeInv, CauseInv, [Next]_vars
    PROVE  payload' # <<>> => "monitor" \notin lapse'
<1>1. StateType /\ WireInv /\ (payload # <<>> => "monitor" \notin lapse)
  BY DEF TypeInv, CauseInv
<1>2. ASSUME payload' = <<>> \/ payload' = payload,
             "monitor" \in lapse' => "monitor" \in lapse
      PROVE  payload' # <<>> => "monitor" \notin lapse'
  BY <1>1, <1>2
<1>3. CASE HandleClientData
  <2>1. CASE Gathered
    <3>1. payload' = payload /\ lapse' = lapse
      BY <2>1 DEF Gathered, Quiet
    <3> QED BY <1>2, <3>1
  <2>2. CASE Broken \/ Handled
    BY <2>2 DEF Broken, Handled
  <2> QED BY <1>1, <1>3, <2>1, <2>2, Handling
<1>4. CASE NetPoll
  <2>1. payload' = payload /\ (ReportHalt \/ ReportRun \/ ReportNothing)
    BY <1>4 DEF NetPoll
  <2>2. CASE ReportHalt
    <3>1. PICK f \in {"none", "save"} : Lapses(LostBy(f))
      BY <2>2 DEF ReportHalt, SaveAndReport
    <3>2. "monitor" \in lapse' => "monitor" \in lapse
      BY <3>1 DEF Lapses, LostBy
    <3> QED BY <1>2, <2>1, <3>2
  <2>3. CASE ReportRun \/ ReportNothing
    <3>1. lapse' = lapse \/ Lapses({"poll"})
      BY <2>3 DEF ReportRun, ReportNothing
    <3>2. "monitor" \in lapse' => "monitor" \in lapse
      BY <3>1 DEF Lapses
    <3> QED BY <1>2, <2>1, <3>2
  <2> QED BY <2>1, <2>2, <2>3
<1>5. CASE Accept
  <2>1. listenMode = 1 /\ payload' = payload
    BY <1>5 DEF Accept
  <2>2. payload' = <<>>
    BY <1>1, <2>1 DEF WireInv, Absent
  <2> QED BY <2>2
<1>6. CASE Close
  BY <1>6 DEF Close
<1>7. CASE Send
  <2>1. "monitor" \notin lapse /\ lapse' = lapse
    BY <1>7 DEF Send, Others
  <2> QED BY <2>1
<1>8. CASE Execute \/ Connect \/ Interrupt \/ Receive \/ Drop \/ UNCHANGED vars
  <2>1. (payload' = <<>> \/ payload' = payload) /\ lapse' = lapse
    BY <1>8 DEF Execute, Connect, Interrupt, Receive, Drop, Others, vars
  <2> QED BY <1>2, <2>1
<1> QED BY <1>3, <1>4, <1>5, <1>6, <1>7, <1>8 DEF Next, Server, Client

LEMMA CauseStep ==
    ASSUME TypeInv, DialogueInv, CauseInv, [Next]_vars
    PROVE  CauseInv'
<1>1. StateType /\ WireInv /\ lapse \subseteq lapse'
  BY LapsesStay DEF TypeInv
<1> DEFINE clear == lapse' \cap {"step bit", "monitor", "control"} = {}
<1>2. clear => Caused /\ Agreed /\ ~hart.step
  BY <1>1 DEF CauseInv, DialogueInv
<1>3. (hart.step => "step bit" \in lapse') /\ "running" \notin odd
      /\ (payload' # <<>> => "monitor" \notin lapse')
  BY <1>1, Quieted DEF CauseInv
<1>4. ASSUME UNCHANGED <<hart, mem, stop, shadow_running_state, odd>>
      PROVE  CauseInv'
  <2>1. Caused => Caused'
    BY <1>4 DEF Caused
  <2> QED BY <1>2, <1>3, <1>4, <2>1 DEF CauseInv
<1>5. ASSUME clear => \/ shadow_running_state' = 0 /\ stop' # "none"
                      \/ shadow_running_state' # 0 /\ hart'.run,
             clear => "cause" \notin odd', "running" \notin odd',
             hart'.step => "step bit" \in lapse'
      PROVE  CauseInv'
  <2>1. clear => Caused'
    BY <1>5 DEF Caused
  <2> QED BY <1>3, <1>5, <2>1 DEF CauseInv
<1>6. CASE HandleClientData
  <2>1. CASE Gathered
    BY <1>4, <2>1 DEF Gathered, Quiet, target
  <2>2. CASE Broken
    <3>1. /\ UNCHANGED <<shadow_running_state, odd>> /\ hart'.step = hart.step
          /\ shadow_running_state # 0 => stop' = "break"
          /\ shadow_running_state = 0 => stop' = stop
      BY <1>1, <2>2, BreakEffect DEF Broken
    <3>2. clear => Caused'
      BY <1>2, <3>1 DEF Caused
    <3> QED BY <1>3, <3>1, <3>2 DEF CauseInv
  <2>3. CASE Handled
    <3>1. payload # <<>> /\ \E a \in Addrs : Served(Cmd, a)
      BY <2>3, Dispatch
    <3>2. /\ "cause" \in odd' => "cause" \in odd \/ stop = "none" \/ "control" \in lapse'
          /\ "running" \in odd' => "running" \in odd \/ hart.run
          /\ hart'.step => hart.step \/ "step bit" \in lapse'
          /\ shadow_running_state = 0 =>
                \/ shadow_running_state' = 0 /\ (stop' = stop \/ stop' = "told")
                \/ shadow_running_state' # 0 /\ (hart'.run \/ "control" \in lapse')
      BY <1>1, <3>1, ServedStops
    <3>3. shadow_running_state = 0 /\ ~hart.run
      BY <3>1 DEF Agreed, CauseInv, DialogueInv
    <3>4. clear => stop # "none" /\ "cause" \notin odd /\ "control" \notin lapse'
      BY <1>2, <3>3 DEF Caused
    <3>5. hart'.step => "step bit" \in lapse'
      BY <1>3, <3>2
    <3>6. "running" \notin odd' /\ (clear => "cause" \notin odd')
      BY <1>3, <3>2, <3>3, <3>4
    <3>7. clear => \/ shadow_running_state' = 0 /\ stop' # "none"
                   \/ shadow_running_state' # 0 /\ hart'.run
      BY <3>2, <3>3, <3>4
    <3> QED BY <1>5, <3>5, <3>6, <3>7
  <2> QED BY <1>1, <1>6, <2>1, <2>2, <2>3, Handling
<1>7. CASE NetPoll
  <2>1. UNCHANGED <<code, shown>> /\ (ReportHalt \/ ReportRun \/ ReportNothing)
    BY <1>7 DEF NetPoll
  <2>2. CASE ReportHalt
    <3>1. /\ hart' = hart /\ ~hart.run /\ shadow_running_state # 0 /\ shadow_running_state' = 0
          /\ stop' = "told"
          /\ "cause" \in odd' => "cause" \in odd \/ (stop = "none" /\ mem[hart.pc] # "ebreak")
          /\ "running" \in odd' => "running" \in odd
      BY <1>1, <2>1, <2>2, ReportHaltEffect
    <3>2. clear => "cause" \notin odd'
      BY <1>2, <3>1 DEF Caused
    <3>3. "running" \notin odd' /\ (hart'.step => "step bit" \in lapse') /\ stop' # "none"
      BY <1>3, <3>1
    <3> QED BY <1>5, <3>1, <3>2, <3>3
  <2>3. CASE ReportRun
    <3>1. hart.run /\ hart' = hart /\ odd' = odd /\ shadow_running_state' = 1024
      BY <1>1, <2>1, <2>3, ReportRunEffect
    <3>2. shadow_running_state' # 0
      BY <3>1
    <3>3. "running" \notin odd' /\ (clear => "cause" \notin odd')
      BY <1>2, <1>3, <3>1 DEF Caused
    <3> QED BY <1>3, <1>5, <3>1, <3>2, <3>3
  <2>4. CASE ReportNothing
    BY <1>1, <1>4, <2>1, <2>4, ReportNothingEffect
  <2> QED BY <2>1, <2>2, <2>3, <2>4
<1>8. CASE Execute
  <2>1. /\ UNCHANGED <<mem, stop, odd, shadow_running_state>> /\ hart'.step = hart.step
        /\ ~hart'.run /\ ~hart.step => mem[hart'.pc] = "ebreak"
    BY <1>1, <1>8, ExecuteEffect
  <2>2. clear => Caused'
    BY <1>2, <2>1 DEF Caused
  <2> QED BY <1>3, <2>1, <2>2 DEF CauseInv
<1>9. CASE Accept
  <2>1. shadow_running_state' = 0 /\ odd' = odd /\ (hart'.step => hart.step)
        /\ stop' = "connect"
    BY <1>1, <1>9, AcceptEffect
  <2>2. (clear => "cause" \notin odd') /\ "running" \notin odd' /\ stop' # "none"
    BY <1>2, <1>3, <2>1 DEF Caused
  <2> QED BY <1>3, <1>5, <2>1, <2>2
<1>10. CASE Close
  <2>1. Disconnect /\ tx' \in Seq(Replies)
    BY <1>10 DEF Close
  <2>2. (hart'.run \/ "control" \in lapse') /\ odd' = odd /\ (hart'.step => hart.step)
        /\ shadow_running_state' = 1
    BY <1>1, <2>1, DisconnectEffect
  <2>3. shadow_running_state' # 0 /\ (clear => hart'.run)
    <3>1. shadow_running_state' # 0
      BY <2>2
    <3>2. clear => "control" \notin lapse'
      OBVIOUS
    <3> HIDE DEF clear
    <3> QED BY <2>2, <3>1, <3>2
  <2>4. (clear => "cause" \notin odd') /\ "running" \notin odd'
    BY <1>2, <1>3, <2>2 DEF Caused
  <2> QED BY <1>3, <1>5, <2>2, <2>3, <2>4
<1>11. CASE Client \/ UNCHANGED vars
  BY <1>4, <1>11 DEF Client, Connect, Send, Interrupt, Receive, Drop, Others, vars, target
<1> QED BY <1>6, <1>7, <1>8, <1>9, <1>10, <1>11 DEF Next, Server

(* A stop reply is of a halted hart; SIGINT is its reason only after a      *)
(* break, and without a break or a step there is an ebreak where it stands; *)
(* "?" never runs ahead of RVNetPoll.  A lost resume or step bit voids the  *)
(* claim about the cause.                                                   *)
THEOREM GdbStopsExplained == Spec => []StopsExplained
<1>1. Init => ReasonInv /\ CauseInv
  BY DEF Init, ReasonInv, Reasoned, CauseInv, Caused
<1>2. TypeInv /\ DialogueInv /\ ReasonInv /\ [Next]_vars => ReasonInv'
  BY ReasonStep
<1>3. TypeInv /\ DialogueInv /\ CauseInv /\ [Next]_vars => CauseInv'
  BY CauseStep
<1>4. ReasonInv /\ CauseInv => StopsExplained
  BY DEF ReasonInv, Reasoned, CauseInv, Caused, StopsExplained
<1> QED BY <1>1, <1>2, <1>3, <1>4, GdbTyped, GdbDialogue, PTL DEF Spec

=============================================================================
