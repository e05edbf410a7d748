------------------------- MODULE MemoryAccessProofs -------------------------
(***************************************************************************)
(* Theorems about minichlink's memory access, for every value of its       *)
(* constants: what the cached values claim is true, and every access keeps *)
(* the promise of TargetMemory.                                            *)
(***************************************************************************)
EXTENDS MemoryAccess, TLAPS

-----------------------------------------------------------------------------
(* The debug module keeps its shape whatever it is told to run. *)

LEMMA StoreType ==
    ASSUME NEW h \in Hardware, NEW a, NEW w \in Values
    PROVE  StoreAt(h, a, w) \in Hardware
BY MemoryAssumption DEF StoreAt, Hardware, Words

LEMMA LoadType ==
    ASSUME NEW h \in Hardware, NEW a \in Nat
    PROVE  LoadAt(h, a) \in Hardware
<1>1. CASE a \notin Words
  BY <1>1 DEF LoadAt, Hardware
<1>2. CASE a \in Words
  <2>1. h.mem[a] \in Values
    BY <1>2 DEF Hardware
  <2>2. (IF h.prog = "readInc" THEN a + 1 ELSE a) \in Nat
    OBVIOUS
  <2>3. QED
    BY <1>2, <2>1, <2>2 DEF LoadAt, Hardware
<1>3. QED
  BY <1>1, <1>2

LEMMA AdvanceType ==
    ASSUME NEW h \in Hardware
    PROVE  Advance(h) \in Hardware
BY DEF Advance, Hardware

LEMMA RunType ==
    ASSUME NEW h \in Hardware
    PROVE  Run(h) \in Hardware
<1>1. h.d0 \in Values /\ h.d1 \in Nat
  BY DEF Hardware
<1>2. StoreAt(h, h.base, h.d0) \in Hardware
  BY <1>1, StoreType
<1>3. LoadAt(h, h.d1) \in Hardware
  BY <1>1, LoadType
<1>4. Advance(StoreAt(h, h.d1, h.d0)) \in Hardware
  BY <1>1, StoreType, AdvanceType
<1>5. [h EXCEPT !.cmderr = TRUE] \in Hardware
  BY DEF Hardware
<1>6. QED
  BY <1>2, <1>3, <1>4, <1>5 DEF Run

LEMMA PutType ==
    ASSUME NEW h \in Hardware, NEW v \in Values
    PROVE  Access(h) \in Hardware /\ PutDATA0(h, v) \in Hardware
<1>1. [h EXCEPT !.d0 = v] \in Hardware
  BY DEF Hardware
<1>2. QED
  BY <1>1, RunType DEF Access, PutDATA0

LEMMA WaitType ==
    ASSUME NEW h \in Hardware
    PROVE  WaitForDoneOp(h) \in Hardware
BY DEF WaitForDoneOp, Hardware

LEMMA UpdateType ==
    ASSUME NEW h \in Hardware, NEW failed \in BOOLEAN
    PROVE  StaticUpdate(h, failed) \in Hardware
BY MemoryAssumption DEF StaticUpdate, Hardware

(* A run changes neither what is loaded nor whether autoexec is armed. *)
LEMMA RunKeeps ==
    ASSUME NEW h \in Hardware
    PROVE  /\ Run(h).autoexec = h.autoexec
           /\ Run(h).prog = h.prog
           /\ Run(h).base = h.base
BY DEF Run, StoreAt, LoadAt, Advance, Hardware

(* What the two loaded programs do when they have their bases, no error is   *)
(* pending and DATA1 holds an address.                                      *)
LEMMA RunWrites ==
    ASSUME NEW h \in Hardware, NEW a \in Words, NEW v \in Values,
           h.d0 = v, h.d1 = a, h.base = AtData, ~h.cmderr, ~running,
           h.prog = IF a \in Flash THEN "writeFlash" ELSE "writeRam"
    PROVE  /\ Run(h).d0 = v /\ Run(h).d1 = a + 1 /\ ~Run(h).cmderr
           /\ a \in Flash => /\ Run(h).buf = [h.buf EXCEPT ![a] = v]
                             /\ Run(h).mem = [h.mem EXCEPT ![CTLR] = Load]
           /\ a \notin Flash => /\ Run(h).buf = h.buf
                                /\ Run(h).mem = [h.mem EXCEPT ![a] = v]
<1>1. Run(h) = Advance(StoreAt(h, a, v))
  BY DEF Run
<1>2. CASE a \in Flash
  <2>1. StoreAt(h, a, v) = [h EXCEPT !.buf = [@ EXCEPT ![a] = v],
                                     !.mem = [@ EXCEPT ![CTLR] = Load]]
    BY <1>2 DEF StoreAt
  <2>2. QED
    BY <1>1, <1>2, <2>1 DEF Advance, Hardware
<1>3. CASE a \notin Flash
  <2>1. StoreAt(h, a, v) = [h EXCEPT !.mem = [@ EXCEPT ![a] = v]]
    BY <1>3 DEF StoreAt
  <2>2. QED
    BY <1>1, <1>3, <2>1 DEF Advance, Hardware
<1>4. QED
  BY <1>2, <1>3

LEMMA RunReads ==
    ASSUME NEW h \in Hardware, h.base = AtData, ~h.cmderr, ~running,
           h.prog \in {"readInc", "read"}
    PROVE  /\ Run(h).mem = h.mem /\ Run(h).buf = h.buf
           /\ h.d1 \notin Words => Run(h).cmderr
           /\ h.d1 \in Words =>
                 /\ ~Run(h).cmderr /\ Run(h).d0 = h.mem[h.d1]
                 /\ Run(h).d1 = h.d1 + (IF h.prog = "readInc" THEN 1 ELSE 0)
<1>1. Run(h) = LoadAt(h, h.d1)
  BY DEF Run
<1>2. h.d1 \in Nat
  BY DEF Hardware
<1>3. CASE h.d1 \notin Words
  BY <1>1, <1>3 DEF LoadAt, Hardware
<1>4. CASE h.d1 \in Words
  <2>1. (IF h.prog = "readInc" THEN h.d1 + 1 ELSE h.d1)
           = h.d1 + (IF h.prog = "readInc" THEN 1 ELSE 0)
    BY <1>2
  <2>2. LoadAt(h, h.d1) = [h EXCEPT !.d0 = h.mem[h.d1],
                 !.d1 = IF h.prog = "readInc" THEN h.d1 + 1 ELSE h.d1]
    BY <1>4 DEF LoadAt
  <2>3. QED
    BY <1>1, <1>4, <2>1, <2>2 DEF Hardware
<1>5. QED
  BY <1>3, <1>4

-----------------------------------------------------------------------------
(* Every operation keeps the shape, in doubt or not. *)

LEMMA WordsType == Words \subseteq Nat /\ CTLR \in Words /\ STATR \in Words
BY MemoryAssumption DEF Words

LEMMA PreparedType ==
    ASSUME hw \in Hardware, NEW a \in Words, NEW failed \in BOOLEAN
    PROVE  Prepared(a, failed) \in Hardware
<1> DEFINE off == IF Fresh THEN [hw EXCEPT !.autoexec = FALSE] ELSE hw
           set == IF Sequence THEN off ELSE StaticUpdate(off, failed)
<1>1. off \in Hardware
  BY DEF Hardware
<1>2. set \in Hardware
  BY <1>1, UpdateType
<1>3. [set EXCEPT !.prog = IF a \in Flash THEN "writeFlash" ELSE "writeRam",
                  !.d1 = a] \in Hardware
  <2>1. (IF a \in Flash THEN "writeFlash" ELSE "writeRam") \in Programs /\ a \in Nat
    BY WordsType DEF Programs
  <2> HIDE DEF set
  <2>2. QED
    BY <1>2, <2>1 DEF Hardware
<1>4. [hw EXCEPT !.d1 = a] \in Hardware
  BY WordsType DEF Hardware
<1> HIDE DEF set
<1>5. Prepared(a, failed) =
        IF Rewrite(a)
        THEN [set EXCEPT !.prog = IF a \in Flash THEN "writeFlash" ELSE "writeRam",
                         !.d1 = a]
        ELSE IF a # currentstateval THEN [hw EXCEPT !.d1 = a] ELSE hw
  BY DEF Prepared, set
<1>6. QED
  BY <1>3, <1>4, <1>5

LEMMA WrittenType ==
    ASSUME hw \in Hardware, armable \in BOOLEAN, hw.autoexec => armable,
           NEW a \in Words, NEW v \in Data, NEW failed \in BOOLEAN
    PROVE  /\ Written(a, v, failed) \in Hardware
           /\ Written(a, v, failed).autoexec => armable
<1> DEFINE put == PutDATA0(Prepared(a, failed), v)
           ran == IF Fresh \/ ~armable THEN Run(put) ELSE put
           on  == [ran EXCEPT !.autoexec = IF Fresh THEN armable ELSE @]
<1>1. v \in Values
  BY MemoryAssumption
<1>2. put \in Hardware
  BY <1>1, PreparedType, PutType
<1>3. put.autoexec => armable
  <2>1. Prepared(a, failed).autoexec => armable
    BY DEF Prepared, StaticUpdate, Hardware
  <2>2. [Prepared(a, failed) EXCEPT !.d0 = v] \in Hardware
    BY <1>1, PreparedType DEF Hardware
  <2>3. QED
    BY <2>1, <2>2, RunKeeps, PreparedType DEF PutDATA0, Access, Hardware
<1> HIDE DEF put
<1>4. ran \in Hardware /\ (ran.autoexec => armable)
  BY <1>2, <1>3, RunType, RunKeeps
<1> HIDE DEF ran
<1>5. on \in Hardware /\ (on.autoexec => armable)
  BY <1>4 DEF Hardware
<1> HIDE DEF on
<1>6. Written(a, v, failed) = IF a \in Flash THEN WaitForDoneOp(on) ELSE on
  BY DEF Written, on, ran, put
<1>7. QED
  BY <1>5, <1>6, WaitType DEF WaitForDoneOp, Hardware

LEMMA LoadedType ==
    ASSUME hw \in Hardware, armable \in BOOLEAN, hw.autoexec => armable,
           NEW a \in Words, NEW failed \in BOOLEAN
    PROVE  /\ Loaded(a, failed) \in Hardware
           /\ Loaded(a, failed).autoexec => armable
<1> DEFINE set == IF statetag = "WRSQ" THEN hw ELSE StaticUpdate(hw, failed)
<1>1. set \in Hardware
  BY UpdateType
<1> HIDE DEF set
<1>2. (IF Increments(a) THEN "readInc" ELSE "read") \in Programs
  BY DEF Programs
<1>3. [set EXCEPT !.autoexec = armable,
                  !.prog = IF Increments(a) THEN "readInc" ELSE "read"] \in Hardware
  BY <1>1, <1>2 DEF Hardware
<1>4. [set EXCEPT !.autoexec = armable,
                  !.prog = IF Increments(a) THEN "readInc" ELSE "read"].autoexec = armable
  BY <1>1 DEF Hardware
<1>5. QED
  BY <1>3, <1>4 DEF Loaded, set

LEMMA SampledType ==
    ASSUME hw \in Hardware, armable \in BOOLEAN, hw.autoexec => armable,
           NEW a \in Words, NEW failed \in BOOLEAN
    PROVE  /\ Sampled(a, failed) \in Hardware
           /\ Sampled(a, failed).autoexec => armable
<1> DEFINE at == [Loaded(a, failed) EXCEPT !.d1 = a]
<1>1. at \in Hardware /\ (at.autoexec => armable)
  BY LoadedType, WordsType DEF Hardware
<1> HIDE DEF at
<1>2. (IF armable THEN Run(at) ELSE at) \in Hardware
  BY <1>1, RunType
<1>3. (IF armable THEN Run(at) ELSE at).autoexec => armable
  BY <1>1, RunKeeps
<1>4. Started(a, failed) \in Hardware /\ (Started(a, failed).autoexec => armable)
  BY <1>2, <1>3, WaitType DEF Started, at, WaitForDoneOp, Hardware
<1>5. QED
  BY <1>4, RunType, RunKeeps DEF Sampled

LEMMA ReadDoneType ==
    ASSUME hw \in Hardware, armable \in BOOLEAN, hw.autoexec => armable,
           NEW a \in Words, NEW failed \in BOOLEAN
    PROVE  /\ ReadDone(a, failed) \in Hardware
           /\ ReadDone(a, failed).autoexec => armable
<1> DEFINE h == Access(Sampled(a, failed))
<1>1. h \in Hardware /\ (h.autoexec => armable)
  BY SampledType, RunType, RunKeeps DEF Access
<1> HIDE DEF h
<1>2. WaitForDoneOp(h) \in Hardware /\ WaitForDoneOp(h).autoexec = h.autoexec
  BY <1>1, WaitType DEF WaitForDoneOp, Hardware
<1>3. QED
  BY <1>1, <1>2 DEF ReadDone, h

-----------------------------------------------------------------------------
(* The accesses that are sure of themselves. *)

(* With nothing in doubt but a jump no error is pending and, when a sequence *)
(* is under way, its registers are set.                                     *)
LEMMA SureMeansReady ==
    ASSUME CacheTrue, doubt \subseteq {"jump"}
    PROVE  /\ ~hw.cmderr
           /\ Sequence => Sound /\ hw.base = AtData /\ hw.autoexec = armable
BY DEF CacheTrue, ErrorKnown, SequenceReady, Sound

(* What a sure write prepares: the right program with its bases, the address *)
(* in DATA1, and autoexec off or, in a sequence, as the chip has it.        *)
LEMMA PreparedSure ==
    ASSUME TypeOK, CacheTrue, NEW a \in Words, WriteSure(a)
    PROVE  LET p == Prepared(a, FALSE)
           IN  /\ p.d1 = a /\ p.base = AtData /\ ~p.cmderr
               /\ p.prog = IF a \in Flash THEN "writeFlash" ELSE "writeRam"
               /\ p.autoexec = (armable /\ ~Fresh)
               /\ p.mem = hw.mem /\ p.buf = hw.buf
<1>0. hw \in Hardware /\ armable \in BOOLEAN /\ doubt \subseteq {"jump"}
  BY DEF TypeOK, WriteSure
<1>1. ~hw.cmderr /\ (Sequence => Sound /\ hw.base = AtData /\ hw.autoexec = armable)
  BY <1>0, SureMeansReady
<1> DEFINE off == IF Fresh THEN [hw EXCEPT !.autoexec = FALSE] ELSE hw
           set == IF Sequence THEN off ELSE StaticUpdate(off, FALSE)
<1>2. CASE Rewrite(a)
  <2>1. off \in Hardware /\ ~off.cmderr /\ off.base = hw.base
        /\ off.autoexec = (IF Fresh THEN FALSE ELSE hw.autoexec)
        /\ off.mem = hw.mem /\ off.buf = hw.buf
    BY <1>0, <1>1 DEF Hardware
  <2>2. ~Fresh => Sequence
    BY DEF Fresh, Sequence
  <2> HIDE DEF off
  <2>3. /\ set \in Hardware /\ ~set.cmderr /\ set.base = AtData
        /\ set.autoexec = (armable /\ ~Fresh)
        /\ set.mem = hw.mem /\ set.buf = hw.buf
    <3>1. CASE Sequence
      BY <3>1, <2>1, <1>1, <1>0
    <3>2. CASE ~Sequence
      BY <3>2, <2>1, <2>2, UpdateType DEF StaticUpdate, Hardware
    <3>3. QED
      BY <3>1, <3>2
  <2> HIDE DEF set
  <2>4. Prepared(a, FALSE) =
          [set EXCEPT !.prog = IF a \in Flash THEN "writeFlash" ELSE "writeRam", !.d1 = a]
    BY <1>2 DEF Prepared, set, off
  <2>5. QED
    BY <2>3, <2>4 DEF Hardware
<1>3. CASE ~Rewrite(a)
  <2>1. statetag = "WRSQ" /\ lastwriteflags = (a \in Flash) /\ ~Fresh /\ Sequence
    BY <1>3 DEF Rewrite, Fresh, Sequence
  <2>2. hw.prog = IF lastwriteflags THEN "writeFlash" ELSE "writeRam"
    BY <1>1, <2>1 DEF CacheTrue, WriteAhead
  <2>3. a = currentstateval => hw.d1 = a
    <3>1. a = currentstateval => doubt = {}
      BY <1>3 DEF WriteSure
    <3>2. QED
      BY <1>1, <2>1, <3>1 DEF CacheTrue, WriteAhead
  <2>4. Prepared(a, FALSE) = IF a # currentstateval THEN [hw EXCEPT !.d1 = a] ELSE hw
    BY <1>3 DEF Prepared
  <2>5. CASE a # currentstateval
    BY <1>0, <1>1, <2>1, <2>2, <2>4, <2>5 DEF Hardware
  <2>6. CASE a = currentstateval
    BY <1>0, <1>1, <2>1, <2>2, <2>3, <2>4, <2>6
  <2>7. QED
    BY <2>5, <2>6
<1>4. QED
  BY <1>2, <1>3

(* What a sure write leaves: the word where TargetMemory wants it, the next  *)
(* address in DATA1, the program and its registers as they were prepared.   *)
LEMMA WrittenSure ==
    ASSUME TypeOK, CacheTrue, ~running, NEW a \in Words, NEW v \in Data, WriteSure(a)
    PROVE  LET h == Written(a, v, FALSE)
           IN  /\ h.d1 = a + 1 /\ h.base = AtData /\ ~h.cmderr /\ h.autoexec = armable
               /\ h.prog = IF a \in Flash THEN "writeFlash" ELSE "writeRam"
               /\ a \in Flash => /\ h.buf = [hw.buf EXCEPT ![a] = v]
                                 /\ h.mem = [hw.mem EXCEPT ![CTLR] = Load]
               /\ a \notin Flash => h.buf = hw.buf /\ h.mem = [hw.mem EXCEPT ![a] = v]
<1>0. hw \in Hardware /\ armable \in BOOLEAN /\ v \in Values
  BY MemoryAssumption DEF TypeOK
<1> DEFINE p   == Prepared(a, FALSE)
           q   == [p EXCEPT !.d0 = v]
           put == PutDATA0(p, v)
           ran == IF Fresh \/ ~armable THEN Run(put) ELSE put
           on  == [ran EXCEPT !.autoexec = IF Fresh THEN armable ELSE @]
<1>1. p \in Hardware
  BY <1>0, PreparedType
<1>2. /\ p.d1 = a /\ p.base = AtData /\ ~p.cmderr
      /\ p.prog = IF a \in Flash THEN "writeFlash" ELSE "writeRam"
      /\ p.autoexec = (armable /\ ~Fresh)
      /\ p.mem = hw.mem /\ p.buf = hw.buf
  BY PreparedSure
<1> HIDE DEF p
<1>3. /\ q \in Hardware /\ q.d0 = v /\ q.d1 = a /\ q.base = AtData /\ ~q.cmderr
      /\ q.prog = IF a \in Flash THEN "writeFlash" ELSE "writeRam"
      /\ q.autoexec = (armable /\ ~Fresh)
      /\ q.mem = hw.mem /\ q.buf = hw.buf
  BY <1>0, <1>1, <1>2 DEF Hardware
<1>4. put = IF q.autoexec THEN Run(q) ELSE q
  BY DEF PutDATA0, Access
<1> HIDE DEF q, put
<1>5. ran = Run(q)
  BY <1>0, <1>3, <1>4
<1>6. /\ Run(q) \in Hardware /\ Run(q).autoexec = q.autoexec
      /\ Run(q).prog = q.prog /\ Run(q).base = q.base
  BY <1>3, RunType, RunKeeps
<1>7. /\ Run(q).d1 = a + 1 /\ ~Run(q).cmderr
      /\ a \in Flash => /\ Run(q).buf = [hw.buf EXCEPT ![a] = v]
                        /\ Run(q).mem = [hw.mem EXCEPT ![CTLR] = Load]
      /\ a \notin Flash => /\ Run(q).buf = hw.buf
                           /\ Run(q).mem = [hw.mem EXCEPT ![a] = v]
  BY <1>0, <1>3, RunWrites
<1> HIDE DEF ran
<1>8. /\ on \in Hardware /\ on.autoexec = armable
      /\ on.d1 = Run(q).d1 /\ on.base = Run(q).base /\ on.cmderr = Run(q).cmderr
      /\ on.prog = Run(q).prog /\ on.buf = Run(q).buf /\ on.mem = Run(q).mem
  BY <1>0, <1>3, <1>5, <1>6 DEF Hardware
<1>9. Written(a, v, FALSE) = IF a \in Flash THEN WaitForDoneOp(on) ELSE on
  BY DEF Written, on, ran, put, p
<1> HIDE DEF on
<1>10. /\ WaitForDoneOp(on).autoexec = on.autoexec /\ ~WaitForDoneOp(on).cmderr
       /\ WaitForDoneOp(on).d1 = on.d1 /\ WaitForDoneOp(on).base = on.base
       /\ WaitForDoneOp(on).prog = on.prog
       /\ WaitForDoneOp(on).buf = on.buf /\ WaitForDoneOp(on).mem = on.mem
  BY <1>8 DEF WaitForDoneOp, Hardware
<1> DEFINE h == Written(a, v, FALSE)
<1>11. /\ h.autoexec = on.autoexec /\ ~h.cmderr /\ h.d1 = on.d1 /\ h.base = on.base
       /\ h.prog = on.prog /\ h.buf = on.buf /\ h.mem = on.mem
  BY <1>7, <1>8, <1>9, <1>10
<1> HIDE DEF h
<1>12. /\ h.d1 = a + 1 /\ h.base = AtData /\ ~h.cmderr /\ h.autoexec = armable
       /\ h.prog = IF a \in Flash THEN "writeFlash" ELSE "writeRam"
  BY <1>3, <1>6, <1>7, <1>8, <1>11
<1>13. a \in Flash => /\ h.buf = [hw.buf EXCEPT ![a] = v]
                      /\ h.mem = [hw.mem EXCEPT ![CTLR] = Load]
  BY <1>7, <1>8, <1>11
<1>14. a \notin Flash => h.buf = hw.buf /\ h.mem = [hw.mem EXCEPT ![a] = v]
  BY <1>7, <1>8, <1>11
<1>15. QED
  BY <1>12, <1>13, <1>14 DEF h

(* What a read that starts anew has loaded.                                 *)
LEMMA LoadedSure ==
    ASSUME TypeOK, CacheTrue, NEW a \in Words, doubt \subseteq {"jump"}, Restart(a)
    PROVE  LET l == Loaded(a, FALSE)
           IN  /\ l.base = AtData /\ ~l.cmderr /\ l.autoexec = armable
               /\ l.prog = IF NextInc(a) THEN "readInc" ELSE "read"
               /\ l.mem = hw.mem /\ l.buf = hw.buf
<1>0. hw \in Hardware /\ armable \in BOOLEAN
  BY DEF TypeOK
<1>1. ~hw.cmderr /\ (Sequence => Sound /\ hw.base = AtData /\ hw.autoexec = armable)
  BY SureMeansReady
<1>2. CASE Reload(a)
  <2> DEFINE set == IF statetag = "WRSQ" THEN hw ELSE StaticUpdate(hw, FALSE)
  <2>1. /\ set \in Hardware /\ set.base = AtData /\ ~set.cmderr
        /\ set.mem = hw.mem /\ set.buf = hw.buf
    BY <1>0, <1>1, UpdateType DEF StaticUpdate, Hardware, Sequence
  <2> HIDE DEF set
  <2>2. Loaded(a, FALSE) = [set EXCEPT !.autoexec = armable,
                              !.prog = IF Increments(a) THEN "readInc" ELSE "read"]
    BY <1>2 DEF Loaded, set
  <2>3. NextInc(a) = Increments(a)
    BY <1>2 DEF NextInc
  <2>4. QED
    BY <1>0, <2>1, <2>2, <2>3 DEF Hardware
<1>3. CASE ~Reload(a)
  <2>1. statetag = "RDSQ" /\ Sequence /\ NextInc(a) = autoincrement
    BY <1>3 DEF Reload, Sequence, NextInc
  <2>2. hw.prog = IF autoincrement THEN "readInc" ELSE "read"
    BY <1>1, <2>1 DEF CacheTrue, ReadAhead
  <2>3. Loaded(a, FALSE) = hw
    BY <1>3 DEF Loaded
  <2>4. QED
    BY <1>1, <2>1, <2>2, <2>3
<1>4. QED
  BY <1>2, <1>3

LEMMA NextType ==
    ASSUME TypeOK, NEW a \in Words
    PROVE  /\ NextInc(a) \in BOOLEAN
           /\ NextAddress(a) = a + (IF NextInc(a) THEN 1 ELSE 0)
<1>1. ~Restart(a) => currentstateval = a
  BY DEF Restart
<1>2. QED
  BY <1>1 DEF NextInc, NextAddress, Increments, TypeOK

(* The word a sure read returns, and the state it is in when it takes it.   *)
LEMMA SampledSure ==
    ASSUME TypeOK, CacheTrue, ~running, NEW a \in Words, doubt \subseteq {"jump"}
    PROVE  LET s == Sampled(a, FALSE)
           IN  /\ s.d0 \in since[a]
               /\ s.d1 = a + (IF NextInc(a) THEN 1 ELSE 0)
               /\ s.base = AtData /\ ~s.cmderr /\ s.autoexec = armable
               /\ s.prog = IF NextInc(a) THEN "readInc" ELSE "read"
               /\ s.mem = hw.mem /\ s.buf = hw.buf
<1>0. hw \in Hardware /\ armable \in BOOLEAN /\ (hw.autoexec => armable)
      /\ a \in Nat /\ hw.mem[a] \in since[a]
  BY WordsType DEF TypeOK, CacheTrue, ErrorKnown, SinceTrue
<1>1. CASE Restart(a)
  <2> DEFINE l  == Loaded(a, FALSE)
             at == [l EXCEPT !.d1 = a]
  <2>1. l \in Hardware
    BY <1>0, LoadedType
  <2>2. /\ l.base = AtData /\ ~l.cmderr /\ l.autoexec = armable
        /\ l.prog = IF NextInc(a) THEN "readInc" ELSE "read"
        /\ l.mem = hw.mem /\ l.buf = hw.buf
    BY <1>1, LoadedSure
  <2> HIDE DEF l
  <2>3. /\ at \in Hardware /\ at.d1 = a
        /\ at.base = AtData /\ ~at.cmderr /\ at.autoexec = armable
        /\ at.prog = IF NextInc(a) THEN "readInc" ELSE "read"
        /\ at.mem = hw.mem /\ at.buf = hw.buf
    BY <1>0, <2>1, <2>2 DEF Hardware
  <2> HIDE DEF at
  <2>4. /\ Run(at).mem = hw.mem /\ Run(at).buf = hw.buf /\ ~Run(at).cmderr
        /\ Run(at).d0 = hw.mem[a]
        /\ Run(at).d1 = a + (IF NextInc(a) THEN 1 ELSE 0)
    BY <2>3, RunReads
  <2>5. /\ Run(at) \in Hardware /\ Run(at).base = AtData
        /\ Run(at).autoexec = armable /\ Run(at).prog = at.prog
    BY <2>3, RunType, RunKeeps
  <2>6. Started(a, FALSE) = WaitForDoneOp(IF armable THEN Run(at) ELSE at)
    BY <1>1 DEF Started, at, l
  <2>7. WaitForDoneOp(Run(at)) = Run(at) /\ WaitForDoneOp(at) = at
    BY <2>3, <2>4, <2>5 DEF WaitForDoneOp, Hardware
  <2>8. Sampled(a, FALSE) = Run(at)
    BY <1>0, <2>6, <2>7 DEF Sampled
  <2>9. QED
    BY <1>0, <2>3, <2>4, <2>5, <2>8
<1>2. CASE ~Restart(a)
  <2>1. statetag = "RDSQ" /\ Sequence /\ a = currentstateval
    BY <1>2 DEF Restart, Sequence
  <2>2. NextInc(a) = autoincrement
    BY <1>2 DEF NextInc, Reload
  <2>3. ~hw.cmderr /\ Sound /\ hw.base = AtData /\ hw.autoexec = armable
    BY <2>1, SureMeansReady
  <2>4. /\ hw.prog = IF autoincrement THEN "readInc" ELSE "read"
        /\ hw.d1 = a + (IF armable /\ autoincrement THEN 1 ELSE 0)
        /\ armable => hw.d0 \in since[a]
    BY <2>1, <2>3 DEF CacheTrue, ReadAhead
  <2>5. Sampled(a, FALSE) = IF armable THEN hw ELSE Run(hw)
    BY <1>2 DEF Sampled, Started
  <2>6. CASE armable
    BY <2>2, <2>3, <2>4, <2>5, <2>6
  <2>7. CASE ~armable
    <3>1. hw.d1 = a
      BY <1>0, <2>4, <2>7
    <3>2. /\ Run(hw).mem = hw.mem /\ Run(hw).buf = hw.buf /\ ~Run(hw).cmderr
          /\ Run(hw).d0 = hw.mem[a]
          /\ Run(hw).d1 = a + (IF NextInc(a) THEN 1 ELSE 0)
      BY <1>0, <2>2, <2>3, <2>4, <3>1, RunReads
    <3>3. /\ Run(hw).base = AtData /\ Run(hw).autoexec = armable
          /\ Run(hw).prog = hw.prog
      BY <1>0, <2>3, RunKeeps
    <3>4. QED
      BY <1>0, <2>2, <2>4, <2>5, <2>7, <3>2, <3>3
  <2>8. QED
    BY <2>6, <2>7
<1>3. QED
  BY <1>1, <1>2

(* What a sure read leaves: the next word prefetched, or an error where no   *)
(* memory follows.                                                          *)
LEMMA ReadDoneSure ==
    ASSUME TypeOK, CacheTrue, ~running, NEW a \in Words, doubt \subseteq {"jump"}
    PROVE  LET h == ReadDone(a, FALSE)
               n == NextAddress(a)
           IN  /\ h.base = AtData /\ h.autoexec = armable
               /\ h.prog = IF NextInc(a) THEN "readInc" ELSE "read"
               /\ h.mem = hw.mem /\ h.buf = hw.buf
               /\ h.cmderr => Overruns(a)
               /\ n \in Words =>
                     /\ h.d1 = n + (IF armable /\ NextInc(a) THEN 1 ELSE 0)
                     /\ armable => h.d0 = hw.mem[n]
<1> DEFINE s == Sampled(a, FALSE)
           n == NextAddress(a)
           i == IF NextInc(a) THEN 1 ELSE 0
           g == Access(s)
<1>0. hw \in Hardware /\ armable \in BOOLEAN /\ (hw.autoexec => armable) /\ a \in Nat
  BY WordsType DEF TypeOK, CacheTrue, ErrorKnown
<1>1. s \in Hardware
  BY <1>0, SampledType
<1>2. /\ s.d1 = n /\ s.base = AtData /\ ~s.cmderr /\ s.autoexec = armable
      /\ s.prog = IF NextInc(a) THEN "readInc" ELSE "read"
      /\ s.mem = hw.mem /\ s.buf = hw.buf
  BY SampledSure, NextType
<1>3. NextInc(a) \in BOOLEAN /\ n = a + i
  BY NextType
<1> HIDE DEF s, n
<1>4. /\ Run(s).mem = hw.mem /\ Run(s).buf = hw.buf
      /\ n \in Words => ~Run(s).cmderr /\ Run(s).d0 = hw.mem[n] /\ Run(s).d1 = n + i
  BY <1>1, <1>2, RunReads
<1>5. /\ Run(s) \in Hardware /\ Run(s).base = AtData
      /\ Run(s).autoexec = armable /\ Run(s).prog = s.prog
  BY <1>1, <1>2, RunType, RunKeeps
<1>6. g = IF armable THEN Run(s) ELSE s
  BY <1>2 DEF Access
<1> HIDE DEF g
<1>7. /\ g \in Hardware /\ g.base = AtData /\ g.autoexec = armable /\ g.prog = s.prog
      /\ g.mem = hw.mem /\ g.buf = hw.buf
      /\ g.cmderr => armable /\ n \notin Words
      /\ n \in Words => /\ g.d1 = n + (IF armable THEN i ELSE 0)
                        /\ armable => g.d0 = hw.mem[n]
  <2>1. CASE armable
    BY <1>4, <1>5, <1>6, <2>1
  <2>2. CASE ~armable
    <3>1. n + 0 = n
      BY <1>0, <1>3
    <3>2. QED
      BY <1>0, <1>1, <1>2, <1>6, <2>2, <3>1
  <2>3. QED
    BY <2>1, <2>2
<1>8. g.cmderr => NextInc(a) /\ a + 1 \notin Words
  BY <1>0, <1>3, <1>7
<1> DEFINE w == WaitForDoneOp(g)
<1>9. /\ w.base = g.base /\ w.autoexec = g.autoexec /\ w.prog = g.prog
      /\ w.mem = g.mem /\ w.buf = g.buf /\ ~w.cmderr /\ w.d0 = g.d0 /\ w.d1 = g.d1
  BY <1>7 DEF WaitForDoneOp, Hardware
<1> HIDE DEF w
<1> DEFINE h == ReadDone(a, FALSE)
<1>10. h = IF n = RamEnd THEN w ELSE g
  BY DEF ReadDone, w, g, s, n
<1> HIDE DEF h
<1>11. /\ h.base = AtData /\ h.autoexec = armable /\ h.prog = s.prog
       /\ h.mem = hw.mem /\ h.buf = hw.buf /\ h.d0 = g.d0 /\ h.d1 = g.d1
  BY <1>7, <1>9, <1>10
<1>12. h.cmderr => g.cmderr /\ n # RamEnd
  BY <1>9, <1>10
<1>13. h.cmderr => Overruns(a)
  BY <1>7, <1>8, <1>12 DEF Overruns, n
<1>14. n \in Words => /\ h.d1 = n + (IF armable /\ NextInc(a) THEN 1 ELSE 0)
                      /\ armable => h.d0 = hw.mem[n]
  BY <1>3, <1>7, <1>11
<1>15. h.prog = IF NextInc(a) THEN "readInc" ELSE "read"
  BY <1>2, <1>11
<1>16. QED
  BY <1>11, <1>13, <1>14, <1>15 DEF h, n

-----------------------------------------------------------------------------
(* The inductive invariant is TypeOK and CacheTrue together: the cached      *)
(* claims need the shapes, and a word of memory keeps its type only if an    *)
(* error or an unset register is where CacheTrue says it may be.            *)

Inv == TypeOK /\ CacheTrue

Operations == [kind : {"none", "read", "write", "writeSmall", "other"},
               addr : Words, val : Nat, sure : BOOLEAN]

LEMMA OpType ==
    ASSUME NEW kind \in {"read", "write", "writeSmall", "other"}, NEW a \in Words,
           NEW v \in Nat, NEW sure \in BOOLEAN, Op(kind, a, v, sure)
    PROVE  op' \in Operations
BY WordsType DEF Op, Operations

LEMMA ForgetType ==
    ASSUME NEW h \in Hardware, Forget(h)
    PROVE  /\ since' \in [Words -> SUBSET Values]
           /\ \A a \in Words : h.mem[a] \in since'[a]
<1>1. \A a \in Words : h.mem[a] \in Values
  BY DEF Hardware
<1>2. QED
  BY <1>1 DEF Forget

(* Without a sequence, or with a lost one, the cache claims little.         *)
LEMMA NoSequence ==
    ASSUME ~Sound', ErrorKnown', TerminalReady', SinceTrue'
    PROVE  CacheTrue'
BY DEF CacheTrue, SequenceReady, ReadAhead, WriteAhead

LEMMA InitInv == Init => Inv
<1> SUFFICES ASSUME Init PROVE Inv
  OBVIOUS
<1>1. PICK armed \in BOOLEAN, err \in BOOLEAN, p \in Programs, b \in Strays :
        /\ armed => armable
        /\ hw = [d0 |-> 0, d1 |-> 0, autoexec |-> armed, prog |-> p,
                 base |-> b, cmderr |-> err,
                 mem |-> [a \in Words |-> 0], buf |-> [a \in Flash |-> 0]]
        /\ doubt = IF err THEN {"fault"} ELSE {}
  BY DEF Init
<1>2. hw \in Hardware
  BY <1>1, MemoryAssumption DEF Hardware
<1>3. TypeOK
  <2>0. currentstateval \in Int
    BY DEF Init
  <2>1. /\ armable \in BOOLEAN /\ areaEnd \in Ends /\ statetag = "XXXX"
        /\ lastwriteflags \in BOOLEAN /\ autoincrement \in BOOLEAN
        /\ running \in BOOLEAN
    BY DEF Init
  <2>2. since \in [Words -> SUBSET Values]
    BY MemoryAssumption DEF Init
  <2>3. op \in Operations
    BY WordsType DEF Init, Operations
  <2>4. doubt \subseteq Doubts
    BY <1>1 DEF Doubts
  <2>5. QED
    BY <1>2, <2>0, <2>1, <2>2, <2>3, <2>4 DEF TypeOK, Operations
<1>4. ~Sequence
  BY DEF Init, Sequence
<1>5. ErrorKnown
  BY <1>1 DEF ErrorKnown
<1>6. SinceTrue
  BY <1>1 DEF Init, SinceTrue
<1>8. TerminalReady
  BY DEF Init, TerminalReady
<1>7. QED
  BY <1>3, <1>4, <1>5, <1>6, <1>8
     DEF Inv, CacheTrue, Sound, SequenceReady, ReadAhead, WriteAhead

LEMMA ReadWordStep ==
    ASSUME Inv, NEW a \in Words, ReadWord(a)
    PROVE  Inv'
<1>0. /\ hw \in Hardware /\ armable \in BOOLEAN /\ (hw.autoexec => armable)
      /\ since \in [Words -> SUBSET Values] /\ doubt \subseteq Doubts
  BY DEF Inv, TypeOK, CacheTrue, ErrorKnown
<1>1. PICK failed \in BOOLEAN :
        /\ ~running
        /\ failed => Reload(a) /\ statetag # "WRSQ"
        /\ hw' = ReadDone(a, failed)
        /\ IF ReadSure /\ ~failed THEN since' = since ELSE Forget(hw')
        /\ Op("read", a, Sampled(a, failed).d0, ReadSure /\ ~failed)
        /\ DoubtAfter(ReadSure /\ ~failed,
                      (doubt \ {"jump"}) \cup (IF Overruns(a) THEN {"fault"} ELSE {}))
        /\ statetag' = "RDSQ"
        /\ currentstateval' = NextAddress(a)
        /\ autoincrement' = NextInc(a)
        /\ UNCHANGED <<config, lastwriteflags, running, runs>>
  BY DEF ReadWord
<1>2. hw' \in Hardware /\ (hw'.autoexec => armable')
  BY <1>0, <1>1, ReadDoneType DEF config
<1>3. since' \in [Words -> SUBSET Values]
  BY <1>0, <1>1, <1>2, ForgetType
<1>4. Sampled(a, failed).d0 \in Nat
  BY <1>0, SampledType, MemoryAssumption DEF Hardware
<1>5. op' \in Operations
  <2>1. (ReadSure /\ ~failed) \in BOOLEAN
    BY DEF ReadSure
  <2>2. QED
    BY <1>1, <1>4, <2>1, OpType
<1>6. doubt' \subseteq Doubts
  BY <1>0, <1>1 DEF DoubtAfter, Doubts
<1>7. currentstateval' \in Int /\ autoincrement' \in BOOLEAN
  BY <1>1, NextType, WordsType DEF Inv
<1>8. TypeOK'
  BY <1>1, <1>2, <1>3, <1>5, <1>6, <1>7 DEF Inv, TypeOK, Operations, config
<1>t. TerminalReady'
  BY <1>1 DEF TerminalReady
<1>9. CASE ReadSure /\ ~failed
  <2> DEFINE n == NextAddress(a)
  <2>1. /\ doubt \subseteq {"jump"} /\ since' = since
        /\ doubt' = IF Overruns(a) THEN {"fault"} ELSE {}
    BY <1>1, <1>9 DEF ReadSure, DoubtAfter
  <2>2. hw' = ReadDone(a, FALSE)
    BY <1>1, <1>9
  <2>3. /\ hw'.base = AtData /\ hw'.autoexec = armable
        /\ hw'.prog = IF NextInc(a) THEN "readInc" ELSE "read"
        /\ hw'.mem = hw.mem /\ hw'.buf = hw.buf
        /\ hw'.cmderr => Overruns(a)
        /\ n \in Words =>
              /\ hw'.d1 = n + (IF armable /\ NextInc(a) THEN 1 ELSE 0)
              /\ armable => hw'.d0 = hw.mem[n]
    BY <1>1, <2>1, <2>2, ReadDoneSure DEF Inv
  <2>4. Overruns(a) => n \notin Words
    BY NextType DEF Inv, Overruns
  <2>5. SinceTrue /\ SinceTrue'
    BY <2>1, <2>3 DEF Inv, CacheTrue, SinceTrue
  <2>6. ErrorKnown'
    BY <1>2, <2>1, <2>3 DEF ErrorKnown
  <2>7. SequenceReady'
    BY <1>1, <2>3 DEF SequenceReady, config
  <2>8. ReadAhead'
    <3>1. n \in Words /\ armable => hw'.d0 \in since'[n]
      BY <2>1, <2>3, <2>5 DEF SinceTrue
    <3>2. "fault" \in doubt' => n \notin Words
      BY <2>1, <2>4
    <3> HIDE DEF n
    <3>3. currentstateval' = n /\ autoincrement' = NextInc(a) /\ armable' = armable
      BY <1>1 DEF n, config
    <3>4. QED
      BY <2>3, <3>1, <3>2, <3>3 DEF ReadAhead
  <2>9. WriteAhead'
    BY <1>1 DEF WriteAhead
  <2>10. QED
    BY <1>8, <1>t, <2>5, <2>6, <2>7, <2>8, <2>9 DEF Inv, CacheTrue
<1>10. CASE ~(ReadSure /\ ~failed)
  <2>1. "fault" \in doubt' /\ "lost" \in doubt' /\ Forget(hw')
    BY <1>1, <1>10 DEF DoubtAfter
  <2>2. ErrorKnown'
    BY <1>2, <2>1 DEF ErrorKnown
  <2>3. SinceTrue'
    BY <1>2, <2>1, ForgetType DEF SinceTrue
  <2>4. QED
    BY <1>8, <1>t, <2>1, <2>2, <2>3, NoSequence DEF Inv, Sound
<1>11. QED
  BY <1>9, <1>10

LEMMA WriteWordStep ==
    ASSUME Inv, NEW a \in Words, NEW v \in Data, WriteWord(a, v)
    PROVE  Inv'
<1>0. /\ hw \in Hardware /\ armable \in BOOLEAN /\ (hw.autoexec => armable)
      /\ doubt \subseteq Doubts /\ currentstateval \in Int
      /\ v \in Nat /\ a \in Nat
  BY MemoryAssumption, WordsType DEF Inv, TypeOK, CacheTrue, ErrorKnown
<1>1. PICK failed \in BOOLEAN :
        /\ ~running
        /\ failed => ~Sequence
        /\ hw' = Written(a, v, failed) /\ Forget(hw')
        /\ Op("write", a, v, WriteSure(a) /\ ~failed)
        /\ DoubtAfter(WriteSure(a) /\ ~failed,
                      IF Rewrite(a) THEN doubt \ {"jump"}
                      ELSE IF a # currentstateval THEN doubt \cup {"jump"} ELSE doubt)
        /\ statetag' = "WRSQ"
        /\ currentstateval' = (IF Rewrite(a) THEN a ELSE currentstateval) + 1
        /\ lastwriteflags' = IF Rewrite(a) THEN a \in Flash ELSE lastwriteflags
        /\ UNCHANGED <<config, autoincrement, running, runs>>
  BY DEF WriteWord
<1>2. hw' \in Hardware /\ (hw'.autoexec => armable')
  BY <1>0, <1>1, WrittenType DEF config
<1>3. since' \in [Words -> SUBSET Values] /\ SinceTrue'
  BY <1>1, <1>2, ForgetType DEF SinceTrue
<1>4. op' \in Operations
  <2>1. (WriteSure(a) /\ ~failed) \in BOOLEAN
    BY DEF WriteSure
  <2>2. QED
    BY <1>0, <1>1, <2>1, OpType
<1>5. doubt' \subseteq Doubts
  BY <1>0, <1>1 DEF DoubtAfter, Doubts
<1>6. currentstateval' \in Int /\ lastwriteflags' \in BOOLEAN
  <2>1. currentstateval' \in Int
    BY <1>0, <1>1
  <2>2. lastwriteflags \in BOOLEAN
    BY DEF Inv, TypeOK
  <2>3. lastwriteflags' \in BOOLEAN
    <3>1. lastwriteflags' = IF Rewrite(a) THEN a \in Flash ELSE lastwriteflags
      BY <1>1
    <3>2. CASE Rewrite(a)
      BY <3>1, <3>2
    <3>3. CASE ~Rewrite(a)
      BY <2>2, <3>1, <3>3
    <3>4. QED
      BY <3>2, <3>3
  <2>4. QED
    BY <2>1, <2>3
<1>7. TypeOK'
  BY <1>1, <1>2, <1>3, <1>4, <1>5, <1>6 DEF Inv, TypeOK, Operations, config
<1>t. TerminalReady'
  BY <1>1 DEF TerminalReady
<1>8. CASE WriteSure(a) /\ ~failed
  <2>1. /\ doubt \subseteq {"jump"}
        /\ doubt' = IF Rewrite(a) THEN {}
                    ELSE IF a # currentstateval THEN {"jump"} ELSE doubt
    BY <1>1, <1>8 DEF WriteSure, DoubtAfter
  <2>2. /\ hw'.d1 = a + 1 /\ hw'.base = AtData /\ ~hw'.cmderr /\ hw'.autoexec = armable
        /\ hw'.prog = IF a \in Flash THEN "writeFlash" ELSE "writeRam"
    <3>1. hw' = Written(a, v, FALSE)
      BY <1>1, <1>8
    <3>2. ~running /\ WriteSure(a) /\ TypeOK /\ CacheTrue
      BY <1>1, <1>8 DEF Inv
    <3>3. QED
      BY <3>1, <3>2, WrittenSure
  <2>3. lastwriteflags' = (a \in Flash)
    BY <1>1 DEF Rewrite, Inv, TypeOK
  <2>4. "fault" \notin doubt'
    BY <2>1
  <2>5. doubt' = {} => currentstateval' = a + 1
    BY <1>0, <1>1, <2>1
  <2>6. ErrorKnown'
    BY <1>2, <2>2 DEF ErrorKnown
  <2>7. SequenceReady'
    BY <1>1, <2>2 DEF SequenceReady, config
  <2>8. ReadAhead'
    BY <1>1 DEF ReadAhead
  <2>9. WriteAhead'
    BY <2>2, <2>3, <2>4, <2>5 DEF WriteAhead
  <2>10. QED
    BY <1>3, <1>7, <1>t, <2>6, <2>7, <2>8, <2>9 DEF Inv, CacheTrue
<1>9. CASE ~(WriteSure(a) /\ ~failed)
  <2>1. "fault" \in doubt' /\ "lost" \in doubt'
    BY <1>1, <1>9 DEF DoubtAfter
  <2>2. ErrorKnown'
    BY <1>2, <2>1 DEF ErrorKnown
  <2>3. QED
    BY <1>3, <1>7, <1>t, <2>1, <2>2, NoSequence DEF Inv, Sound
<1>10. QED
  BY <1>8, <1>9

LEMMA EndOfBlobStep ==
    ASSUME Inv, EndOfBlob
    PROVE  Inv'
<1>1. /\ hw \in Hardware /\ doubt \subseteq Doubts /\ doubt' = doubt \ {"fault"}
      /\ hw' = WaitForDoneOp(hw) /\ Op("other", CTLR, 0, TRUE)
      /\ UNCHANGED <<config, cache, running, runs, since>>
  BY DEF EndOfBlob, Inv, TypeOK
<1>2. hw' \in Hardware
  BY <1>1, WaitType
<1>3. /\ ~hw'.cmderr /\ hw'.autoexec = hw.autoexec /\ hw'.base = hw.base
      /\ hw'.prog = hw.prog /\ hw'.mem = hw.mem /\ hw'.d0 = hw.d0 /\ hw'.d1 = hw.d1
  BY <1>1 DEF WaitForDoneOp, Hardware
<1>4. op' \in Operations
  BY <1>1, OpType, WordsType
<1>5. TypeOK'
  BY <1>1, <1>2, <1>4 DEF Inv, TypeOK, Operations, config, cache
<1>6. ErrorKnown' /\ SinceTrue'
  BY <1>1, <1>3 DEF Inv, CacheTrue, ErrorKnown, SinceTrue, config
<1>t. TerminalReady'
  BY <1>1, <1>3 DEF Inv, CacheTrue, TerminalReady, cache
<1>7. Sound' => Sound
  BY <1>1 DEF Sound, Sequence, cache
<1>8. SequenceReady'
  BY <1>1, <1>3, <1>7 DEF Inv, CacheTrue, SequenceReady, config
<1>9. ReadAhead'
  BY <1>1, <1>3, <1>7 DEF Inv, CacheTrue, ReadAhead, config, cache
<1>10. WriteAhead'
  <2>1. Sound /\ statetag = "WRSQ" => "fault" \notin doubt
    BY DEF Inv, CacheTrue, WriteAhead
  <2>2. Sound /\ statetag = "WRSQ" => doubt' = doubt
    BY <1>1, <2>1
  <2>3. QED
    BY <1>1, <1>3, <1>7, <2>2 DEF Inv, CacheTrue, WriteAhead, cache
<1>11. QED
  BY <1>5, <1>6, <1>t, <1>8, <1>9, <1>10 DEF Inv, CacheTrue

(* The functions that take the tag away leave nothing to claim but where an  *)
(* error may be.                                                            *)
LEMMA VoidedInv ==
    ASSUME Inv, hw' \in Hardware, hw'.autoexec => armable, hw'.cmderr => "fault" \in doubt',
           statetag' \in {"XXXX", "TERM"}, doubt' \subseteq Doubts,
           statetag' = "TERM" => ~hw'.autoexec,
           since' \in [Words -> SUBSET Values], SinceTrue',
           op' \in Operations, currentstateval' \in Int, running' \in BOOLEAN,
           UNCHANGED <<config, lastwriteflags, autoincrement>>
    PROVE  Inv'
<1>1. TypeOK'
  BY DEF Inv, TypeOK, Operations, config
<1>2. ~Sound' /\ ErrorKnown' /\ TerminalReady'
  BY DEF Sound, Sequence, ErrorKnown, TerminalReady, config
<1>3. QED
  BY <1>1, <1>2, NoSequence DEF Inv

LEMMA SmallType ==
    ASSUME NEW h \in Hardware
    PROVE  /\ Small(h) \in Hardware /\ ~Small(h).autoexec /\ ~Small(h).cmderr
           /\ Small(h).mem = h.mem
BY DEF Small, Hardware, Programs

LEMMA WriteSmallStep ==
    ASSUME Inv, NEW a \in Ram, NEW v \in Data, WriteSmall(a, v)
    PROVE  Inv'
<1>1. hw \in Hardware /\ a \in Words /\ v \in Values /\ v \in Nat /\ running' \in BOOLEAN
  BY MemoryAssumption DEF Inv, TypeOK, Words, WriteSmall
<1> DEFINE s == Small(hw)
           m == IF hw.cmderr THEN s.mem ELSE [s.mem EXCEPT ![a] = v]
<1>2. s \in Hardware /\ ~s.autoexec /\ ~s.cmderr
  BY <1>1, SmallType
<1>3. hw' = [s EXCEPT !.d0 = v, !.mem = m]
  BY DEF WriteSmall
<1> HIDE DEF s
<1>4. hw' \in Hardware /\ ~hw'.autoexec /\ ~hw'.cmderr
  <2>1. m \in [Words -> Values]
    BY <1>1, <1>2 DEF Hardware
  <2> HIDE DEF m
  <2>2. QED
    BY <1>1, <1>2, <1>3, <2>1 DEF Hardware
<1>5. since' \in [Words -> SUBSET Values] /\ SinceTrue'
  BY <1>4, ForgetType DEF WriteSmall, SinceTrue
<1>6. op' \in Operations
  BY <1>1, OpType DEF WriteSmall
<1>7. QED
  BY <1>1, <1>4, <1>5, <1>6, VoidedInv DEF WriteSmall, config

LEMMA ReadSmallStep ==
    ASSUME Inv, NEW a \in Ram, ReadSmall(a)
    PROVE  Inv'
<1>1. hw \in Hardware /\ a \in Words /\ a \in Values
  BY MemoryAssumption DEF Inv, TypeOK, Words
<1> DEFINE s == Small(hw)
           d == IF hw.cmderr THEN a ELSE hw.mem[a]
<1>2. s \in Hardware /\ ~s.autoexec /\ ~s.cmderr /\ s.mem = hw.mem
  BY <1>1, SmallType
<1>3. hw' = [s EXCEPT !.d0 = d]
  BY DEF ReadSmall
<1>4. d \in Values
  BY <1>1 DEF Hardware
<1> HIDE DEF s, d
<1>5. hw' \in Hardware /\ ~hw'.autoexec /\ ~hw'.cmderr /\ hw'.mem = hw.mem /\ hw'.d0 = d
  BY <1>2, <1>3, <1>4 DEF Hardware
<1>6. since' = since /\ running' = running
  BY DEF ReadSmall
<1>7. since' \in [Words -> SUBSET Values] /\ SinceTrue' /\ running' \in BOOLEAN
  BY <1>5, <1>6 DEF Inv, TypeOK, CacheTrue, SinceTrue
<1>8. op' \in Operations
  <2>1. d \in Nat
    BY <1>4, MemoryAssumption
  <2>2. Op("read", a, hw'.d0, "fault" \notin doubt)
    BY DEF ReadSmall
  <2>3. QED
    BY <1>1, <1>5, <2>1, <2>2, OpType
<1>9. QED
  BY <1>5, <1>7, <1>8, VoidedInv DEF ReadSmall, config

LEMMA RegisterStep ==
    ASSUME Inv, ReadCPURegister \/ WriteCPURegister \/ VoidHighLevelState
    PROVE  Inv'
<1>1. /\ hw \in Hardware /\ doubt \subseteq Doubts /\ (hw.cmderr => "fault" \in doubt)
      /\ hw.autoexec => armable
  BY DEF Inv, TypeOK, CacheTrue, ErrorKnown
<1>2. PICK h \in Hardware :
        /\ Void(h, TRUE) /\ h.mem = hw.mem /\ h.cmderr = hw.cmderr
        /\ h.autoexec => hw.autoexec
  <2>1. CASE ReadCPURegister
    <3>1. PICK v \in Data :
            Void([hw EXCEPT !.autoexec = FALSE, !.d0 = IF hw.cmderr THEN @ ELSE v], TRUE)
      BY <2>1 DEF ReadCPURegister
    <3> DEFINE h == [hw EXCEPT !.autoexec = FALSE, !.d0 = IF hw.cmderr THEN @ ELSE v]
    <3>2. h \in Hardware /\ h.mem = hw.mem /\ h.cmderr = hw.cmderr /\ ~h.autoexec
      BY <1>1, MemoryAssumption DEF Hardware
    <3>3. QED
      BY <3>1, <3>2
  <2>2. CASE WriteCPURegister
    <3>1. PICK v \in Data, b \in {hw.base} \cup Strays :
            Void([hw EXCEPT !.autoexec = FALSE, !.d0 = v,
                            !.base = IF hw.cmderr THEN @ ELSE b], TRUE)
      BY <2>2 DEF WriteCPURegister
    <3> DEFINE h == [hw EXCEPT !.autoexec = FALSE, !.d0 = v,
                               !.base = IF hw.cmderr THEN @ ELSE b]
    <3>2. h \in Hardware /\ h.mem = hw.mem /\ h.cmderr = hw.cmderr /\ ~h.autoexec
      BY <1>1, MemoryAssumption DEF Hardware
    <3>3. QED
      BY <3>1, <3>2
  <2>3. CASE VoidHighLevelState
    BY <1>1, <2>3 DEF VoidHighLevelState
  <2>4. QED
    BY <2>1, <2>2, <2>3
<1>3. /\ Op("other", CTLR, 0, TRUE) /\ UNCHANGED <<currentstateval, running, since>>
  BY DEF ReadCPURegister, WriteCPURegister, VoidHighLevelState
<1>4. op' \in Operations
  BY <1>3, OpType, WordsType
<1>5. since' \in [Words -> SUBSET Values] /\ SinceTrue'
  BY <1>2, <1>3 DEF Inv, TypeOK, CacheTrue, SinceTrue, Void
<1>6. doubt' \subseteq Doubts /\ (hw'.cmderr => "fault" \in doubt')
  BY <1>1, <1>2 DEF Void
<1>7. currentstateval' \in Int /\ running' \in BOOLEAN
  BY <1>3 DEF Inv, TypeOK
<1>8. QED
  BY <1>1, <1>2, <1>4, <1>5, <1>6, <1>7, VoidedInv DEF Void, config

(* The accesses to DATA0 of a poll run nothing.                             *)
LEMMA PollEffect ==
    ASSUME Inv, PollTerminal
    PROVE  /\ hw' \in Hardware /\ ~hw'.autoexec /\ hw'.cmderr = hw.cmderr
           /\ hw'.mem = hw.mem /\ hw'.buf = hw.buf
<1>1. hw \in Hardware /\ (statetag = "TERM" => ~hw.autoexec)
  BY DEF Inv, TypeOK, CacheTrue, TerminalReady
<1>2. PICK v \in Data, turn \in BOOLEAN, d1 \in {hw.d1, 0} :
        hw' = IF turn THEN PutDATA0([Access(Polled) EXCEPT !.d1 = d1], v)
                      ELSE Access(Polled)
  BY DEF PollTerminal
<1>3. v \in Values /\ d1 \in Nat
  BY <1>1, MemoryAssumption DEF Hardware
<1>4. /\ Polled \in Hardware /\ ~Polled.autoexec /\ Polled.cmderr = hw.cmderr
      /\ Polled.mem = hw.mem /\ Polled.buf = hw.buf
  BY <1>1 DEF Polled, Hardware
<1>5. Access(Polled) = Polled
  BY <1>4 DEF Access
<1> DEFINE g == [Polled EXCEPT !.d1 = d1]
           f == [g EXCEPT !.d0 = v]
<1>6. f \in Hardware /\ ~f.autoexec /\ f.cmderr = hw.cmderr /\ f.mem = hw.mem /\ f.buf = hw.buf
  BY <1>3, <1>4 DEF Hardware
<1> HIDE DEF f
<1>7. PutDATA0(g, v) = f
  BY <1>6 DEF PutDATA0, Access, f
<1> HIDE DEF g
<1>8. hw' = IF turn THEN PutDATA0(g, v) ELSE Polled
  BY <1>2, <1>5 DEF g
<1>9. QED
  BY <1>4, <1>6, <1>7, <1>8

LEMMA PollTerminalStep ==
    ASSUME Inv, PollTerminal
    PROVE  Inv'
<1>1. /\ hw \in Hardware /\ doubt \subseteq Doubts /\ (hw.cmderr => "fault" \in doubt)
      /\ hw.autoexec => armable
  BY DEF Inv, TypeOK, CacheTrue, ErrorKnown
<1>5. /\ hw' \in Hardware /\ hw'.mem = hw.mem /\ hw'.cmderr = hw.cmderr
      /\ ~hw'.autoexec
  BY PollEffect
<1>6. /\ statetag' = "TERM" /\ doubt' = doubt \cap {"fault"}
      /\ Op("other", CTLR, 0, TRUE)
      /\ UNCHANGED <<config, currentstateval, lastwriteflags, autoincrement,
                     running, runs, since>>
  BY DEF PollTerminal
<1>7. op' \in Operations
  BY <1>6, OpType, WordsType
<1>8. since' \in [Words -> SUBSET Values] /\ SinceTrue'
  BY <1>5, <1>6 DEF Inv, TypeOK, CacheTrue, SinceTrue
<1>9. currentstateval' \in Int /\ running' \in BOOLEAN
  BY <1>6 DEF Inv, TypeOK
<1>10. QED
  BY <1>1, <1>5, <1>6, <1>7, <1>8, <1>9, VoidedInv

(* A DATA0 access with autoexec off runs nothing.                           *)
LEMMA PutQuiet ==
    ASSUME NEW h \in Hardware, NEW v, ~h.autoexec
    PROVE  Access(h) = h /\ PutDATA0(h, v) = [h EXCEPT !.d0 = v]
<1>1. ~[h EXCEPT !.d0 = v].autoexec
  BY DEF Hardware
<1>2. QED
  BY <1>1 DEF PutDATA0, Access

(* An access to DATA0 changes neither the program nor autoexec.             *)
LEMMA PutKeeps ==
    ASSUME NEW h \in Hardware, NEW v \in Values
    PROVE  Access(h).autoexec = h.autoexec /\ PutDATA0(h, v).autoexec = h.autoexec
<1>1. [h EXCEPT !.d0 = v] \in Hardware /\ [h EXCEPT !.d0 = v].autoexec = h.autoexec
  BY DEF Hardware
<1>2. QED
  BY <1>1, RunKeeps DEF Access, PutDATA0

LEMMA EmptyRequestStep ==
    ASSUME Inv, EmptyRequest
    PROVE  Inv'
<1>1. /\ hw \in Hardware /\ doubt \subseteq Doubts /\ (hw.autoexec => armable)
      /\ since \in [Words -> SUBSET Values]
  BY DEF Inv, TypeOK, CacheTrue, ErrorKnown
<1>2. PICK v \in Saved : Restore(v)
  BY DEF EmptyRequest
<1>3. v \in Values
  BY <1>1, MemoryAssumption DEF Saved, Hardware
<1> DEFINE h    == PutDATA0(Access(hw), v)
           sure == ~hw.autoexec
<1>4. /\ hw' = h /\ Observe(h, sure) /\ Op("other", CTLR, 0, sure)
      /\ doubt' = IF sure THEN doubt ELSE doubt \cup {"fault", "request"}
      /\ UNCHANGED <<config, cache, running, runs>>
  BY <1>2 DEF Restore
<1>5. h \in Hardware /\ h.autoexec = hw.autoexec
  BY <1>1, <1>3, PutType, PutKeeps
<1>6. sure => h = [hw EXCEPT !.d0 = v]
  BY <1>1, PutQuiet
<1> HIDE DEF h
<1>7. op' \in Operations
  BY <1>4, OpType, WordsType
<1>8. since' \in [Words -> SUBSET Values] /\ SinceTrue'
  <2>1. CASE sure
    <3>1. since' = since /\ hw'.mem = hw.mem
      BY <1>1, <1>4, <1>6, <2>1 DEF Observe, Hardware
    <3>2. QED
      BY <1>1, <3>1 DEF Inv, CacheTrue, SinceTrue
  <2>2. CASE ~sure
    BY <1>4, <1>5, <2>2, ForgetType DEF Observe, SinceTrue
  <2>3. QED
    BY <2>1, <2>2
<1>9. doubt' \subseteq Doubts
  BY <1>1, <1>4 DEF Doubts
<1>10. TypeOK'
  BY <1>4, <1>5, <1>7, <1>8, <1>9 DEF Inv, TypeOK, Operations, config, cache
<1>11. TerminalReady'
  BY <1>4, <1>5 DEF Inv, CacheTrue, TerminalReady, cache
<1>12. CASE ~sure
  <2>1. "fault" \in doubt' /\ "request" \in doubt'
    BY <1>4, <1>12
  <2>2. ErrorKnown'
    BY <1>1, <1>4, <1>5, <2>1 DEF ErrorKnown, config
  <2>3. QED
    BY <1>8, <1>10, <1>11, <2>1, <2>2, NoSequence DEF Inv, Sound
<1>13. CASE sure
  <2>1. /\ hw' = [hw EXCEPT !.d0 = v] /\ doubt' = doubt /\ since' = since
        /\ UNCHANGED <<armable, statetag, currentstateval, lastwriteflags,
                       autoincrement, running>>
    BY <1>4, <1>6, <1>13 DEF Observe, config, cache
  <2>2. /\ hw'.prog = hw.prog /\ hw'.d1 = hw.d1 /\ hw'.base = hw.base
        /\ hw'.autoexec = hw.autoexec /\ hw'.cmderr = hw.cmderr
    BY <1>1, <2>1 DEF Hardware
  <2>3. Sound' => Sound /\ ~armable
    BY <1>13, <2>1 DEF Inv, CacheTrue, SequenceReady, Sound, Sequence
  <2>4. ErrorKnown'
    BY <2>1, <2>2 DEF Inv, CacheTrue, ErrorKnown
  <2>5. SequenceReady'
    BY <2>1, <2>2, <2>3 DEF Inv, CacheTrue, SequenceReady
  <2>6. ReadAhead'
    BY <2>1, <2>2, <2>3 DEF Inv, CacheTrue, ReadAhead
  <2>7. WriteAhead'
    BY <2>1, <2>2, <2>3 DEF Inv, CacheTrue, WriteAhead
  <2>8. QED
    BY <1>8, <1>10, <1>11, <2>4, <2>5, <2>6, <2>7 DEF Inv, CacheTrue
<1>14. QED
  BY <1>12, <1>13

(* A request with commands, when the registers it leaves before the restore  *)
(* are possible ones.                                                       *)
LEMMA AnswerStep ==
    ASSUME Inv, NEW asked \in Hardware, NEW v \in Values, NEW sure \in BOOLEAN,
           Answer(asked, v, sure), asked.autoexec => armable,
           sure => ~asked.autoexec /\ asked.mem = hw.mem /\ asked.cmderr = hw.cmderr
    PROVE  Inv'
<1>1. /\ hw \in Hardware /\ doubt \subseteq Doubts /\ (hw.cmderr => "fault" \in doubt)
      /\ since \in [Words -> SUBSET Values]
  BY DEF Inv, TypeOK, CacheTrue, ErrorKnown
<1> DEFINE h == PutDATA0(asked, v)
<1>2. /\ Void(h, sure) /\ Observe(h, sure) /\ Op("other", CTLR, 0, sure)
      /\ running' \in BOOLEAN /\ UNCHANGED currentstateval
  BY DEF Answer
<1>3. h \in Hardware /\ h.autoexec = asked.autoexec
  BY PutType, PutKeeps
<1>4. sure => h.mem = hw.mem /\ h.cmderr = hw.cmderr
  BY PutQuiet DEF Hardware
<1> HIDE DEF h
<1>5. op' \in Operations
  BY <1>2, OpType, WordsType
<1>6. hw' = h /\ statetag' = "XXXX" /\ UNCHANGED <<config, lastwriteflags, autoincrement>>
      /\ doubt' = (doubt \cap {"fault"}) \cup (IF sure THEN {} ELSE {"fault"})
  BY <1>2 DEF Void
<1>7. since' \in [Words -> SUBSET Values] /\ SinceTrue'
  <2>1. CASE sure
    BY <1>1, <1>2, <1>4, <1>6, <2>1 DEF Observe, Inv, CacheTrue, SinceTrue
  <2>2. CASE ~sure
    BY <1>2, <1>3, <1>6, <2>2, ForgetType DEF Observe, SinceTrue
  <2>3. QED
    BY <2>1, <2>2
<1>8. doubt' \subseteq Doubts /\ (hw'.cmderr => "fault" \in doubt')
  BY <1>1, <1>4, <1>6 DEF Doubts
<1>9. currentstateval' \in Int
  BY <1>2 DEF Inv, TypeOK
<1>10. QED
  BY <1>2, <1>3, <1>5, <1>6, <1>7, <1>8, <1>9, VoidedInv

(* What a request's commands leave before DATA0 is restored.                *)
LEMMA RequestEffect ==
    ASSUME Inv, Request
    PROVE  \E asked \in Hardware, v \in Values :
              /\ Answer(asked, v, ~hw.autoexec) /\ (asked.autoexec => armable)
              /\ ~hw.autoexec => /\ ~asked.autoexec /\ asked.mem = hw.mem
                                 /\ asked.buf = hw.buf /\ asked.cmderr = hw.cmderr
<1>1. hw \in Hardware /\ (hw.autoexec => armable)
  BY DEF Inv, TypeOK, CacheTrue, ErrorKnown
<1> DEFINE read == Access(hw)
           own  == [read EXCEPT !.prog = "other", !.autoexec = FALSE, !.d1 = 0]
<1>2. PICK writes \in BOOLEAN, v \in Saved :
        Answer(IF writes THEN own ELSE read, v, ~hw.autoexec)
  BY DEF Request
<1>3. v \in Values
  BY <1>1, MemoryAssumption DEF Saved, Hardware
<1>4. read \in Hardware /\ (read.autoexec => armable) /\ (~hw.autoexec => read = hw)
  BY <1>1, <1>3, PutType, PutKeeps, PutQuiet
<1> HIDE DEF read
<1>5. /\ own \in Hardware /\ ~own.autoexec /\ own.mem = read.mem /\ own.buf = read.buf
      /\ own.cmderr = read.cmderr
  BY <1>4 DEF Hardware, Programs
<1> HIDE DEF own
<1>6. CASE writes
  <2>1. Answer(own, v, ~hw.autoexec)
    BY <1>2, <1>6
  <2>2. QED
    BY <1>3, <1>4, <1>5, <2>1
<1>7. CASE ~writes
  <2>1. Answer(read, v, ~hw.autoexec)
    BY <1>2, <1>7
  <2>2. QED
    BY <1>3, <1>4, <2>1
<1>8. QED
  BY <1>6, <1>7

LEMMA RequestStep ==
    ASSUME Inv, Request
    PROVE  Inv'
<1>1. PICK asked \in Hardware, v \in Values :
        /\ Answer(asked, v, ~hw.autoexec) /\ (asked.autoexec => armable)
        /\ ~hw.autoexec => /\ ~asked.autoexec /\ asked.mem = hw.mem
                           /\ asked.buf = hw.buf /\ asked.cmderr = hw.cmderr
  BY RequestEffect
<1>2. QED
  BY <1>1, AnswerStep

LEMMA RequestRunsStep ==
    ASSUME Inv, RequestRuns
    PROVE  Inv'
<1>1. hw \in Hardware
  BY DEF Inv, TypeOK
<1> DEFINE read == Access(hw)
<1>2. PICK armed \in BOOLEAN, err \in BOOLEAN, a \in Ram, w \in Data, b \in Strays :
        /\ armed => armable
        /\ Answer([read EXCEPT !.prog = "other", !.autoexec = armed, !.base = b,
                               !.cmderr = err, !.mem = [@ EXCEPT ![a] = w]],
                  hw.d0, FALSE)
  BY DEF RequestRuns
<1> DEFINE asked == [read EXCEPT !.prog = "other", !.autoexec = armed, !.base = b,
                                 !.cmderr = err, !.mem = [@ EXCEPT ![a] = w]]
<1>3. hw.d0 \in Values /\ w \in Values
  BY <1>1, MemoryAssumption DEF Hardware
<1>4. read \in Hardware
  BY <1>1, <1>3, PutType
<1> HIDE DEF read
<1>5. asked \in Hardware /\ asked.autoexec = armed
  <2>1. [read.mem EXCEPT ![a] = w] \in [Words -> Values]
    BY <1>3, <1>4 DEF Hardware
  <2>2. asked = [read EXCEPT !.prog = "other", !.autoexec = armed, !.base = b,
                             !.cmderr = err, !.mem = [read.mem EXCEPT ![a] = w]]
    OBVIOUS
  <2>3. QED
    BY <1>4, <2>1, <2>2 DEF Hardware, Programs
<1>6. Answer(asked, hw.d0, FALSE)
  BY <1>2
<1> HIDE DEF asked
<1>7. QED
  BY <1>2, <1>3, <1>5, <1>6, AnswerStep

LEMMA ResumeStep ==
    ASSUME Inv, Resume
    PROVE  Inv'
<1>1. /\ running' = TRUE /\ doubt' = IF Sequence THEN doubt \cup {"ran"} ELSE doubt
      /\ Op("other", CTLR, 0, TRUE) /\ UNCHANGED <<config, cache, hw, since>>
  BY DEF Resume
<1>2. op' \in Operations
  BY <1>1, OpType, WordsType
<1>3. TypeOK'
  BY <1>1, <1>2 DEF Inv, TypeOK, Operations, Doubts, config, cache
<1>4. ~Sound'
  BY <1>1 DEF Sound, Sequence, cache
<1>5. ErrorKnown' /\ SinceTrue'
  BY <1>1 DEF Inv, CacheTrue, ErrorKnown, SinceTrue, config
<1>t. TerminalReady'
  BY <1>1 DEF Inv, CacheTrue, TerminalReady, cache
<1>6. QED
  BY <1>t, <1>3, <1>4, <1>5, NoSequence DEF Inv

LEMMA HaltStep ==
    ASSUME Inv, Halt
    PROVE  Inv'
<1>1. PICK reset \in BOOLEAN, b \in {hw.base} \cup Strays :
        /\ running' = FALSE
        /\ ~reset => b = hw.base
        /\ hw' = [hw EXCEPT !.base = b]
        /\ doubt' = IF reset /\ Sequence THEN doubt \cup {"reset"} ELSE doubt
        /\ IF running THEN Forget(hw') ELSE since' = since
        /\ Op("other", CTLR, 0, TRUE) /\ UNCHANGED <<config, cache, runs>>
  BY DEF Halt
<1>2. /\ hw' \in Hardware /\ hw'.cmderr = hw.cmderr /\ hw'.autoexec = hw.autoexec
      /\ hw'.mem = hw.mem /\ hw'.prog = hw.prog /\ hw'.d0 = hw.d0 /\ hw'.d1 = hw.d1
      /\ hw'.base = b
  BY <1>1 DEF Inv, TypeOK, Hardware
<1>3. op' \in Operations
  BY <1>1, OpType, WordsType
<1>4. since' \in [Words -> SUBSET Values] /\ SinceTrue'
  <2>1. CASE running
    BY <1>1, <1>2, <2>1, ForgetType DEF SinceTrue
  <2>2. CASE ~running
    BY <1>1, <1>2, <2>2 DEF Inv, TypeOK, CacheTrue, SinceTrue
  <2>3. QED
    BY <2>1, <2>2
<1>5. TypeOK'
  BY <1>1, <1>2, <1>3, <1>4 DEF Inv, TypeOK, Operations, Doubts, config, cache
<1>6. ErrorKnown'
  BY <1>1, <1>2 DEF Inv, CacheTrue, ErrorKnown, config
<1>t. TerminalReady'
  BY <1>1, <1>2 DEF Inv, CacheTrue, TerminalReady, cache
<1>7. Sound' => Sound /\ doubt' = doubt /\ hw' = hw
  <2>1. Sequence' = Sequence
    BY <1>1 DEF Sequence, cache
  <2>2. reset /\ Sequence => ~Sound'
    BY <1>1 DEF Sound
  <2>3. ~reset => hw' = hw
    BY <1>1 DEF Inv, TypeOK, Hardware
  <2>4. Sound' => ~reset
    BY <2>1, <2>2 DEF Sound
  <2>5. ~reset => doubt' = doubt
    BY <1>1
  <2>6. QED
    BY <2>1, <2>3, <2>4, <2>5 DEF Sound
<1>8. Sound' => ~running /\ since' = since
  BY <1>1, <1>7 DEF Inv, CacheTrue, SequenceReady
<1>9. SequenceReady'
  BY <1>1, <1>7 DEF Inv, CacheTrue, SequenceReady, config
<1>10. ReadAhead'
  BY <1>1, <1>7, <1>8 DEF Inv, CacheTrue, ReadAhead, config, cache
<1>11. WriteAhead'
  BY <1>1, <1>7 DEF Inv, CacheTrue, WriteAhead, cache
<1>12. QED
  BY <1>4, <1>5, <1>6, <1>t, <1>9, <1>10, <1>11 DEF Inv, CacheTrue

(* What the environment may see of memory is added to what it was.          *)
LEMMA HoldType ==
    ASSUME NEW h \in Hardware, since \in [Words -> SUBSET Values], Hold(h)
    PROVE  /\ since' \in [Words -> SUBSET Values]
           /\ \A a \in Words : h.mem[a] \in since'[a] /\ since[a] \subseteq since'[a]
<1>1. \A a \in Words : h.mem[a] \in Values
  BY DEF Hardware
<1>2. QED
  BY <1>1 DEF Hold

LEMMA ProgramStep ==
    ASSUME Inv, Program
    PROVE  Inv'
<1>1. PICK a \in Ram, v \in Data, b \in Strays :
        /\ running
        /\ hw' = [hw EXCEPT !.base = b, !.mem = [@ EXCEPT ![a] = v], !.d0 = v, !.d1 = v]
        /\ Hold(hw')
        /\ UNCHANGED <<config, cache, running, runs, unsure, doubt, op>>
  BY DEF Program
<1>2. hw \in Hardware /\ v \in Values /\ v \in Nat /\ a \in Words
      /\ since \in [Words -> SUBSET Values]
  BY MemoryAssumption DEF Inv, TypeOK, Words
<1>3. hw' \in Hardware /\ hw'.cmderr = hw.cmderr /\ hw'.autoexec = hw.autoexec
  <2>1. [hw.mem EXCEPT ![a] = v] \in [Words -> Values]
    BY <1>2 DEF Hardware
  <2>2. QED
    BY <1>1, <1>2, <2>1 DEF Hardware
<1>4. since' \in [Words -> SUBSET Values] /\ SinceTrue'
  BY <1>1, <1>2, <1>3, HoldType DEF SinceTrue
<1>5. TypeOK'
  BY <1>1, <1>3, <1>4 DEF Inv, TypeOK, config, cache
<1>6. ErrorKnown'
  BY <1>1, <1>3 DEF Inv, CacheTrue, ErrorKnown, config
<1>t. TerminalReady'
  BY <1>1, <1>3 DEF Inv, CacheTrue, TerminalReady, cache
<1>7. ~Sound'
  BY <1>1 DEF Inv, CacheTrue, SequenceReady, Sound, Sequence, cache
<1>8. QED
  BY <1>4, <1>5, <1>6, <1>t, <1>7, NoSequence DEF Inv

LEMMA ControllerStep ==
    ASSUME Inv, Controller
    PROVE  Inv'
<1>1. PICK v \in Values :
        /\ hw' = [hw EXCEPT !.mem = [@ EXCEPT ![STATR] = v]]
        /\ Hold(hw')
        /\ UNCHANGED <<config, cache, running, runs, unsure, doubt, op>>
  BY DEF Controller
<1>2. hw \in Hardware /\ since \in [Words -> SUBSET Values]
  BY DEF Inv, TypeOK
<1>3. /\ hw' \in Hardware /\ hw'.cmderr = hw.cmderr /\ hw'.autoexec = hw.autoexec
      /\ hw'.base = hw.base /\ hw'.prog = hw.prog /\ hw'.d0 = hw.d0 /\ hw'.d1 = hw.d1
  <2>1. [hw.mem EXCEPT ![STATR] = v] \in [Words -> Values]
    BY <1>2 DEF Hardware
  <2>2. QED
    BY <1>1, <1>2, <2>1 DEF Hardware
<1>4. /\ since' \in [Words -> SUBSET Values] /\ SinceTrue'
      /\ \A a \in Words : since[a] \subseteq since'[a]
  BY <1>1, <1>2, <1>3, HoldType DEF SinceTrue
<1>5. TypeOK'
  BY <1>1, <1>3, <1>4 DEF Inv, TypeOK, config, cache
<1>6. ErrorKnown'
  BY <1>1, <1>3 DEF Inv, CacheTrue, ErrorKnown, config
<1>t. TerminalReady'
  BY <1>1, <1>3 DEF Inv, CacheTrue, TerminalReady, cache
<1>7. Sound' = Sound
  BY <1>1 DEF Sound, Sequence, cache
<1>8. SequenceReady'
  BY <1>1, <1>3, <1>7 DEF Inv, CacheTrue, SequenceReady, config
<1>9. ReadAhead'
  BY <1>1, <1>3, <1>4, <1>7 DEF Inv, CacheTrue, ReadAhead, config, cache
<1>10. WriteAhead'
  BY <1>1, <1>3, <1>7 DEF Inv, CacheTrue, WriteAhead, cache
<1>11. QED
  BY <1>4, <1>5, <1>6, <1>t, <1>8, <1>9, <1>10 DEF Inv, CacheTrue

LEMMA NextInv == Inv /\ [Next]_vars => Inv'
<1> SUFFICES ASSUME Inv, [Next]_vars PROVE Inv'
  OBVIOUS
<1>1. ASSUME NEW a \in Words, ReadWord(a) PROVE Inv'
  BY <1>1, ReadWordStep
<1>2. ASSUME NEW a \in Words, NEW v \in Data, WriteWord(a, v) PROVE Inv'
  BY <1>2, WriteWordStep
<1>3. ASSUME NEW a \in Ram, ReadSmall(a) PROVE Inv'
  BY <1>3, ReadSmallStep
<1>4. ASSUME NEW a \in Ram, NEW v \in Data, WriteSmall(a, v) PROVE Inv'
  BY <1>4, WriteSmallStep
<1>5. CASE EndOfBlob
  BY <1>5, EndOfBlobStep
<1>6. CASE ReadCPURegister \/ WriteCPURegister \/ VoidHighLevelState
  BY <1>6, RegisterStep
<1>7. CASE PollTerminal
  BY <1>7, PollTerminalStep
<1>8. CASE EmptyRequest \/ Request \/ RequestRuns
  BY <1>8, EmptyRequestStep, RequestStep, RequestRunsStep
<1>9. CASE Resume
  BY <1>9, ResumeStep
<1>10. CASE Halt
  BY <1>10, HaltStep
<1>11. CASE Program
  BY <1>11, ProgramStep
<1>12. CASE Controller
  BY <1>12, ControllerStep
<1>13. CASE UNCHANGED vars
  BY <1>13 DEF vars, config, cache, Inv, TypeOK, CacheTrue, ErrorKnown, SequenceReady,
               ReadAhead, WriteAhead, TerminalReady, SinceTrue, Sound, Sequence
<1>14. QED
  BY <1>1, <1>2, <1>3, <1>4, <1>5, <1>6, <1>7, <1>8, <1>9, <1>10, <1>11, <1>12, <1>13
     DEF Next

LEMMA Invariance == Spec => []Inv
<1>1. Init => Inv
  BY InitInv
<1>2. Inv /\ [Next]_vars => Inv'
  BY NextInv
<1>3. QED
  BY <1>1, <1>2, PTL DEF Spec

(* Whatever words the tool reads and writes, in whatever order, with         *)
(* operations in doubt, resumes and resets between, the state of the memory  *)
(* functions and of the debug module keeps its shape: DATA0, the buffered    *)
(* words and the history of every word hold only values memory can hold.     *)
THEOREM MemoryTypeCorrect == Spec => []TypeOK
<1>1. Inv => TypeOK
  BY DEF Inv
<1>2. QED
  BY Invariance, <1>1, PTL

(* The values DefaultReadWord and DefaultWriteWord remember are true of the  *)
(* hardware whenever nothing is in doubt: the tag names the loaded program,  *)
(* currentstateval the address in DATA1, and a prefetched word is no older   *)
(* than the last write to memory.                                           *)
THEOREM CacheIsTrue == Spec => []CacheTrue
<1>1. Inv => CacheTrue
  BY DEF Inv
<1>2. QED
  BY Invariance, <1>1, PTL

-----------------------------------------------------------------------------
(* Every step is one of TargetMemory's, or promises nothing. *)

LEMMA TargetInit == Init => Target!Init
<1> SUFFICES ASSUME Init PROVE Target!Init
  OBVIOUS
<1>1. Inv
  BY InitInv
<1>2. hw.mem = [a \in Words |-> 0]
  BY DEF Init
<1>3. since = [a \in Words |-> {hw.mem[a]}]
  BY <1>2 DEF Init
<1>4. hw.mem \in [Words -> Values] /\ hw.buf \in [Flash -> Values]
  BY <1>1 DEF Inv, TypeOK, Hardware
<1>5. running = FALSE /\ op = [kind |-> "none", addr |-> CTLR, val |-> 0, sure |-> TRUE]
  BY DEF Init
<1>6. QED
  BY <1>3, <1>4, <1>5 DEF Target!Init, Target!Op, Target!Words, Words

(* An operation in doubt says so, whatever it did.                          *)
LEMMA InDoubt ==
    ASSUME NEW kind, NEW a, NEW v, Op(kind, a, v, FALSE)
    PROVE  Target!Next
<1>1. op'.sure = FALSE
  BY DEF Op
<1>2. QED
  BY <1>1 DEF Target!Unsure, Target!Operate, Target!Next

LEMMA ReadWordKeepsPromise ==
    ASSUME Inv, NEW a \in Words, ReadWord(a)
    PROVE  Target!Next
<1>1. PICK failed \in BOOLEAN :
        /\ ~running
        /\ hw' = ReadDone(a, failed)
        /\ IF ReadSure /\ ~failed THEN since' = since ELSE Forget(hw')
        /\ Op("read", a, Sampled(a, failed).d0, ReadSure /\ ~failed)
        /\ UNCHANGED running
  BY DEF ReadWord
<1>2. CASE ReadSure /\ ~failed
  <2>1. failed = FALSE /\ doubt \subseteq {"jump"}
    BY <1>2 DEF ReadSure
  <2>2. Sampled(a, FALSE).d0 \in since[a]
    BY <1>1, <2>1, SampledSure DEF Inv
  <2>3. hw'.mem = hw.mem /\ hw'.buf = hw.buf
    BY <1>1, <2>1, ReadDoneSure DEF Inv
  <2>4. op' = Target!Op("read", a, Sampled(a, FALSE).d0, TRUE)
    BY <1>1, <1>2, <2>1 DEF Op, Target!Op
  <2>5. Target!Read(a)
    BY <1>1, <1>2, <2>2, <2>3, <2>4 DEF Target!Read
  <2>6. QED
    BY <1>1, <2>5 DEF Target!Next, Target!Operate, Target!Words, Words
<1>3. CASE ~(ReadSure /\ ~failed)
  BY <1>1, <1>3, InDoubt
<1>4. QED
  BY <1>2, <1>3

LEMMA WriteWordKeepsPromise ==
    ASSUME Inv, NEW a \in Words, NEW v \in Data, WriteWord(a, v)
    PROVE  Target!Next
<1>1. PICK failed \in BOOLEAN :
        /\ ~running
        /\ hw' = Written(a, v, failed) /\ Forget(hw')
        /\ Op("write", a, v, WriteSure(a) /\ ~failed)
        /\ UNCHANGED running
  BY DEF WriteWord
<1>2. CASE WriteSure(a) /\ ~failed
  <2>1. failed = FALSE
    BY <1>2
  <2>2. /\ a \in Flash => /\ hw'.buf = [hw.buf EXCEPT ![a] = v]
                          /\ hw'.mem = [hw.mem EXCEPT ![CTLR] = Load]
        /\ a \notin Flash => hw'.buf = hw.buf /\ hw'.mem = [hw.mem EXCEPT ![a] = v]
    BY <1>1, <1>2, <2>1, WrittenSure DEF Inv
  <2>3. op' = Target!Op("write", a, v, TRUE)
    BY <1>1, <1>2 DEF Op, Target!Op
  <2>4. Target!Forget
    BY <1>1 DEF Forget, Target!Forget, Target!Words, Words
  <2>5. Target!WriteWord(a, v)
    BY <1>1, <2>2, <2>3, <2>4 DEF Target!WriteWord
  <2>6. v \in Values
    BY MemoryAssumption
  <2>7. QED
    BY <1>1, <2>5, <2>6 DEF Target!Next, Target!Operate, Target!Words, Words
<1>3. CASE ~(WriteSure(a) /\ ~failed)
  BY <1>1, <1>3, InDoubt
<1>4. QED
  BY <1>2, <1>3

LEMMA WriteSmallKeepsPromise ==
    ASSUME Inv, NEW a \in Ram, NEW v \in Data, WriteSmall(a, v)
    PROVE  Target!Next
<1>1. /\ hw \in Hardware /\ a \in Words /\ v \in Values
      /\ hw.cmderr => "fault" \in doubt
  BY MemoryAssumption DEF Inv, TypeOK, CacheTrue, ErrorKnown, Words
<1>2. /\ ~running /\ running' = running /\ Forget(hw')
      /\ Op("writeSmall", a, v, "fault" \notin doubt)
  BY DEF WriteSmall
<1>3. CASE "fault" \notin doubt
  <2> DEFINE s == Small(hw)
             m == [hw.mem EXCEPT ![a] = v]
  <2>1. s \in Hardware /\ s.mem = hw.mem /\ s.buf = hw.buf
    BY <1>1, SmallType DEF Small, Hardware
  <2>2. hw' = [s EXCEPT !.d0 = v, !.mem = IF hw.cmderr THEN @ ELSE [@ EXCEPT ![a] = v]]
    BY DEF WriteSmall
  <2> HIDE DEF s
  <2>3. hw' = [s EXCEPT !.d0 = v, !.mem = m]
    BY <1>1, <1>3, <2>1, <2>2
  <2> HIDE DEF m
  <2>4. hw'.mem = m /\ hw'.buf = hw.buf
    BY <2>1, <2>3 DEF Hardware
  <2>5. op' = Target!Op("writeSmall", a, v, TRUE)
    BY <1>2, <1>3 DEF Op, Target!Op
  <2>6. Target!Forget
    BY <1>2 DEF Forget, Target!Forget, Target!Words, Words
  <2>7. Target!WriteSmall(a, v)
    BY <1>2, <2>4, <2>5, <2>6 DEF Target!WriteSmall, m
  <2>8. QED
    BY <1>1, <1>2, <2>7 DEF Target!Next, Target!Operate, Target!Words, Words
<1>4. CASE "fault" \in doubt
  BY <1>2, <1>4, InDoubt
<1>5. QED
  BY <1>3, <1>4

LEMMA ReadSmallKeepsPromise ==
    ASSUME Inv, NEW a \in Ram, ReadSmall(a)
    PROVE  Target!Next
<1>1. /\ hw \in Hardware /\ a \in Words /\ hw.mem[a] \in since[a]
      /\ hw.cmderr => "fault" \in doubt
  BY DEF Inv, TypeOK, CacheTrue, ErrorKnown, SinceTrue, Words
<1>2. /\ ~running /\ running' = running /\ since' = since
      /\ Op("read", a, hw'.d0, "fault" \notin doubt)
  BY DEF ReadSmall
<1>3. CASE "fault" \notin doubt
  <2> DEFINE s == Small(hw)
  <2>1. s \in Hardware /\ s.mem = hw.mem /\ s.buf = hw.buf
    BY <1>1, SmallType DEF Small, Hardware
  <2>2. hw' = [s EXCEPT !.d0 = hw.mem[a]]
    BY <1>1, <1>3 DEF ReadSmall
  <2> HIDE DEF s
  <2>3. hw'.mem = hw.mem /\ hw'.buf = hw.buf /\ hw'.d0 = hw.mem[a]
    BY <2>1, <2>2 DEF Hardware
  <2>4. op' = Target!Op("read", a, hw'.d0, TRUE)
    BY <1>2, <1>3 DEF Op, Target!Op
  <2>5. Target!Read(a)
    BY <1>1, <1>2, <2>3, <2>4 DEF Target!Read
  <2>6. QED
    BY <1>1, <1>2, <2>5 DEF Target!Next, Target!Operate, Target!Words, Words
<1>4. CASE "fault" \in doubt
  BY <1>2, <1>4, InDoubt
<1>5. QED
  BY <1>3, <1>4

(* A function that keeps both memories is one of the others.                *)
LEMMA KeepsMemory ==
    ASSUME Op("other", CTLR, 0, TRUE), hw'.mem = hw.mem, hw'.buf = hw.buf,
           since' = since \/ Forget(hw')
    PROVE  Target!Next
<1>1. op' = Target!Op("other", CTLR, 0, TRUE)
  BY DEF Op, Target!Op
<1>2. Target!Other
  BY <1>1 DEF Target!Other, Target!Forget, Forget, Target!Words, Words
<1>3. QED
  BY <1>2 DEF Target!Operate, Target!Next

LEMMA OtherKeepsPromise ==
    ASSUME Inv,
           EndOfBlob \/ ReadCPURegister \/ WriteCPURegister \/ VoidHighLevelState
             \/ PollTerminal \/ EmptyRequest \/ Request \/ RequestRuns \/ Resume \/ Halt
    PROVE  Target!Next
<1>1. hw \in Hardware
  BY DEF Inv, TypeOK
<1>2. CASE EndOfBlob
  BY <1>1, <1>2, KeepsMemory DEF EndOfBlob, WaitForDoneOp, Hardware
<1>3. CASE ReadCPURegister
  BY <1>1, <1>3, KeepsMemory DEF ReadCPURegister, Void, Hardware
<1>4. CASE WriteCPURegister
  BY <1>1, <1>4, KeepsMemory DEF WriteCPURegister, Void, Hardware
<1>5. CASE VoidHighLevelState
  BY <1>5, KeepsMemory DEF VoidHighLevelState, Void
<1>6. CASE PollTerminal
  <2>1. hw'.mem = hw.mem /\ hw'.buf = hw.buf
    BY <1>6, PollEffect
  <2>2. QED
    BY <1>6, <2>1, KeepsMemory DEF PollTerminal
<1>7. CASE EmptyRequest
  <2>1. PICK v \in Saved : Restore(v)
    BY <1>7 DEF EmptyRequest
  <2>2. CASE hw.autoexec
    BY <2>1, <2>2, InDoubt DEF Restore
  <2>3. CASE ~hw.autoexec
    <3>1. hw' = [hw EXCEPT !.d0 = v]
      BY <1>1, <2>1, <2>3, PutQuiet DEF Restore
    <3>2. hw'.mem = hw.mem /\ hw'.buf = hw.buf
      BY <1>1, <3>1 DEF Hardware
    <3>3. Op("other", CTLR, 0, TRUE) /\ since' = since
      BY <2>1, <2>3 DEF Restore, Observe
    <3>4. QED
      BY <3>2, <3>3, KeepsMemory
  <2>4. QED
    BY <2>2, <2>3
<1>11. CASE Request
  <2>1. PICK asked \in Hardware, v \in Values :
          /\ Answer(asked, v, ~hw.autoexec) /\ (asked.autoexec => armable)
          /\ ~hw.autoexec => /\ ~asked.autoexec /\ asked.mem = hw.mem
                             /\ asked.buf = hw.buf /\ asked.cmderr = hw.cmderr
    BY <1>11, RequestEffect
  <2>2. CASE hw.autoexec
    BY <2>1, <2>2, InDoubt DEF Answer
  <2>3. CASE ~hw.autoexec
    <3>1. hw' = [asked EXCEPT !.d0 = v]
      BY <2>1, <2>3, PutQuiet DEF Answer, Void
    <3>2. hw'.mem = hw.mem /\ hw'.buf = hw.buf
      BY <2>1, <2>3, <3>1 DEF Hardware
    <3>3. Op("other", CTLR, 0, TRUE) /\ since' = since
      BY <2>1, <2>3 DEF Answer, Observe
    <3>4. QED
      BY <3>2, <3>3, KeepsMemory
  <2>4. QED
    BY <2>2, <2>3
<1>12. CASE RequestRuns
  BY <1>12, InDoubt DEF RequestRuns, Answer
<1>8. CASE Resume
  BY <1>8, KeepsMemory DEF Resume
<1>9. CASE Halt
  <2>1. PICK b : /\ hw' = [hw EXCEPT !.base = b]
                 /\ IF running THEN Forget(hw') ELSE since' = since
                 /\ Op("other", CTLR, 0, TRUE)
    BY <1>9 DEF Halt
  <2>2. hw'.mem = hw.mem /\ hw'.buf = hw.buf
    BY <1>1, <2>1 DEF Hardware
  <2>3. QED
    BY <2>1, <2>2, KeepsMemory
<1>13. QED
  BY <1>2, <1>3, <1>4, <1>5, <1>6, <1>7, <1>8, <1>9, <1>11, <1>12

LEMMA EnvironmentKeepsPromise ==
    ASSUME Inv, Inv', Program \/ Controller
    PROVE  Target!Next
<1>1. hw \in Hardware /\ hw' \in Hardware /\ since \in [Words -> SUBSET Values]
  BY DEF Inv, TypeOK
<1>2. /\ hw'.buf = hw.buf
      /\ \A a \in Words : hw'.mem[a] # hw.mem[a] => running \/ a = STATR
      /\ Hold(hw') /\ op' = op /\ running' = running
  <2>1. CASE Program
    BY <1>1, <2>1 DEF Program, Hardware
  <2>2. CASE Controller
    <3>1. PICK v \in Values : hw' = [hw EXCEPT !.mem = [@ EXCEPT ![STATR] = v]]
      BY <2>2 DEF Controller
    <3>2. hw'.buf = hw.buf /\ hw'.mem = [hw.mem EXCEPT ![STATR] = v]
      BY <1>1, <3>1 DEF Hardware
    <3>3. \A a \in Words : hw'.mem[a] # hw.mem[a] => a = STATR
      BY <1>1, <3>2 DEF Hardware
    <3>4. QED
      BY <2>2, <3>2, <3>3 DEF Controller
  <2>3. QED
    BY <2>1, <2>2
<1>3. \A a \in Words : hw'.mem[a] \in since'[a] /\ since[a] \subseteq since'[a]
  BY <1>1, <1>2, HoldType
<1>4. Target!Environment
  BY <1>2, <1>3 DEF Target!Environment, Target!Words, Words
<1>5. QED
  BY <1>4 DEF Target!Next

(* The memory functions implement TargetMemory for all memories, words and   *)
(* addresses: unless something is in doubt, every write stores its word at   *)
(* its address alone, every read returns a value its word holds or, for the  *)
(* status register, has held since the last write, and no other function of  *)
(* the tool changes memory, however many register accesses were left out.   *)
THEOREM AccessImplementsTarget == Spec => ImplementsTarget
<1>1. Init => Target!Init
  BY TargetInit
<1>2. ASSUME Inv, Inv', [Next]_vars PROVE [Target!Next]_Target!vars
  <2>1. ASSUME NEW a \in Words, ReadWord(a) PROVE Target!Next
    BY <1>2, <2>1, ReadWordKeepsPromise
  <2>2. ASSUME NEW a \in Words, NEW v \in Data, WriteWord(a, v) PROVE Target!Next
    BY <1>2, <2>2, WriteWordKeepsPromise
  <2>3. ASSUME NEW a \in Ram, ReadSmall(a) PROVE Target!Next
    BY <1>2, <2>3, ReadSmallKeepsPromise
  <2>4. ASSUME NEW a \in Ram, NEW v \in Data, WriteSmall(a, v) PROVE Target!Next
    BY <1>2, <2>4, WriteSmallKeepsPromise
  <2>5. CASE EndOfBlob \/ ReadCPURegister \/ WriteCPURegister \/ VoidHighLevelState
               \/ PollTerminal \/ EmptyRequest \/ Request \/ RequestRuns \/ Resume \/ Halt
    BY <1>2, <2>5, OtherKeepsPromise
  <2>6. CASE Program \/ Controller
    BY <1>2, <2>6, EnvironmentKeepsPromise
  <2>7. CASE UNCHANGED vars
    BY <2>7 DEF vars, Target!vars
  <2>8. QED
    BY <1>2, <2>1, <2>2, <2>3, <2>4, <2>5, <2>6, <2>7 DEF Next
<1>3. QED
  BY <1>1, <1>2, Invariance, PTL DEF Spec, ImplementsTarget, Target!Spec
=============================================================================
