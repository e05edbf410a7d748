---------------------------- MODULE TargetMemory ----------------------------
(***************************************************************************)
(* What minichlink's memory functions promise their callers, without a     *)
(* debug module, program buffers or cached addresses: a write changes the  *)
(* word it names and no other, and a read returns what its word holds, or  *)
(* for a register that changes by itself a value it has held since the     *)
(* last write.  Nothing else the tool does touches the memory.             *)
(*   - op is the last operation; op.sure is FALSE for one that makes no    *)
(*     promise.                                                            *)
(*   - A word written to flash goes to the page buffer, and the register   *)
(*     CTLR then holds Load.                                               *)
(*   - Memory changes by itself only while the hart runs, except STATR.    *)
(***************************************************************************)
CONSTANTS Ram, Flash, STATR, CTLR, Load, Values

VARIABLES mem, buf, since, running, op

vars == <<mem, buf, since, running, op>>

Words == Ram \cup Flash \cup {STATR, CTLR}

Op(kind, a, v, sure) == [kind |-> kind, addr |-> a, val |-> v, sure |-> sure]

(* Nothing older than the memory as it now is may be read. *)
Forget == since' = [a \in Words |-> {mem'[a]}]

Init ==
    /\ mem \in [Words -> Values] /\ buf \in [Flash -> Values]
    /\ since = [a \in Words |-> {mem[a]}]
    /\ running = FALSE
    /\ op = Op("none", CTLR, 0, TRUE)

WriteWord(a, v) ==
    /\ op' = Op("write", a, v, TRUE)
    /\ IF a \in Flash THEN /\ buf' = [buf EXCEPT ![a] = v]
                           /\ mem' = [mem EXCEPT ![CTLR] = Load]
                      ELSE mem' = [mem EXCEPT ![a] = v] /\ buf' = buf
    /\ Forget /\ UNCHANGED running

(* A half-word or a byte goes to the array itself. *)
WriteSmall(a, v) ==
    /\ op' = Op("writeSmall", a, v, TRUE)
    /\ mem' = [mem EXCEPT ![a] = v] /\ buf' = buf
    /\ Forget /\ UNCHANGED running

Read(a) ==
    /\ \E v \in since[a] : op' = Op("read", a, v, TRUE)
    /\ UNCHANGED <<mem, buf, since, running>>

(* Registers, the terminal, a request, the halt mode. *)
Other ==
    /\ op' = Op("other", CTLR, 0, TRUE)
    /\ UNCHANGED <<mem, buf>>
    /\ (since' = since \/ Forget)

(* An operation that promises nothing. *)
Unsure == ~op'.sure

(* The flash controller and the program. *)
Environment ==
    /\ op' = op /\ UNCHANGED <<buf, running>>
    /\ \A a \in Words : mem'[a] # mem[a] => running \/ a = STATR
    /\ \A a \in Words : mem'[a] \in since'[a]
    /\ \A a \in Words : since[a] \subseteq since'[a]

Operate == Other \/ Unsure \/
    (~running /\ \E a \in Words : Read(a) \/ \E v \in Values : WriteWord(a, v) \/ WriteSmall(a, v))

Next == Operate \/ Environment

Spec == Init /\ [][Next]_vars
=============================================================================
