-------------------------- MODULE TerminalChannel --------------------------
(***************************************************************************)
(* What the debug channel promises its two users, the program that prints  *)
(* and the person at the terminal, without registers, status bits or       *)
(* polling: two streams of bytes, each delivered once and in order.        *)
(*   - The program sends 1 to 7 bytes at a time, and sends again only when *)
(*     all it sent before has been printed.                                *)
(*   - The user sends up to three keys at a time; the handler is given     *)
(*     the keys in the order they were typed, up to three at a time.       *)
(*   - A reset of the target may discard what is still under way.          *)
(*   - `broken` marks the end of the promise: after it anything goes.      *)
(***************************************************************************)
EXTENDS Naturals, Sequences

VARIABLES published, printed, typed, handled, broken

vars == <<published, printed, typed, handled, broken>>

Init ==
    /\ published = <<>> /\ printed = <<>> /\ typed = <<>> /\ handled = <<>>
    /\ broken = FALSE

(* new is old with at least one and at most max elements after it. *)
Extends(new, old, max) ==
    /\ Len(new) \in Len(old) + 1 .. Len(old) + max
    /\ SubSeq(new, 1, Len(old)) = old

Send ==
    /\ published = printed
    /\ Extends(published', published, 7)
    /\ UNCHANGED <<printed, typed, handled>>

Deliver ==
    /\ published # printed
    /\ printed' = published
    /\ UNCHANGED <<published, typed, handled>>

Type ==
    /\ Extends(typed', typed, 3)
    /\ UNCHANGED <<published, printed, handled>>

Handle ==
    /\ Extends(handled', handled, 3)
    /\ Len(handled') <= Len(typed)
    /\ handled' = SubSeq(typed, 1, Len(handled'))
    /\ UNCHANGED <<published, printed, typed>>

Discard ==
    /\ published' \in {published, printed}
    /\ \E i \in Len(handled) + 1 .. Len(typed) + 1 :
          typed' = handled \o SubSeq(typed, i, Len(typed))
    /\ UNCHANGED <<printed, handled>>

Next ==
    \/ broken'
    \/ ~broken /\ ~broken' /\ (Send \/ Deliver \/ Type \/ Handle \/ Discard)

Spec == Init /\ [][Next]_vars
=============================================================================
