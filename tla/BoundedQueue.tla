---------------------------- MODULE BoundedQueue ----------------------------
(***************************************************************************)
(* What a publisher and its subscribers expect of the buffer between them: *)
(* a queue of at most Capacity items.  The k-th item put is the number k.  *)
(* An implementation that waits with a timeout and goes on regardless may  *)
(* stop being a queue; it says so by breaking, after which nothing is      *)
(* promised.                                                               *)
(***************************************************************************)
EXTENDS Naturals, Sequences

CONSTANT Capacity

VARIABLES
    queue,      \* the items put and not yet got
    taken,      \* the items got, in order
    broken      \* has the queue given up its promise?

vars == <<queue, taken, broken>>

Init ==
    /\ queue = <<>>
    /\ taken = <<>>
    /\ broken = FALSE

Put ==
    /\ ~broken
    /\ Len(queue) < Capacity
    /\ queue' = Append(queue, Len(taken) + Len(queue) + 1)
    /\ UNCHANGED <<taken, broken>>

Get ==
    /\ ~broken
    /\ queue # <<>>
    /\ taken' = Append(taken, Head(queue))
    /\ queue' = Tail(queue)
    /\ UNCHANGED broken

Break ==
    /\ ~broken
    /\ broken' = TRUE
    /\ queue' = <<>>
    /\ taken' = <<>>

Next == Put \/ Get \/ Break

Spec == Init /\ [][Next]_vars
=============================================================================
