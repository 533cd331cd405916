---------------------------- MODULE BoundedQueue ----------------------------
(***************************************************************************)
(* What a key ring promises: first in, first out, and when Capacity items  *)
(* wait, a new one is dropped and the waiting ones are kept.               *)
(***************************************************************************)
EXTENDS Naturals, Sequences

CONSTANTS
    Item,       \* what can be queued
    Capacity    \* how many items can wait

VARIABLE queue  \* the items that wait

Init == queue = << >>

Put(x) == Len(queue) < Capacity /\ queue' = Append(queue, x)

Take == queue # << >> /\ queue' = Tail(queue)

Next == Take \/ \E x \in Item : Put(x)

Spec == Init /\ [][Next]_queue
=============================================================================
