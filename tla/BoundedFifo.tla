----------------------------- MODULE BoundedFifo -----------------------------
(***************************************************************************)
(* What a message queue of this repository promises its users: messages    *)
(* leave in the order in which they entered, each of them once, and never  *)
(* more than Capacity of them are inside.                                  *)
(***************************************************************************)
EXTENDS Naturals, Sequences

CONSTANTS Capacity, Messages

VARIABLE fifo

Init == fifo = <<>>

Put(m) == /\ Len(fifo) < Capacity
          /\ fifo' = Append(fifo, m)

Get == /\ fifo # <<>>
       /\ fifo' = Tail(fifo)

Next == Get \/ \E m \in Messages : Put(m)

Spec == Init /\ [][Next]_fifo
=============================================================================
