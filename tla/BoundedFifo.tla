---------------------------- MODULE BoundedFifo ----------------------------
(***************************************************************************)
(* What an interrupt queue (devices/intq.c) promises: bytes come out in    *)
(* the order they went in, none is lost or made up, and there are never    *)
(* more than Capacity of them inside.                                      *)
(***************************************************************************)
EXTENDS Integers, Sequences

CONSTANTS Byte, Capacity
VARIABLE q

Put(b) == Len(q) < Capacity /\ q' = Append(q, b)
Get == q # << >> /\ q' = Tail(q)

Spec == q = << >> /\ [][Get \/ \E b \in Byte : Put(b)]_q
=============================================================================
