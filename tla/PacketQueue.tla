----------------------------- MODULE PacketQueue -----------------------------
(***************************************************************************)
(* What a ring buffer of IACore/ADT/RingBuffer.hpp promises to the one     *)
(* thread that pushes and the one that pops: a queue.  Nothing is said     *)
(* here of bytes, offsets or capacity; a push may be refused at any time,  *)
(* which is a step that changes nothing.                                   *)
(***************************************************************************)
EXTENDS Naturals, Sequences

CONSTANT Packet          \* the packets a producer may push

VARIABLES
  sent,                  \* every packet whose push returned success, in order
  received               \* every packet a pop returned, in order

vars == <<sent, received>>

Init == sent = <<>> /\ received = <<>>

(* A push that returns success makes its packet available.                 *)
Send(p) == /\ sent' = Append(sent, p)
           /\ UNCHANGED received

(* A pop that returns a packet returns the oldest one not yet returned.    *)
Receive == /\ Len(received) < Len(sent)
           /\ received' = Append(received, sent[Len(received) + 1])
           /\ UNCHANGED sent

Next == Receive \/ \E p \in Packet : Send(p)

Spec == Init /\ [][Next]_vars

FairSpec == Spec /\ WF_vars(Receive)

=============================================================================
