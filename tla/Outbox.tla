------------------------------- MODULE Outbox -------------------------------
(***************************************************************************)
(* What the outgoing path of a session promises, whatever its queue,       *)
(* batches and buffers: what is accepted waits in order of acceptance, and *)
(* what reaches the wire does so in that order, once.  It promises no      *)
(* delivery: what is first in line may be lost at any time.                *)
(***************************************************************************)
EXTENDS Integers, Sequences

CONSTANT PDU

VARIABLES waiting, wire

Init == waiting = <<>> /\ wire = <<>>

Accept == /\ \E p \in PDU : waiting' = Append(waiting, p)
          /\ UNCHANGED wire

\* The first k are sent, those after them and up to the l-th are lost.
Depart == \E l \in 1 .. Len(waiting) : \E k \in 0 .. l :
              /\ wire' = wire \o SubSeq(waiting, 1, k)
              /\ waiting' = SubSeq(waiting, l + 1, Len(waiting))

Spec == Init /\ [][Accept \/ Depart]_<<waiting, wire>>

=============================================================================
