----------------------------- MODULE LossyFifo -----------------------------
(***************************************************************************)
(* What the receive path promises the host, with none of its buffers,      *)
(* notifications and interrupts: packets come out one at a time in the     *)
(* order they were received in ("Returns the first (oldest) packet in the  *)
(* receive queue", Packet/Handler.h:204), each at most once, and some are  *)
(* lost on the way.                                                        *)
(***************************************************************************)
EXTENDS Naturals, Sequences, SequencesExt

VARIABLES
    received,     \* how many packets have been received; they are numbered
    held,         \* the packets in the firmware's hands, oldest first
    delivered     \* the packet the host read last, 0 before the first

vars == <<received, held, delivered>>

Init == received = 0 /\ held = <<>> /\ delivered = 0

Receive ==
    /\ received' = received + 1
    /\ held' = Append(held, received + 1)
    /\ UNCHANGED delivered

\* A packet for which there is no room.
Refuse(i) ==
    /\ held' = RemoveAt(held, i)
    /\ UNCHANGED <<received, delivered>>

\* The packets behind the first n, when the radio is flushed.
Flush(n) ==
    /\ held' = SubSeq(held, 1, n)
    /\ UNCHANGED <<received, delivered>>

Deliver ==
    /\ held # <<>>
    /\ delivered' = Head(held)
    /\ held' = Tail(held)
    /\ UNCHANGED received

Next ==
    \/ Receive
    \/ \E i \in 1 .. Len(held) : Refuse(i)
    \/ \E n \in 0 .. Len(held) : Flush(n)
    \/ Deliver

SafeSpec == Init /\ [][Next]_vars
============================================================================
