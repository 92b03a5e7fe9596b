---------------------------- MODULE PriorityTx ----------------------------
(***************************************************************************)
(* What Packet::Handler promises about transmission, with none of its      *)
(* bookkeeping: one transmitter, serving packets one at a time, the        *)
(* highest priority first and in order of acceptance within a priority.    *)
(*                                                                         *)
(* The promise is the comment on TxPacketPriority (Packet/Handler.h:80-86) *)
(* and the one on QueueTxPacket ("If no packets are currently pending,     *)
(* we'll immediately request transmission.", Packet/Handler.cpp:247).      *)
(* Retries, notification bits, the pending counter and the buffers do not  *)
(* appear here: TxPath shows that they implement this.                     *)
(***************************************************************************)
EXTENDS Naturals, Sequences

CONSTANTS
    Packets,      \* whatever identifies a packet
    Priorities,   \* an ordered set of naturals, a larger one being served first
    Nobody        \* "no packet is being served"

VARIABLES
    waiting,      \* for each priority, the accepted packets, oldest first
    serving       \* the packet that has the radio

vars == <<waiting, serving>>

Init ==
    /\ waiting = [p \in Priorities |-> <<>>]
    /\ serving = Nobody

Idle == serving = Nobody /\ \A p \in Priorities : waiting[p] = <<>>

\* The transmitter is idle: the packet goes straight to the radio.
AcceptIdle ==
    /\ Idle
    /\ serving' \in Packets
    /\ UNCHANGED waiting

\* There are others: the packet waits behind those of its priority.
AcceptBusy(p) ==
    /\ ~Idle
    /\ \E x \in Packets : waiting' = [waiting EXCEPT ![p] = Append(@, x)]
    /\ UNCHANGED serving

\* No packet waits with a higher priority than p, and one waits with p.
Highest(p) ==
    /\ waiting[p] # <<>>
    /\ \A q \in Priorities : q > p => waiting[q] = <<>>

\* The packet being served is done (sent, or given up).
Complete ==
    /\ serving # Nobody
    /\ serving' = Nobody
    /\ UNCHANGED waiting

\* The next one is taken.
Take ==
    /\ serving = Nobody
    /\ \E p \in Priorities :
          /\ Highest(p)
          /\ serving' = Head(waiting[p])
          /\ waiting' = [waiting EXCEPT ![p] = Tail(@)]

Next ==
    \/ AcceptIdle
    \/ \E p \in Priorities : AcceptBusy(p)
    \/ Complete
    \/ Take

SafeSpec == Init /\ [][Next]_vars
============================================================================
