------------------------------ MODULE MCTxPath ------------------------------
(* TLC instances of TxPath. *)
EXTENDS TxPath, TLC

Symmetry == Permutations(Buffers)

-----------------------------------------------------------------------------
(* What the source says of itself, and does not keep. *)

\* Queueing an acknowledgement succeeds, or the host is told of the overflow:
\* QueueAck "enqueues that to the radio task to handle formatting and
\* transmitting the packet" (Radio/Task.cpp:404-405).
AckIsQueued == sys # "ackPanic"
============================================================================
