------------------------------ MODULE TxTries ------------------------------
(* TxPath with a history variable, which no action of TxPath reads. *)
EXTENDS TxPath

\* How often RAIL has reported a busy channel for the packet in gLastTx.
VARIABLE busyReports

Count ==
    busyReports' =
        IF gLastTx' # gLastTx \/ gLastTx = NoBuffer THEN 0
        ELSE IF air /\ ~air' /\ "TxChannelBusy" \in notes' /\ busyReports < MaxCsmaFails
             THEN busyReports + 1
             ELSE busyReports

TriesInit == Init /\ busyReports = 0
TriesNext == Next /\ Count
TriesSpec == TriesInit /\ [][TriesNext]_<<vars, busyReports>>

\* Until a submission races with HandleTxComplete, a packet that the host
\* submitted is let go of only after RAIL sent it, or reported a busy channel
\* for this very packet kMaxCsmaFails times, whatever the packets before it in
\* the same buffer went through (Radio/Task.cpp:142).
LetGo(b) ==
    ~raced /\ Live(b) /\ ~heap[b].sticky /\ heap'[b].size = 0 =>
        /\ gLastTx = b
        /\ \/ "PacketTransmitted" \in work
           \/ "TxChannelBusy" \in work /\ busyReports = MaxCsmaFails
TriesEnough == [][\A b \in Buffers : LetGo(b)]_<<vars, busyReports>>
============================================================================
