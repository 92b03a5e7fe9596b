--------------------------- MODULE TxPathProofs ---------------------------
(* Theorems about TxPath and TxTries, for every value of their constants. *)
EXTENDS TxTries, Sums

(* Facts about the helpers. *)

LEMMA CountersType ==
    ASSUME NEW n \in 0 .. SizeMax
    PROVE  Inc(n) \in 0 .. SizeMax /\ Dec(n) \in 0 .. SizeMax
BY LimitsAssumption DEF Inc, Dec

LEMMA NewPacketType ==
    ASSUME NEW s \in Nat, NEW isSticky \in BOOLEAN
    PROVE  NewPacket(s, isSticky) \in Packet
BY DEF NewPacket, Packet

LEMMA FreedType == Freed \in Packet
BY DEF Freed, Packet

LEMMA CsmaType ==
    ASSUME heap \in [Buffers -> Packet], gLastTx \in Buffers
    PROVE  CsmaFails \in 0 .. 255
<1>1. heap[gLastTx].csma \in 0 .. 255
    BY DEF Packet
<1> QED
    BY <1>1 DEF CsmaFails

LEMMA CsmaUpdateType ==
    ASSUME NEW h \in [Buffers -> Packet], NEW b \in Buffers, NEW c \in 0 .. 255
    PROVE  [h EXCEPT ![b].csma = c] \in [Buffers -> Packet]
BY DEF Packet

LEMMA HeapAfterDiscardType ==
    ASSUME heap \in [Buffers -> Packet], NEW b \in Buffers, NEW force \in BOOLEAN,
           gTxAllocBytes \in Int
    PROVE  /\ HeapAfterDiscard(b, force) \in [Buffers -> Packet]
           /\ BytesAfterDiscard(b, force) \in Int
<1>1. heap[b].size \in Int
    BY DEF Packet
<1> QED
    BY <1>1, FreedType DEF HeapAfterDiscard, BytesAfterDiscard

LEMMA AppendType ==
    ASSUME queues \in [Priorities -> Seq(Buffers)], NEW p \in Priorities, NEW b \in Buffers
    PROVE  [queues EXCEPT ![p] = Append(@, b)] \in [Priorities -> Seq(Buffers)]
OBVIOUS

LEMMA TailType ==
    ASSUME queues \in [Priorities -> Seq(Buffers)], NEW p \in Priorities, queues[p] # <<>>
    PROVE  /\ [queues EXCEPT ![p] = Tail(@)] \in [Priorities -> Seq(Buffers)]
           /\ Head(queues[p]) \in Buffers
OBVIOUS

-----------------------------------------------------------------------------
(* Type correctness, by action. *)

LEMMA QueueFinalType ==
    ASSUME TypeOK, NEW p \in Priorities, NEW b \in Buffers, QueueTxPacketFinal(p, b)
    PROVE  /\ queues' \in [Priorities -> Seq(Buffers)]
           /\ gTxPacketsPending' \in 0 .. SizeMax
           /\ txEmptyIrq' \in BOOLEAN
           /\ gLastTx' \in Buffers \cup {NoBuffer}
           /\ air' \in BOOLEAN
<1>1. Inc(gTxPacketsPending) \in 0 .. SizeMax
    BY CountersType DEF TypeOK
<1>2. txEmptyIrq' \in BOOLEAN
    BY DEF TypeOK, QueueTxPacketFinal, UpdateTxQueueState
<1>3. CASE Start(b) /\ UNCHANGED queues
    BY <1>1, <1>2, <1>3 DEF TypeOK, QueueTxPacketFinal, Start
<1>4. CASE queues' = [queues EXCEPT ![p] = Append(@, b)] /\ UNCHANGED <<gLastTx, air>>
    BY <1>1, <1>2, <1>4, AppendType DEF TypeOK, QueueTxPacketFinal
<1> QED
    BY <1>3, <1>4 DEF QueueTxPacketFinal

LEMMA RefuseType ==
    ASSUME TypeOK, Refuse
    PROVE  /\ heap' \in [Buffers -> Packet]
           /\ queues' \in [Priorities -> Seq(Buffers)]
           /\ gTxPacketsPending' \in 0 .. SizeMax
           /\ gTxAllocBytes' \in Int
           /\ gTxOverflowFlag' \in BOOLEAN
           /\ txEmptyIrq' \in BOOLEAN
           /\ gLastTx' \in Buffers \cup {NoBuffer}
           /\ air' \in BOOLEAN
BY DEF TypeOK, Refuse, UpdateTxQueueState

LEMMA AcceptType ==
    ASSUME TypeOK, NEW p \in Priorities, NEW s \in Nat, NEW b \in Buffers,
           AcceptPayload(p, s, b)
    PROVE  /\ heap' \in [Buffers -> Packet]
           /\ queues' \in [Priorities -> Seq(Buffers)]
           /\ gTxPacketsPending' \in 0 .. SizeMax
           /\ gTxAllocBytes' \in Int
           /\ gTxOverflowFlag' \in BOOLEAN
           /\ txEmptyIrq' \in BOOLEAN
           /\ gLastTx' \in Buffers \cup {NoBuffer}
           /\ air' \in BOOLEAN
<1>1. heap' \in [Buffers -> Packet]
    BY NewPacketType DEF TypeOK, AcceptPayload
<1>2. gTxAllocBytes' \in Int /\ gTxOverflowFlag' \in BOOLEAN
    BY DEF TypeOK, AcceptPayload
<1>3. QueueTxPacketFinal(p, b)
    BY DEF AcceptPayload
<1> QED
    BY <1>1, <1>2, <1>3, QueueFinalType

LEMMA DiscardLastType ==
    ASSUME TypeOK, DiscardLast
    PROVE  /\ heap' \in [Buffers -> Packet]
           /\ queues' \in [Priorities -> Seq(Buffers)]
           /\ gTxPacketsPending' \in 0 .. SizeMax
           /\ gTxAllocBytes' \in Int
           /\ gTxOverflowFlag' \in BOOLEAN
           /\ txEmptyIrq' \in BOOLEAN
           /\ radio' \in RadioSteps
           /\ sys' \in {"run"} \cup Halts
<1>1. CASE gLastTx = NoBuffer
    BY <1>1 DEF DiscardLast, TypeOK, handlerVars, Halts, TxPanics
<1>2. CASE gLastTx # NoBuffer
    <2>1. gLastTx \in Buffers
        BY <1>2 DEF TypeOK
    <2>2. /\ heap' = HeapAfterDiscard(gLastTx, FALSE)
          /\ gTxAllocBytes' = BytesAfterDiscard(gLastTx, FALSE)
          /\ gTxPacketsPending' = Dec(gTxPacketsPending)
          /\ UpdateTxQueueState(Dec(gTxPacketsPending))
          /\ radio' = "forget"
          /\ UNCHANGED <<queues, gTxOverflowFlag, sys>>
        BY <1>2 DEF DiscardLast, Goes
    <2>3. heap' \in [Buffers -> Packet] /\ gTxAllocBytes' \in Int
        BY <2>1, <2>2, HeapAfterDiscardType DEF TypeOK
    <2>4. gTxPacketsPending' \in 0 .. SizeMax
        BY <2>2, CountersType DEF TypeOK
    <2>5. txEmptyIrq' \in BOOLEAN
        BY <2>2 DEF TypeOK, UpdateTxQueueState
    <2> QED
        BY <2>2, <2>3, <2>4, <2>5 DEF TypeOK, RadioSteps
<1> QED
    BY <1>1, <1>2

LEMMA CompleteType ==
    ASSUME TypeOK, HandleTxComplete
    PROVE  TypeOK'
<1>1. CASE ForgetLast
    BY <1>1 DEF ForgetLast, Goes, TypeOK, handlerVars, beaconVars, RadioSteps
<1>2. CASE TestEmpty
    <2>1. radio' \in RadioSteps
        BY <1>2 DEF TestEmpty, Goes, RadioSteps
    <2> QED
        BY <1>2, <2>1 DEF TestEmpty, TypeOK, handlerVars, beaconVars
<1>3. CASE PopNext
    <2>1. ASSUME NEW p \in Priorities, Highest(p), next' = Head(queues[p]),
                 queues' = [queues EXCEPT ![p] = Tail(@)], radio' = "start", UNCHANGED sys
          PROVE  TypeOK'
        <3>1. queues' \in [Priorities -> Seq(Buffers)] /\ next' \in Buffers
            BY <2>1, TailType DEF TypeOK, Highest
        <3> QED
            BY <1>3, <2>1, <3>1 DEF PopNext, TypeOK, beaconVars, RadioSteps
    <2>2. CASE sys' = "popFailed" /\ UNCHANGED <<queues, taskVars>>
        BY <1>3, <2>2 DEF PopNext, TypeOK, beaconVars, taskVars, Halts, TxPanics
    <2> QED
        BY <1>3, <2>1, <2>2 DEF PopNext, Goes
<1>4. CASE StartNext
    <2>1. /\ gLastTx' \in Buffers \cup {NoBuffer}
          /\ air' \in BOOLEAN
          /\ sys' \in {"run"} \cup Halts
        BY <1>4 DEF StartNext, Start, TypeOK, Halts, TxPanics
    <2> QED
        BY <1>4, <2>1 DEF StartNext, Goes, TypeOK, handlerVars, beaconVars, RadioSteps
<1> QED
    BY <1>1, <1>2, <1>3, <1>4 DEF HandleTxComplete

LEMMA SubmitType ==
    ASSUME TypeOK, Submit
    PROVE  TypeOK'
<1>1. ASSUME NEW p \in Priorities, NEW s \in Sizes \cup AckSizes,
             \/ RefusePayload(p, s)
             \/ \E b \in Buffers : AcceptPayload(p, s, b)
             \/ FailPayload(p, s),
             sys' \in {"run"} \cup Halts,
             raced' = (raced \/ Races),
             UNCHANGED <<beaconVars, tuned, notes, work, taskVars>>
      PROVE  TypeOK'
    <2>0. s \in Nat
        BY SizesAssumption
    <2> /\ raced' \in BOOLEAN
        /\ UNCHANGED <<gPacket, gEnabled, tuned, notes, work, radio, next>>
        BY <1>1 DEF TypeOK, Races, beaconVars, taskVars
    <2>1. CASE RefusePayload(p, s)
        <3>1. Refuse
            BY <2>1 DEF RefusePayload
        <3> QED
            BY <1>1, <3>1, RefuseType DEF TypeOK
    <2>2. CASE \E b \in Buffers : AcceptPayload(p, s, b)
        BY <1>1, <2>0, <2>2, AcceptType DEF TypeOK
    <2>3. CASE FailPayload(p, s)
        BY <1>1, <2>3 DEF TypeOK, FailPayload, UpdateTxQueueState
    <2> QED
        BY <1>1, <2>1, <2>2, <2>3
<1>2. ASSUME NEW p \in Priorities, NEW s \in Sizes, HostTransmit(p, s)
      PROVE  TypeOK'
    <2>1. sys' \in {"run"} \cup Halts
        BY <1>2 DEF HostTransmit, FailPayload, TypeOK, Halts
    <2> QED
        BY <1>1, <1>2, <2>1 DEF HostTransmit
<1>3. ASSUME NEW s \in AckSizes, QueueAck(s)
      PROVE  TypeOK'
    <2>1. sys' \in {"run"} \cup Halts
        BY <1>3 DEF QueueAck, FailPayload, TypeOK, Halts
    <2>2. NetworkControl \in Priorities
        BY DEF NetworkControl, Priorities
    <2> QED
        BY <1>1, <1>3, <2>1, <2>2 DEF QueueAck
<1>4. ASSUME EmitBeacon
      PROVE  TypeOK'
    <2>1. NetworkControl \in Priorities
        BY DEF NetworkControl, Priorities
    <2>2. UNCHANGED <<gPacket, gEnabled, tuned, notes, work, radio, next, raced>>
        BY <1>4 DEF EmitBeacon, beaconVars, taskVars
    <2>3. CASE BeaconMissing
        BY <2>2, <2>3 DEF TypeOK, BeaconMissing, handlerVars, Halts
    <2>4. CASE BeaconRefused
        <3>1. Refuse /\ UNCHANGED sys
            BY <2>4 DEF BeaconRefused
        <3> QED
            BY <2>2, <3>1, RefuseType DEF TypeOK
    <2>5. CASE BeaconQueued
        <3>1. gPacket \in Buffers
            BY <2>5 DEF BeaconQueued, TypeOK
        <3>2. heap' \in [Buffers -> Packet]
            <4>1. heap \in [Buffers -> Packet] /\ 0 \in 0 .. 255
                BY DEF TypeOK
            <4>2. heap' = [heap EXCEPT ![gPacket].csma = 0]
                BY <2>5 DEF BeaconQueued
            <4> QED
                BY <3>1, <4>1, <4>2, CsmaUpdateType
        <3>3. QueueTxPacketFinal(NetworkControl, gPacket)
              /\ UNCHANGED <<gTxAllocBytes, gTxOverflowFlag, sys>>
            BY <2>5 DEF BeaconQueued
        <3> QED
            BY <2>1, <2>2, <3>1, <3>2, <3>3, QueueFinalType DEF TypeOK
    <2>6. CASE BeaconNotStarted
        <3>1. gPacket \in Buffers
            BY <2>6 DEF BeaconNotStarted, TypeOK
        <3>2. heap' \in [Buffers -> Packet]
            <4>1. heap \in [Buffers -> Packet] /\ 0 \in 0 .. 255
                BY DEF TypeOK
            <4>2. heap' = [heap EXCEPT ![gPacket].csma = 0]
                BY <2>6 DEF BeaconNotStarted
            <4> QED
                BY <3>1, <4>1, <4>2, CsmaUpdateType
        <3>3. gTxPacketsPending' \in 0 .. SizeMax
            BY <2>6, CountersType DEF BeaconNotStarted, TypeOK
        <3> QED
            BY <2>2, <2>6, <3>2, <3>3 DEF BeaconNotStarted, TypeOK, Halts
    <2> QED
        BY <1>4, <2>3, <2>4, <2>5, <2>6 DEF EmitBeacon
<1> QED
    BY <1>2, <1>3, <1>4 DEF Submit

LEMMA ConfigureType ==
    ASSUME TypeOK, Configure
    PROVE  TypeOK'
<1>1. CASE SetChannel
    <2>1. /\ air' \in BOOLEAN /\ tuned' \in BOOLEAN
          /\ UNCHANGED <<handlerVars, beaconVars, gLastTx, notes, work, taskVars, raced, sys>>
        BY <1>1, Zenon DEF SetChannel, TypeOK
    <2> QED
        BY <2>1 DEF TypeOK, handlerVars, beaconVars, taskVars
<1>2. ASSUME NEW e \in BOOLEAN, BeaconConfig(e)
      PROVE  TypeOK'
    BY <1>2 DEF BeaconConfig, TypeOK, handlerVars, radioVars, taskVars
<1>3. CASE HostAcknowledge
    BY <1>3 DEF HostAcknowledge, TypeOK, beaconVars, radioVars, taskVars
<1>4. ASSUME NEW s \in Sizes, NEW e \in BOOLEAN, BeaconConfigPayload(s, e)
      PROVE  TypeOK'
    <2>1. ASSUME NEW old \in [Buffers -> Packet], NEW free \in Int, NEW n \in 0 .. SizeMax,
                 ReleaseThenAlloc(s, old, free, n)
          PROVE  /\ heap' \in [Buffers -> Packet]
                 /\ gTxAllocBytes' \in Int
                 /\ gTxOverflowFlag' \in BOOLEAN
                 /\ txEmptyIrq' \in BOOLEAN
                 /\ gPacket' \in Buffers \cup {NoBuffer}
        <3>1. s \in Nat /\ NewPacket(s, TRUE) \in Packet
            BY SizesAssumption, NewPacketType
        <3>2. txEmptyIrq' \in BOOLEAN
            BY <2>1 DEF TypeOK, ReleaseThenAlloc, UpdateTxQueueState
        <3>3. CASE heap' = old /\ gTxAllocBytes' = free /\ gTxOverflowFlag' = TRUE
                   /\ gPacket' = NoBuffer
            BY <3>2, <3>3
        <3>4. CASE /\ \E b \in Buffers :
                         /\ heap' = [old EXCEPT ![b] = NewPacket(s, TRUE)]
                         /\ gPacket' = b
                   /\ gTxAllocBytes' = free + s
                   /\ UNCHANGED gTxOverflowFlag
            <4>1. PICK b \in Buffers : /\ heap' = [old EXCEPT ![b] = NewPacket(s, TRUE)]
                                       /\ gPacket' = b
                BY <3>4
            <4>2. heap' \in [Buffers -> Packet]
                BY <3>1, <4>1
            <4>3. gTxAllocBytes' \in Int /\ gTxOverflowFlag' \in BOOLEAN
                BY <3>1, <3>4 DEF TypeOK
            <4> QED
                BY <3>2, <4>1, <4>2, <4>3
        <3> QED
            BY <2>1, <3>3, <3>4 DEF ReleaseThenAlloc
    <2>2. /\ UNCHANGED <<queues, gLastTx, tuned, air, notes, work, radio, next, raced, sys>>
          /\ gEnabled' \in BOOLEAN
        BY <1>4 DEF BeaconConfigPayload, TypeOK, radioVars, taskVars
    <2>3. CASE /\ gPacket = NoBuffer
               /\ ReleaseThenAlloc(s, heap, gTxAllocBytes, gTxPacketsPending)
               /\ UNCHANGED gTxPacketsPending
        BY <2>1, <2>2, <2>3 DEF TypeOK
    <2>4. CASE /\ gPacket # NoBuffer
               /\ ReleaseThenAlloc(s, HeapAfterDiscard(gPacket, TRUE),
                           BytesAfterDiscard(gPacket, TRUE), Dec(gTxPacketsPending))
               /\ gTxPacketsPending' = Dec(gTxPacketsPending)
        <3>1. gPacket \in Buffers
            BY <2>4 DEF TypeOK
        <3>2. /\ HeapAfterDiscard(gPacket, TRUE) \in [Buffers -> Packet]
              /\ BytesAfterDiscard(gPacket, TRUE) \in Int
            BY <3>1, HeapAfterDiscardType DEF TypeOK
        <3>3. Dec(gTxPacketsPending) \in 0 .. SizeMax
            BY CountersType DEF TypeOK
        <3> QED
            BY <2>1, <2>2, <2>4, <3>2, <3>3 DEF TypeOK
    <2> QED
        BY <1>4, <2>3, <2>4 DEF BeaconConfigPayload, SetPayload
<1> QED
    BY <1>1, <1>2, <1>3, <1>4 DEF Configure

LEMMA ProgressType ==
    ASSUME TypeOK, Progress
    PROVE  TypeOK'
<1>1. CASE TxPacketSent \/ TxChannelBusy
    BY <1>1 DEF TxPacketSent, TxChannelBusy, RadioEvent, TypeOK, NoteBits, handlerVars,
                beaconVars, taskVars
<1>2. CASE RadioWake
    BY <1>2 DEF RadioWake, TypeOK, handlerVars, beaconVars, taskVars
<1>3. CASE RadioTransmitted
    <2>1. /\ UNCHANGED <<gPacket, gEnabled, gLastTx, tuned, air, notes, next, raced>>
          /\ work' \in SUBSET NoteBits
        BY <1>3 DEF RadioTransmitted, TypeOK, beaconVars
    <2>2. DiscardLast
        BY <1>3 DEF RadioTransmitted
    <2> QED
        BY <2>1, <2>2, DiscardLastType DEF TypeOK
<1>4. CASE RadioBusy
    <2>1. UNCHANGED <<gPacket, gEnabled, tuned, notes, next, raced>> /\ work' \in SUBSET NoteBits
        BY <1>4 DEF RadioBusy, TypeOK, beaconVars
    <2>2. CASE gLastTx = NoBuffer
        BY <1>4, <2>1, <2>2 DEF RadioBusy, TypeOK, handlerVars, Halts, TxPanics
    <2>3. CASE gLastTx # NoBuffer
        <3>1. gLastTx \in Buffers /\ heap \in [Buffers -> Packet]
            BY <2>3 DEF TypeOK
        <3>2. CsmaFails \in 0 .. 255
            BY <3>1, CsmaType
        <3>3. [heap EXCEPT ![gLastTx].csma = CsmaFails] \in [Buffers -> Packet]
            BY <3>1, <3>2, CsmaUpdateType
        <3>4. CASE RadioRetry
            <4>1. /\ gLastTx' \in Buffers \cup {NoBuffer}
                  /\ air' \in BOOLEAN
                  /\ sys' \in {"run"} \cup Halts
                BY <3>4 DEF RadioRetry, Start, TypeOK, Halts, TxPanics
            <4> QED
                BY <2>1, <3>3, <3>4, <4>1 DEF RadioRetry, TypeOK
        <3>5. CASE RadioGiveUp
            <4>1. /\ HeapAfterDiscard(gLastTx, FALSE) \in [Buffers -> Packet]
                  /\ BytesAfterDiscard(gLastTx, FALSE) \in Int
                BY <3>1, HeapAfterDiscardType DEF TypeOK
            <4>2. heap' \in [Buffers -> Packet] /\ gTxAllocBytes' \in Int
                BY <3>3, <3>5, <4>1 DEF RadioGiveUp
            <4>3. gTxPacketsPending' \in 0 .. SizeMax
                BY <3>5, CountersType DEF RadioGiveUp, TypeOK
            <4>4. txEmptyIrq' \in BOOLEAN
                BY <3>5 DEF RadioGiveUp, UpdateTxQueueState, TypeOK
            <4>5. radio' = "forget" /\ UNCHANGED <<queues, gTxOverflowFlag, gLastTx, air, sys>>
                BY <3>5 DEF RadioGiveUp, Goes
            <4> QED
                BY <2>1, <4>2, <4>3, <4>4, <4>5 DEF TypeOK, RadioSteps
        <3> QED
            BY <1>4, <2>3, <3>4, <3>5 DEF RadioBusy
    <2> QED
        BY <2>2, <2>3
<1> QED
    BY <1>1, <1>2, <1>3, <1>4, CompleteType DEF Progress

LEMMA TypeStep ==
    ASSUME TypeOK, [Next]_vars
    PROVE  TypeOK'
<1>1. CASE UNCHANGED vars
    BY <1>1 DEF vars, TypeOK
<1> QED
    BY <1>1, SubmitType, ConfigureType, ProgressType DEF Next

LEMMA TypeInit == Init => TypeOK
<1>1. <<>> \in Seq(Buffers)
    OBVIOUS
<1>2. ASSUME Init
      PROVE  /\ queues \in [Priorities -> Seq(Buffers)]
             /\ heap \in [Buffers -> Packet]
             /\ gTxPacketsPending \in 0 .. SizeMax
    <2>1. queues \in [Priorities -> Seq(Buffers)]
        BY <1>1, <1>2 DEF Init
    <2>2. heap \in [Buffers -> Packet]
        BY <1>2, FreedType DEF Init
    <2>3. gTxPacketsPending \in 0 .. SizeMax
        BY <1>2, LimitsAssumption DEF Init
    <2> QED
        BY <2>1, <2>2, <2>3
<1>3. ASSUME Init
      PROVE  notes \in SUBSET NoteBits /\ work \in SUBSET NoteBits /\ radio \in RadioSteps
    BY <1>3 DEF Init, RadioSteps
<1>4. ASSUME Init
      PROVE  gTxAllocBytes \in Int /\ sys \in {"run"} \cup Halts
    BY <1>4 DEF Init
<1> QED
    BY <1>2, <1>3, <1>4 DEF Init, TypeOK

\* The variables of the transmit path keep their types whatever the host does.
THEOREM TypeCorrect == Spec => []TypeOK
BY TypeInit, TypeStep, PTL DEF Spec

-----------------------------------------------------------------------------
(* Pointers: what a change of the heap or of a queue does to the facts that  *)
(* no pointer dangles, and that the one of a packet to be freed is unique.   *)

Sound(h, q, l, g) ==
    /\ \A p \in Priorities : \A i \in 1 .. Len(q[p]) : h[q[p][i]].size > 0
    /\ l # NoBuffer => h[l].size > 0
    /\ g # NoBuffer => h[g].size > 0 /\ h[g].sticky
    /\ \A p, r \in Priorities : \A i \in 1 .. Len(q[p]) :
          ~h[q[p][i]].sticky =>
              /\ q[p][i] # l
              /\ \A j \in 1 .. Len(q[r]) : q[p][i] = q[r][j] => p = r /\ i = j

\* No pointer to b in a queue or in gLastTx.
Unreferenced(b, q, l) ==
    /\ b # l
    /\ \A p \in Priorities : \A i \in 1 .. Len(q[p]) : q[p][i] # b

LEMMA SoundAppend ==
    ASSUME NEW h \in [Buffers -> Packet], NEW q \in [Priorities -> Seq(Buffers)],
           NEW l, NEW g, Sound(h, q, l, g),
           NEW b \in Buffers, NEW p \in Priorities,
           h[b].size > 0, h[b].sticky \/ Unreferenced(b, q, l)
    PROVE  Sound(h, [q EXCEPT ![p] = Append(@, b)], l, g)
<1> DEFINE n == [q EXCEPT ![p] = Append(@, b)]
<1>1. \A r \in Priorities : \A i \in 1 .. Len(n[r]) :
          \/ i \in 1 .. Len(q[r]) /\ n[r][i] = q[r][i]
          \/ r = p /\ i = Len(q[p]) + 1 /\ n[r][i] = b
    OBVIOUS
<1>2. \A r \in Priorities : \A i \in 1 .. Len(n[r]) : h[n[r][i]].size > 0
    BY <1>1 DEF Sound
<1>3. ASSUME NEW r \in Priorities, NEW t \in Priorities, NEW i \in 1 .. Len(n[r]),
             ~h[n[r][i]].sticky
      PROVE  /\ n[r][i] # l
             /\ \A j \in 1 .. Len(n[t]) : n[r][i] = n[t][j] => r = t /\ i = j
    <2>1. CASE i \in 1 .. Len(q[r]) /\ n[r][i] = q[r][i]
        BY <1>1, <1>3, <2>1 DEF Sound, Unreferenced
    <2>2. CASE r = p /\ i = Len(q[p]) + 1 /\ n[r][i] = b
        BY <1>1, <1>3, <2>2 DEF Unreferenced
    <2> QED
        BY <1>1, <2>1, <2>2
<1> QED
    BY <1>2, <1>3 DEF Sound

LEMMA SoundStart ==
    ASSUME NEW h \in [Buffers -> Packet], NEW q \in [Priorities -> Seq(Buffers)],
           NEW g, Sound(h, q, NoBuffer, g),
           NEW b \in Buffers, h[b].size > 0, h[b].sticky \/ Unreferenced(b, q, NoBuffer)
    PROVE  Sound(h, q, b, g)
BY DEF Sound, Unreferenced

LEMMA SoundFresh ==
    ASSUME NEW h \in [Buffers -> Packet], NEW q \in [Priorities -> Seq(Buffers)],
           NEW l \in Buffers \cup {NoBuffer}, NEW g \in Buffers \cup {NoBuffer},
           Sound(h, q, l, g),
           NEW b \in Buffers, h[b].size = 0, NEW k \in Packet, k.size > 0
    PROVE  /\ Sound([h EXCEPT ![b] = k], q, l, g)
           /\ Unreferenced(b, q, l)
<1>1. Unreferenced(b, q, l)
    BY BuffersAssumption DEF Sound, Unreferenced
<1>2. b # g
    BY BuffersAssumption DEF Sound
<1> DEFINE n == [h EXCEPT ![b] = k]
<1>3. \A c \in Buffers : c # b => n[c] = h[c]
    OBVIOUS
<1>4. \A p \in Priorities : \A i \in 1 .. Len(q[p]) : q[p][i] \in Buffers /\ q[p][i] # b
    BY <1>1 DEF Unreferenced
<1> QED
    BY <1>1, <1>2, <1>3, <1>4 DEF Sound, Unreferenced

\* The retry count plays no part.
LEMMA SoundCsma ==
    ASSUME NEW h \in [Buffers -> Packet], NEW q \in [Priorities -> Seq(Buffers)],
           NEW l \in Buffers \cup {NoBuffer}, NEW g \in Buffers \cup {NoBuffer},
           Sound(h, q, l, g), NEW b \in Buffers, NEW c \in 0 .. 255
    PROVE  Sound([h EXCEPT ![b].csma = c], q, l, g)
<1> DEFINE n == [h EXCEPT ![b].csma = c]
<1>1. \A d \in Buffers : n[d].size = h[d].size /\ n[d].sticky = h[d].sticky
    BY DEF Packet
<1>2. \A p \in Priorities : \A i \in 1 .. Len(q[p]) : q[p][i] \in Buffers
    OBVIOUS
<1> QED
    BY <1>1, <1>2 DEF Sound

LEMMA SoundDiscard ==
    ASSUME NEW h \in [Buffers -> Packet], NEW q \in [Priorities -> Seq(Buffers)],
           NEW l \in Buffers, NEW g \in Buffers \cup {NoBuffer}, Sound(h, q, l, g)
    PROVE  /\ Sound(h, q, NoBuffer, g)
           /\ ~h[l].sticky => Sound([h EXCEPT ![l] = Freed], q, NoBuffer, g)
<1>1. \A p \in Priorities : \A i \in 1 .. Len(q[p]) : q[p][i] \in Buffers
    OBVIOUS
<1>2. Sound(h, q, NoBuffer, g)
    BY <1>1, BuffersAssumption DEF Sound
<1>3. ASSUME ~h[l].sticky
      PROVE  Sound([h EXCEPT ![l] = Freed], q, NoBuffer, g)
    <2> DEFINE n == [h EXCEPT ![l] = Freed]
    <2>1. \A d \in Buffers : d # l => n[d] = h[d]
        OBVIOUS
    <2>2. \A p \in Priorities : \A i \in 1 .. Len(q[p]) : q[p][i] # l
        BY <1>3 DEF Sound
    <2>3. g # l
        BY <1>3, BuffersAssumption DEF Sound
    <2> QED
        BY <1>1, <1>2, <2>1, <2>2, <2>3 DEF Sound
<1> QED
    BY <1>2, <1>3

LEMMA SoundPop ==
    ASSUME NEW h \in [Buffers -> Packet], NEW q \in [Priorities -> Seq(Buffers)],
           NEW g, Sound(h, q, NoBuffer, g), NEW p \in Priorities, q[p] # <<>>
    PROVE  Sound(h, [q EXCEPT ![p] = Tail(@)], Head(q[p]), g)
<1> DEFINE n == [q EXCEPT ![p] = Tail(@)]
<1>1. Len(q[p]) > 0 /\ Head(q[p]) = q[p][1] /\ Head(q[p]) \in Buffers
    OBVIOUS
<1>2. \A r \in Priorities : \A i \in 1 .. Len(n[r]) :
          \/ r = p /\ i + 1 \in 1 .. Len(q[p]) /\ n[r][i] = q[p][i + 1]
          \/ r # p /\ i \in 1 .. Len(q[r]) /\ n[r][i] = q[r][i]
    OBVIOUS
<1>3. \A r \in Priorities : \A i \in 1 .. Len(n[r]) : h[n[r][i]].size > 0
    BY <1>2 DEF Sound
<1>4. h[Head(q[p])].size > 0
    BY <1>1 DEF Sound
<1>5. ASSUME NEW r \in Priorities, NEW t \in Priorities, NEW i \in 1 .. Len(n[r]),
             ~h[n[r][i]].sticky
      PROVE  /\ n[r][i] # Head(q[p])
             /\ \A j \in 1 .. Len(n[t]) : n[r][i] = n[t][j] => r = t /\ i = j
    <2>1. n[r][i] # Head(q[p])
        BY <1>1, <1>2, <1>5 DEF Sound
    <2>2. ASSUME NEW j \in 1 .. Len(n[t]), n[r][i] = n[t][j]
          PROVE  r = t /\ i = j
        BY <1>2, <1>5, <2>2 DEF Sound
    <2> QED
        BY <2>1, <2>2
<1> QED
    BY <1>3, <1>4, <1>5 DEF Sound

-----------------------------------------------------------------------------
(* The number of queued packets. *)

Total(q) == Len(q[0]) + Len(q[1]) + Len(q[2]) + Len(q[3])

LEMMA FourPriorities ==
    /\ 0 \in Priorities /\ 1 \in Priorities /\ 2 \in Priorities /\ 3 \in Priorities
    /\ \A p \in Priorities : p = 0 \/ p = 1 \/ p = 2 \/ p = 3
BY DEF Priorities

LEMMA Lengths ==
    ASSUME NEW q \in [Priorities -> Seq(Buffers)]
    PROVE  /\ Len(q[0]) \in Nat /\ Len(q[1]) \in Nat
           /\ Len(q[2]) \in Nat /\ Len(q[3]) \in Nat
<1>1. \A p \in Priorities : Len(q[p]) \in Nat
    OBVIOUS
<1> QED
    BY <1>1, FourPriorities

LEMMA TotalAppend ==
    ASSUME NEW q \in [Priorities -> Seq(Buffers)], NEW p \in Priorities, NEW x \in Buffers
    PROVE  Total([q EXCEPT ![p] = Append(@, x)]) = Total(q) + 1
<1> DEFINE n == [q EXCEPT ![p] = Append(@, x)]
<1> DEFINE a == Len(q[0])
<1> DEFINE b == Len(q[1])
<1> DEFINE c == Len(q[2])
<1> DEFINE d == Len(q[3])
<1>1. a \in Nat /\ b \in Nat /\ c \in Nat /\ d \in Nat
    BY Lengths
<1> DEFINE n0 == Len(n[0])
<1> DEFINE n1 == Len(n[1])
<1> DEFINE n2 == Len(n[2])
<1> DEFINE n3 == Len(n[3])
<1>2. \A r \in Priorities : Len(n[r]) = IF r = p THEN Len(q[r]) + 1 ELSE Len(q[r])
    OBVIOUS
<1>3. /\ n0 = IF 0 = p THEN a + 1 ELSE a
      /\ n1 = IF 1 = p THEN b + 1 ELSE b
      /\ n2 = IF 2 = p THEN c + 1 ELSE c
      /\ n3 = IF 3 = p THEN d + 1 ELSE d
    BY <1>2, FourPriorities
<1> HIDE DEF a, b, c, d, n0, n1, n2, n3
<1>4. n0 + n1 + n2 + n3 = a + b + c + d + 1
    <2>1. CASE p = 0
        BY <1>1, <1>3, <2>1
    <2>2. CASE p = 1
        BY <1>1, <1>3, <2>2
    <2>3. CASE p = 2
        BY <1>1, <1>3, <2>3
    <2>4. CASE p = 3
        BY <1>1, <1>3, <2>4
    <2> QED
        BY <2>1, <2>2, <2>3, <2>4, FourPriorities
<1>5. Total(n) = n0 + n1 + n2 + n3 /\ Total(q) = a + b + c + d
    BY DEF a, b, c, d, n0, n1, n2, n3, Total
<1> HIDE DEF n
<1>6. Total(n) = Total(q) + 1
    BY <1>1, <1>4, <1>5
<1> QED
    BY <1>6 DEF n

LEMMA TotalTail ==
    ASSUME NEW q \in [Priorities -> Seq(Buffers)], NEW p \in Priorities, q[p] # <<>>
    PROVE  Total([q EXCEPT ![p] = Tail(@)]) = Total(q) - 1
<1> DEFINE n == [q EXCEPT ![p] = Tail(@)]
<1> DEFINE a == Len(q[0])
<1> DEFINE b == Len(q[1])
<1> DEFINE c == Len(q[2])
<1> DEFINE d == Len(q[3])
<1>1. a \in Nat /\ b \in Nat /\ c \in Nat /\ d \in Nat
    BY Lengths
<1> DEFINE n0 == Len(n[0])
<1> DEFINE n1 == Len(n[1])
<1> DEFINE n2 == Len(n[2])
<1> DEFINE n3 == Len(n[3])
<1>2. \A r \in Priorities : Len(n[r]) = IF r = p THEN Len(q[r]) - 1 ELSE Len(q[r])
    OBVIOUS
<1>3. /\ n0 = IF 0 = p THEN a - 1 ELSE a
      /\ n1 = IF 1 = p THEN b - 1 ELSE b
      /\ n2 = IF 2 = p THEN c - 1 ELSE c
      /\ n3 = IF 3 = p THEN d - 1 ELSE d
    BY <1>2, FourPriorities
<1> HIDE DEF a, b, c, d, n0, n1, n2, n3
<1>4. n0 + n1 + n2 + n3 = a + b + c + d - 1
    <2>1. CASE p = 0
        BY <1>1, <1>3, <2>1
    <2>2. CASE p = 1
        BY <1>1, <1>3, <2>2
    <2>3. CASE p = 2
        BY <1>1, <1>3, <2>3
    <2>4. CASE p = 3
        BY <1>1, <1>3, <2>4
    <2> QED
        BY <2>1, <2>2, <2>3, <2>4, FourPriorities
<1>5. Total(n) = n0 + n1 + n2 + n3 /\ Total(q) = a + b + c + d
    BY DEF a, b, c, d, n0, n1, n2, n3, Total
<1> HIDE DEF n
<1>6. Total(n) = Total(q) - 1
    BY <1>1, <1>4, <1>5
<1> QED
    BY <1>6 DEF n

LEMMA TotalNat ==
    ASSUME NEW q \in [Priorities -> Seq(Buffers)]
    PROVE  /\ Total(q) \in Nat
           /\ Total(q) = 0 <=> \A p \in Priorities : q[p] = <<>>
<1> DEFINE a == Len(q[0])
<1> DEFINE b == Len(q[1])
<1> DEFINE c == Len(q[2])
<1> DEFINE d == Len(q[3])
<1>1. a \in Nat /\ b \in Nat /\ c \in Nat /\ d \in Nat
    BY Lengths
<1> DEFINE t == a + b + c + d
<1>2. \A p \in Priorities : Len(q[p]) = 0 <=> q[p] = <<>>
    OBVIOUS
<1>3. a = 0 /\ b = 0 /\ c = 0 /\ d = 0 <=> \A p \in Priorities : q[p] = <<>>
    BY <1>2, FourPriorities
<1> HIDE DEF a, b, c, d
<1>4. t \in Nat /\ (t = 0 <=> a = 0 /\ b = 0 /\ c = 0 /\ d = 0)
    BY <1>1
<1>5. Total(q) = t
    BY DEF a, b, c, d, Total
<1> QED
    BY <1>3, <1>4, <1>5

LEMMA TotalBound ==
    ASSUME NEW q \in [Priorities -> Seq(Buffers)],
           \A p \in Priorities : Len(q[p]) <= MaxTxQueueSize
    PROVE  Total(q) + 1 < SizeMax
<1> DEFINE a == Len(q[0])
<1> DEFINE b == Len(q[1])
<1> DEFINE c == Len(q[2])
<1> DEFINE d == Len(q[3])
<1>1. a \in Nat /\ b \in Nat /\ c \in Nat /\ d \in Nat
    BY Lengths
<1> DEFINE m == MaxTxQueueSize
<1>2. a <= m /\ b <= m /\ c <= m /\ d <= m
    BY FourPriorities
<1>3. m \in Nat /\ SizeMax \in Nat /\ 4 * m + 1 < SizeMax
    BY LimitsAssumption
<1> HIDE DEF a, b, c, d, m
<1>4. a + b + c + d + 1 < SizeMax
    BY <1>1, <1>2, <1>3
<1> QED
    BY <1>4 DEF a, b, c, d, Total

-----------------------------------------------------------------------------
(* The inductive invariant, for a host that neither retunes the radio while *)
(* it transmits nor replaces the beacon's payload.                          *)

Cautious == "retune" \notin Risks /\ "replace" \notin Risks

\* The packet whose transmission is under way or was the last event's.
Tried == IF radio = "waits" THEN gLastTx ELSE NoBuffer

Core ==
    /\ \A p \in Priorities : Len(queues[p]) <= MaxTxQueueSize
    /\ gTxPacketsPending = InFlight + Total(queues)
    /\ radio = "waits" /\ gLastTx = NoBuffer => Total(queues) = 0
    /\ radio = "pop" => Total(queues) # 0
    /\ radio = "start" <=> next # NoBuffer
    /\ radio \in {"test", "pop", "start"} => gLastTx = NoBuffer
    /\ radio # "waits" \/ gLastTx # NoBuffer => tuned
    /\ IF Tried # NoBuffer THEN OneEvent ELSE NoEvent
    /\ Sound(heap, queues, Serving, gPacket)

IInv == TypeOK /\ OnlyRacePanics /\ (Orderly => Core)

\* With nothing pending the radio side holds nothing; otherwise, unless the radio
\* task is between two packets, it holds one.
LEMMA PendingMeans ==
    ASSUME TypeOK, Core
    PROVE  /\ gTxPacketsPending = 0 => Serving = NoBuffer /\ NoEvent /\ Total(queues) = 0
           /\ gTxPacketsPending # 0 /\ radio = "waits" => gLastTx # NoBuffer
           /\ gTxPacketsPending < SizeMax
           /\ Total(queues) \in Nat
           /\ Serving \in Buffers \cup {NoBuffer}
<1>1. Total(queues) \in Nat /\ Total(queues) + 1 < SizeMax
    BY TotalNat, TotalBound DEF TypeOK, Core
<1>2. InFlight = IF Serving = NoBuffer THEN 0 ELSE 1
    BY DEF InFlight
<1>3. gTxPacketsPending = InFlight + Total(queues)
    BY DEF Core
<1>4. Serving \in Buffers \cup {NoBuffer}
    BY DEF Serving, TypeOK
<1>5. gTxPacketsPending < SizeMax
    BY <1>1, <1>2, <1>3, LimitsAssumption
<1>6. ASSUME gTxPacketsPending = 0
      PROVE  Serving = NoBuffer /\ NoEvent /\ Total(queues) = 0
    <2>1. Serving = NoBuffer /\ Total(queues) = 0
        BY <1>1, <1>2, <1>3, <1>6
    <2>2. Tried = NoBuffer
        BY <2>1 DEF Tried, Serving
    <2> QED
        BY <2>1, <2>2 DEF Core
<1>7. ASSUME gTxPacketsPending # 0, radio = "waits", gLastTx = NoBuffer
      PROVE  FALSE
    <2>1. Serving = NoBuffer
        BY <1>7 DEF Serving
    <2>2. Total(queues) = 0
        BY <1>7 DEF Core
    <2> QED
        BY <1>2, <1>3, <1>7, <2>1, <2>2
<1> QED
    BY <1>1, <1>4, <1>5, <1>6, <1>7

\* Nothing of what Core speaks of but the heap changes.
LEMMA SameServing ==
    ASSUME UNCHANGED <<gLastTx, radio, next>>
    PROVE  UNCHANGED <<Serving, InFlight, Tried>>
BY DEF Serving, InFlight, Tried

\* A packet that is started at once finds the radio task waiting, unless it races.
LEMMA StartsWaiting ==
    ASSUME TypeOK, Core, ~Races, gTxPacketsPending = 0, gTxPacketsPending' # 0
    PROVE  radio = "waits"
<1>1. radio \notin {"forget", "test"}
    BY DEF Races
<1>2. Total(queues) = 0 /\ Serving = NoBuffer
    BY PendingMeans
<1>3. radio # "pop" /\ radio # "start"
    BY <1>2, BuffersAssumption DEF Core, Serving
<1> QED
    BY <1>1, <1>3 DEF TypeOK, RadioSteps

\* QueueTxPacketFinal, once the packet's buffer has been filled in.
LEMMA QueueFinalCore ==
    ASSUME TypeOK, Core, heap' \in [Buffers -> Packet], NEW p \in Priorities, NEW b \in Buffers,
           QueueTxPacketFinal(p, b), ~QueueFull(p), ~Races,
           Sound(heap', queues, Serving, gPacket),
           heap'[b].size > 0,
           heap'[b].sticky \/ Unreferenced(b, queues, Serving),
           UNCHANGED <<gPacket, tuned, notes, work, radio, next>>
    PROVE  Core'
<1> USE BuffersAssumption
<1>1. Inc(gTxPacketsPending) = gTxPacketsPending + 1
    <2>1. gTxPacketsPending < SizeMax /\ gTxPacketsPending \in Int /\ SizeMax \in Int
        BY PendingMeans, LimitsAssumption DEF TypeOK
    <2> QED
        BY <2>1 DEF Inc
<1>2. CASE gTxPacketsPending = 0 /\ Start(b) /\ UNCHANGED queues
    <2>1. Serving = NoBuffer /\ NoEvent /\ Total(queues) = 0
        BY <1>2, PendingMeans
    <2>2. gTxPacketsPending' = 1
        BY <1>1, <1>2 DEF QueueTxPacketFinal
    <2>3. radio = "waits"
        BY <1>2, <2>2, StartsWaiting
    <2>4. gLastTx' = b /\ air' = TRUE /\ tuned /\ gLastTx' # NoBuffer
        BY <1>2 DEF Start, CanStart
    <2>5. Serving' = b /\ Tried' = b /\ InFlight' = 1
        BY <2>3, <2>4 DEF Serving, Tried, InFlight
    <2>6. Sound(heap', queues', Serving', gPacket')
        BY <1>2, <2>1, <2>5, SoundStart DEF TypeOK
    <2>7. OneEvent'
        BY <2>1, <2>4 DEF OneEvent, NoEvent
    <2>8. Total(queues') = 0
        BY <1>2, <2>1
    <2>9. \A r \in Priorities : Len(queues'[r]) <= MaxTxQueueSize
        BY <1>2 DEF Core
    <2>10. radio' = "waits" /\ next' = NoBuffer /\ tuned'
        BY <2>3, <2>4 DEF Core
    <2> QED
        BY <2>2, <2>4, <2>5, <2>6, <2>7, <2>8, <2>9, <2>10 DEF Core
<1>3. CASE /\ gTxPacketsPending # 0
           /\ queues' = [queues EXCEPT ![p] = Append(@, b)]
           /\ UNCHANGED <<gLastTx, air>>
    <2>1. UNCHANGED <<Serving, InFlight, Tried>>
        BY <1>3, SameServing
    <2>2. OneEvent' = OneEvent /\ NoEvent' = NoEvent
        BY <1>3 DEF OneEvent, NoEvent
    <2>3. Sound(heap', queues', Serving', gPacket')
        BY <1>3, <2>1, PendingMeans, SoundAppend DEF TypeOK
    <2>4. Total(queues') = Total(queues) + 1
        BY <1>3, TotalAppend DEF TypeOK
    <2>5. gTxPacketsPending' = InFlight' + Total(queues') /\ Total(queues') # 0
        <3>1. InFlight \in Nat
            BY DEF InFlight
        <3>2. gTxPacketsPending' = gTxPacketsPending + 1
            BY <1>1 DEF QueueTxPacketFinal
        <3>3. gTxPacketsPending = InFlight + Total(queues) /\ Total(queues) \in Nat
            BY PendingMeans DEF Core
        <3> QED
            BY <2>1, <2>4, <3>1, <3>2, <3>3
    <2>6. \A r \in Priorities : Len(queues'[r]) <= MaxTxQueueSize
        <3>1. Len(queues[p]) < MaxTxQueueSize
            BY LimitsAssumption DEF QueueFull, TypeOK
        <3>2. \A r \in Priorities : Len(queues'[r]) = IF r = p THEN Len(queues[r]) + 1
                                                       ELSE Len(queues[r])
            BY <1>3 DEF TypeOK
        <3>3. \A r \in Priorities : Len(queues[r]) \in Nat
            BY DEF TypeOK
        <3> QED
            BY <3>1, <3>2, <3>3, LimitsAssumption DEF Core
    <2>7. radio = "waits" => gLastTx # NoBuffer
        BY <1>3, PendingMeans
    <2> QED
        BY <1>3, <2>1, <2>2, <2>3, <2>5, <2>6, <2>7 DEF Core
<1> QED
    BY <1>2, <1>3 DEF QueueTxPacketFinal

\* The end of a packet: its discard.
LEMMA DiscardCore ==
    ASSUME TypeOK, Core, radio = "waits", gLastTx # NoBuffer,
           Sound(heap', queues, NoBuffer, gPacket),
           gTxPacketsPending' = Dec(gTxPacketsPending), radio' = "forget",
           ~air, notes' = {}, work' = {},
           UNCHANGED <<queues, gPacket, gLastTx, tuned, air, next>>
    PROVE  Core'
<1>1. Serving = gLastTx /\ InFlight = 1
    BY DEF Serving, InFlight
<1>2. Dec(gTxPacketsPending) = Total(queues)
    <2>1. gTxPacketsPending = 1 + Total(queues) /\ Total(queues) \in Nat
        BY <1>1, PendingMeans DEF Core
    <2> QED
        BY <2>1 DEF Dec
<1>3. Serving' = NoBuffer /\ InFlight' = 0 /\ Tried' = NoBuffer
    BY DEF Serving, InFlight, Tried
<1>4. Total(queues)' = Total(queues) /\ Total(queues) \in Nat
    BY PendingMeans DEF Total
<1>5. NoEvent'
    BY DEF NoEvent
<1>6. tuned /\ next = NoBuffer
    BY DEF Core
<1> QED
    BY <1>2, <1>3, <1>4, <1>5, <1>6 DEF Core

LEMMA ForgetCore ==
    ASSUME TypeOK, Core, ForgetLast
    PROVE  Core'
<1>1. /\ radio = "forget" /\ radio' = "test" /\ gLastTx' = NoBuffer
      /\ UNCHANGED <<heap, queues, gTxPacketsPending, gPacket, tuned, air, notes, work, next>>
    BY DEF ForgetLast, Goes, handlerVars, beaconVars
<1>2. Serving = NoBuffer /\ Serving' = NoBuffer /\ Tried = NoBuffer /\ Tried' = NoBuffer
    BY <1>1 DEF Serving, Tried
<1>3. UNCHANGED InFlight /\ Total(queues)' = Total(queues) /\ NoEvent' = NoEvent
    BY <1>1, <1>2 DEF InFlight, Total, NoEvent
<1> QED
    BY <1>1, <1>2, <1>3 DEF Core

LEMMA TestCore ==
    ASSUME TypeOK, Core, TestEmpty
    PROVE  Core'
<1>1. /\ radio = "test" /\ radio' = IF gTxPacketsPending = 0 THEN "waits" ELSE "pop"
      /\ UNCHANGED <<heap, queues, gTxPacketsPending, gPacket, gLastTx, tuned, air, notes, work,
                     next>>
    BY DEF TestEmpty, Goes, handlerVars, beaconVars
<1>2. gLastTx = NoBuffer /\ next = NoBuffer /\ tuned
    BY <1>1 DEF Core
<1>3. Serving = NoBuffer /\ Serving' = NoBuffer /\ Tried = NoBuffer /\ Tried' = NoBuffer
    BY <1>1, <1>2 DEF Serving, Tried
<1>4. UNCHANGED InFlight /\ InFlight = 0 /\ Total(queues)' = Total(queues) /\ NoEvent' = NoEvent
    BY <1>1, <1>3 DEF InFlight, Total, NoEvent
<1>5. gTxPacketsPending = Total(queues)
    BY <1>4, PendingMeans DEF Core
<1> QED
    BY <1>1, <1>2, <1>3, <1>4, <1>5 DEF Core

LEMMA PopCore ==
    ASSUME TypeOK, Core, PopNext
    PROVE  Core' /\ UNCHANGED sys
<1> USE BuffersAssumption
<1>1. /\ radio = "pop"
      /\ UNCHANGED <<heap, gTxPacketsPending, gPacket, gLastTx, tuned, air, notes, work>>
    BY DEF PopNext, Goes, beaconVars
<1>2. gLastTx = NoBuffer /\ tuned /\ Total(queues) # 0
    BY <1>1 DEF Core
<1>3. PICK p \in Priorities : /\ Highest(p) /\ next' = Head(queues[p])
                              /\ queues' = [queues EXCEPT ![p] = Tail(@)]
                              /\ radio' = "start" /\ UNCHANGED sys
    BY <1>2, TotalNat DEF PopNext, Goes, TypeOK
<1>4. queues[p] # <<>>
    BY <1>3 DEF Highest
<1>5. next' \in Buffers /\ next' # NoBuffer
    BY <1>3, <1>4, TailType DEF TypeOK
<1>6. Serving = NoBuffer /\ Tried = NoBuffer /\ Serving' = next' /\ Tried' = NoBuffer
    BY <1>1, <1>2, <1>3 DEF Serving, Tried
<1>7. InFlight = 0 /\ InFlight' = 1
    BY <1>5, <1>6 DEF InFlight
<1>8. Sound(heap, queues, NoBuffer, gPacket)
    BY <1>6 DEF Core
<1>9. Sound(heap', queues', Serving', gPacket')
    BY <1>1, <1>3, <1>4, <1>6, <1>8, SoundPop DEF TypeOK
<1>10. gTxPacketsPending' = InFlight' + Total(queues')
    <2>1. Total(queues') = Total(queues) - 1
        BY <1>3, <1>4, TotalTail DEF TypeOK
    <2>2. gTxPacketsPending = Total(queues) /\ Total(queues) \in Nat
        BY <1>7, PendingMeans DEF Core
    <2> QED
        BY <1>1, <1>7, <2>1, <2>2
<1>11. \A r \in Priorities : Len(queues'[r]) <= MaxTxQueueSize
    <2>1. \A r \in Priorities : Len(queues'[r]) = IF r = p THEN Len(queues[r]) - 1
                                                   ELSE Len(queues[r])
        BY <1>3, <1>4 DEF TypeOK
    <2>2. \A r \in Priorities : Len(queues[r]) \in Nat
        BY DEF TypeOK
    <2> QED
        BY <2>1, <2>2, LimitsAssumption DEF Core
<1>12. NoEvent'
    BY <1>1, <1>6 DEF Core, NoEvent
<1> QED
    BY <1>1, <1>2, <1>3, <1>5, <1>6, <1>9, <1>10, <1>11, <1>12 DEF Core

LEMMA StartCore ==
    ASSUME TypeOK, Core, StartNext
    PROVE  Core' /\ UNCHANGED sys
<1>1. /\ radio = "start" /\ radio' = "waits" /\ next' = NoBuffer
      /\ UNCHANGED <<heap, queues, gTxPacketsPending, gPacket, tuned, notes, work>>
    BY DEF StartNext, Goes, handlerVars, beaconVars
<1>2. tuned /\ next # NoBuffer /\ Tried = NoBuffer /\ Serving = next
    BY <1>1 DEF Core, Tried, Serving
<1>3. NoEvent
    BY <1>2 DEF Core
<1>4. gLastTx' = next /\ air' = TRUE /\ UNCHANGED sys
    BY <1>2, <1>3 DEF StartNext, Start, CanStart, NoEvent
<1>5. Serving' = Serving /\ Tried' = next /\ UNCHANGED InFlight
    BY <1>1, <1>2, <1>4 DEF Serving, Tried, InFlight
<1>6. OneEvent' /\ Total(queues)' = Total(queues)
    BY <1>1, <1>3, <1>4 DEF OneEvent, NoEvent, Total
<1> QED
    BY <1>1, <1>2, <1>4, <1>5, <1>6 DEF Core

-----------------------------------------------------------------------------
(* The invariant, by action. *)

LEMMA FrameCore ==
    ASSUME Core, UNCHANGED <<heap, queues, gTxPacketsPending, gPacket, gLastTx, air, notes, work,
                             radio, next>>,
           tuned => tuned'
    PROVE  Core'
<1>1. UNCHANGED <<Serving, InFlight, Tried>>
    BY SameServing
<1>2. Total(queues)' = Total(queues) /\ OneEvent' = OneEvent /\ NoEvent' = NoEvent
    BY DEF Total, OneEvent, NoEvent
<1> QED
    BY <1>1, <1>2 DEF Core

LEMMA RefuseCore ==
    ASSUME TypeOK, Core, Refuse, UNCHANGED <<gPacket, tuned, notes, work, radio, next>>
    PROVE  Core'
BY FrameCore DEF Refuse

LEMMA AcceptCore ==
    ASSUME TypeOK, Core, NEW p \in Priorities, NEW s \in Nat \ {0}, NEW b \in Buffers,
           AcceptPayload(p, s, b), ~Races,
           UNCHANGED <<gPacket, tuned, notes, work, radio, next>>
    PROVE  Core'
<1>1. NewPacket(s, FALSE) \in Packet /\ NewPacket(s, FALSE).size > 0
    <2>1. s \in Nat /\ s > 0
        OBVIOUS
    <2>2. NewPacket(s, FALSE) \in Packet
        BY <2>1, NewPacketType
    <2> QED
        BY <2>1, <2>2 DEF NewPacket
<1>2. heap[b].size = 0
    <2>1. heap[b].size \in Nat
        BY DEF TypeOK, Packet
    <2> QED
        BY <2>1 DEF AcceptPayload, Live
<1>3. heap' = [heap EXCEPT ![b] = NewPacket(s, FALSE)]
    BY DEF AcceptPayload
<1>4. heap' \in [Buffers -> Packet] /\ heap'[b] = NewPacket(s, FALSE)
    BY <1>1, <1>3 DEF TypeOK
<1>5. /\ Sound(heap', queues, Serving, gPacket)
      /\ Unreferenced(b, queues, Serving)
    BY <1>1, <1>2, <1>3, PendingMeans, SoundFresh DEF Core, TypeOK
<1>6. QueueTxPacketFinal(p, b) /\ ~QueueFull(p)
    BY DEF AcceptPayload
<1> QED
    BY <1>1, <1>4, <1>5, <1>6, QueueFinalCore

LEMMA SubmitIInv ==
    ASSUME IInv, Submit
    PROVE  OnlyRacePanics' /\ (Orderly' => Core')
<1>1. TypeOK
    BY DEF IInv
<1>2. ASSUME NEW p \in Priorities, NEW s \in Sizes, HostTransmit(p, s)
      PROVE  OnlyRacePanics' /\ (Orderly' => Core')
    <2>1. Running /\ raced' = (raced \/ Races)
        BY <1>2 DEF HostTransmit
    <2>2. UNCHANGED <<gPacket, tuned, notes, work, radio, next>>
        BY <1>2 DEF HostTransmit, beaconVars, taskVars
    <2>3. CASE FailPayload(p, s)
        BY <2>3 DEF FailPayload, Orderly, Running, OnlyRacePanics, TxPanics
    <2>4. CASE raced'
        BY <2>4 DEF Orderly, OnlyRacePanics
    <2>5. CASE ~FailPayload(p, s) /\ ~raced'
        <3>1. Core /\ ~Races
            BY <2>1, <2>5 DEF IInv, Orderly
        <3>2. s \in Nat \ {0}
            BY SizesAssumption
        <3>3. UNCHANGED sys
            BY <1>2, <2>5 DEF HostTransmit
        <3>4. Core'
            BY <1>1, <1>2, <2>2, <2>5, <3>1, <3>2, RefuseCore, AcceptCore
               DEF HostTransmit, RefusePayload
        <3> QED
            BY <2>1, <3>3, <3>4 DEF Running, OnlyRacePanics, TxPanics
    <2> QED
        BY <2>3, <2>4, <2>5
<1>3. ASSUME NEW s \in AckSizes, QueueAck(s)
      PROVE  OnlyRacePanics' /\ (Orderly' => Core')
    <2>1. Running /\ raced' = (raced \/ Races)
        BY <1>3 DEF QueueAck
    <2>2. UNCHANGED <<gPacket, tuned, notes, work, radio, next>>
        BY <1>3 DEF QueueAck, beaconVars, taskVars
    <2>3. CASE RefusePayload(NetworkControl, s) /\ UNCHANGED sys /\ ~raced'
        BY <1>1, <2>1, <2>2, <2>3, RefuseCore
           DEF RefusePayload, IInv, Orderly, Running, OnlyRacePanics, TxPanics
    <2>4. CASE sys' \in {"ackPanic", "locked"}
        BY <2>4 DEF Orderly, Running, OnlyRacePanics, TxPanics
    <2>5. CASE raced'
        BY <2>5 DEF Orderly, OnlyRacePanics
    <2> QED
        BY <1>3, <2>3, <2>4, <2>5 DEF QueueAck, FailPayload
<1>4. ASSUME EmitBeacon
      PROVE  OnlyRacePanics' /\ (Orderly' => Core')
    <2>1. Running /\ radio = "waits"
        BY <1>4 DEF EmitBeacon
    <2>2. UNCHANGED <<gPacket, tuned, notes, work, radio, next, raced>>
        BY <1>4 DEF EmitBeacon, beaconVars, taskVars
    <2>3. CASE BeaconMissing \/ BeaconNotStarted
        BY <2>3 DEF BeaconMissing, BeaconNotStarted, Orderly, Running, OnlyRacePanics, TxPanics
    <2>4. CASE raced
        BY <2>2, <2>4 DEF Orderly, OnlyRacePanics
    <2>5. CASE BeaconRefused /\ ~raced
        <3>1. Core
            BY <2>1, <2>5 DEF IInv, Orderly
        <3> QED
            BY <1>1, <2>1, <2>2, <2>5, <3>1, RefuseCore
               DEF BeaconRefused, Running, OnlyRacePanics, TxPanics
    <2>6. CASE BeaconQueued /\ ~raced
        <3>0. Core
            BY <2>1, <2>6 DEF IInv, Orderly
        <3>1. gPacket \in Buffers /\ gPacket # NoBuffer
            BY <1>1, <2>6 DEF BeaconQueued, TypeOK
        <3>2. heap[gPacket].size > 0 /\ heap[gPacket].sticky
            BY <3>0, <3>1 DEF Core, Sound
        <3>3. heap' = [heap EXCEPT ![gPacket].csma = 0] /\ 0 \in 0 .. 255
            BY <2>6 DEF BeaconQueued
        <3>4. heap' \in [Buffers -> Packet]
            BY <1>1, <3>1, <3>3, CsmaUpdateType DEF TypeOK
        <3>5. heap'[gPacket].size > 0 /\ heap'[gPacket].sticky
            BY <1>1, <3>1, <3>2, <3>3 DEF TypeOK, Packet
        <3>6. Sound(heap', queues, Serving, gPacket)
            <4>1. Serving \in Buffers \cup {NoBuffer}
                BY <1>1, <3>0, PendingMeans
            <4>2. heap \in [Buffers -> Packet] /\ queues \in [Priorities -> Seq(Buffers)]
                BY <1>1 DEF TypeOK
            <4>3. Sound(heap, queues, Serving, gPacket)
                BY <3>0 DEF Core
            <4> QED
                BY <3>1, <3>3, <4>1, <4>2, <4>3, SoundCsma
        <3>7. /\ QueueTxPacketFinal(NetworkControl, gPacket)
              /\ ~QueueFull(NetworkControl)
              /\ NetworkControl \in Priorities
            BY <2>6, FourPriorities DEF BeaconQueued, NetworkControl
        <3>8. ~Races
            BY <2>1 DEF Races
        <3>9. Core'
            BY <1>1, <2>2, <3>0, <3>1, <3>4, <3>5, <3>6, <3>7, <3>8, QueueFinalCore
        <3> QED
            BY <2>1, <2>6, <3>9 DEF BeaconQueued, Running, OnlyRacePanics, TxPanics
    <2> QED
        BY <1>4, <2>3, <2>4, <2>5, <2>6 DEF EmitBeacon
<1> QED
    BY <1>2, <1>3, <1>4 DEF Submit

LEMMA ConfigureIInv ==
    ASSUME IInv, Cautious, Configure
    PROVE  OnlyRacePanics' /\ (Orderly' => Core')
<1> USE BuffersAssumption
<1>1. TypeOK /\ Running
    BY DEF IInv, Configure, SetChannel, BeaconConfigPayload, BeaconConfig, HostAcknowledge
<1>2. UNCHANGED <<sys, raced>>
    BY DEF Configure, SetChannel, BeaconConfigPayload, BeaconConfig, HostAcknowledge
<1>3. OnlyRacePanics'
    BY <1>2 DEF IInv, OnlyRacePanics
<1> SUFFICES ASSUME Core PROVE Core'
    BY <1>1, <1>2, <1>3 DEF IInv, Orderly, Running
<1>4. CASE SetChannel
    <2>1. ~air
        BY <1>4 DEF SetChannel, Cautious
    <2>2. air' = air
        <3>1. air = FALSE
            BY <1>1, <2>1 DEF TypeOK
        <3> QED
            BY <1>4, <3>1 DEF SetChannel
    <2>3. tuned => tuned'
        BY <1>1, <1>4 DEF SetChannel, TypeOK
    <2>4. UNCHANGED <<heap, queues, gTxPacketsPending, gPacket, gLastTx, notes, work, radio, next>>
        BY <1>4 DEF SetChannel, handlerVars, beaconVars, taskVars
    <2> QED
        BY <2>2, <2>3, <2>4, FrameCore
<1>5. ASSUME NEW e \in BOOLEAN, BeaconConfig(e)
      PROVE  Core'
    <2>1. UNCHANGED <<heap, queues, gTxPacketsPending, gPacket, gLastTx, tuned, air, notes, work,
                      radio, next>>
        BY <1>5 DEF BeaconConfig, handlerVars, radioVars, taskVars
    <2> QED
        BY <2>1, FrameCore
<1>6. CASE HostAcknowledge
    <2>1. UNCHANGED <<heap, queues, gTxPacketsPending, gPacket, gLastTx, tuned, air, notes, work,
                      radio, next>>
        BY <1>6 DEF HostAcknowledge, beaconVars, radioVars, taskVars
    <2> QED
        BY <2>1, FrameCore
<1>7. ASSUME NEW s \in Sizes, NEW e \in BOOLEAN, BeaconConfigPayload(s, e)
      PROVE  Core'
    <2>1. /\ gPacket = NoBuffer
          /\ ReleaseThenAlloc(s, heap, gTxAllocBytes, gTxPacketsPending)
          /\ UNCHANGED gTxPacketsPending
        BY <1>7 DEF BeaconConfigPayload, SetPayload, Cautious
    <2>2. UNCHANGED <<queues, gLastTx, tuned, air, notes, work, radio, next>>
        BY <1>7 DEF BeaconConfigPayload, radioVars, taskVars
    <2>3. Serving \in Buffers \cup {NoBuffer}
        BY <1>1, PendingMeans
    <2>4. Sound(heap', queues, Serving, gPacket')
        <3>1. CASE heap' = heap /\ gPacket' = NoBuffer
            BY <2>1, <3>1 DEF Core
        <3>2. ASSUME NEW b \in Buffers, heap[b].size = 0,
                     heap' = [heap EXCEPT ![b] = NewPacket(s, TRUE)], gPacket' = b
              PROVE  Sound(heap', queues, Serving, gPacket')
            <4>1. s \in Nat /\ s > 0
                BY SizesAssumption
            <4>2. NewPacket(s, TRUE) \in Packet
                BY <4>1, NewPacketType
            <4>3. NewPacket(s, TRUE).size > 0 /\ NewPacket(s, TRUE).sticky
                BY <4>1 DEF NewPacket
            <4>4. Sound(heap', queues, Serving, gPacket)
                BY <1>1, <2>3, <3>2, <4>2, <4>3, SoundFresh DEF Core, TypeOK
            <4>5. heap'[b] = NewPacket(s, TRUE)
                BY <1>1, <3>2 DEF TypeOK
            <4> QED
                BY <3>2, <4>3, <4>4, <4>5 DEF Sound
        <3> QED
            BY <2>1, <3>1, <3>2 DEF ReleaseThenAlloc
    <2>5. UNCHANGED <<Serving, InFlight, Tried>>
        BY <2>2, SameServing
    <2>6. Total(queues)' = Total(queues) /\ OneEvent' = OneEvent /\ NoEvent' = NoEvent
        BY <2>2 DEF Total, OneEvent, NoEvent
    <2> QED
        BY <2>1, <2>2, <2>4, <2>5, <2>6 DEF Core
<1> QED
    BY <1>4, <1>5, <1>6, <1>7 DEF Configure

\* Of what the radio task does to a packet it holds.
LEMMA DiscardSound ==
    ASSUME TypeOK, Core, radio = "waits", gLastTx \in Buffers
    PROVE  /\ Serving = gLastTx
           /\ HeapAfterDiscard(gLastTx, FALSE) \in [Buffers -> Packet]
           /\ Sound(HeapAfterDiscard(gLastTx, FALSE), queues, NoBuffer, gPacket)
<1>1. Serving = gLastTx
    BY DEF Serving
<1>2. HeapAfterDiscard(gLastTx, FALSE) \in [Buffers -> Packet]
    BY HeapAfterDiscardType DEF TypeOK
<1>3. Sound(HeapAfterDiscard(gLastTx, FALSE), queues, NoBuffer, gPacket)
    BY <1>1, SoundDiscard DEF HeapAfterDiscard, Core, TypeOK
<1> QED
    BY <1>1, <1>2, <1>3

\* An arm of the task's loop handles the one event there is.
LEMMA ArmMeans ==
    ASSUME TypeOK, Core, radio = "waits", NEW n \in work, work' = work \ {n}
    PROVE  /\ gLastTx \in Buffers /\ gLastTx # NoBuffer /\ tuned
           /\ ~air /\ notes = {} /\ work = {n} /\ work' = {}
<1>1. gLastTx # NoBuffer /\ Tried = gLastTx
    BY DEF Core, Tried, NoEvent
<1>2. OneEvent
    BY <1>1 DEF Core
<1> QED
    BY <1>1, <1>2 DEF Core, OneEvent, TypeOK

LEMMA ProgressCore ==
    ASSUME TypeOK, Core, Running, Progress
    PROVE  Core' /\ Running'
<1> USE BuffersAssumption
<1>1. ASSUME NEW n \in NoteBits, RadioEvent(n)
      PROVE  Core' /\ Running'
    <2>1. /\ air /\ ~air' /\ notes' = notes \cup {n}
          /\ UNCHANGED <<heap, queues, gTxPacketsPending, gPacket, gLastTx, tuned, work, radio,
                         next, sys>>
        BY <1>1 DEF RadioEvent, handlerVars, beaconVars, taskVars
    <2>2. Tried # NoBuffer /\ notes = {} /\ work = {}
        BY <2>1 DEF Core, OneEvent, NoEvent
    <2>3. OneEvent'
        BY <2>1, <2>2 DEF OneEvent
    <2>4. UNCHANGED <<Serving, InFlight, Tried>> /\ Total(queues)' = Total(queues)
        BY <2>1, SameServing DEF Total
    <2> QED
        BY <2>1, <2>2, <2>3, <2>4 DEF Core, Running
<1>2. CASE RadioWake
    <2>1. /\ work = {} /\ notes # {} /\ work' = notes /\ notes' = {}
          /\ UNCHANGED <<heap, queues, gTxPacketsPending, gPacket, gLastTx, tuned, air, radio,
                         next, sys>>
        BY <1>2 DEF RadioWake, handlerVars, beaconVars, taskVars
    <2>2. Tried # NoBuffer /\ ~air /\ \E n \in NoteBits : notes = {n}
        BY <2>1 DEF Core, OneEvent, NoEvent
    <2>3. OneEvent'
        BY <2>1, <2>2 DEF OneEvent
    <2>4. UNCHANGED <<Serving, InFlight, Tried>> /\ Total(queues)' = Total(queues)
        BY <2>1, SameServing DEF Total
    <2> QED
        BY <2>1, <2>2, <2>3, <2>4 DEF Core, Running
<1>3. CASE RadioTransmitted
    <2>1. /\ radio = "waits" /\ "PacketTransmitted" \in work
          /\ work' = work \ {"PacketTransmitted"}
          /\ UNCHANGED <<gPacket, gLastTx, tuned, air, notes, next>>
          /\ DiscardLast
        BY <1>3 DEF RadioTransmitted, beaconVars
    <2>2. gLastTx \in Buffers /\ gLastTx # NoBuffer /\ ~air /\ notes = {} /\ work' = {}
        BY <2>1, ArmMeans
    <2>3. /\ heap' = HeapAfterDiscard(gLastTx, FALSE)
          /\ gTxPacketsPending' = Dec(gTxPacketsPending)
          /\ radio' = "forget" /\ UNCHANGED <<queues, sys>>
        BY <2>1, <2>2 DEF DiscardLast, Goes
    <2>4. Sound(heap', queues, NoBuffer, gPacket)
        BY <2>1, <2>2, <2>3, DiscardSound
    <2> QED
        BY <2>1, <2>2, <2>3, <2>4, DiscardCore DEF Running
<1>4. CASE RadioBusy
    <2>1. /\ radio = "waits" /\ "TxChannelBusy" \in work
          /\ work' = work \ {"TxChannelBusy"}
          /\ UNCHANGED <<gPacket, tuned, notes, next>>
        BY <1>4 DEF RadioBusy, beaconVars
    <2>2. /\ gLastTx \in Buffers /\ gLastTx # NoBuffer /\ tuned
          /\ ~air /\ notes = {} /\ work' = {}
        BY <2>1, ArmMeans
    <2>3. Serving = gLastTx
        BY <2>1 DEF Serving
    <2>4. /\ [heap EXCEPT ![gLastTx].csma = CsmaFails] \in [Buffers -> Packet]
          /\ Sound([heap EXCEPT ![gLastTx].csma = CsmaFails], queues, gLastTx, gPacket)
        <3>1. CsmaFails \in 0 .. 255
            BY <2>2, CsmaType DEF TypeOK
        <3>2. [heap EXCEPT ![gLastTx].csma = CsmaFails] \in [Buffers -> Packet]
            BY <2>2, <3>1, CsmaUpdateType DEF TypeOK
        <3>3. Sound(heap, queues, gLastTx, gPacket)
            BY <2>3 DEF Core
        <3>4. Sound([heap EXCEPT ![gLastTx].csma = CsmaFails], queues, gLastTx, gPacket)
            BY <2>2, <3>1, <3>3, SoundCsma, ZenonT(30) DEF TypeOK
        <3> QED
            BY <3>2, <3>4
    <2>5. CASE RadioRetry
        <3>1. gLastTx' = gLastTx /\ air' = TRUE /\ UNCHANGED sys
            BY <2>2, <2>5 DEF RadioRetry, Start, CanStart
        <3>2. /\ heap' = [heap EXCEPT ![gLastTx].csma = CsmaFails]
              /\ UNCHANGED <<queues, gTxPacketsPending, radio>>
            BY <2>5 DEF RadioRetry
        <3>3. UNCHANGED <<Serving, InFlight, Tried>> /\ Total(queues)' = Total(queues)
            BY <2>1, <3>1, <3>2, SameServing DEF Total
        <3>4. Tried # NoBuffer
            BY <2>1, <2>2 DEF Tried
        <3>5. OneEvent'
            BY <2>1, <2>2, <3>1 DEF OneEvent
        <3> QED
            BY <2>1, <2>2, <2>3, <2>4, <3>1, <3>2, <3>3, <3>4, <3>5 DEF Core, Running
    <2>6. CASE RadioGiveUp
        <3>1. /\ gTxPacketsPending' = Dec(gTxPacketsPending)
              /\ radio' = "forget" /\ UNCHANGED <<queues, gLastTx, air, sys>>
            BY <2>6 DEF RadioGiveUp, Goes
        <3>2. Sound(heap', queues, NoBuffer, gPacket)
            <4>1. CASE heap' = [heap EXCEPT ![gLastTx].csma = CsmaFails]
                BY <2>2, <2>4, <4>1, SoundDiscard DEF TypeOK
            <4>2. CASE heap' = HeapAfterDiscard(gLastTx, FALSE)
                BY <2>1, <2>2, <4>2, DiscardSound
            <4> QED
                BY <2>6, <4>1, <4>2 DEF RadioGiveUp
        <3> QED
            BY <2>1, <2>2, <3>1, <3>2, DiscardCore DEF Running
    <2> QED
        BY <1>4, <2>2, <2>5, <2>6 DEF RadioBusy
<1>5. CASE HandleTxComplete
    <2>1. UNCHANGED sys
        BY <1>5, PopCore, StartCore DEF HandleTxComplete, ForgetLast, TestEmpty
    <2> QED
        BY <1>5, <2>1, ForgetCore, TestCore, PopCore, StartCore DEF HandleTxComplete, Running
<1> QED
    BY <1>1, <1>2, <1>3, <1>4, <1>5 DEF Progress, TxPacketSent, TxChannelBusy, NoteBits

LEMMA ProgressFrame ==
    ASSUME Progress
    PROVE  Running /\ UNCHANGED raced
BY DEF Progress, TxPacketSent, TxChannelBusy, RadioEvent, RadioWake, RadioTransmitted, RadioBusy,
       HandleTxComplete, ForgetLast, TestEmpty, PopNext, StartNext

LEMMA ProgressIInv ==
    ASSUME IInv, Progress
    PROVE  OnlyRacePanics' /\ (Orderly' => Core')
<1>1. Running /\ UNCHANGED raced
    BY ProgressFrame
<1>2. CASE raced
    BY <1>1, <1>2 DEF OnlyRacePanics, Orderly
<1>3. CASE ~raced
    <2>1. TypeOK /\ Core
        BY <1>1, <1>3 DEF IInv, Orderly
    <2> QED
        BY <1>1, <2>1, ProgressCore DEF OnlyRacePanics, Running, TxPanics
<1> QED
    BY <1>2, <1>3

-----------------------------------------------------------------------------
(* The theorems. *)

LEMMA IInvInit == Init => IInv
<1> SUFFICES ASSUME Init PROVE IInv
    OBVIOUS
<1>1. TypeOK
    BY TypeInit
<1>2. OnlyRacePanics
    BY DEF Init, OnlyRacePanics, TxPanics
<1>3. Total(queues) = 0
    BY <1>1, TotalNat DEF Init, TypeOK
<1>4. \A p \in Priorities : Len(queues[p]) = 0
    BY DEF Init
<1>5. Serving = NoBuffer /\ Tried = NoBuffer /\ InFlight = 0
    BY DEF Init, Serving, Tried, InFlight
<1>6. Sound(heap, queues, Serving, gPacket)
    BY <1>4, <1>5 DEF Init, Sound
<1>7. NoEvent /\ radio = "waits" /\ next = NoBuffer /\ gLastTx = NoBuffer
      /\ gTxPacketsPending = 0
    BY DEF Init, NoEvent
<1> QED
    BY <1>1, <1>2, <1>3, <1>4, <1>5, <1>6, <1>7, LimitsAssumption DEF IInv, Core

LEMMA IInvStep ==
    ASSUME IInv, Cautious, [Next]_vars
    PROVE  IInv'
<1>1. TypeOK'
    BY TypeStep DEF IInv
<1>2. CASE UNCHANGED vars
    <2>1. /\ UNCHANGED <<heap, queues, gTxPacketsPending, gPacket, gLastTx, air, notes, work, radio,
                         next, tuned, raced, sys>>
        BY <1>2 DEF vars
    <2>2. Orderly' = Orderly /\ OnlyRacePanics' = OnlyRacePanics
        BY <2>1 DEF Orderly, Running, OnlyRacePanics
    <2> QED
        BY <1>1, <2>1, <2>2, FrameCore DEF IInv
<1> QED
    BY <1>1, <1>2, SubmitIInv, ConfigureIInv, ProgressIInv DEF Next, IInv

\* What has stopped does not go on, and a race is remembered.
LEMMA StaysOrderly ==
    ASSUME [Next]_vars, Orderly'
    PROVE  Orderly
<1>1. CASE UNCHANGED vars
    BY <1>1 DEF vars, Orderly, Running
<1>2. ASSUME Next
      PROVE  Orderly
    <2>1. Running
        BY <1>2 DEF Next, Submit, Configure, Progress, HandleTxComplete, HostTransmit, QueueAck,
                    EmitBeacon, SetChannel, BeaconConfigPayload, BeaconConfig, HostAcknowledge,
                    TxPacketSent, TxChannelBusy, RadioEvent, RadioWake, RadioTransmitted,
                    RadioBusy, ForgetLast, TestEmpty, PopNext, StartNext
    <2>2. raced' = raced \/ raced' = (raced \/ Races)
        BY <1>2 DEF Next, Submit, Configure, Progress, HandleTxComplete, HostTransmit, QueueAck,
                    EmitBeacon, SetChannel, BeaconConfigPayload, BeaconConfig, HostAcknowledge,
                    TxPacketSent, TxChannelBusy, RadioEvent, RadioWake, RadioTransmitted,
                    RadioBusy, ForgetLast, TestEmpty, PopNext, StartNext
    <2>3. ~raced'
        BY DEF Orderly
    <2>4. ~raced
        BY <2>2, <2>3, Zenon
    <2> QED
        BY <2>1, <2>4 DEF Orderly
<1> QED
    BY <1>1, <1>2

\* The inductive invariant: with a cautious host it holds in every state.
THEOREM Invariance ==
    ASSUME Cautious
    PROVE  Spec => []IInv
BY IInvInit, IInvStep, PTL DEF Spec

\* gTxPacketsPending counts the packet the radio side holds and the ones in the
\* queues (Packet/Handler.h:311), for any limits and any interleaving of the
\* tasks until a submission races with HandleTxComplete.
THEOREM PendingCorrect ==
    ASSUME Cautious
    PROVE  Spec => []PendingCounts
<1>1. IInv => PendingCounts
    <2> SUFFICES ASSUME TypeOK, Core
                 PROVE  gTxPacketsPending = InFlight + Len(queues[0]) + Len(queues[1])
                                              + Len(queues[2]) + Len(queues[3])
        BY DEF IInv, PendingCounts
    <2> DEFINE a == Len(queues[0])
               b == Len(queues[1])
               c == Len(queues[2])
               d == Len(queues[3])
    <2>1. a \in Nat /\ b \in Nat /\ c \in Nat /\ d \in Nat
        BY Lengths DEF TypeOK
    <2>2. InFlight \in Nat
        BY DEF InFlight, Serving
    <2>3. gTxPacketsPending = InFlight + (a + b + c + d)
        BY DEF Core, Total
    <2> HIDE DEF a, b, c, d
    <2>4. gTxPacketsPending = InFlight + a + b + c + d
        BY <2>1, <2>2, <2>3
    <2> QED
        BY <2>4 DEF a, b, c, d
<1> QED
    BY <1>1, Invariance, PTL

\* DiscardTxPacket never frees a buffer that a queue, the radio task or the
\* beacon still points to, until a submission races with HandleTxComplete.
THEOREM PointersCorrect ==
    ASSUME Cautious
    PROVE  Spec => []NoDangling
<1>1. IInv => NoDangling
    BY DEF IInv, Core, Sound, NoDangling, PointersLive, PointersUnique, Live
<1> QED
    BY <1>1, Invariance, PTL

\* The radio task is always owed exactly one event for the packet the radio
\* holds, and none when it holds no packet, until a submission races.
THEOREM EventsCorrect ==
    ASSUME Cautious
    PROVE  Spec => []EventOwed
<1>1. IInv => EventOwed
    BY DEF IInv, Core, EventOwed, Tried
<1> QED
    BY <1>1, Invariance, PTL

\* Each call into the handler being one step, a REQUIRE at Radio/Task.cpp:139,
\* 147, 275 or 278 fails, and a null gLastTx is discarded, only after a packet
\* was submitted between the discard of the last one pending and the test at
\* line 269.
THEOREM PanicOnlyByRace ==
    ASSUME Cautious
    PROVE  Spec => []OnlyRacePanics
<1>1. IInv => OnlyRacePanics
    BY DEF IInv
<1> QED
    BY <1>1, Invariance, PTL

-----------------------------------------------------------------------------
(* Every step of TxPath is a step of PriorityTx, or none. *)

Quiet == UNCHANGED <<queues, Serving>>

\* The transmitter is idle exactly when nothing is pending.
LEMMA IdleMeans ==
    ASSUME TypeOK, Core
    PROVE  Abstract!Idle <=> gTxPacketsPending = 0
<1>1. Abstract!Idle <=> Serving = NoBuffer /\ Total(queues) = 0
    BY TotalNat DEF Abstract!Idle, TypeOK
<1>2. InFlight = IF Serving = NoBuffer THEN 0 ELSE 1
    BY DEF InFlight
<1>3. gTxPacketsPending = InFlight + Total(queues) /\ Total(queues) \in Nat
    BY PendingMeans DEF Core
<1> QED
    BY <1>1, <1>2, <1>3

\* A packet that is queued goes to the radio, or to the end of its queue.
LEMMA QueueFinalServes ==
    ASSUME TypeOK, Core, ~Races, NEW p \in Priorities, NEW b \in Buffers,
           QueueTxPacketFinal(p, b), UNCHANGED <<radio, next>>
    PROVE  Abstract!Next
<1> USE BuffersAssumption
<1>1. CASE gTxPacketsPending = 0 /\ Start(b) /\ UNCHANGED queues
    <2>1. Abstract!Idle
        BY <1>1, IdleMeans
    <2>2. gTxPacketsPending' # 0
        BY <1>1, LimitsAssumption DEF QueueTxPacketFinal, Inc
    <2>3. radio = "waits"
        BY <1>1, <2>2, StartsWaiting
    <2>4. Serving' = b
        BY <1>1, <2>3 DEF Start, Serving
    <2> QED
        BY <1>1, <2>1, <2>4 DEF Abstract!Next, Abstract!AcceptIdle
<1>2. CASE /\ gTxPacketsPending # 0
           /\ queues' = [queues EXCEPT ![p] = Append(@, b)]
           /\ UNCHANGED <<gLastTx, air>>
    <2>1. ~Abstract!Idle
        BY <1>2, IdleMeans
    <2>2. Serving' = Serving
        BY <1>2, SameServing
    <2>3. Abstract!AcceptBusy(p)
        BY <1>2, <2>1, <2>2 DEF Abstract!AcceptBusy
    <2> QED
        BY <2>3 DEF Abstract!Next
<1> QED
    BY <1>1, <1>2 DEF QueueTxPacketFinal

LEMMA SubmitServes ==
    ASSUME IInv, ~raced', Submit
    PROVE  Abstract!Next \/ Quiet
<1>1. TypeOK /\ Core
    <2>1. Running
        BY DEF Submit, HostTransmit, QueueAck, EmitBeacon
    <2>2. ~raced
        BY Zenon DEF Submit, HostTransmit, QueueAck, EmitBeacon
    <2> QED
        BY <2>1, <2>2 DEF IInv, Orderly
<1>2. UNCHANGED <<radio, next>>
    BY DEF Submit, HostTransmit, QueueAck, EmitBeacon, taskVars
<1>3. ASSUME UNCHANGED <<queues, gLastTx>>
      PROVE  Quiet
    BY <1>2, <1>3, SameServing DEF Quiet
<1>4. ~Races
    BY DEF Submit, HostTransmit, QueueAck, EmitBeacon, Races
<1>5. ASSUME NEW p \in Priorities, NEW s, NEW b \in Buffers, AcceptPayload(p, s, b)
      PROVE  Abstract!Next
    BY <1>1, <1>2, <1>4, <1>5, QueueFinalServes DEF AcceptPayload
<1>6. ASSUME NEW p \in Priorities, NEW s, RefusePayload(p, s) \/ FailPayload(p, s)
      PROVE  Quiet
    BY <1>3, <1>6 DEF RefusePayload, Refuse, FailPayload
<1>7. ASSUME NEW p \in Priorities, NEW s \in Sizes, HostTransmit(p, s)
      PROVE  Abstract!Next \/ Quiet
    BY <1>5, <1>6, <1>7 DEF HostTransmit
<1>8. ASSUME NEW s \in AckSizes, QueueAck(s)
      PROVE  Abstract!Next \/ Quiet
    <2>1. NetworkControl \in Priorities
        BY FourPriorities DEF NetworkControl
    <2> QED
        BY <1>5, <1>6, <1>8, <2>1 DEF QueueAck
<1>9. CASE EmitBeacon
    <2>1. CASE BeaconQueued
        <3>1. gPacket \in Buffers /\ NetworkControl \in Priorities
            BY <1>1, <2>1, FourPriorities DEF BeaconQueued, TypeOK, NetworkControl
        <3> QED
            BY <1>1, <1>2, <1>4, <2>1, <3>1, QueueFinalServes DEF BeaconQueued
    <2>2. CASE BeaconMissing \/ BeaconRefused \/ BeaconNotStarted
        BY <1>3, <2>2 DEF BeaconMissing, BeaconRefused, Refuse, BeaconNotStarted, handlerVars
    <2> QED
        BY <1>9, <2>1, <2>2 DEF EmitBeacon
<1> QED
    BY <1>7, <1>8, <1>9 DEF Submit

LEMMA ConfigureQuiet ==
    ASSUME Configure
    PROVE  Quiet
<1>1. UNCHANGED <<queues, gLastTx, radio, next>>
    BY DEF Configure, SetChannel, BeaconConfigPayload, BeaconConfig, HostAcknowledge,
           handlerVars, radioVars, taskVars
<1> QED
    BY <1>1, SameServing DEF Quiet

\* The radio task lets go of the packet it holds, which is the one served.
LEMMA DiscardServes ==
    ASSUME gLastTx # NoBuffer, radio = "waits", radio' = "forget", UNCHANGED queues
    PROVE  Abstract!Next
BY DEF Serving, Abstract!Next, Abstract!Complete

LEMMA ProgressServes ==
    ASSUME IInv, IInv', Orderly, Progress
    PROVE  Abstract!Next \/ Quiet
<1> USE BuffersAssumption
<1>1. TypeOK /\ Core
    BY DEF IInv
<1>2. ASSUME UNCHANGED <<queues, gLastTx, radio, next>>
      PROVE  Quiet
    BY <1>2, SameServing DEF Quiet
<1>3. CASE TxPacketSent \/ TxChannelBusy \/ RadioWake
    BY <1>2, <1>3 DEF TxPacketSent, TxChannelBusy, RadioEvent, RadioWake, handlerVars, taskVars
<1>4. CASE RadioTransmitted
    <2>1. CASE gLastTx # NoBuffer
        BY <1>4, <2>1, DiscardServes DEF RadioTransmitted, DiscardLast, Goes
    <2>2. CASE gLastTx = NoBuffer
        BY <1>2, <1>4, <2>2 DEF RadioTransmitted, DiscardLast, handlerVars
    <2> QED
        BY <2>1, <2>2
<1>5. CASE RadioBusy
    <2>1. CASE RadioRetry
        BY <1>2, <1>5, <2>1 DEF RadioBusy, RadioRetry, Start
    <2>2. CASE gLastTx # NoBuffer /\ RadioGiveUp
        BY <1>5, <2>2, DiscardServes DEF RadioBusy, RadioGiveUp, Goes
    <2>3. CASE gLastTx = NoBuffer
        BY <1>2, <1>5, <2>3 DEF RadioBusy, handlerVars
    <2> QED
        BY <1>5, <2>1, <2>2, <2>3 DEF RadioBusy
<1>6. CASE ForgetLast
    BY <1>6 DEF ForgetLast, Goes, Serving, Quiet, handlerVars
<1>7. CASE TestEmpty
    BY <1>7 DEF TestEmpty, Goes, Serving, Quiet, handlerVars
<1>8. CASE PopNext
    <2>1. CASE \A p \in Priorities : queues[p] = <<>>
        BY <1>2, <1>8, <2>1 DEF PopNext, Highest, taskVars
    <2>2. CASE ~ \A p \in Priorities : queues[p] = <<>>
        <3>1. PICK p \in Priorities : /\ Highest(p) /\ next' = Head(queues[p])
                                      /\ queues' = [queues EXCEPT ![p] = Tail(@)]
                                      /\ radio = "pop" /\ radio' = "start"
            BY <1>8, <2>2 DEF PopNext, Goes
        <3>2. Serving = NoBuffer
            BY <1>1, <3>1 DEF Core, Serving
        <3>3. Serving' = Head(queues[p])
            BY <3>1 DEF Serving
        <3>4. Abstract!Highest(p)
            BY <3>1 DEF Highest, Abstract!Highest
        <3>5. Abstract!Take
            BY <3>1, <3>2, <3>3, <3>4 DEF Abstract!Take
        <3> QED
            BY <3>5 DEF Abstract!Next
    <2> QED
        BY <2>1, <2>2
<1>9. CASE StartNext
    <2>1. gLastTx' = next /\ UNCHANGED queues /\ radio = "start" /\ radio' = "waits"
        <3>1. UNCHANGED sys
            BY <1>1, <1>9, StartCore
        <3> QED
            BY <1>9, <3>1 DEF StartNext, Start, Goes, Orderly, Running, handlerVars
    <2> QED
        BY <2>1 DEF Serving, Quiet
<1> QED
    BY <1>3, <1>4, <1>5, <1>6, <1>7, <1>8, <1>9 DEF Progress, HandleTxComplete

\* Until a submission races with the end of a packet, packets are served one at
\* a time, the highest priority first and in order of acceptance within one:
\* the handler with its counter, queues and buffers, and the radio task with its
\* retries and the five steps in which it ends a packet, implement PriorityTx.
THEOREM Refinement == ASSUME Cautious PROVE Spec => ServesByPriority
<1>1. Init => Abstract!Init
    BY DEF Init, Serving, Abstract!Init
<1>2. IInv /\ IInv' /\ [Next]_vars => [Abstract!Next \/ raced']_(Abstract!vars)
    <2> SUFFICES ASSUME IInv, IInv', [Next]_vars, ~raced'
                 PROVE  Abstract!Next \/ Quiet
        BY DEF Quiet, Abstract!vars
    <2>1. CASE UNCHANGED vars
        BY <2>1, SameServing DEF vars, Quiet
    <2>2. CASE Submit
        BY <2>2, SubmitServes
    <2>3. CASE Configure
        BY <2>3, ConfigureQuiet
    <2>4. CASE Progress
        <3>1. Running /\ UNCHANGED raced
            BY <2>4 DEF Progress, HandleTxComplete, TxPacketSent, TxChannelBusy, RadioEvent,
                        RadioWake, RadioTransmitted, RadioBusy, ForgetLast, TestEmpty, PopNext,
                        StartNext
        <3> QED
            BY <2>4, <3>1, ProgressServes DEF Orderly
    <2> QED
        BY <2>1, <2>2, <2>3, <2>4 DEF Next
<1>3. Spec => []IInv
    BY Invariance
<1> QED
    BY <1>1, <1>2, <1>3, PTL DEF Spec, ServesByPriority

-----------------------------------------------------------------------------
(* No buffer is leaked.  What makes this inductive is that the beacon is the *)
(* one sticky packet: the others are freed once the radio is done with them. *)

Queued(b, q) == \E p \in Priorities : \E i \in 1 .. Len(q[p]) : q[p][i] = b

Kept(h, q, l, g) ==
    \A b \in Buffers :
        /\ h[b].size > 0 => b = g \/ b = l \/ Queued(b, q)
        /\ h[b].sticky => b = g

Held == Kept(heap, queues, Serving, gPacket)

LEMMA HeldFrame ==
    ASSUME Held, UNCHANGED <<heap, queues, gPacket, gLastTx, radio, next>>
    PROVE  Held'
<1>1. UNCHANGED Serving
    BY SameServing
<1> QED
    BY <1>1 DEF Held

LEMMA QueuedAppend ==
    ASSUME NEW q \in [Priorities -> Seq(Buffers)], NEW p \in Priorities, NEW x \in Buffers,
           NEW b \in Buffers, b = x \/ Queued(b, q)
    PROVE  Queued(b, [q EXCEPT ![p] = Append(@, x)])
<1> DEFINE n == [q EXCEPT ![p] = Append(@, x)]
<1>1. CASE b = x
    <2>1. Len(q[p]) + 1 \in 1 .. Len(n[p]) /\ n[p][Len(q[p]) + 1] = x
        OBVIOUS
    <2> QED
        BY <1>1, <2>1 DEF Queued
<1>2. CASE Queued(b, q)
    <2>1. PICK r \in Priorities : \E i \in 1 .. Len(q[r]) : q[r][i] = b
        BY <1>2 DEF Queued
    <2> PICK i \in 1 .. Len(q[r]) : q[r][i] = b
        BY <2>1
    <2>2. i \in 1 .. Len(n[r]) /\ n[r][i] = b
        OBVIOUS
    <2> QED
        BY <2>2 DEF Queued
<1> QED
    BY <1>1, <1>2

\* Only the head of a queue leaves it.
LEMMA QueuedTail ==
    ASSUME NEW q \in [Priorities -> Seq(Buffers)], NEW p \in Priorities, q[p] # <<>>,
           NEW b \in Buffers, Queued(b, q), b # Head(q[p])
    PROVE  Queued(b, [q EXCEPT ![p] = Tail(@)])
<1> DEFINE n == [q EXCEPT ![p] = Tail(@)]
<1>1. PICK r \in Priorities : \E i \in 1 .. Len(q[r]) : q[r][i] = b
    BY DEF Queued
<1> PICK i \in 1 .. Len(q[r]) : q[r][i] = b
    BY <1>1
<1>2. CASE r # p
    BY <1>1, <1>2 DEF Queued
<1>3. CASE r = p
    <2>1. i # 1
        BY <1>1, <1>3
    <2>2. i - 1 \in 1 .. Len(n[p]) /\ n[p][i - 1] = b
        BY <1>1, <1>3, <2>1
    <2> QED
        BY <2>2 DEF Queued
<1> QED
    BY <1>2, <1>3

LEMMA QueueFinalHeld ==
    ASSUME TypeOK, Core, ~Races, heap' \in [Buffers -> Packet],
           NEW p \in Priorities, NEW x \in Buffers,
           QueueTxPacketFinal(p, x), UNCHANGED <<gPacket, radio, next>>,
           \A b \in Buffers :
               /\ heap'[b].size > 0 => b = x \/ b = gPacket \/ b = Serving \/ Queued(b, queues)
               /\ heap'[b].sticky => b = gPacket
    PROVE  Held'
<1> USE BuffersAssumption
<1>1. CASE gTxPacketsPending = 0 /\ Start(x) /\ UNCHANGED queues
    <2>1. Serving = NoBuffer
        BY <1>1, PendingMeans
    <2>2. gTxPacketsPending' # 0
        BY <1>1, LimitsAssumption DEF QueueTxPacketFinal, Inc
    <2>3. Serving' = x
        BY <1>1, <2>2, StartsWaiting DEF Start, Serving
    <2> QED
        BY <1>1, <2>1, <2>3 DEF Held, Kept
<1>2. CASE /\ queues' = [queues EXCEPT ![p] = Append(@, x)]
           /\ UNCHANGED gLastTx
    <2>1. \A b \in Buffers : b = x \/ Queued(b, queues) => Queued(b, queues')
        BY <1>2, QueuedAppend DEF TypeOK
    <2>2. UNCHANGED Serving
        BY <1>2, SameServing
    <2> QED
        BY <1>2, <2>1, <2>2 DEF Held, Kept
<1> QED
    BY <1>1, <1>2 DEF QueueTxPacketFinal

\* What is popped is what is served.
LEMMA PopHeld ==
    ASSUME TypeOK, Core, Held, PopNext
    PROVE  Held'
<1>1. radio = "pop" /\ UNCHANGED <<heap, gPacket>>
    BY DEF PopNext, Goes, beaconVars
<1>2. Total(queues) # 0 /\ Serving = NoBuffer
    BY <1>1 DEF Core, Serving
<1>3. PICK p \in Priorities : /\ Highest(p) /\ next' = Head(queues[p])
                              /\ queues' = [queues EXCEPT ![p] = Tail(@)] /\ radio' = "start"
    BY <1>2, TotalNat DEF PopNext, Goes, TypeOK
<1>4. Serving' = Head(queues[p])
    BY <1>3 DEF Serving
<1>5. \A b \in Buffers : Queued(b, queues) => b = Head(queues[p]) \/ Queued(b, queues')
    BY <1>3, QueuedTail DEF TypeOK, Highest
<1>6. \A b \in Buffers : b # Serving
    BY <1>2, BuffersAssumption
<1> QED
    BY <1>1, <1>4, <1>5, <1>6 DEF Held, Kept

\* Of what the radio held, only the beacon is still allocated.
LEMMA DiscardHeld ==
    ASSUME TypeOK, Held, gLastTx # NoBuffer, radio = "waits",
           heap' = IF heap[gLastTx].sticky THEN heap ELSE [heap EXCEPT ![gLastTx] = Freed]
    PROVE  \A b \in Buffers :
               /\ heap'[b].size > 0 => b = gPacket \/ Queued(b, queues)
               /\ heap'[b].sticky => b = gPacket
<1>1. gLastTx \in Buffers /\ Serving = gLastTx
    BY DEF TypeOK, Serving
<1>2. CASE heap[gLastTx].sticky
    <2>1. heap' = heap /\ gLastTx = gPacket
        BY <1>1, <1>2 DEF Held, Kept
    <2> QED
        BY <1>1, <2>1 DEF Held, Kept
<1>3. CASE ~heap[gLastTx].sticky
    <2>1. heap \in [Buffers -> Packet]
        BY DEF TypeOK
    <2>2. heap' = [heap EXCEPT ![gLastTx] = Freed]
        BY <1>3
    <2>3. heap'[gLastTx] = Freed
        BY <1>1, <2>1, <2>2
    <2>4. Freed.size = 0 /\ Freed.sticky = FALSE
        BY DEF Freed
    <2>5. \A b \in Buffers : b # gLastTx => heap'[b] = heap[b]
        BY <1>1, <2>1, <2>2
    <2> SUFFICES ASSUME NEW b \in Buffers
                 PROVE  /\ heap'[b].size > 0 => b = gPacket \/ Queued(b, queues)
                        /\ heap'[b].sticky => b = gPacket
        OBVIOUS
    <2>6. CASE b = gLastTx
        BY <2>3, <2>4, <2>6
    <2>7. CASE b # gLastTx
        BY <1>1, <2>5, <2>7 DEF Held, Kept
    <2> QED
        BY <2>6, <2>7
<1> QED
    BY <1>2, <1>3

\* Counting a failure moves no packet.
LEMMA CsmaHeld ==
    ASSUME TypeOK, NEW x \in Buffers, NEW c, NEW h, h = [heap EXCEPT ![x].csma = c]
    PROVE  \A b \in Buffers : h[b].size = heap[b].size /\ h[b].sticky = heap[b].sticky
BY DEF TypeOK, Packet

LEMMA SubmitHeld ==
    ASSUME TypeOK, TypeOK', Core, Held, Submit, Orderly'
    PROVE  Held'
<1>1. heap' \in [Buffers -> Packet]
    BY DEF TypeOK
<1>2. UNCHANGED <<gPacket, radio, next>> /\ Running'
    BY DEF Submit, HostTransmit, QueueAck, EmitBeacon, beaconVars, taskVars, Orderly
<1>3. ~Races
    BY DEF Submit, HostTransmit, QueueAck, EmitBeacon, Races, Orderly
<1>4. ASSUME UNCHANGED <<heap, queues, gLastTx>>
      PROVE  Held'
    BY <1>2, <1>4, HeldFrame
<1>5. ASSUME NEW p \in Priorities, NEW s \in Nat, NEW x \in Buffers, AcceptPayload(p, s, x)
      PROVE  Held'
    <2>1. heap' = [heap EXCEPT ![x] = NewPacket(s, FALSE)]
        BY <1>5 DEF AcceptPayload
    <2>2. ~heap'[x].sticky /\ \A b \in Buffers : b # x => heap'[b] = heap[b]
        BY <2>1 DEF TypeOK, NewPacket
    <2>3. \A b \in Buffers :
               /\ heap'[b].size > 0 => b = x \/ b = gPacket \/ b = Serving \/ Queued(b, queues)
               /\ heap'[b].sticky => b = gPacket
        BY <2>2 DEF Held, Kept
    <2>4. QueueTxPacketFinal(p, x)
        BY <1>5 DEF AcceptPayload
    <2> QED
        BY <1>1, <1>2, <1>3, <2>3, <2>4, QueueFinalHeld
<1>6. ASSUME NEW p \in Priorities, NEW s, RefusePayload(p, s) \/ FailPayload(p, s)
      PROVE  Held'
    BY <1>4, <1>6 DEF RefusePayload, Refuse, FailPayload
<1>7. ASSUME NEW p \in Priorities, NEW s \in Sizes, HostTransmit(p, s)
      PROVE  Held'
    <2>1. s \in Nat
        BY SizesAssumption
    <2> QED
        BY <1>5, <1>6, <1>7, <2>1 DEF HostTransmit
<1>8. ASSUME NEW s \in AckSizes, QueueAck(s)
      PROVE  Held'
    <2>1. s \in Nat /\ NetworkControl \in Priorities
        BY SizesAssumption, FourPriorities DEF NetworkControl
    <2> QED
        BY <1>5, <1>6, <1>8, <2>1 DEF QueueAck
<1>9. CASE EmitBeacon
    <2>1. CASE BeaconQueued
        <3>1. gPacket \in Buffers /\ NetworkControl \in Priorities
            BY <2>1, FourPriorities DEF BeaconQueued, TypeOK, NetworkControl
        <3>2. heap' = [heap EXCEPT ![gPacket].csma = 0]
            BY <2>1 DEF BeaconQueued
        <3>3. \A b \in Buffers : heap'[b].size = heap[b].size /\ heap'[b].sticky = heap[b].sticky
            BY <3>1, <3>2, CsmaHeld
        <3>4. QueueTxPacketFinal(NetworkControl, gPacket)
            BY <2>1 DEF BeaconQueued
        <3>5. \A b \in Buffers :
               /\ heap'[b].size > 0
                      => b = gPacket \/ b = gPacket \/ b = Serving \/ Queued(b, queues)
               /\ heap'[b].sticky => b = gPacket
            BY <3>3 DEF Held, Kept
        <3> QED
            BY <1>1, <1>2, <1>3, <3>1, <3>4, <3>5, QueueFinalHeld
    <2>2. CASE BeaconRefused
        BY <1>4, <2>2 DEF BeaconRefused, Refuse
    <2> QED
        BY <1>2, <1>9, <2>1, <2>2 DEF EmitBeacon, BeaconMissing, BeaconNotStarted, Running
<1> QED
    BY <1>7, <1>8, <1>9 DEF Submit

LEMMA ConfigureHeld ==
    ASSUME TypeOK, Held, Cautious, Configure
    PROVE  Held'
<1>1. UNCHANGED <<queues, gLastTx, radio, next>>
    BY DEF Configure, SetChannel, BeaconConfigPayload, BeaconConfig, HostAcknowledge,
           handlerVars, radioVars, taskVars
<1>2. UNCHANGED Serving
    BY <1>1, SameServing
<1>3. CASE UNCHANGED <<heap, gPacket>>
    BY <1>1, <1>3, HeldFrame
<1>4. ASSUME NEW s \in Sizes, NEW e \in BOOLEAN, BeaconConfigPayload(s, e)
      PROVE  Held'
    <2>1. gPacket = NoBuffer /\ ReleaseThenAlloc(s, heap, gTxAllocBytes, gTxPacketsPending)
        BY <1>4 DEF BeaconConfigPayload, SetPayload, Cautious
    <2>2. CASE heap' = heap /\ gPacket' = NoBuffer
        BY <1>1, <2>1, <2>2, HeldFrame
    <2>3. ASSUME NEW x \in Buffers, heap' = [heap EXCEPT ![x] = NewPacket(s, TRUE)],
                 gPacket' = x
          PROVE  Held'
        <3>1. \A b \in Buffers : b # x => heap'[b] = heap[b]
            BY <2>3 DEF TypeOK
        <3>2. \A b \in Buffers : b # gPacket
            BY <2>1, BuffersAssumption
        <3> QED
            BY <1>1, <1>2, <2>3, <3>1, <3>2 DEF Held, Kept
    <2> QED
        BY <2>1, <2>2, <2>3 DEF ReleaseThenAlloc
<1> QED
    BY <1>3, <1>4 DEF Configure, SetChannel, BeaconConfig, HostAcknowledge, handlerVars, beaconVars

LEMMA ProgressHeld ==
    ASSUME TypeOK, Core, Held, Progress, OnlyRacePanics', Orderly'
    PROVE  Held'
<1> USE DEF Orderly, Running, OnlyRacePanics, TxPanics
<1>1. CASE TxPacketSent \/ TxChannelBusy \/ RadioWake
    BY <1>1, HeldFrame
       DEF TxPacketSent, TxChannelBusy, RadioEvent, RadioWake, handlerVars, beaconVars, taskVars
<1>2. CASE RadioTransmitted
    <2>1. /\ gLastTx # NoBuffer /\ radio = "waits" /\ radio' = "forget"
          /\ heap' = HeapAfterDiscard(gLastTx, FALSE)
          /\ UNCHANGED <<gPacket, queues>>
        BY <1>2 DEF RadioTransmitted, DiscardLast, Goes, beaconVars
    <2>2. Serving' = NoBuffer
        BY <2>1 DEF Serving
    <2>3. \A b \in Buffers :
               /\ heap'[b].size > 0 => b = gPacket \/ Queued(b, queues)
               /\ heap'[b].sticky => b = gPacket
        BY <2>1, DiscardHeld DEF HeapAfterDiscard
    <2> QED
        BY <2>1, <2>2, <2>3 DEF Held, Kept
<1>3. CASE RadioBusy
    <2>1. /\ gLastTx # NoBuffer /\ (RadioRetry \/ RadioGiveUp) /\ UNCHANGED <<gPacket, next>>
          /\ radio = "waits"
        BY <1>3 DEF RadioBusy, beaconVars
    <2>2. gLastTx \in Buffers /\ Serving = gLastTx
        BY <2>1 DEF TypeOK, Serving
    <2>3. CASE RadioRetry
        <3>1. \A b \in Buffers : heap'[b].size = heap[b].size /\ heap'[b].sticky = heap[b].sticky
            BY <2>2, <2>3, CsmaHeld DEF RadioRetry
        <3>2. UNCHANGED <<queues, gLastTx, radio>>
            BY <2>3 DEF RadioRetry, Start
        <3>3. UNCHANGED Serving
            BY <2>1, <3>2, SameServing
        <3> QED
            BY <2>1, <3>1, <3>2, <3>3 DEF Held, Kept
    <2>4. CASE RadioGiveUp
        <3>1. \A b \in Buffers :
               /\ heap'[b].size > 0 => b = gPacket \/ Queued(b, queues)
               /\ heap'[b].sticky => b = gPacket
            <4>1. CASE heap[gLastTx].sticky
                <5>1. gLastTx = gPacket
                    BY <2>2, <4>1 DEF Held, Kept
                <5>2. \A b \in Buffers :
                          heap'[b].size = heap[b].size /\ heap'[b].sticky = heap[b].sticky
                    BY <2>2, <2>4, <4>1, CsmaHeld DEF RadioGiveUp
                <5> QED
                    BY <2>2, <5>1, <5>2 DEF Held, Kept
            <4>2. CASE ~heap[gLastTx].sticky
                BY <2>1, <2>4, <4>2, DiscardHeld DEF RadioGiveUp, HeapAfterDiscard
            <4> QED
                BY <4>1, <4>2
        <3>2. Serving' = NoBuffer /\ UNCHANGED queues
            BY <2>4 DEF RadioGiveUp, Goes, Serving
        <3> QED
            BY <2>1, <3>1, <3>2 DEF Held, Kept
    <2> QED
        BY <2>1, <2>3, <2>4
<1>4. CASE ForgetLast \/ TestEmpty
    <2>1. UNCHANGED <<heap, queues, gPacket>> /\ Serving' = Serving
        <3>1. CASE ForgetLast
            BY <3>1 DEF ForgetLast, Goes, Serving, handlerVars, beaconVars
        <3>2. CASE TestEmpty
            BY <3>2 DEF TestEmpty, Goes, Serving, handlerVars, beaconVars
        <3> QED
            BY <1>4, <3>1, <3>2
    <2> QED
        BY <2>1 DEF Held
<1>5. CASE PopNext
    BY <1>5, PopHeld
<1>6. CASE StartNext
    <2>1. UNCHANGED <<heap, queues, gPacket>> /\ Serving = next /\ Serving' = next
        BY <1>6 DEF StartNext, Start, Goes, Serving, handlerVars, beaconVars
    <2> QED
        BY <2>1 DEF Held
<1> QED
    BY <1>1, <1>2, <1>3, <1>4, <1>5, <1>6 DEF Progress, HandleTxComplete

\* A packet refused, sent or given up never leaves its buffer allocated with no
\* pointer to it, until a submission races with HandleTxComplete.
THEOREM NothingLeaked ==
    ASSUME Cautious
    PROVE  Spec => []NoLeak
<1> DEFINE HInv == Orderly => Held
<1>1. Init => HInv
    BY DEF Init, Held, Kept, Freed
<1>2. IInv /\ IInv' /\ HInv /\ [Next]_vars => HInv'
    <2> SUFFICES ASSUME IInv, IInv', Orderly => Held, [Next]_vars, Orderly'
                 PROVE  Held'
        OBVIOUS
    <2>1. Orderly
        BY StaysOrderly
    <2>2. TypeOK /\ TypeOK' /\ Core /\ Held /\ OnlyRacePanics'
        BY <2>1 DEF IInv
    <2>3. CASE UNCHANGED vars
        BY <2>2, <2>3, HeldFrame DEF vars
    <2> QED
        BY <2>2, <2>3, SubmitHeld, ConfigureHeld, ProgressHeld DEF Next
<1>3. HInv => NoLeak
    BY DEF Held, Kept, Queued, NoLeak, InQueue, Live
<1> QED
    BY <1>1, <1>2, <1>3, Invariance, PTL DEF Spec

-----------------------------------------------------------------------------
(* The bytes that are counted are those of the buffers, also where the host  *)
(* does what the code does not cope with: what is freed twice is 0 bytes.    *)

BytesOf(h) == [b \in Buffers |-> h[b].size]

LEMMA BytesOfType ==
    ASSUME NEW h \in [Buffers -> Packet]
    PROVE  /\ BytesOf(h) \in [Buffers -> Int]
           /\ \A b \in Buffers : h[b].size \in Nat /\ BytesOf(h)[b] = h[b].size
BY DEF BytesOf, Packet

LEMMA BytesChange ==
    ASSUME NEW h \in [Buffers -> Packet], NEW b \in Buffers, NEW k \in Packet
    PROVE  /\ SumFunction(BytesOf([h EXCEPT ![b] = k]))
                = (SumFunction(BytesOf(h)) - h[b].size) + k.size
           /\ SumFunction(BytesOf(h)) \in Int
<1> DEFINE n == [h EXCEPT ![b] = k]
<1>1. n \in [Buffers -> Packet] /\ n[b] = k /\ \A c \in Buffers : c # b => n[c] = h[c]
    OBVIOUS
<1> HIDE DEF n
<1>2. /\ BytesOf(n) \in [Buffers -> Int] /\ BytesOf(h) \in [Buffers -> Int]
      /\ \A c \in Buffers : c # b => BytesOf(n)[c] = BytesOf(h)[c]
      /\ BytesOf(n)[b] = k.size /\ BytesOf(h)[b] = h[b].size
    BY <1>1, BytesOfType
<1>3. SumFunction(BytesOf(n)) = (SumFunction(BytesOf(h)) - BytesOf(h)[b]) + BytesOf(n)[b]
    BY <1>2, BuffersAssumption, SumChange
<1>4. SumFunction(BytesOf(h)) \in Int
    BY <1>2, BuffersAssumption, SumType
<1> QED
    BY <1>2, <1>3, <1>4 DEF n

\* A count of failures is not a size.
LEMMA BytesSame ==
    ASSUME NEW h \in [Buffers -> Packet], NEW b \in Buffers, NEW c \in 0 .. 255
    PROVE  BytesOf([h EXCEPT ![b].csma = c]) = BytesOf(h)
<1>1. \A d \in Buffers : [h EXCEPT ![b].csma = c][d].size = h[d].size
    BY DEF Packet
<1> QED
    BY <1>1 DEF BytesOf

\* n bytes are counted, and within the limit.
Balanced(h, n) == n = SumFunction(BytesOf(h)) /\ n <= MaxTxBufferSize

LEMMA BalancedAlloc ==
    ASSUME NEW h \in [Buffers -> Packet], NEW n \in Int, Balanced(h, n),
           NEW b \in Buffers, h[b].size = 0, NEW s \in Nat, n + s <= MaxTxBufferSize,
           NEW k \in Packet, k.size = s
    PROVE  Balanced([h EXCEPT ![b] = k], n + s)
<1>1. SumFunction(BytesOf([h EXCEPT ![b] = k])) = (SumFunction(BytesOf(h)) - h[b].size) + k.size
    BY BytesChange
<1> DEFINE sum == SumFunction(BytesOf([h EXCEPT ![b] = k]))
<1>2. sum = (n - 0) + s
    BY <1>1 DEF Balanced
<1> HIDE DEF sum
<1>3. sum = n + s
    BY <1>2
<1> QED
    BY <1>3 DEF Balanced, sum

LEMMA BalancedDiscard ==
    ASSUME TypeOK, Balanced(heap, gTxAllocBytes), NEW b \in Buffers, NEW force \in BOOLEAN
    PROVE  Balanced(HeapAfterDiscard(b, force), BytesAfterDiscard(b, force))
<1>1. CASE heap[b].sticky /\ ~force
    BY <1>1 DEF HeapAfterDiscard, BytesAfterDiscard
<1>2. CASE ~(heap[b].sticky /\ ~force)
    <2>1. /\ HeapAfterDiscard(b, force) = [heap EXCEPT ![b] = Freed]
          /\ BytesAfterDiscard(b, force) = gTxAllocBytes - heap[b].size
        BY <1>2 DEF HeapAfterDiscard, BytesAfterDiscard
    <2>2. heap \in [Buffers -> Packet] /\ Freed \in Packet /\ Freed.size = 0
        BY FreedType DEF TypeOK, Freed
    <2> DEFINE sum == SumFunction(BytesOf([heap EXCEPT ![b] = Freed]))
    <2>3. sum = (SumFunction(BytesOf(heap)) - heap[b].size) + Freed.size
        BY <2>2, BytesChange
    <2> HIDE DEF sum
    <2>4. heap[b].size \in Nat /\ gTxAllocBytes \in Int /\ MaxTxBufferSize \in Nat
        BY <2>2, BytesOfType, LimitsAssumption DEF TypeOK
    <2>5. sum = gTxAllocBytes - heap[b].size /\ gTxAllocBytes - heap[b].size <= MaxTxBufferSize
        BY <2>2, <2>3, <2>4 DEF Balanced
    <2> QED
        BY <2>1, <2>5 DEF Balanced, sum
<1> QED
    BY <1>1, <1>2

LEMMA AcceptBalanced ==
    ASSUME TypeOK, Balanced(heap, gTxAllocBytes), NEW p \in Priorities, NEW s \in Nat,
           NEW b \in Buffers, AcceptPayload(p, s, b)
    PROVE  Balanced(heap', gTxAllocBytes')
<1>1. /\ heap' = [heap EXCEPT ![b] = NewPacket(s, FALSE)] /\ gTxAllocBytes' = gTxAllocBytes + s
      /\ ~Live(b) /\ ~(gTxAllocBytes + s > MaxTxBufferSize)
    BY DEF AcceptPayload, AllocFails
<1>2. heap \in [Buffers -> Packet] /\ gTxAllocBytes \in Int
    BY DEF TypeOK
<1>3. heap[b].size = 0
    <2>1. heap[b].size \in Nat
        BY <1>2, BytesOfType
    <2> QED
        BY <1>1, <2>1 DEF Live
<1>4. gTxAllocBytes + s <= MaxTxBufferSize
    BY <1>1, <1>2, LimitsAssumption
<1>5. NewPacket(s, FALSE) \in Packet /\ NewPacket(s, FALSE).size = s
    BY NewPacketType DEF NewPacket
<1> QED
    BY <1>1, <1>2, <1>3, <1>4, <1>5, BalancedAlloc

LEMMA ReleaseThenAllocBalanced ==
    ASSUME NEW s \in Nat, NEW old \in [Buffers -> Packet], NEW n \in Int, NEW pending,
           Balanced(old, n), ReleaseThenAlloc(s, old, n, pending)
    PROVE  Balanced(heap', gTxAllocBytes')
<1>1. CASE heap' = old /\ gTxAllocBytes' = n
    BY <1>1
<1>2. ASSUME n + s <= MaxTxBufferSize, gTxAllocBytes' = n + s,
             NEW b \in Buffers, old[b].size = 0, heap' = [old EXCEPT ![b] = NewPacket(s, TRUE)]
      PROVE  Balanced(heap', gTxAllocBytes')
    <2>1. NewPacket(s, TRUE) \in Packet /\ NewPacket(s, TRUE).size = s
        BY NewPacketType DEF NewPacket
    <2> QED
        BY <1>2, <2>1, BalancedAlloc
<1> QED
    BY <1>1, <1>2 DEF ReleaseThenAlloc

LEMMA BalancedInit == Init => Balanced(heap, gTxAllocBytes)
<1> SUFFICES ASSUME Init PROVE Balanced(heap, gTxAllocBytes)
    OBVIOUS
<1>1. heap \in [Buffers -> Packet] /\ \A b \in Buffers : heap[b].size = 0
    BY FreedType DEF Init, Freed
<1>2. SumFunction(BytesOf(heap)) = 0
    BY <1>1, BytesOfType, BuffersAssumption, SumOfZeros
<1> QED
    BY <1>2, LimitsAssumption DEF Balanced, Init

LEMMA BalancedStep ==
    ASSUME TypeOK, Balanced(heap, gTxAllocBytes), [Next]_vars
    PROVE  Balanced(heap', gTxAllocBytes')
<1> DEFINE Goal == Balanced(heap', gTxAllocBytes')
<1>0. heap \in [Buffers -> Packet] /\ gTxAllocBytes \in Int
    BY DEF TypeOK
<1>1. ASSUME UNCHANGED <<heap, gTxAllocBytes>> PROVE Goal
    BY <1>1
<1>2. ASSUME NEW b \in Buffers, NEW c \in 0 .. 255, heap' = [heap EXCEPT ![b].csma = c],
             UNCHANGED gTxAllocBytes
      PROVE  Goal
    <2>1. BytesOf(heap') = BytesOf(heap)
        BY <1>0, <1>2, BytesSame, ZenonT(60)
    <2> QED
        BY <1>2, <2>1 DEF Balanced
<1>3. ASSUME NEW p \in Priorities, NEW s \in Sizes, HostTransmit(p, s) PROVE Goal
    <2>1. s \in Nat
        BY SizesAssumption
    <2> QED
        BY <1>1, <1>3, <2>1, AcceptBalanced DEF HostTransmit, RefusePayload, Refuse, FailPayload
<1>4. ASSUME NEW s \in AckSizes, QueueAck(s) PROVE Goal
    <2>1. s \in Nat /\ NetworkControl \in Priorities
        BY SizesAssumption DEF NetworkControl, Priorities
    <2> QED
        BY <1>1, <1>4, <2>1, AcceptBalanced DEF QueueAck, RefusePayload, Refuse, FailPayload
<1>5. ASSUME EmitBeacon PROVE Goal
    <2>1. CASE BeaconMissing \/ BeaconRefused
        BY <1>1, <2>1 DEF BeaconMissing, BeaconRefused, Refuse, handlerVars
    <2>2. CASE BeaconQueued \/ BeaconNotStarted
        <3>1. /\ gPacket \in Buffers /\ heap' = [heap EXCEPT ![gPacket].csma = 0]
              /\ UNCHANGED gTxAllocBytes
            BY <2>2 DEF BeaconQueued, BeaconNotStarted, TypeOK
        <3>2. 0 \in 0 .. 255
            OBVIOUS
        <3> QED
            BY <1>2, <3>1, <3>2
    <2> QED
        BY <1>5, <2>1, <2>2 DEF EmitBeacon
<1>6. ASSUME NEW s \in Sizes, NEW e \in BOOLEAN, BeaconConfigPayload(s, e) PROVE Goal
    <2>1. s \in Nat /\ SetPayload(s)
        BY <1>6, SizesAssumption DEF BeaconConfigPayload
    <2>2. CASE gPacket = NoBuffer
        <3>1. ReleaseThenAlloc(s, heap, gTxAllocBytes, gTxPacketsPending)
            BY <2>1, <2>2 DEF SetPayload
        <3> QED
            BY <1>0, <2>1, <3>1, ReleaseThenAllocBalanced
    <2>3. CASE gPacket # NoBuffer
        <3>1. gPacket \in Buffers /\ TRUE \in BOOLEAN
            BY <2>3 DEF TypeOK
        <3>2. ReleaseThenAlloc(s, HeapAfterDiscard(gPacket, TRUE),
                               BytesAfterDiscard(gPacket, TRUE), Dec(gTxPacketsPending))
            BY <2>1, <2>3 DEF SetPayload
        <3>3. /\ HeapAfterDiscard(gPacket, TRUE) \in [Buffers -> Packet]
              /\ BytesAfterDiscard(gPacket, TRUE) \in Int
            BY <1>0, <3>1, HeapAfterDiscardType
        <3>4. Balanced(HeapAfterDiscard(gPacket, TRUE), BytesAfterDiscard(gPacket, TRUE))
            BY <3>1, BalancedDiscard
        <3> QED
            BY <2>1, <3>2, <3>3, <3>4, ReleaseThenAllocBalanced
    <2> QED
        BY <2>2, <2>3
<1>7. ASSUME RadioTransmitted PROVE Goal
    <2>1. CASE gLastTx # NoBuffer
        <3>1. gLastTx \in Buffers /\ FALSE \in BOOLEAN
            BY <2>1 DEF TypeOK
        <3>2. /\ heap' = HeapAfterDiscard(gLastTx, FALSE)
              /\ gTxAllocBytes' = BytesAfterDiscard(gLastTx, FALSE)
            BY <1>7, <2>1 DEF RadioTransmitted, DiscardLast
        <3> QED
            BY <3>1, <3>2, BalancedDiscard
    <2>2. CASE gLastTx = NoBuffer
        BY <1>1, <1>7, <2>2 DEF RadioTransmitted, DiscardLast, handlerVars
    <2> QED
        BY <2>1, <2>2
<1>8. ASSUME RadioBusy PROVE Goal
    <2>1. CASE gLastTx = NoBuffer
        BY <1>1, <1>8, <2>1 DEF RadioBusy, handlerVars
    <2>2. CASE gLastTx # NoBuffer
        <3>1. gLastTx \in Buffers /\ FALSE \in BOOLEAN
            BY <2>2 DEF TypeOK
        <3>2. CsmaFails \in 0 .. 255
            BY <1>0, <3>1, CsmaType
        <3>3. CASE RadioRetry
            BY <1>2, <3>1, <3>2, <3>3 DEF RadioRetry
        <3>4. CASE RadioGiveUp /\ heap[gLastTx].sticky
            <4>1. heap' = [heap EXCEPT ![gLastTx].csma = CsmaFails] /\ UNCHANGED gTxAllocBytes
                BY <3>4 DEF RadioGiveUp, BytesAfterDiscard
            <4> QED
                BY <1>2, <3>1, <3>2, <4>1
        <3>5. CASE RadioGiveUp /\ ~heap[gLastTx].sticky
            <4>1. /\ heap' = HeapAfterDiscard(gLastTx, FALSE)
                  /\ gTxAllocBytes' = BytesAfterDiscard(gLastTx, FALSE)
                BY <3>5 DEF RadioGiveUp
            <4> QED
                BY <3>1, <4>1, BalancedDiscard
        <3> QED
            BY <1>8, <2>2, <3>3, <3>4, <3>5 DEF RadioBusy
    <2> QED
        BY <2>1, <2>2
<1>9. ASSUME SetChannel \/ (\E e \in BOOLEAN : BeaconConfig(e)) \/ HostAcknowledge
             \/ TxPacketSent \/ TxChannelBusy \/ RadioWake \/ UNCHANGED vars
      PROVE  Goal
    BY <1>1, <1>9
       DEF SetChannel, BeaconConfig, HostAcknowledge, TxPacketSent, TxChannelBusy, RadioEvent,
           RadioWake, handlerVars, vars
<1>10. ASSUME HandleTxComplete PROVE Goal
    BY <1>1, <1>10
       DEF HandleTxComplete, ForgetLast, TestEmpty, PopNext, StartNext, handlerVars
<1> QED
    BY <1>3, <1>4, <1>5, <1>6, <1>7, <1>8, <1>9, <1>10, Zenon DEF Next, Submit, Configure, Progress

\* gTxAllocBytes is the size of the buffers that are allocated, and stays within
\* kMaxTxBufferSize (Packet/Handler.cpp:202), whatever the host does.
THEOREM BytesCorrect == Spec => []BytesAccounted
<1>1. Balanced(heap, gTxAllocBytes) /\ TypeOK /\ [Next]_vars => Balanced(heap, gTxAllocBytes)'
    BY BalancedStep
<1>2. Balanced(heap, gTxAllocBytes) => BytesAccounted
    BY DEF Balanced, BytesOf, BytesAccounted
<1> QED
    BY <1>1, <1>2, BalancedInit, TypeCorrect, PTL DEF Spec

-----------------------------------------------------------------------------
(* The host is told. *)

\* Each time the last pending packet is gone TxQueueEmpty is asserted, and at no
\* other time (UpdateTxQueueState, Packet/Handler.cpp:353), whatever the host does.
THEOREM DrainsAreReported == Spec => DrainReported
<1> DEFINE Reports ==
        /\ gTxPacketsPending # 0 /\ gTxPacketsPending' = 0 => txEmptyIrq'
        /\ ~txEmptyIrq /\ txEmptyIrq' => gTxPacketsPending' = 0
<1>1. ASSUME NEW p, NEW b, QueueTxPacketFinal(p, b)
      PROVE  Reports
    BY <1>1 DEF QueueTxPacketFinal, UpdateTxQueueState
<1>2. ASSUME NEW p \in Priorities, NEW s \in Sizes, HostTransmit(p, s)
      PROVE  Reports
    BY <1>1, <1>2
       DEF HostTransmit, RefusePayload, Refuse, AcceptPayload, FailPayload, UpdateTxQueueState
<1>3. ASSUME NEW s \in AckSizes, QueueAck(s)
      PROVE  Reports
    BY <1>1, <1>3
       DEF QueueAck, RefusePayload, Refuse, AcceptPayload, FailPayload, UpdateTxQueueState
<1>4. ASSUME EmitBeacon
      PROVE  Reports
    BY <1>1, <1>4 DEF EmitBeacon, BeaconMissing, BeaconRefused, Refuse, BeaconQueued,
                      BeaconNotStarted, UpdateTxQueueState, handlerVars
<1>5. ASSUME NEW s \in Sizes, NEW e \in BOOLEAN, BeaconConfigPayload(s, e)
      PROVE  Reports
    BY <1>5 DEF BeaconConfigPayload, SetPayload, ReleaseThenAlloc, UpdateTxQueueState
<1>6. ASSUME UNCHANGED <<gTxPacketsPending, txEmptyIrq>>
      PROVE  Reports
    BY <1>6, Zenon
<1>7. ASSUME NEW n, gTxPacketsPending' = n, UpdateTxQueueState(n)
      PROVE  Reports
    BY <1>7 DEF UpdateTxQueueState
<1>8. ASSUME \/ SetChannel \/ HostAcknowledge \/ \E e \in BOOLEAN : BeaconConfig(e)
             \/ TxPacketSent \/ TxChannelBusy \/ RadioWake
      PROVE  Reports
    <2>1. CASE HostAcknowledge
        BY <2>1 DEF HostAcknowledge
    <2> QED
        BY <1>6, <1>8, <2>1 DEF SetChannel, BeaconConfig, TxPacketSent, TxChannelBusy,
                                RadioEvent, RadioWake, handlerVars
<1>9. ASSUME RadioTransmitted \/ RadioBusy
      PROVE  Reports
    BY <1>6, <1>7, <1>9 DEF RadioTransmitted, DiscardLast, RadioBusy, RadioRetry, RadioGiveUp,
                            handlerVars
<1>10. ASSUME HandleTxComplete
       PROVE  Reports
    BY <1>6, <1>10 DEF HandleTxComplete, ForgetLast, TestEmpty, PopNext, StartNext, handlerVars
<1>11. Next => Reports
    BY <1>2, <1>3, <1>4, <1>5, <1>8, <1>9, <1>10 DEF Next, Submit, Configure, Progress
<1> QED
    BY <1>11, PTL DEF Spec, DrainReported

-----------------------------------------------------------------------------
(* How often a packet is tried. *)

Reported == IF "TxChannelBusy" \in notes \cup work THEN 1 ELSE 0

\* What the host submitted has failed as often as it says, and a busy channel
\* that RAIL has reported is counted before the radio task counts it.  What the
\* radio does not hold has not failed.
Retried ==
    /\ \A b \in Buffers : ~heap[b].sticky =>
          heap[b].csma < MaxCsmaFails /\ (b # Tried => heap[b].csma = 0)
    /\ Tried # NoBuffer /\ ~heap[Tried].sticky =>
          busyReports = heap[Tried].csma + Reported

TriesInv == IInv /\ (Orderly => Retried)

\* The radio keeps its packet, and is told nothing of it.
LEMMA KeepsRetried ==
    ASSUME TypeOK, Retried, Count, UNCHANGED <<gLastTx, air, notes, work, radio, next>>,
           \A b \in Buffers : \/ heap'[b] = heap[b]
                              \/ heap'[b].sticky /\ (b = Tried => heap[b].sticky)
                              \/ b # Tried /\ heap'[b].csma = 0
    PROVE  Retried'
<1>0. Tried' = Tried
    BY SameServing
<1>1. \A b \in Buffers : ~heap'[b].sticky =>
         heap'[b].csma < MaxCsmaFails /\ (b # Tried' => heap'[b].csma = 0)
    BY <1>0, LimitsAssumption DEF Retried
<1>2. ASSUME Tried # NoBuffer, ~heap'[Tried].sticky
      PROVE  busyReports' = heap'[Tried].csma + Reported'
  <2>1. Tried \in Buffers /\ gLastTx # NoBuffer
    BY <1>2 DEF TypeOK, Tried
  <2>2. heap'[Tried] = heap[Tried]
    BY <1>2, <2>1
  <2>3. busyReports' = busyReports
    BY <2>1 DEF Count
  <2>4. Reported' = Reported
    BY DEF Reported
  <2> QED
    BY <1>2, <2>2, <2>3, <2>4 DEF Retried
<1> QED
    BY <1>0, <1>1, <1>2 DEF Retried

\* The radio holds no packet, or one that has not been tried.
LEMMA FreshRetried ==
    ASSUME TypeOK', Tried' = NoBuffer \/ (busyReports' = 0 /\ Reported' = 0),
           \A b \in Buffers : ~heap'[b].sticky => heap'[b].csma = 0
    PROVE  Retried'
<1>1. Tried' \in Buffers \cup {NoBuffer}
    BY DEF TypeOK, Tried
<1>2. \A b \in Buffers : ~heap'[b].sticky =>
         heap'[b].csma < MaxCsmaFails /\ (b # Tried' => heap'[b].csma = 0)
    BY LimitsAssumption
<1>3. Tried' # NoBuffer /\ ~heap'[Tried'].sticky => heap'[Tried'].csma = 0
    BY <1>1
<1> QED
    BY <1>2, <1>3 DEF Retried

\* QueueTxPacketFinal, once the packet's buffer has been filled in.
LEMMA QueueFinalRetried ==
    ASSUME TypeOK, TypeOK', Core, Retried, Count, ~Races,
           NEW p \in Priorities, NEW b \in Buffers,
           QueueTxPacketFinal(p, b), UNCHANGED <<notes, work, radio, next>>,
           \A c \in Buffers : \/ heap'[c] = heap[c]
                              \/ heap'[c].sticky /\ (c = Tried => heap[c].sticky)
                              \/ c # Tried /\ heap'[c].csma = 0
    PROVE  Retried'
<1>1. CASE gTxPacketsPending = 0 /\ Start(b)
  <2>1. gTxPacketsPending' # 0
    BY <1>1, LimitsAssumption DEF QueueTxPacketFinal, Inc
  <2>2. radio = "waits" /\ NoEvent /\ Serving = NoBuffer
    BY <1>1, <2>1, PendingMeans, StartsWaiting
  <2>3. gLastTx = NoBuffer /\ Tried = NoBuffer
    BY <2>2 DEF Serving, Tried
  <2>4. busyReports' = 0 /\ Reported' = 0
    BY <2>2, <2>3 DEF Count, Reported, NoEvent
  <2>5. \A c \in Buffers : ~heap'[c].sticky => heap'[c].csma = 0
    BY <2>3, BuffersAssumption DEF Retried
  <2> QED
    BY <2>4, <2>5, FreshRetried
<1>2. CASE UNCHANGED <<gLastTx, air>>
    BY <1>2, KeepsRetried
<1> QED
    BY <1>1, <1>2 DEF QueueTxPacketFinal

LEMMA RefuseRetried ==
    ASSUME TypeOK, Retried, Count, Refuse, UNCHANGED <<notes, work, radio, next>>
    PROVE  Retried'
BY KeepsRetried DEF Refuse

LEMMA AcceptRetried ==
    ASSUME TypeOK, TypeOK', Core, Retried, Count, ~Races,
           NEW p \in Priorities, NEW s, NEW b \in Buffers,
           AcceptPayload(p, s, b), UNCHANGED <<notes, work, radio, next>>
    PROVE  Retried'
<1>1. b # Tried
  <2>1. Tried # NoBuffer => Live(Tried)
    BY DEF Core, Sound, Live, Tried, Serving
  <2> QED
    BY <2>1, BuffersAssumption DEF AcceptPayload
<1>2. \A c \in Buffers : heap'[c] = heap[c] \/ (c # Tried /\ heap'[c].csma = 0)
  <2>1. heap' = [heap EXCEPT ![b] = NewPacket(s, FALSE)] /\ NewPacket(s, FALSE).csma = 0
    BY DEF AcceptPayload, NewPacket
  <2> QED
    BY <1>1, <2>1 DEF TypeOK
<1> QED
    BY <1>2, QueueFinalRetried DEF AcceptPayload

LEMMA SubmitRetried ==
    ASSUME TypeOK, TypeOK', Core, Retried, Count, Submit, Orderly'
    PROVE  Retried'
<1>1. Running' /\ UNCHANGED <<notes, work, radio, next>>
    BY DEF Orderly, Submit, HostTransmit, QueueAck, EmitBeacon, taskVars
<1>2. ~Races
    BY DEF Submit, HostTransmit, QueueAck, EmitBeacon, Races, Orderly
<1>3. ASSUME NEW p \in Priorities, NEW s \in Sizes, HostTransmit(p, s)
      PROVE  Retried'
    BY <1>1, <1>2, <1>3, RefuseRetried, AcceptRetried
       DEF HostTransmit, RefusePayload, FailPayload, Running
<1>4. ASSUME NEW s \in AckSizes, QueueAck(s)
      PROVE  Retried'
    BY <1>1, <1>4, RefuseRetried DEF QueueAck, RefusePayload, FailPayload, Running
<1>5. ASSUME EmitBeacon
      PROVE  Retried'
  <2>1. CASE BeaconMissing \/ BeaconNotStarted
    BY <1>1, <2>1 DEF BeaconMissing, BeaconNotStarted, Running
  <2>2. CASE BeaconRefused
    BY <1>1, <2>2, RefuseRetried DEF BeaconRefused
  <2>3. CASE BeaconQueued
    <3>1. gPacket \in Buffers /\ heap[gPacket].sticky
      BY <2>3 DEF BeaconQueued, TypeOK, Core, Sound
    <3>2. heap' = [heap EXCEPT ![gPacket].csma = 0]
      BY <2>3 DEF BeaconQueued
    <3>3. \A c \in Buffers : heap'[c] = heap[c]
                             \/ (heap'[c].sticky /\ (c = Tried => heap[c].sticky))
      BY <3>1, <3>2 DEF TypeOK, Packet
    <3>4. NetworkControl \in Priorities
      BY FourPriorities DEF NetworkControl
    <3> QED
      BY <1>1, <1>2, <2>3, <3>1, <3>3, <3>4, QueueFinalRetried DEF BeaconQueued
  <2> QED
    BY <1>5, <2>1, <2>2, <2>3 DEF EmitBeacon
<1> QED
    BY <1>3, <1>4, <1>5 DEF Submit

LEMMA ConfigureRetried ==
    ASSUME Cautious, TypeOK, Core, Retried, Count, Configure
    PROVE  Retried'
<1>1. UNCHANGED <<gLastTx, notes, work, radio, next>>
    BY DEF Configure, SetChannel, BeaconConfigPayload, BeaconConfig, HostAcknowledge,
           handlerVars, radioVars, taskVars
<1>2. CASE SetChannel
  <2>1. ~air
    BY <1>2 DEF SetChannel, Cautious
  <2>2. air' = air
    <3>1. air = FALSE
      BY <2>1 DEF TypeOK
    <3> QED
      BY <1>2, <3>1 DEF SetChannel
  <2>3. UNCHANGED heap
    BY <1>2 DEF SetChannel, handlerVars
  <2> QED
    BY <1>1, <2>2, <2>3, KeepsRetried
<1>3. CASE HostAcknowledge \/ \E e \in BOOLEAN : BeaconConfig(e)
  <2>1. UNCHANGED <<heap, air>>
    BY <1>3 DEF HostAcknowledge, BeaconConfig, handlerVars, radioVars
  <2> QED
    BY <1>1, <2>1, KeepsRetried
<1>4. ASSUME NEW s \in Sizes, NEW e \in BOOLEAN, BeaconConfigPayload(s, e)
      PROVE  Retried'
  <2>1. ReleaseThenAlloc(s, heap, gTxAllocBytes, gTxPacketsPending)
    BY <1>4 DEF BeaconConfigPayload, SetPayload, Cautious
  <2>2. UNCHANGED air
    BY <1>4 DEF BeaconConfigPayload, radioVars
  <2>3. Tried # NoBuffer => heap[Tried].size > 0
    BY DEF Core, Sound, Tried, Serving
  <2>4. \A c \in Buffers : heap'[c] = heap[c] \/ (c # Tried /\ heap'[c].csma = 0)
    <3>1. CASE heap' = heap
      BY <3>1
    <3>2. ASSUME NEW b \in Buffers, heap[b].size = 0,
                 heap' = [heap EXCEPT ![b] = NewPacket(s, TRUE)]
          PROVE  \A c \in Buffers : heap'[c] = heap[c] \/ (c # Tried /\ heap'[c].csma = 0)
      <4>1. b # Tried
        BY <2>3, <3>2, BuffersAssumption
      <4>2. NewPacket(s, TRUE).csma = 0
        BY DEF NewPacket
      <4> QED
        BY <3>2, <4>1, <4>2 DEF TypeOK
    <3> QED
      BY <2>1, <3>1, <3>2 DEF ReleaseThenAlloc
  <2> QED
    BY <1>1, <2>2, <2>4, KeepsRetried
<1> QED
    BY <1>2, <1>3, <1>4 DEF Configure

\* The packet that was tried is let go of: what is left has not failed.
LEMMA DiscardRetried ==
    ASSUME TypeOK', Retried, gLastTx # NoBuffer, radio = "waits", radio' = "forget",
           \A c \in Buffers : c # gLastTx => heap'[c] = heap[c],
           IF heap[gLastTx].sticky THEN heap'[gLastTx].sticky ELSE heap'[gLastTx] = Freed
    PROVE  Retried'
<1>1. Tried = gLastTx /\ Tried' = NoBuffer
    BY DEF Tried
<1>2. \A c \in Buffers : ~heap'[c].sticky => heap'[c].csma = 0
    BY <1>1 DEF Retried, Freed
<1> QED
    BY <1>1, <1>2, FreshRetried

\* No statement of HandleTxComplete but the last makes the radio try a packet.
LEMMA CompleteRetried ==
    ASSUME TypeOK, TypeOK', Core, Retried, Count, HandleTxComplete
    PROVE  Retried'
<1>1. UNCHANGED <<heap, notes, work>> /\ radio # "waits"
    BY DEF HandleTxComplete, ForgetLast, TestEmpty, PopNext, StartNext, Goes, handlerVars
<1>2. Tried = NoBuffer
    BY <1>1 DEF Tried
<1>3. NoEvent
    BY <1>2 DEF Core
<1>4. \A b \in Buffers : ~heap'[b].sticky => heap'[b].csma = 0
    BY <1>1, <1>2, BuffersAssumption DEF Retried
<1>5. CASE radio' # "waits"
  <2>1. Tried' = NoBuffer
    BY <1>5 DEF Tried
  <2> QED
    BY <1>4, <2>1, FreshRetried
<1>6. CASE radio' = "waits"
  <2>1. radio \in {"test", "start"}
    BY <1>6 DEF HandleTxComplete, ForgetLast, TestEmpty, PopNext, StartNext, Goes, taskVars
  <2>2. gLastTx = NoBuffer
    BY <2>1 DEF Core
  <2>3. busyReports' = 0 /\ Reported' = 0
    BY <1>1, <1>3, <2>2 DEF Count, Reported, NoEvent
  <2> QED
    BY <1>4, <2>3, FreshRetried
<1> QED
    BY <1>5, <1>6

LEMMA CsmaBound ==
    ASSUME TypeOK, Retried, NEW b \in Buffers, ~heap[b].sticky
    PROVE  heap[b].csma \in Nat /\ heap[b].csma < MaxCsmaFails
<1>1. heap[b].csma \in 0 .. 255
    BY DEF TypeOK, Packet
<1>2. heap[b].csma < MaxCsmaFails
    BY DEF Retried
<1> QED
    BY <1>1, <1>2

\* The event a packet gets is of its latest try; only the radio task counts it.
LEMMA ProgressRetried ==
    ASSUME TypeOK, TypeOK', Core, Retried, Count, Progress, Running'
    PROVE  Retried'
<1>1. ASSUME NEW n \in NoteBits, RadioEvent(n)
      PROVE  Retried'
  <2>1. /\ air /\ ~air' /\ notes' = notes \cup {n}
        /\ UNCHANGED <<heap, gLastTx, work, radio, next>>
    BY <1>1 DEF RadioEvent, handlerVars, taskVars
  <2>2. Tried # NoBuffer /\ notes = {} /\ work = {}
    BY <2>1 DEF Core, OneEvent, NoEvent
  <2>3. Tried = gLastTx /\ Tried' = gLastTx /\ gLastTx \in Buffers /\ gLastTx # NoBuffer
    BY <2>1, <2>2 DEF TypeOK, Tried
  <2>4. Reported = 0 /\ Reported' = IF n = "TxChannelBusy" THEN 1 ELSE 0
    BY <2>1, <2>2 DEF Reported
  <2>5. ASSUME ~heap[gLastTx].sticky
        PROVE  busyReports' = heap[gLastTx].csma + Reported'
    <3>1. heap[gLastTx].csma \in Nat /\ heap[gLastTx].csma < MaxCsmaFails
      BY <2>3, <2>5, CsmaBound
    <3>2. busyReports = heap[gLastTx].csma
      BY <2>3, <2>4, <2>5, <3>1 DEF Retried
    <3>3. CASE n = "TxChannelBusy"
      BY <2>1, <2>2, <2>3, <2>4, <3>1, <3>2, <3>3 DEF Count
    <3>4. CASE n # "TxChannelBusy"
      BY <2>1, <2>2, <2>3, <2>4, <3>1, <3>2, <3>4 DEF Count
    <3> QED
      BY <3>3, <3>4
  <2> QED
    BY <2>1, <2>3, <2>5 DEF Retried
<1>2. CASE RadioWake
  <2>1. /\ work = {} /\ work' = notes /\ notes' = {}
        /\ UNCHANGED <<heap, gLastTx, air, radio, next>>
    BY <1>2 DEF RadioWake, handlerVars, taskVars
  <2>2. Reported' = Reported /\ Tried' = Tried
    BY <2>1, SameServing DEF Reported
  <2>3. Tried # NoBuffer => busyReports' = busyReports
    BY <2>1 DEF Count, Tried
  <2> QED
    BY <2>1, <2>2, <2>3 DEF Retried
<1>3. CASE RadioTransmitted
  <2>1. /\ gLastTx # NoBuffer /\ radio = "waits" /\ radio' = "forget"
        /\ heap' = HeapAfterDiscard(gLastTx, FALSE)
    BY <1>3 DEF RadioTransmitted, DiscardLast, Goes, Running
  <2>2. gLastTx \in Buffers
    BY <2>1 DEF TypeOK
  <2>3. /\ \A c \in Buffers : c # gLastTx => heap'[c] = heap[c]
        /\ IF heap[gLastTx].sticky THEN heap'[gLastTx].sticky ELSE heap'[gLastTx] = Freed
    BY <2>1, <2>2 DEF HeapAfterDiscard, TypeOK
  <2> QED
    BY <2>1, <2>3, DiscardRetried
<1>4. CASE RadioBusy
  <2>1. /\ "TxChannelBusy" \in work /\ work' = work \ {"TxChannelBusy"} /\ radio = "waits"
        /\ UNCHANGED <<notes, next>>
    BY <1>4 DEF RadioBusy
  <2>2. /\ Tried # NoBuffer /\ ~air /\ notes = {} /\ work' = {}
    BY <2>1 DEF Core, OneEvent, NoEvent
  <2>3. Tried = gLastTx /\ gLastTx \in Buffers /\ gLastTx # NoBuffer
    BY <2>1, <2>2 DEF TypeOK, Tried
  <2>4. Reported = 1 /\ Reported' = 0
    BY <2>1, <2>2 DEF Reported
  <2>5. CsmaFails \in 0 .. 255
    BY <2>3, CsmaType DEF TypeOK
  <2>6. CASE RadioRetry
    <3>1. /\ CsmaFails < MaxCsmaFails /\ heap' = [heap EXCEPT ![gLastTx].csma = CsmaFails]
          /\ gLastTx' = gLastTx /\ UNCHANGED radio
      BY <2>6 DEF RadioRetry, Start, Running
    <3>2. busyReports' = busyReports /\ Tried' = gLastTx
      BY <2>1, <2>2, <2>3, <3>1 DEF Count, Tried
    <3>3. \A c \in Buffers : c # gLastTx => heap'[c] = heap[c]
      BY <3>1 DEF TypeOK
    <3>4. heap'[gLastTx].sticky = heap[gLastTx].sticky /\ heap'[gLastTx].csma = CsmaFails
      BY <2>3, <3>1 DEF TypeOK, Packet
    <3>5. ~heap[gLastTx].sticky => busyReports = CsmaFails
      <4> SUFFICES ASSUME ~heap[gLastTx].sticky PROVE busyReports = CsmaFails
        OBVIOUS
      <4>1. heap[gLastTx].csma \in Nat /\ heap[gLastTx].csma < MaxCsmaFails
        BY <2>3, CsmaBound
      <4>2. CsmaFails = heap[gLastTx].csma + 1
        BY <4>1, LimitsAssumption DEF CsmaFails
      <4> QED
        BY <2>3, <2>4, <4>2 DEF Retried
    <3>6. ASSUME NEW b \in Buffers, ~heap'[b].sticky
          PROVE  heap'[b].csma < MaxCsmaFails /\ (b # Tried' => heap'[b].csma = 0)
      <4>1. CASE b = gLastTx
        BY <3>1, <3>2, <3>4, <4>1
      <4>2. CASE b # gLastTx
        BY <2>3, <3>3, <3>6, <4>2 DEF Retried
      <4> QED
        BY <4>1, <4>2
    <3>7. ASSUME ~heap'[gLastTx].sticky
          PROVE  busyReports' = heap'[gLastTx].csma + Reported'
      BY <2>4, <2>5, <3>1, <3>2, <3>4, <3>5, <3>7
    <3> QED
      BY <3>2, <3>6, <3>7 DEF Retried
  <2>7. CASE RadioGiveUp
    <3>1. /\ heap' = IF heap[gLastTx].sticky THEN [heap EXCEPT ![gLastTx].csma = CsmaFails]
                     ELSE HeapAfterDiscard(gLastTx, FALSE)
          /\ radio' = "forget"
      BY <2>7 DEF RadioGiveUp, Goes
    <3>2. /\ \A c \in Buffers : c # gLastTx => heap'[c] = heap[c]
          /\ IF heap[gLastTx].sticky THEN heap'[gLastTx].sticky ELSE heap'[gLastTx] = Freed
      BY <2>3, <3>1 DEF HeapAfterDiscard, TypeOK, Packet
    <3> QED
      BY <2>1, <2>3, <3>1, <3>2, DiscardRetried
  <2> QED
    BY <1>4, <2>3, <2>6, <2>7 DEF RadioBusy
<1>5. CASE HandleTxComplete
    BY <1>5, CompleteRetried
<1> QED
  <2>1. TxPacketSent \/ TxChannelBusy => Retried'
    BY <1>1 DEF TxPacketSent, TxChannelBusy, NoteBits
  <2> QED
    BY <1>2, <1>3, <1>4, <1>5, <2>1 DEF Progress

LEMMA TriesInvInit == TriesInit => TriesInv
<1> SUFFICES ASSUME TriesInit PROVE TriesInv
    OBVIOUS
<1>1. IInv
    BY IInvInit DEF TriesInit
<1>2. Retried
    BY LimitsAssumption DEF TriesInit, Init, Retried, Tried, Freed
<1> QED
    BY <1>1, <1>2 DEF TriesInv

LEMMA TriesInvStep ==
    ASSUME Cautious, TriesInv, [TriesNext]_<<vars, busyReports>>
    PROVE  TriesInv'
<1>1. [Next]_vars
    BY DEF TriesNext
<1>2. IInv'
    BY <1>1, IInvStep DEF TriesInv
<1>3. ASSUME Orderly' PROVE Retried'
  <2>1. Orderly
    BY <1>1, <1>3, StaysOrderly
  <2>2. TypeOK /\ TypeOK' /\ Core /\ Retried
    BY <1>2, <2>1 DEF TriesInv, IInv
  <2>3. CASE UNCHANGED <<vars, busyReports>>
    <3>1. Tried' = Tried
      BY <2>3, SameServing DEF vars
    <3> QED
      BY <2>2, <2>3, <3>1 DEF vars, Retried, Reported
  <2>4. CASE Next /\ Count
    BY <1>3, <2>2, <2>4, SubmitRetried, ConfigureRetried, ProgressRetried DEF Next, Orderly
  <2> QED
    BY <2>3, <2>4 DEF TriesNext
<1> QED
    BY <1>2, <1>3 DEF TriesInv

\* What is let go of is what the radio task has just heard of.
LEMMA LetsGo ==
    ASSUME Cautious, TriesInv, Next, NEW b \in Buffers
    PROVE  LetGo(b)
<1> SUFFICES ASSUME ~raced, Live(b), ~heap[b].sticky, heap'[b].size = 0
             PROVE  /\ gLastTx = b
                    /\ \/ "PacketTransmitted" \in work
                       \/ "TxChannelBusy" \in work /\ busyReports = MaxCsmaFails
    BY DEF LetGo
<1>1. Running
    BY DEF Next, Submit, Configure, Progress, HostTransmit, QueueAck, EmitBeacon,
           SetChannel, BeaconConfigPayload, BeaconConfig, HostAcknowledge,
           TxPacketSent, TxChannelBusy, RadioEvent, RadioWake, RadioTransmitted, RadioBusy,
           HandleTxComplete, ForgetLast, TestEmpty, PopNext, StartNext
<1>2. TypeOK /\ Core /\ Retried
    BY <1>1 DEF TriesInv, IInv, Orderly
<1>3. heap[b].size > 0 /\ heap[b].size \in Nat /\ heap' # heap
  <2>1. heap[b].size \in Nat
    BY <1>2 DEF TypeOK, Packet
  <2> QED
    BY <2>1 DEF Live
<1>4. ASSUME NEW c \in Buffers, NEW n, heap' = [heap EXCEPT ![c] = n]
      PROVE  b = c /\ n.size = 0
  <2>1. heap'[b] = IF b = c THEN n ELSE heap[b]
    BY <1>2, <1>4 DEF TypeOK
  <2>2. heap'[b] # heap[b] /\ heap'[b].size = 0
    BY <1>3
  <2> QED
    BY <2>1, <2>2
<1>5. ASSUME NEW c \in Buffers, NEW n, heap' = [heap EXCEPT ![c].csma = n]
      PROVE  FALSE
  <2>1. heap'[b].size = heap[b].size
    BY <1>2, <1>5 DEF TypeOK, Packet
  <2> QED
    BY <1>3, <2>1
<1>6. ~Submit
  <2>1. ASSUME NEW p, NEW s \in Nat \ {0}, NEW c \in Buffers, AcceptPayload(p, s, c)
        PROVE  FALSE
    <3>1. heap' = [heap EXCEPT ![c] = NewPacket(s, FALSE)] /\ NewPacket(s, FALSE).size = s
      BY <2>1 DEF AcceptPayload, NewPacket
    <3> QED
      BY <1>4, <3>1
  <2>2. ASSUME NEW p \in Priorities, NEW s \in Sizes, HostTransmit(p, s) PROVE FALSE
    BY <1>3, <2>1, <2>2, SizesAssumption DEF HostTransmit, RefusePayload, Refuse, FailPayload
  <2>3. ASSUME NEW s \in AckSizes, QueueAck(s) PROVE FALSE
    BY <1>3, <2>1, <2>3, SizesAssumption DEF QueueAck, RefusePayload, Refuse, FailPayload
  <2>4. ASSUME EmitBeacon PROVE FALSE
    <3>1. heap' = heap \/ (heap' = [heap EXCEPT ![gPacket].csma = 0] /\ gPacket \in Buffers)
      BY <1>2, <2>4 DEF EmitBeacon, BeaconMissing, BeaconRefused, Refuse, BeaconQueued,
                        BeaconNotStarted, handlerVars, TypeOK
    <3> QED
      BY <1>3, <1>5, <3>1
  <2> QED
    BY <2>2, <2>3, <2>4 DEF Submit
<1>7. ~Configure
  <2>1. ASSUME NEW s \in Sizes, NEW e \in BOOLEAN, BeaconConfigPayload(s, e) PROVE FALSE
    <3>1. ReleaseThenAlloc(s, heap, gTxAllocBytes, gTxPacketsPending)
      BY <2>1 DEF BeaconConfigPayload, SetPayload, Cautious
    <3>2. PICK c \in Buffers : heap' = [heap EXCEPT ![c] = NewPacket(s, TRUE)]
      BY <1>3, <3>1 DEF ReleaseThenAlloc
    <3>3. NewPacket(s, TRUE).size = s /\ s \in Nat \ {0}
      BY SizesAssumption DEF NewPacket
    <3> QED
      BY <1>4, <3>2, <3>3
  <2> QED
    BY <1>3, <2>1 DEF Configure, SetChannel, BeaconConfig, HostAcknowledge, handlerVars
<1>8. CASE Progress
  <2>1. RadioTransmitted \/ RadioBusy
    BY <1>3, <1>8 DEF Progress, TxPacketSent, TxChannelBusy, RadioEvent, RadioWake, handlerVars,
                      HandleTxComplete, ForgetLast, TestEmpty, PopNext, StartNext
  <2>2. CASE RadioTransmitted
    <3>1. "PacketTransmitted" \in work /\ heap' = HeapAfterDiscard(gLastTx, FALSE)
      BY <1>3, <2>2 DEF RadioTransmitted, DiscardLast, handlerVars
    <3>2. b = gLastTx
      BY <1>2, <1>3, <3>1 DEF HeapAfterDiscard, TypeOK
    <3> QED
      BY <3>1, <3>2
  <2>3. CASE RadioBusy
    <3>1. /\ "TxChannelBusy" \in work /\ gLastTx # NoBuffer /\ (RadioRetry \/ RadioGiveUp)
          /\ radio = "waits"
      BY <1>3, <2>3 DEF RadioBusy, handlerVars
    <3>2. gLastTx \in Buffers
      BY <1>2, <3>1 DEF TypeOK
    <3>3. ~RadioRetry /\ RadioGiveUp
      BY <1>5, <3>1, <3>2 DEF RadioRetry
    <3>4. /\ CsmaFails >= MaxCsmaFails
          /\ ~heap[gLastTx].sticky /\ heap' = HeapAfterDiscard(gLastTx, FALSE)
      BY <1>5, <3>2, <3>3 DEF RadioGiveUp
    <3>5. b = gLastTx
      BY <1>2, <1>3, <3>4 DEF HeapAfterDiscard, TypeOK
    <3>6. heap[gLastTx].csma \in Nat /\ heap[gLastTx].csma < MaxCsmaFails
      BY <1>2, <3>2, <3>4, CsmaBound
    <3>7. CsmaFails = heap[gLastTx].csma + 1
      BY <3>6, LimitsAssumption DEF CsmaFails
    <3>8. busyReports = heap[gLastTx].csma + 1
      BY <1>2, <3>1, <3>4 DEF Retried, Reported, Tried
    <3>9. busyReports = MaxCsmaFails
      BY <3>4, <3>6, <3>7, <3>8, LimitsAssumption
    <3> QED
      BY <3>1, <3>5, <3>9
  <2> QED
    BY <2>1, <2>2, <2>3
<1> QED
    BY <1>6, <1>7, <1>8 DEF Next

\* Until a submission races with HandleTxComplete, a packet of the host's is let
\* go of only after RAIL has sent it, or has
\* reported a busy channel for this very packet kMaxCsmaFails times: the count
\* in its buffer is of its own failures (Radio/Task.cpp:142).
THEOREM TriesCorrect == ASSUME Cautious PROVE TriesSpec => TriesEnough
<1>1. TriesInit => TriesInv
    BY TriesInvInit
<1>2. TriesInv /\ [TriesNext]_<<vars, busyReports>> => TriesInv'
    BY TriesInvStep
<1> DEFINE Lets == \A b \in Buffers : LetGo(b)
<1>3. TriesInv /\ [TriesNext]_<<vars, busyReports>> => [Lets]_<<vars, busyReports>>
    BY LetsGo DEF TriesNext
<1> HIDE DEF Lets
<1>4. TriesSpec => [][Lets]_<<vars, busyReports>>
    BY <1>1, <1>2, <1>3, PTL DEF TriesSpec
<1> QED
    BY <1>4, PTL DEF TriesEnough, Lets
============================================================================
