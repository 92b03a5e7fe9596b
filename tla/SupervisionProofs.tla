-------------------------- MODULE SupervisionProofs --------------------------
(***************************************************************************)
(* Proofs about the supervision of the host (MCSupervision): beacons and   *)
(* indicator follow the host, the timer task does not wait for itself, and *)
(* only a silent host is declared lost, each of them until a command has   *)
(* met the callback of the watchdog.  Every invariant here has the form    *)
(* ~met => Inv: the one thing that ends it is that meeting, which the code *)
(* does not rule out (the run supervision_late shows what it leads to).    *)
(***************************************************************************)
EXTENDS MCSupervision, SequenceTheorems, TLAPS

-----------------------------------------------------------------------------
(* What a list of calls does to the beacon timer, once it has been carried   *)
(* out: the timer task's queue, or what the HostIf task has yet to post.     *)

Starts == {"reset", "period"}

\* The timer runs after one call, and after a list of calls, if it ran before.
After(call, now) == call \in Starts \/ (now /\ call # "stop")

Runs(calls, now) ==
    \/ now /\ \A i \in 1 .. Len(calls) : calls[i] # "stop"
    \/ \E i \in 1 .. Len(calls) :
          /\ calls[i] \in Starts
          /\ \A j \in i + 1 .. Len(calls) : calls[j] # "stop"

Has(calls, call) == \E i \in 1 .. Len(calls) : calls[i] = call

\* No call, and one call.
LEMMA NoCalls ==
    ASSUME NEW now
    PROVE  /\ Runs(<<>>, now) <=> now
           /\ \A call : ~Has(<<>>, call)
BY DEF Runs, Has

LEMMA OneCall ==
    ASSUME NEW c, NEW now
    PROVE  /\ Runs(<<c>>, now) <=> After(c, now)
           /\ \A call : Has(<<c>>, call) <=> call = c
<1>1. Len(<<c>>) = 1 /\ <<c>>[1] = c /\ 1 .. Len(<<c>>) = {1} /\ 1 + 1 .. 1 = {}
  OBVIOUS
<1> QED BY <1>1 DEF Runs, Has, After, Starts

\* Only whether the timer ran before counts.
LEMMA SameBefore ==
    ASSUME NEW calls, NEW p, NEW q, p <=> q
    PROVE  Runs(calls, p) <=> Runs(calls, q)
BY DEF Runs

\* One list of calls after another.
LEMMA CallsInTurn ==
    ASSUME NEW S, NEW a \in Seq(S), NEW b \in Seq(S), NEW now
    PROVE  /\ Runs(a \o b, now) <=> Runs(b, Runs(a, now))
           /\ \A call : Has(a \o b, call) <=> Has(a, call) \/ Has(b, call)
<1> DEFINE s == a \o b
           m == Len(a)
           n == Len(b)
<1>1. /\ m \in Nat /\ n \in Nat
      /\ s \in Seq(S) /\ Len(s) = m + n
      /\ \A i \in 1 .. m : s[i] = a[i]
      /\ \A i \in 1 .. n : s[m + i] = b[i]
  <2>1. \A i \in 1 .. n : s[m + i] = b[i]
    BY ConcatProperties
  <2> QED BY <2>1, ConcatProperties
<1>2. \A i \in 1 .. m + n : i \in 1 .. m \/ \E k \in 1 .. n : i = m + k
  <2> SUFFICES ASSUME NEW i \in 1 .. m + n, i \notin 1 .. m PROVE i - m \in 1 .. n /\ i = m + (i - m)
    OBVIOUS
  <2> QED BY <1>1
<1>3. /\ \A i \in 1 .. m : i \in 1 .. m + n
      /\ \A k \in 1 .. n : m + k \in 1 .. m + n
  BY <1>1
<1> HIDE DEF s, m, n
<1>4. \A call : Has(s, call) <=> Has(a, call) \/ Has(b, call)
  <2> SUFFICES ASSUME NEW call PROVE Has(s, call) <=> Has(a, call) \/ Has(b, call)
    OBVIOUS
  <2>1. Has(s, call) <=> \E i \in 1 .. m + n : s[i] = call
    BY <1>1 DEF Has
  <2>2. Has(a, call) <=> \E i \in 1 .. m : s[i] = call
    BY <1>1 DEF Has, m
  <2>3. Has(b, call) <=> \E k \in 1 .. n : s[m + k] = call
    BY <1>1 DEF Has, n
  <2> QED BY <1>2, <1>3, <2>1, <2>2, <2>3, Zenon
<1>5. (\A i \in 1 .. m + n : s[i] # "stop")
         <=> (\A i \in 1 .. m : a[i] # "stop") /\ (\A i \in 1 .. n : b[i] # "stop")
  <2>1. ASSUME \A i \in 1 .. m + n : s[i] # "stop"
        PROVE  (\A i \in 1 .. m : a[i] # "stop") /\ (\A i \in 1 .. n : b[i] # "stop")
    <3>1. ASSUME NEW i \in 1 .. m PROVE a[i] # "stop"
      BY <1>1, <1>3, <2>1
    <3>2. ASSUME NEW i \in 1 .. n PROVE b[i] # "stop"
      BY <1>1, <1>3, <2>1
    <3> QED BY <3>1, <3>2
  <2>2. ASSUME \A i \in 1 .. m : a[i] # "stop", \A i \in 1 .. n : b[i] # "stop",
               NEW i \in 1 .. m + n
        PROVE  s[i] # "stop"
    <3>1. CASE i \in 1 .. m
      BY <1>1, <2>2, <3>1
    <3>2. ASSUME NEW k \in 1 .. n, i = m + k PROVE s[i] # "stop"
      BY <1>1, <2>2, <3>2
    <3> QED BY <1>2, <3>1, <3>2
  <2> QED BY <2>1, <2>2
<1>6. ASSUME NEW i \in 1 .. m
      PROVE  (\A j \in i + 1 .. m + n : s[j] # "stop")
               <=> (\A j \in i + 1 .. m : a[j] # "stop") /\ (\A j \in 1 .. n : b[j] # "stop")
  <2>1. \A j \in i + 1 .. m + n : j \in 1 .. m + n
    BY <1>1
  <2>2. /\ \A j \in i + 1 .. m : j \in i + 1 .. m + n /\ s[j] = a[j]
        /\ \A j \in 1 .. n : m + j \in i + 1 .. m + n /\ s[m + j] = b[j]
    BY <1>1
  <2>3. \A j \in i + 1 .. m + n : j \in i + 1 .. m \/ \E k \in 1 .. n : j = m + k
    BY <1>1, <1>2, <2>1
  <2>4. (\A j \in i + 1 .. m + n : s[j] # "stop")
          => (\A j \in i + 1 .. m : a[j] # "stop") /\ (\A j \in 1 .. n : b[j] # "stop")
    BY <2>2, Zenon
  <2>5. (\A j \in i + 1 .. m : a[j] # "stop") /\ (\A j \in 1 .. n : b[j] # "stop")
          => (\A j \in i + 1 .. m + n : s[j] # "stop")
    <3> SUFFICES ASSUME \A j \in i + 1 .. m : a[j] # "stop", \A j \in 1 .. n : b[j] # "stop",
                        NEW j \in i + 1 .. m + n
                 PROVE  s[j] # "stop"
      OBVIOUS
    <3>1. CASE j \in i + 1 .. m
      BY <2>2, <3>1
    <3>2. ASSUME NEW k \in 1 .. n, j = m + k PROVE s[j] # "stop"
      BY <2>2, <3>2
    <3> QED BY <2>3, <3>1, <3>2
  <2> QED BY <2>4, <2>5, Zenon
<1>7. ASSUME NEW k \in 1 .. n
      PROVE  (\A j \in m + k + 1 .. m + n : s[j] # "stop") <=> (\A j \in k + 1 .. n : b[j] # "stop")
  <2>1. \A j \in k + 1 .. n : m + j \in m + k + 1 .. m + n /\ s[m + j] = b[j]
    BY <1>1
  <2>2. \A j \in m + k + 1 .. m + n : j - m \in k + 1 .. n /\ s[j] = b[j - m]
    <3> SUFFICES ASSUME NEW j \in m + k + 1 .. m + n
                 PROVE  j - m \in k + 1 .. n /\ s[j] = b[j - m]
      OBVIOUS
    <3>1. j - m \in 1 .. n /\ j - m \in k + 1 .. n /\ m + (j - m) = j
      BY <1>1
    <3> QED BY <3>1, <1>1
  <2> QED BY <2>1, <2>2, Zenon
<1>8. Runs(s, now) <=>
        \/ now /\ (\A i \in 1 .. m + n : s[i] # "stop")
        \/ \E i \in 1 .. m : s[i] \in Starts /\ (\A j \in i + 1 .. m + n : s[j] # "stop")
        \/ \E k \in 1 .. n : s[m + k] \in Starts /\ (\A j \in m + k + 1 .. m + n : s[j] # "stop")
  <2>1. Runs(s, now) <=>
          \/ now /\ (\A i \in 1 .. m + n : s[i] # "stop")
          \/ \E i \in 1 .. m + n : s[i] \in Starts /\ (\A j \in i + 1 .. m + n : s[j] # "stop")
    BY <1>1 DEF Runs
  <2> QED BY <2>1, <1>2, <1>3, Zenon
<1>9. Runs(b, Runs(a, now)) <=>
        \/ Runs(a, now) /\ (\A i \in 1 .. n : b[i] # "stop")
        \/ \E k \in 1 .. n : b[k] \in Starts /\ (\A j \in k + 1 .. n : b[j] # "stop")
  BY Zenon DEF Runs, n
<1>10. Runs(a, now) <=>
        \/ now /\ (\A i \in 1 .. m : a[i] # "stop")
        \/ \E i \in 1 .. m : a[i] \in Starts /\ (\A j \in i + 1 .. m : a[j] # "stop")
  BY Zenon DEF Runs, m
<1>11. Runs(s, now) <=> Runs(b, Runs(a, now))
  <2>1. (\E i \in 1 .. m : s[i] \in Starts /\ (\A j \in i + 1 .. m + n : s[j] # "stop"))
          <=> (\E i \in 1 .. m : a[i] \in Starts /\ (\A j \in i + 1 .. m : a[j] # "stop"))
              /\ (\A j \in 1 .. n : b[j] # "stop")
    BY <1>1, <1>6, Zenon
  <2>2. (\E k \in 1 .. n : s[m + k] \in Starts /\ (\A j \in m + k + 1 .. m + n : s[j] # "stop"))
          <=> (\E k \in 1 .. n : b[k] \in Starts /\ (\A j \in k + 1 .. n : b[j] # "stop"))
    BY <1>1, <1>7, Zenon
  <2> HIDE DEF Runs
  <2> QED BY <1>5, <1>8, <1>9, <1>10, <2>1, <2>2, Zenon
<1> QED BY <1>4, <1>11, Zenon DEF s

\* A call is put at the end of the list.
LEMMA CallAdded ==
    ASSUME NEW S, NEW calls \in Seq(S), NEW c \in S, NEW now
    PROVE  /\ Runs(Append(calls, c), now) <=> After(c, Runs(calls, now))
           /\ \A call : Has(Append(calls, c), call) <=> Has(calls, call) \/ call = c
<1>1. <<c>> \in Seq(S) /\ Append(calls, c) = calls \o <<c>>
  BY AppendIsConcat
<1>2. \A call : Has(<<c>>, call) <=> call = c
  BY OneCall
<1>3. Runs(<<c>>, Runs(calls, now)) <=> After(c, Runs(calls, now))
  BY OneCall
<1>4. /\ Runs(calls \o <<c>>, now) <=> Runs(<<c>>, Runs(calls, now))
      /\ \A call : Has(calls \o <<c>>, call) <=> Has(calls, call) \/ Has(<<c>>, call)
  BY <1>1, CallsInTurn, Zenon
<1> QED BY <1>1, <1>2, <1>3, <1>4, Zenon

\* The first call of the list is carried out.
LEMMA CallDone ==
    ASSUME NEW S, NEW calls \in Seq(S), calls # <<>>, NEW now
    PROVE  /\ Runs(Tail(calls), After(Head(calls), now)) <=> Runs(calls, now)
           /\ \A call : Has(calls, call) <=> Has(Tail(calls), call) \/ call = Head(calls)
<1> DEFINE h == Head(calls)
           t == Tail(calls)
<1>1. h \in S /\ t \in Seq(S) /\ <<h>> \in Seq(S) /\ calls = <<h>> \o t
  BY HeadTailProperties
<1> HIDE DEF h, t
<1>2. Runs(calls, now) <=> Runs(t, Runs(<<h>>, now))
  BY <1>1, CallsInTurn, Zenon
<1>3. Runs(t, Runs(<<h>>, now)) <=> Runs(t, After(h, now))
  <2>1. Runs(<<h>>, now) <=> After(h, now)
    BY OneCall
  <2> QED BY <2>1, SameBefore
<1>4. \A call : Has(<<h>>, call) <=> call = h
  BY OneCall
<1>5. \A call : Has(calls, call) <=> Has(<<h>>, call) \/ Has(t, call)
  BY <1>1, CallsInTurn, Zenon
<1> QED BY <1>2, <1>3, <1>4, <1>5, Zenon DEF h, t

-----------------------------------------------------------------------------
(* Types, and what the calls of a command are.                               *)

\* A post that does not wait adds at most one command, which is for another
\* timer than the beacon's.
LEMMA OfferedLeds ==
    ASSUME NEW queue \in Seq(Commands), Len(queue) <= QueueLength, NEW now
    PROVE  /\ Offer(queue, "leds") \in Seq(Commands)
           /\ Len(Offer(queue, "leds")) <= QueueLength
           /\ Len(Offer(queue, "leds")) <= Len(queue) + 1
           /\ Runs(Offer(queue, "leds"), now) <=> Runs(queue, now)
<1>1. "leds" \in Commands /\ ~("leds" \in Starts) /\ "leds" # "stop"
  BY DEF Commands, Starts
<1>2. Append(queue, "leds") \in Seq(Commands) /\ Len(Append(queue, "leds")) = Len(queue) + 1
  BY <1>1, AppendProperties
<1>3. Runs(Append(queue, "leds"), now) <=> Runs(queue, now)
  <2>1. Runs(Append(queue, "leds"), now) <=> After("leds", Runs(queue, now))
    BY <1>1, CallAdded, ZenonT(30)
  <2> QED BY <1>1, <2>1, Zenon DEF After
<1>4. Len(queue) \in Nat
  BY LenProperties
<1> QED BY <1>2, <1>3, <1>4, QueueLengthAssumption DEF Offer

\* What HandleCommsRegained and Kick leave to do.
LEMMA KickCalls ==
    ASSUME NEW now
    PROVE  /\ Kick \in Seq(Calls) /\ Kick # <<>>
           /\ Runs(Kick, now) <=> now \/ (gCommsLostFlag /\ gEnabled)
           /\ \A call : Has(Kick, call) <=>
                  \/ call = "checkIn"
                  \/ gCommsLostFlag /\ call \in {"attentionOff", "log"}
                  \/ gCommsLostFlag /\ gEnabled /\ call = "reset"
<1> DEFINE off == <<"attentionOff">>
           on == IF gEnabled THEN <<"reset">> ELSE <<>>
           log == <<"log">>
           regained == (off \o on) \o log
           first == IF gCommsLostFlag THEN regained ELSE <<>>
           last == <<"checkIn">>
<1>1. off \in Seq(Calls) /\ on \in Seq(Calls) /\ log \in Seq(Calls) /\ last \in Seq(Calls)
      /\ <<>> \in Seq(Calls)
  <2>1. /\ <<>> \in Seq(Calls) /\ <<"reset">> \in Seq(Calls) /\ off \in Seq(Calls)
        /\ log \in Seq(Calls) /\ last \in Seq(Calls)
    BY DEF Calls, BeaconCommands
  <2> QED BY <2>1, Zenon
<1>2. Kick = first \o last
  BY DEF Kick
<1>3. /\ \A call : Has(off, call) <=> call = "attentionOff"
      /\ \A call : Has(log, call) <=> call = "log"
      /\ \A call : Has(last, call) <=> call = "checkIn"
  BY OneCall
<1>4. \A call : Has(on, call) <=> gEnabled /\ call = "reset"
  <2>1. \A call : Has(<<"reset">>, call) <=> call = "reset"
    BY OneCall
  <2>2. \A call : ~Has(<<>>, call)
    BY NoCalls
  <2> QED BY <2>1, <2>2
<1>5. Runs(off, now) <=> now
  <2>1. Runs(off, now) <=> After("attentionOff", now)
    BY OneCall
  <2> QED BY <2>1 DEF After, Starts
<1>6. ASSUME NEW p PROVE Runs(on, p) <=> p \/ gEnabled
  <2>1. Runs(<<"reset">>, p) <=> After("reset", p)
    BY OneCall
  <2>2. Runs(<<>>, p) <=> p
    BY NoCalls
  <2> QED BY <2>1, <2>2 DEF After, Starts
<1>7. ASSUME NEW p PROVE (Runs(log, p) <=> p) /\ (Runs(last, p) <=> p)
  <2>1. (Runs(log, p) <=> After("log", p)) /\ (Runs(last, p) <=> After("checkIn", p))
    BY OneCall
  <2> QED BY <2>1 DEF After, Starts
<1>8. Runs(<<>>, now) <=> now
  BY NoCalls
<1>9. \A call : ~Has(<<>>, call)
  BY NoCalls
<1> HIDE DEF off, on, log, last
<1>10. off \o on \in Seq(Calls) /\ regained \in Seq(Calls)
  BY <1>1, ConcatProperties
<1>11. \A call : Has(off \o on, call) <=> Has(off, call) \/ Has(on, call)
  BY <1>1, CallsInTurn, Zenon
<1>12. \A call : Has(regained, call) <=> Has(off \o on, call) \/ Has(log, call)
  BY <1>1, <1>10, CallsInTurn, ZenonT(30)
<1>13. Runs(off \o on, now) <=> Runs(on, Runs(off, now))
  BY <1>1, CallsInTurn, Zenon
<1>14. Runs(regained, now) <=> Runs(log, Runs(off \o on, now))
  BY <1>1, <1>10, CallsInTurn, Zenon
<1>15. Runs(regained, now) <=> now \/ gEnabled
  <2>1. Runs(on, Runs(off, now)) <=> Runs(off, now) \/ gEnabled
    BY <1>6
  <2>2. Runs(log, Runs(off \o on, now)) <=> Runs(off \o on, now)
    BY <1>7
  <2> QED BY <1>5, <1>13, <1>14, <2>1, <2>2, Zenon
<1> HIDE DEF regained
<1>16. first \in Seq(Calls)
  BY <1>1, <1>10
<1>17. Runs(first, now) <=> now \/ (gCommsLostFlag /\ gEnabled)
  BY <1>8, <1>15
<1>18. \A call : Has(first, call) <=> gCommsLostFlag /\ Has(regained, call)
  BY <1>9
<1> HIDE DEF first
<1>19. \A call : Has(Kick, call) <=> Has(first, call) \/ Has(last, call)
  BY <1>1, <1>2, <1>16, CallsInTurn, Zenon
<1>20. Runs(Kick, now) <=> Runs(last, Runs(first, now))
  BY <1>1, <1>2, <1>16, CallsInTurn, Zenon
<1>21. Runs(last, Runs(first, now)) <=> Runs(first, now)
  BY <1>7
<1>22. Kick \in Seq(Calls)
  BY <1>1, <1>2, <1>16, ConcatProperties
<1>23. Has(Kick, "checkIn")
  BY <1>3, <1>19
<1>24. Kick # <<>>
  BY <1>9, <1>23
<1> QED BY <1>3, <1>4, <1>11, <1>12, <1>17, <1>18, <1>19, <1>20, <1>21, <1>22, <1>24

\* What a new configuration leaves to do: the timer runs in the end if and only
\* if beacons are enabled.
LEMMA ConfigCalls ==
    ASSUME NEW enabled \in BOOLEAN, NEW now
    PROVE  LET calls == SetEnabled(enabled) \o SetInterval(enabled) \o <<"log">>
           IN  /\ calls \in Seq(Calls)
               /\ Runs(calls, now) <=> enabled
               /\ \A call \in {"payload", "attentionOff"} : ~Has(calls, call)
<1> DEFINE first == SetEnabled(enabled)
           period == <<"period">>
           last == StartOrStop(enabled)
           log == <<"log">>
<1>1. /\ <<>> \in Seq(Calls) /\ <<"reset">> \in Seq(Calls) /\ <<"stop">> \in Seq(Calls)
      /\ period \in Seq(Calls) /\ log \in Seq(Calls)
  BY DEF Calls, BeaconCommands
<1>2. last \in Seq(Calls) /\ first \in Seq(Calls)
  BY <1>1 DEF SetEnabled, StartOrStop
<1>3. ASSUME NEW p PROVE (Runs(last, p) <=> enabled)
  <2>1. (Runs(<<"reset">>, p) <=> After("reset", p)) /\ (Runs(<<"stop">>, p) <=> After("stop", p))
    BY OneCall
  <2> QED BY <2>1 DEF StartOrStop, After, Starts
<1>4. ASSUME NEW p PROVE (Runs(log, p) <=> p)
  <2>1. Runs(log, p) <=> After("log", p)
    BY OneCall
  <2> QED BY <2>1 DEF After, Starts
<1>5. ASSUME NEW call \in {"payload", "attentionOff"}
      PROVE  ~Has(last, call) /\ ~Has(first, call) /\ ~Has(period, call) /\ ~Has(log, call)
  <2>1. /\ Has(<<"reset">>, call) <=> call = "reset"
        /\ Has(<<"stop">>, call) <=> call = "stop"
        /\ Has(period, call) <=> call = "period"
        /\ Has(log, call) <=> call = "log"
        /\ ~Has(<<>>, call)
    BY OneCall, NoCalls
  <2> QED BY <2>1 DEF SetEnabled, StartOrStop
<1> DEFINE next == period \o last
           both == first \o next
           calls == both \o log
<1>6. SetEnabled(enabled) \o SetInterval(enabled) \o <<"log">> = calls
  BY DEF SetInterval
<1> HIDE DEF first, period, last, log
<1>7. next \in Seq(Calls) /\ both \in Seq(Calls) /\ calls \in Seq(Calls)
  BY <1>1, <1>2, ConcatProperties
<1>8. Runs(next, Runs(first, now)) <=> enabled
  <2>1. Runs(next, Runs(first, now)) <=> Runs(last, Runs(period, Runs(first, now)))
    BY <1>1, <1>2, CallsInTurn, Zenon
  <2> QED BY <1>3, <2>1
<1>9. \A call : Has(next, call) <=> Has(period, call) \/ Has(last, call)
  BY <1>1, <1>2, CallsInTurn, Zenon
<1> HIDE DEF next
<1>10. /\ Runs(both, now) <=> Runs(next, Runs(first, now))
       /\ \A call : Has(both, call) <=> Has(first, call) \/ Has(next, call)
  BY <1>2, <1>7, CallsInTurn, Zenon
<1> HIDE DEF both
<1>11. /\ Runs(calls, now) <=> Runs(log, Runs(both, now))
       /\ \A call : Has(calls, call) <=> Has(both, call) \/ Has(log, call)
  BY <1>1, <1>7, CallsInTurn, Zenon
<1>12. Runs(calls, now) <=> enabled
  BY <1>4, <1>8, <1>10, <1>11
<1>13. \A call \in {"payload", "attentionOff"} : ~Has(calls, call)
  BY <1>5, <1>9, <1>10, <1>11
<1> QED BY <1>6, <1>7, <1>12, <1>13, Zenon

LEMMA TypeInit == Init => TypeOK
<1> SUFFICES ASSUME Init PROVE TypeOK
  OBVIOUS
<1>1. BootPosts \in Seq(Commands) /\ Len(BootPosts) = 6
  BY DEF BootPosts, Commands, BeaconCommands
<1>2. Kept(BootPosts) \in Seq(Commands) /\ Len(Kept(BootPosts)) <= QueueLength
  <2> DEFINE n == IF Len(BootPosts) < QueueLength THEN Len(BootPosts) ELSE QueueLength
  <2>1. n \in 0 .. 6 /\ n <= QueueLength
    BY <1>1, QueueLengthAssumption
  <2> HIDE DEF n
  <2>2. SubSeq(BootPosts, 1, n) \in Seq(Commands) /\ Len(SubSeq(BootPosts, 1, n)) = n
    <3> HIDE DEF BootPosts
    <3>1. \A k \in 1 .. n : k \in 1 .. Len(BootPosts)
      BY <1>1, <2>1
    <3>2. \A k \in 1 .. n : BootPosts[k] \in Commands
      BY <1>1, <3>1, ElementOfSeq
    <3>3. n \in 0 .. Len(BootPosts) /\ n \in Nat
      BY <1>1, <2>1
    <3> QED BY <1>1, <2>1, <3>2, <3>3, SubSeqProperties
  <2> QED BY <2>1, <2>2, Zenon DEF Kept, n
<1>3. gEnabled \in BOOLEAN /\ gCommsLostFlag \in BOOLEAN /\ hostUp \in BOOLEAN
  BY Zenon DEF Init
<1>4. hostCalls \in Seq(Calls)
  BY DEF Init
<1> HIDE DEF BootPosts
<1> QED
  BY <1>2, <1>3, <1>4, ThresholdAssumption DEF Init, TypeOK, Timers, WatchdogSteps, MaxMissed

LEMMA TypeStep == TypeOK /\ [Next]_vars => TypeOK'
<1> SUFFICES ASSUME TypeOK, [Next]_vars PROVE TypeOK'
  OBVIOUS
<1> USE DEF TypeOK, Timers, WatchdogSteps, MaxMissed, watchdogVars, timerVars
<1>0. Len(timerQueue) \in Nat
  BY LenProperties
<1>1. ASSUME NEW withPayload \in BOOLEAN, Command(withPayload)
      PROVE  TypeOK'
  <2> DEFINE payload == IF withPayload THEN <<"payload">> ELSE <<>>
  <2>1. payload \in Seq(Calls)
    <3>1. <<"payload">> \in Seq(Calls) /\ <<>> \in Seq(Calls)
      BY DEF Calls
    <3> QED BY <3>1
  <2>2. hostCalls' = Kick \o payload
    BY <1>1, Zenon DEF Command
  <2>3. Kick \in Seq(Calls)
    BY KickCalls
  <2> HIDE DEF payload
  <2>4. hostCalls' \in Seq(Calls)
    BY <2>1, <2>2, <2>3, ConcatProperties
  <2> QED BY <1>1, <2>4 DEF Command
<1>2. ASSUME NEW enabled \in BOOLEAN, BeaconConfig(enabled)
      PROVE  TypeOK'
  <2>1. hostCalls' \in Seq(Calls)
    BY <1>2, ConfigCalls, Zenon DEF BeaconConfig
  <2> QED BY <1>2, <2>1 DEF BeaconConfig
<1>3. CASE HostTurns
  <2>1. hostUp' \in BOOLEAN
    BY <1>3, Zenon DEF HostTurns
  <2> QED BY <1>3, <2>1 DEF HostTurns
<1>4. ASSUME NEW call \in Calls, Does(call)
      PROVE  hostCalls # <<>> /\ hostCalls' \in Seq(Calls)
  <2>1. hostCalls # <<>>
    BY <1>4 DEF Does, Doing, Calls, BeaconCommands
  <2> QED BY <1>4, <2>1, HeadTailProperties DEF Does
<1>5. CASE HostPosts
  <2> PICK command \in BeaconCommands :
          /\ Does(command)
          /\ Len(timerQueue) < QueueLength
          /\ timerQueue' = Append(timerQueue, command)
    BY <1>5 DEF HostPosts
  <2>1. command \in Calls /\ command \in Commands
    BY DEF Calls, Commands
  <2>2. timerQueue' \in Seq(Commands) /\ Len(timerQueue') = Len(timerQueue) + 1
    BY <2>1, AppendProperties
  <2> QED BY <1>0, <1>4, <1>5, <2>1, <2>2, QueueLengthAssumption DEF HostPosts
<1>6. Offer(timerQueue, "leds") \in Seq(Commands) /\ Len(Offer(timerQueue, "leds")) <= QueueLength
  BY OfferedLeds, Zenon
<1>7. CASE HostTurnsOff
  BY <1>4, <1>6, <1>7 DEF HostTurnsOff, Calls
<1>8. CASE HostLogs
  BY <1>4, <1>8 DEF HostLogs, Calls
<1>9. CASE HostChecksIn
  BY <1>4, <1>9, ThresholdAssumption DEF HostChecksIn, Calls
<1>10. ASSUME NEW led \in {"tx", "rx"}, RadioPulses(led)
       PROVE  TypeOK'
  BY <1>6, <1>10 DEF RadioPulses
<1>11. CASE TimerObeys
  <2>1. timerQueue' \in Seq(Commands) /\ Len(timerQueue') = Len(timerQueue) - 1
        /\ Head(timerQueue) \in Commands
    BY <1>11, HeadTailProperties DEF TimerObeys
  <2>2. active' \subseteq Timers
    BY <1>11, <2>1 DEF TimerObeys, Obeyed, Commands, BeaconCommands
  <2> QED BY <1>0, <1>11, <2>1, <2>2, QueueLengthAssumption DEF TimerObeys
<1>12. CASE TimerDrained
  BY <1>12 DEF TimerDrained
<1>13. CASE TimerWakes
  BY <1>13 DEF TimerWakes
<1>14. CASE LedsExpire
  <2> PICK going \in SUBSET pulsing :
          /\ pulsing' = going
          /\ timerQueue' = IF going # {} \/ attention = "blinkFast"
                           THEN Offer(timerQueue, "leds") ELSE timerQueue
    BY <1>14 DEF LedsExpire
  <2> QED BY <1>6, <1>14 DEF LedsExpire
<1>15. CASE WatchdogExpires
  BY <1>15, ThresholdAssumption DEF WatchdogExpires
<1>16. CASE WatchdogCounts
  BY <1>16, ThresholdAssumption DEF WatchdogCounts
<1>17. CASE WatchdogWarns
  BY <1>17 DEF WatchdogWarns
<1>18. CASE WatchdogFlags
  BY <1>18 DEF WatchdogFlags
<1>19. CASE WatchdogBlinks
  BY <1>6, <1>19 DEF WatchdogBlinks
<1>20. CASE WatchdogStops
  <2>1. timerQueue' \in Seq(Commands) /\ Len(timerQueue') = Len(timerQueue) + 1
        /\ Len(timerQueue) < QueueLength
    <3>1. "stop" \in Commands
      BY DEF Commands, BeaconCommands
    <3> QED BY <1>20, <3>1, AppendProperties DEF WatchdogStops, CommsLost
  <2> QED BY <1>0, <1>20, <2>1, QueueLengthAssumption DEF WatchdogStops
<1>21. CASE UNCHANGED vars
  BY <1>21 DEF vars
<1> QED
  BY <1>1, <1>2, <1>3, <1>5, <1>7, <1>8, <1>9, <1>10, <1>11, <1>12, <1>13, <1>14, <1>15, <1>16,
     <1>17, <1>18, <1>19, <1>20, <1>21, Zenon
  DEF Next, HostTask, Host, Radio, TimerQueue, WatchdogCallback

\* Every variable keeps to its type, whatever the host does.
THEOREM SupervisionTypeCorrect == MCSpec => []TypeOK
<1>1. MCInit => TypeOK
  BY TypeInit DEF MCInit
<1>2. TypeOK /\ [MCNext]_mcVars => TypeOK'
  BY TypeStep DEF MCNext, mcVars
<1> QED BY <1>1, <1>2, PTL DEF MCSpec

-----------------------------------------------------------------------------
(* Where they have not met, the HostIf task and the callback of the watchdog *)
(* keep out of each other's way: a command that is being handled has taken   *)
(* back the loss, and what is left of it is done in the order of Kick.       *)

\* A step of the model with its history variables is a step of the model, and
\* once they have met they have.
LEMMA MetStays ==
    ASSUME [MCNext]_mcVars
    PROVE  [Next]_vars /\ (~met' => ~met /\ ~Meets)
<1>1. CASE MCNext
  <2>1. Next /\ met' = (met \/ Meets)
    BY <1>1 DEF MCNext
  <2>2. ~met' => ~met /\ ~Meets
    BY <2>1, Zenon
  <2> QED BY <2>1, <2>2
<1>2. CASE UNCHANGED mcVars
  <2>1. UNCHANGED vars /\ UNCHANGED met
    BY <1>2 DEF mcVars
  <2>2. UNCHANGED hostCalls /\ UNCHANGED timerTask
    BY <2>1 DEF vars
  <2>3. ~Meets
    BY <2>2 DEF Meets
  <2>4. ~met' => ~met
    BY <2>1, Zenon
  <2> QED BY <2>1, <2>3, <2>4
<1> QED BY <1>1, <1>2

HostAlone == hostCalls # <<>> => ~gCommsLostFlag /\ timerTask \notin WatchdogSteps

\* Silence is forgotten before the payload is waited for, and the payload is the
\* last thing a command waits for.
ChecksInFirst == hostCalls # <<>> /\ gCheckinsMissed # 0 => Has(hostCalls, "checkIn")

PayloadLast == \A i \in 1 .. Len(hostCalls) : hostCalls[i] = "payload" => i = Len(hostCalls)

\* Late in the callback, comms are lost.
Lost == timerTask \in {"blink", "stop"} => gCommsLostFlag

HostInv ==
    /\ TypeOK
    /\ HostAlone
    /\ ChecksInFirst
    /\ PayloadLast
    /\ Lost

LEMMA HostInvInit == Init => HostInv
<1> SUFFICES ASSUME Init PROVE HostInv
  OBVIOUS
<1>1. TypeOK
  BY TypeInit
<1> QED BY <1>1 DEF Init, HostInv, HostAlone, ChecksInFirst, PayloadLast, Lost

\* The HostIf task does the first of its calls.
LEMMA HostDoes ==
    ASSUME HostInv, NEW call \in Calls, Does(call)
    PROVE  /\ hostCalls # <<>> /\ Head(hostCalls) = call /\ hostCalls' = Tail(hostCalls)
           /\ PayloadLast'
           /\ call # "checkIn" => (gCheckinsMissed # 0 => Has(hostCalls', "checkIn"))
           /\ call # "attentionOff"
                 => (Has(hostCalls', "attentionOff") <=> Has(hostCalls, "attentionOff"))
           /\ \A now : Runs(hostCalls', After(call, now)) <=> Runs(hostCalls, now)
<1> USE DEF HostInv, TypeOK
<1>1. hostCalls # <<>> /\ Head(hostCalls) = call /\ hostCalls' = Tail(hostCalls)
  BY DEF Does, Doing, Calls, BeaconCommands
<1>2. PayloadLast'
  <2>1. /\ Tail(hostCalls) \in Seq(Calls) /\ Len(hostCalls) \in Nat
        /\ Len(Tail(hostCalls)) = Len(hostCalls) - 1
        /\ \A i \in 1 .. Len(Tail(hostCalls)) : Tail(hostCalls)[i] = hostCalls[i + 1]
    BY <1>1, HeadTailProperties, LenProperties
  <2>2. \A i \in 1 .. Len(hostCalls) - 1 : i + 1 \in 1 .. Len(hostCalls)
    BY <2>1
  <2>3. ASSUME NEW i \in 1 .. Len(hostCalls) - 1, Tail(hostCalls)[i] = "payload"
        PROVE  i = Len(hostCalls) - 1
    <3>1. i + 1 \in 1 .. Len(hostCalls) /\ hostCalls[i + 1] = "payload"
      BY <2>1, <2>2, <2>3
    <3>2. i + 1 = Len(hostCalls)
      BY <3>1 DEF PayloadLast
    <3>3. \A n \in Nat : \A j \in 1 .. n - 1 : j + 1 = n => j = n - 1
      OBVIOUS
    <3> QED BY <2>1, <3>2, <3>3, Zenon
  <2>4. Len(hostCalls') = Len(hostCalls) - 1
    BY <1>1, <2>1
  <2> QED BY <1>1, <2>3, <2>4 DEF PayloadLast
<1>3. \A c : Has(hostCalls, c) <=> Has(Tail(hostCalls), c) \/ c = call
  BY <1>1, CallDone, Zenon
<1>4. call # "checkIn" => (gCheckinsMissed # 0 => Has(hostCalls', "checkIn"))
  BY <1>1, <1>3 DEF ChecksInFirst
<1>5. \A now : Runs(Tail(hostCalls), After(Head(hostCalls), now)) <=> Runs(hostCalls, now)
  BY <1>1, CallDone, Zenon
<1> QED BY <1>1, <1>2, <1>3, <1>4, <1>5

\* A command starts where nothing is left to do.
LEMMA HostStarts ==
    ASSUME HostInv, NEW withPayload \in BOOLEAN, Command(withPayload)
    PROVE  /\ hostCalls = <<>> /\ hostCalls' # <<>> /\ PayloadLast'
           /\ Has(hostCalls', "checkIn")
           /\ Has(hostCalls', "attentionOff") <=> gCommsLostFlag
           /\ \A now : Runs(hostCalls', now) <=> now \/ (gCommsLostFlag /\ gEnabled)
<1> DEFINE payload == IF withPayload THEN <<"payload">> ELSE <<>>
<1>1. hostCalls = <<>> /\ hostCalls' = Kick \o payload
  BY Zenon DEF Command
<1>2. payload \in Seq(Calls) /\ Kick \in Seq(Calls) /\ Kick # <<>>
      /\ Len(payload) \in {0, 1}
  <2>1. <<"payload">> \in Seq(Calls) /\ <<>> \in Seq(Calls)
        /\ Len(<<"payload">>) = 1 /\ Len(<<>>) = 0
    BY DEF Calls
  <2> QED BY <2>1, KickCalls
<1>3. \A call : Has(payload, call) <=> withPayload /\ call = "payload"
  <2>1. \A call : (Has(<<"payload">>, call) <=> call = "payload") /\ ~Has(<<>>, call)
    BY OneCall, NoCalls
  <2> QED BY <2>1
<1>4. ASSUME NEW now
      PROVE  Runs(payload, now) <=> now
  <2>1. (Runs(<<"payload">>, now) <=> After("payload", now)) /\ (Runs(<<>>, now) <=> now)
    BY OneCall, NoCalls
  <2> QED BY <2>1 DEF After, Starts
<1> HIDE DEF payload
<1>5. \A call : Has(hostCalls', call) <=> Has(Kick, call) \/ Has(payload, call)
  BY <1>1, <1>2, CallsInTurn, Zenon
<1>6. ASSUME NEW now
      PROVE  Runs(hostCalls', now) <=> now \/ (gCommsLostFlag /\ gEnabled)
  <2>1. Runs(hostCalls', now) <=> Runs(payload, Runs(Kick, now))
    BY <1>1, <1>2, CallsInTurn, Zenon
  <2>2. Runs(payload, Runs(Kick, now)) <=> Runs(Kick, now)
    BY <1>4
  <2> QED BY <2>1, <2>2, KickCalls
<1>7. Has(hostCalls', "checkIn") /\ (Has(hostCalls', "attentionOff") <=> gCommsLostFlag)
  <2>1. Has(Kick, "checkIn") /\ (Has(Kick, "attentionOff") <=> gCommsLostFlag)
    BY KickCalls
  <2> QED BY <1>3, <1>5, <2>1
<1>8. hostCalls' # <<>>
  BY <1>7, NoCalls
<1>9. PayloadLast'
  <2>1. ~Has(Kick, "payload")
    BY KickCalls
  <2>2. \A i \in 1 .. Len(Kick) : Kick[i] # "payload"
    BY <2>1 DEF Has
  <2>3. /\ Len(Kick \o payload) = Len(Kick) + Len(payload) /\ Len(Kick) \in Nat
        /\ \A i \in 1 .. Len(Kick) : (Kick \o payload)[i] = Kick[i]
    BY <1>2, ConcatProperties, LenProperties
  <2>4. ASSUME NEW i \in 1 .. Len(Kick) + Len(payload), i # Len(Kick) + Len(payload)
        PROVE  i \in 1 .. Len(Kick)
    <3>1. \A k \in Nat : \A l \in {0, 1} : \A j \in 1 .. k + l : j # k + l => j \in 1 .. k
      OBVIOUS
    <3> QED BY <1>2, <2>3, <2>4, <3>1, Zenon
  <2> QED BY <1>1, <2>2, <2>3, <2>4 DEF PayloadLast
<1> QED BY <1>1, <1>6, <1>7, <1>8, <1>9

\* A BeaconConfig: the payload was the last thing to wait for.
LEMMA HostConfigures ==
    ASSUME HostInv, NEW enabled \in BOOLEAN, BeaconConfig(enabled)
    PROVE  /\ hostCalls # <<>> /\ PayloadLast' /\ gCheckinsMissed = 0
           /\ ~Has(hostCalls', "attentionOff") /\ ~Has(hostCalls, "attentionOff")
           /\ \A now : Runs(hostCalls', now) <=> enabled
<1> USE DEF HostInv, TypeOK
<1>1. hostCalls # <<>> /\ Head(hostCalls) = "payload"
  BY DEF BeaconConfig, Doing
<1>2. Len(hostCalls) = 1 /\ hostCalls[1] = "payload"
  <2>1. Len(hostCalls) \in Nat \ {0} /\ hostCalls[1] = "payload"
    BY <1>1, LenProperties, EmptySeq
  <2>2. 1 \in 1 .. Len(hostCalls)
    BY <2>1
  <2> QED BY <2>1, <2>2 DEF PayloadLast
<1>3. \A call : Has(hostCalls, call) <=> call = "payload"
  BY <1>2 DEF Has
<1>4. gCheckinsMissed = 0
  BY <1>1, <1>3 DEF ChecksInFirst
<1>5. hostCalls' = SetEnabled(enabled) \o SetInterval(enabled) \o <<"log">>
  BY DEF BeaconConfig
<1>6. /\ \A now : Runs(hostCalls', now) <=> enabled
      /\ \A call \in {"payload", "attentionOff"} : ~Has(hostCalls', call)
  BY <1>5, ConfigCalls, Zenon
<1>7. PayloadLast'
  BY <1>6 DEF PayloadLast, Has
<1> QED BY <1>1, <1>3, <1>4, <1>6, <1>7

\* One step keeps it.
LEMMA HostInvStep == HostInv /\ [Next]_vars /\ ~Meets => HostInv'
<1> SUFFICES ASSUME HostInv, [Next]_vars, ~Meets PROVE HostInv'
  OBVIOUS
<1>0. TypeOK'
  BY TypeStep DEF HostInv
<1>1. ASSUME NEW withPayload \in BOOLEAN, Command(withPayload)
      PROVE  HostInv'
  <2>1. timerTask \notin WatchdogSteps
    BY <1>1, HostStarts DEF Meets
  <2> QED BY <1>0, <1>1, <2>1, HostStarts
      DEF Command, HostInv, HostAlone, ChecksInFirst, Lost, WatchdogSteps, timerVars
<1>2. ASSUME NEW enabled \in BOOLEAN, BeaconConfig(enabled)
      PROVE  HostInv'
  BY <1>0, <1>2, HostConfigures
  DEF BeaconConfig, HostInv, HostAlone, ChecksInFirst, Lost, timerVars, watchdogVars
<1>3. ASSUME NEW call \in Calls, Does(call), HostTask
      PROVE  HostInv'
  <2>1. PayloadLast' /\ hostCalls # <<>>
        /\ (call # "checkIn" => (gCheckinsMissed # 0 => Has(hostCalls', "checkIn")))
    BY <1>3, HostDoes, Zenon
  <2>2. UNCHANGED <<gCommsLostFlag, timerTask>> /\ gCheckinsMissed' \in {0, gCheckinsMissed}
    BY <1>3 DEF HostTask, HostPosts, HostTurnsOff, HostLogs, HostChecksIn, watchdogVars, timerVars
  <2>3. call = "checkIn" => gCheckinsMissed' = 0
    <3>1. Doing = call
      BY <1>3 DEF Does
    <3> QED BY <1>3, <3>1
        DEF HostTask, HostPosts, HostTurnsOff, HostLogs, HostChecksIn, Does, BeaconCommands
  <2> QED BY <1>0, <2>1, <2>2, <2>3 DEF HostInv, HostAlone, ChecksInFirst, Lost
<1>4. CASE HostTask
  <2>1. \E call \in Calls : Does(call)
    BY <1>4
    DEF HostTask, HostPosts, HostTurnsOff, HostLogs, HostChecksIn, Calls, BeaconCommands
  <2> QED BY <1>3, <1>4, <2>1
<1>5. CASE HostTurns
  BY <1>0, <1>5
  DEF HostTurns, HostInv, HostAlone, ChecksInFirst, PayloadLast, Lost, timerVars, watchdogVars
<1>6. CASE Radio \/ TimerQueue \/ LedsExpire
  <2>1. UNCHANGED <<hostCalls, gCommsLostFlag, gCheckinsMissed>>
        /\ (timerTask' = timerTask \/ timerTask' \in {"drain", "check"})
    BY <1>6
    DEF Radio, RadioPulses, TimerQueue, TimerObeys, TimerDrained, TimerWakes, LedsExpire,
        watchdogVars
  <2> QED BY <1>0, <2>1 DEF HostInv, HostAlone, ChecksInFirst, PayloadLast, Lost, WatchdogSteps
<1>7. CASE WatchdogExpires
  <2>1. hostCalls = <<>>
    BY <1>7 DEF WatchdogExpires, TimerTaskAt, Meets
  <2> QED BY <1>0, <1>7, <2>1
      DEF WatchdogExpires, HostInv, HostAlone, ChecksInFirst, PayloadLast, Lost, WatchdogSteps,
          watchdogVars
<1>8. CASE WatchdogCallback
  <2>1. UNCHANGED hostCalls /\ timerTask \in WatchdogSteps
    BY <1>8
    DEF WatchdogCallback, WatchdogCounts, WatchdogWarns, WatchdogFlags, WatchdogBlinks,
        WatchdogStops, TimerTaskAt, WatchdogSteps
  <2>2. hostCalls = <<>>
    BY <2>1 DEF HostInv, HostAlone
  <2>3. Lost'
    BY <1>8
    DEF WatchdogCallback, WatchdogCounts, WatchdogWarns, WatchdogFlags, WatchdogBlinks,
        WatchdogStops, TimerTaskAt, HostInv, Lost, watchdogVars
  <2> QED BY <1>0, <2>1, <2>2, <2>3 DEF HostInv, HostAlone, ChecksInFirst, PayloadLast
<1>9. CASE UNCHANGED vars
  BY <1>0, <1>9 DEF vars, HostInv, HostAlone, ChecksInFirst, PayloadLast, Lost
<1> QED BY <1>1, <1>2, <1>4, <1>5, <1>6, <1>7, <1>8, <1>9, Zenon DEF Next, Host

-----------------------------------------------------------------------------
(* Beacons and indicator follow the host.  Between commands this is what      *)
(* FollowsHost says; in the middle of one it holds of what the timer will do  *)
(* once the timer task has obeyed its queue and the HostIf task has made the  *)
(* posts that are left.                                                       *)

\* The beacon timer runs in the end.
Told(calls, queue, on) == Runs(calls, Runs(queue, "beacon" \in on))

BeaconTold ==
    timerTask \notin {"blink", "stop"} =>
        (Told(hostCalls, timerQueue, active) <=> gEnabled /\ ~gCommsLostFlag)

AttentionTold ==
    timerTask # "blink" =>
        (attention = "blinkFast" /\ ~Has(hostCalls, "attentionOff") <=> gCommsLostFlag)

FollowInv == BeaconTold /\ AttentionTold

LEMMA FollowInit == Init => FollowInv
<1> SUFFICES ASSUME Init PROVE FollowInv
  OBVIOUS
<1>1. ~Runs(Kept(BootPosts), "beacon" \in {})
  <2> DEFINE posts == Kept(BootPosts)
  <2>1. \A i \in 1 .. Len(posts) : posts[i] \notin Starts
    <3>1. /\ BootPosts \in Seq(Commands) /\ Len(BootPosts) = 6
          /\ \A i \in 1 .. 6 : BootPosts[i] \notin Starts
      BY DEF BootPosts, Commands, BeaconCommands, Starts
    <3>2. \E n \in 0 .. 6 : posts = SubSeq(BootPosts, 1, n)
      <4> HIDE DEF BootPosts
      <4> QED BY <3>1, QueueLengthAssumption, SMTT(30) DEF Kept
    <3> HIDE DEF posts
    <3> PICK n \in 0 .. 6 : posts = SubSeq(BootPosts, 1, n)
      BY <3>2
    <3> HIDE DEF BootPosts
    <3>3. \A k \in 1 .. n : k \in 1 .. Len(BootPosts)
      BY <3>1
    <3>4. \A k \in 1 .. n : BootPosts[k] \in Commands
      BY <3>1, <3>3, ElementOfSeq
    <3>5. n \in Nat
      OBVIOUS
    <3>6. Len(posts) = n /\ \A k \in 1 .. n : posts[k] = BootPosts[k]
      BY <3>1, <3>4, <3>5, SubSeqProperties
    <3> QED BY <3>1, <3>6
  <2> QED BY <2>1, Zenon DEF Runs
<1>2. Told(hostCalls, timerQueue, active) <=> Runs(Kept(BootPosts), "beacon" \in {})
  BY NoCalls DEF Init, Told
<1>3. ~Has(hostCalls, "attentionOff")
  BY NoCalls DEF Init
<1> QED BY <1>1, <1>2, <1>3 DEF Init, FollowInv, BeaconTold, AttentionTold

\* Whether the queue or the timer has changed does not matter, only where they
\* lead to.
LEMMA SameTold ==
    ASSUME NEW calls, NEW q, NEW r, NEW on, NEW off,
           Runs(q, "beacon" \in on) <=> Runs(r, "beacon" \in off)
    PROVE  Told(calls, q, on) <=> Told(calls, r, off)
BY SameBefore, Zenon DEF Told

\* The timer task's own steps, the pulses of the radio task and the blinking of
\* the attention indicator do not change where the queue leads to.
LEMMA QueueLeads ==
    ASSUME HostInv, Radio \/ TimerQueue \/ LedsExpire \/ WatchdogBlinks
    PROVE  Told(hostCalls', timerQueue', active') <=> Told(hostCalls, timerQueue, active)
<1> USE DEF HostInv, TypeOK
<1>1. ASSUME timerQueue' \in {Offer(timerQueue, "leds"), timerQueue}, UNCHANGED hostCalls,
             "beacon" \in active' <=> "beacon" \in active
      PROVE  Told(hostCalls', timerQueue', active') <=> Told(hostCalls, timerQueue, active)
  <2>1. Runs(timerQueue', "beacon" \in active') <=> Runs(timerQueue', "beacon" \in active)
    BY <1>1, SameBefore
  <2>2. Runs(Offer(timerQueue, "leds"), "beacon" \in active) <=> Runs(timerQueue, "beacon" \in active)
    BY OfferedLeds, Zenon
  <2>3. Runs(timerQueue', "beacon" \in active') <=> Runs(timerQueue, "beacon" \in active)
    BY <1>1, <2>1, <2>2
  <2> QED BY <1>1, <2>3, SameTold, Zenon
<1>2. CASE TimerObeys
  <2> DEFINE command == Head(timerQueue)
  <2>1. command \in Commands /\ timerQueue # <<>> /\ timerQueue' = Tail(timerQueue)
        /\ active' = Obeyed(command) /\ hostCalls' = hostCalls
    BY <1>2, HeadTailProperties DEF TimerObeys
  <2>2. "beacon" \in active' <=> After(command, "beacon" \in active)
    <3> HIDE DEF command
    <3> QED BY <2>1 DEF Obeyed, After, Starts, Commands, BeaconCommands
  <2>3. Runs(timerQueue', "beacon" \in active')
          <=> Runs(timerQueue', After(command, "beacon" \in active))
    BY <2>2, SameBefore
  <2>4. Runs(timerQueue', After(command, "beacon" \in active))
          <=> Runs(timerQueue, "beacon" \in active)
    BY <2>1, CallDone, Zenon
  <2> QED BY <2>1, <2>3, <2>4, SameTold, Zenon
<1>3. CASE TimerDrained \/ TimerWakes
  BY <1>1, <1>3 DEF TimerDrained, TimerWakes
<1>4. CASE LedsExpire
  BY <1>1, <1>4 DEF LedsExpire
<1>5. CASE Radio \/ WatchdogBlinks
  BY <1>1, <1>5 DEF Radio, RadioPulses, WatchdogBlinks
<1> QED BY <1>2, <1>3, <1>4, <1>5 DEF TimerQueue

\* Neither do the calls that the HostIf task makes.
LEMMA CallsLead ==
    ASSUME HostInv, HostTask
    PROVE  Told(hostCalls', timerQueue', active') <=> Told(hostCalls, timerQueue, active)
<1> DEFINE on == "beacon" \in active
<1>1. active' = active /\ timerQueue \in Seq(Commands) /\ Len(timerQueue) <= QueueLength
  BY DEF HostTask, HostPosts, HostTurnsOff, HostLogs, HostChecksIn, HostInv, TypeOK, timerVars
<1>2. \E call \in Calls : Does(call) /\ (Runs(timerQueue', on) <=> After(call, Runs(timerQueue, on)))
  <2>1. CASE HostPosts
    <3> PICK command \in BeaconCommands :
            Does(command) /\ timerQueue' = Append(timerQueue, command)
      BY <2>1 DEF HostPosts
    <3>1. command \in Calls /\ command \in Commands
      BY DEF Calls, Commands
    <3> HIDE DEF on
    <3>2. Runs(Append(timerQueue, command), on) <=> After(command, Runs(timerQueue, on))
      BY <1>1, <3>1, CallAdded, Zenon
    <3> QED BY <3>1, <3>2
  <2>2. CASE HostTurnsOff
    <3>1. Does("attentionOff") /\ timerQueue' \in {Offer(timerQueue, "leds"), timerQueue}
      BY <2>2 DEF HostTurnsOff
    <3>2. Runs(Offer(timerQueue, "leds"), on) <=> Runs(timerQueue, on)
      BY <1>1, OfferedLeds, Zenon
    <3> QED BY <3>1, <3>2 DEF After, Starts, Calls
  <2>3. CASE HostLogs \/ HostChecksIn
    <3>1. timerQueue' = timerQueue /\ \E call \in {"log", "checkIn"} : Does(call)
      BY <2>3 DEF HostLogs, HostChecksIn, timerVars
    <3> QED BY <3>1 DEF After, Starts, Calls
  <2> QED BY <2>1, <2>2, <2>3 DEF HostTask
<1> PICK call \in Calls : Does(call) /\ (Runs(timerQueue', on) <=> After(call, Runs(timerQueue, on)))
  BY <1>2
<1>3. Runs(hostCalls', After(call, Runs(timerQueue, on))) <=> Runs(hostCalls, Runs(timerQueue, on))
  BY HostDoes, Zenon
<1>4. Runs(hostCalls', Runs(timerQueue', on))
        <=> Runs(hostCalls', After(call, Runs(timerQueue, on)))
  BY SameBefore
<1> QED BY <1>1, <1>3, <1>4 DEF Told

\* One step keeps them in step.
LEMMA FollowStep == HostInv /\ FollowInv /\ [Next]_vars /\ ~Meets => FollowInv'
<1> SUFFICES ASSUME HostInv, FollowInv, [Next]_vars, ~Meets PROVE FollowInv'
  OBVIOUS
<1> USE DEF FollowInv, BeaconTold, AttentionTold
<1>1. ASSUME NEW withPayload \in BOOLEAN, Command(withPayload)
      PROVE  FollowInv'
  <2>1. /\ timerTask \notin WatchdogSteps /\ hostCalls = <<>> /\ gCommsLostFlag' = FALSE
        /\ UNCHANGED <<gEnabled, attention, timerQueue, active, timerTask>>
    BY <1>1, HostStarts DEF Command, timerVars, Meets
  <2>2. Told(hostCalls', timerQueue, active)
          <=> Runs(timerQueue, "beacon" \in active) \/ (gCommsLostFlag /\ gEnabled)
    <3>1. Runs(hostCalls', Runs(timerQueue, "beacon" \in active))
            <=> Runs(timerQueue, "beacon" \in active) \/ (gCommsLostFlag /\ gEnabled)
      BY <1>1, HostStarts
    <3> QED BY <3>1, Zenon DEF Told
  <2>3. Told(hostCalls, timerQueue, active) <=> Runs(timerQueue, "beacon" \in active)
    <3>1. Runs(<<>>, Runs(timerQueue, "beacon" \in active)) <=> Runs(timerQueue, "beacon" \in active)
      BY NoCalls
    <3> QED BY <2>1, <3>1, Zenon DEF Told
  <2>4. ~Has(hostCalls, "attentionOff")
    BY <2>1, NoCalls
  <2>5. Has(hostCalls', "attentionOff") <=> gCommsLostFlag
    BY <1>1, HostStarts, Zenon
  <2> QED BY <2>1, <2>2, <2>3, <2>4, <2>5 DEF WatchdogSteps
<1>2. ASSUME NEW enabled \in BOOLEAN, BeaconConfig(enabled)
      PROVE  FollowInv'
  <2>1. /\ hostCalls # <<>> /\ ~Has(hostCalls, "attentionOff") /\ ~Has(hostCalls', "attentionOff")
        /\ \A now : Runs(hostCalls', now) <=> enabled
    BY <1>2, HostConfigures, Zenon
  <2>2. ~gCommsLostFlag /\ timerTask \notin WatchdogSteps
    BY <2>1 DEF HostInv, HostAlone
  <2>3. gEnabled' = enabled
        /\ UNCHANGED <<gCommsLostFlag, attention, timerQueue, active, timerTask>>
    BY <1>2 DEF BeaconConfig, timerVars, watchdogVars
  <2>4. Told(hostCalls', timerQueue', active') <=> enabled
    BY <2>1, Zenon DEF Told
  <2> QED BY <2>1, <2>2, <2>3, <2>4 DEF WatchdogSteps
<1>3. CASE HostTask
  <2>1. Told(hostCalls', timerQueue', active') <=> Told(hostCalls, timerQueue, active)
    BY <1>3, CallsLead
  <2>2. UNCHANGED <<gCommsLostFlag, gEnabled, timerTask>>
    BY <1>3 DEF HostTask, HostPosts, HostTurnsOff, HostLogs, HostChecksIn, watchdogVars, timerVars
  <2>3. hostCalls # <<>>
    BY <1>3
    DEF HostTask, HostPosts, HostTurnsOff, HostLogs, HostChecksIn, Does, Doing, BeaconCommands
  <2>4. ~gCommsLostFlag /\ timerTask \notin WatchdogSteps
    BY <2>3 DEF HostInv, HostAlone
  <2>5. ~(attention' = "blinkFast" /\ ~Has(hostCalls', "attentionOff"))
    <3>1. CASE HostTurnsOff
      BY <3>1 DEF HostTurnsOff
    <3>2. CASE HostPosts \/ HostLogs \/ HostChecksIn
      <4>1. attention' = attention /\ \E call \in Calls : Does(call) /\ call # "attentionOff"
        BY <3>2 DEF HostPosts, HostLogs, HostChecksIn, Calls, BeaconCommands
      <4>2. Has(hostCalls', "attentionOff") <=> Has(hostCalls, "attentionOff")
        BY <4>1, HostDoes, Zenon
      <4> QED BY <2>4, <4>1, <4>2 DEF WatchdogSteps
    <3> QED BY <1>3, <3>1, <3>2 DEF HostTask
  <2> QED BY <2>1, <2>2, <2>4, <2>5
<1>4. CASE HostTurns
  BY <1>4 DEF HostTurns, timerVars, watchdogVars
<1>5. CASE Radio \/ TimerQueue \/ LedsExpire
  <2>1. Told(hostCalls', timerQueue', active') <=> Told(hostCalls, timerQueue, active)
    BY <1>5, QueueLeads
  <2>2. UNCHANGED <<hostCalls, gCommsLostFlag, gEnabled, attention>>
        /\ (timerTask' = timerTask \/ {timerTask, timerTask'} \subseteq {"drain", "check"})
    BY <1>5
    DEF Radio, RadioPulses, TimerQueue, TimerObeys, TimerDrained, TimerWakes, LedsExpire,
        watchdogVars, TimerTaskAt
  <2> QED BY <2>1, <2>2
<1>6. CASE WatchdogExpires \/ WatchdogCounts \/ WatchdogWarns
  <2>1. UNCHANGED <<hostCalls, gCommsLostFlag, gEnabled, attention, timerQueue, active>>
        /\ timerTask \notin {"blink", "stop"}
    BY <1>6 DEF WatchdogExpires, WatchdogCounts, WatchdogWarns, watchdogVars, TimerTaskAt
  <2> QED BY <2>1
<1>7. CASE WatchdogFlags
  BY <1>7 DEF WatchdogFlags
<1>8. CASE WatchdogBlinks \/ WatchdogStops
  <2>1. timerTask \in {"blink", "stop"} /\ UNCHANGED <<hostCalls, gCommsLostFlag, gEnabled>>
    BY <1>8 DEF WatchdogBlinks, WatchdogStops, TimerTaskAt, watchdogVars
  <2>2. gCommsLostFlag /\ hostCalls = <<>>
    BY <2>1 DEF HostInv, Lost, HostAlone
  <2>3. ~Has(hostCalls, "attentionOff")
    BY <2>2, NoCalls
  <2>4. CASE WatchdogBlinks
    BY <2>1, <2>2, <2>3, <2>4 DEF WatchdogBlinks
  <2>5. CASE WatchdogStops
    <3>1. timerQueue' = Append(timerQueue, "stop") /\ timerQueue \in Seq(Commands)
          /\ "stop" \in Commands /\ UNCHANGED <<active, attention>> /\ timerTask = "stop"
      BY <2>5 DEF WatchdogStops, TimerTaskAt, CommsLost, HostInv, TypeOK, Commands, BeaconCommands
    <3>2. ~Runs(timerQueue', "beacon" \in active)
      <4>1. ASSUME NEW on
            PROVE  Runs(Append(timerQueue, "stop"), on) <=> After("stop", Runs(timerQueue, on))
        BY <3>1, CallAdded, Zenon
      <4> QED BY <3>1, <4>1 DEF After, Starts
    <3>3. ~Told(hostCalls', timerQueue', active')
      BY <2>1, <2>2, <3>1, <3>2, NoCalls DEF Told
    <3>4. attention = "blinkFast"
      BY <2>2, <3>1
    <3> QED BY <2>1, <2>2, <2>3, <3>1, <3>3, <3>4
  <2> QED BY <1>8, <2>4, <2>5
<1>9. CASE UNCHANGED vars
  BY <1>9 DEF vars
<1> QED
  BY <1>1, <1>2, <1>3, <1>4, <1>5, <1>6, <1>7, <1>8, <1>9, Zenon DEF Next, Host, WatchdogCallback

LEMMA FollowInvFollows == (~met => FollowInv) => FollowsHost
<1> SUFFICES ASSUME FollowInv, Quiet PROVE
        /\ BeaconWillRun <=> gEnabled /\ ~gCommsLostFlag
        /\ attention = "blinkFast" <=> gCommsLostFlag
  BY DEF FollowsHost
<1>1. hostCalls = <<>> /\ timerTask \notin {"blink", "stop"}
  BY DEF Quiet, WatchdogSteps
<1>2. BeaconWillRun <=> Told(hostCalls, timerQueue, active)
  <2>1. BeaconWillRun <=> Runs(timerQueue, "beacon" \in active)
    BY Zenon DEF BeaconWillRun, Runs, Starts
  <2> QED BY <1>1, <2>1, NoCalls DEF Told
<1>3. ~Has(hostCalls, "attentionOff")
  BY <1>1, NoCalls
<1> QED BY <1>1, <1>2, <1>3 DEF FollowInv, BeaconTold, AttentionTold

\* Between commands, the network is beaconed exactly if the host wants it and
\* is there, and the attention indicator tells if it is not: commands, losses
\* and posts may come in any order, until a command has met the callback of the
\* watchdog.
THEOREM BeaconsFollowHost == MCSpec => []FollowsHost
<1> DEFINE Inv == ~met => HostInv /\ FollowInv
<1>1. MCInit => Inv
  BY HostInvInit, FollowInit DEF MCInit
<1>2. Inv /\ [MCNext]_mcVars => Inv'
  BY MetStays, HostInvStep, FollowStep
<1>3. Inv => FollowsHost
  BY FollowInvFollows
<1> QED BY <1>1, <1>2, <1>3, PTL DEF MCSpec

-----------------------------------------------------------------------------
(* The timer task does not wait for itself.  It looks for a timer that has    *)
(* expired only when its queue is empty.  From there to Beacon::CommsLost the *)
(* radio task posts once for each of its two indicators at most, since a      *)
(* channel that pulses is not set anew: only a command that is handled in the *)
(* meantime, whose posts wait for room, can fill the queue.                   *)

Pulses == (IF "tx" \in pulsing THEN 1 ELSE 0) + (IF "rx" \in pulsing THEN 1 ELSE 0)

RoomLeft ==
    /\ timerTask = "check" /\ hostCalls = <<>> /\ gCheckinsMissed # 0 => Len(timerQueue) <= Pulses
    /\ timerTask = "count" /\ missed > 1 => Len(timerQueue) <= Pulses
    /\ timerTask \in {"warn", "flag", "blink"} => Len(timerQueue) <= Pulses
    /\ timerTask = "stop" => Len(timerQueue) <= Pulses + 1

LEMMA RoomInit == Init => RoomLeft
BY DEF Init, RoomLeft

LEMMA RoomStep ==
    ASSUME Threshold >= 1
    PROVE  HostInv /\ RoomLeft /\ [Next]_vars /\ ~Meets => RoomLeft'
<1> SUFFICES ASSUME HostInv, RoomLeft, [Next]_vars, ~Meets PROVE RoomLeft'
  OBVIOUS
<1>0. /\ Len(timerQueue) \in Nat /\ Pulses \in 0 .. 2 /\ Threshold \in Nat
      /\ gCheckinsMissed \in Nat /\ missed \in Nat
  BY LenProperties, ThresholdAssumption DEF HostInv, TypeOK, Pulses, MaxMissed
<1>1. \/ timerQueue' = timerQueue
      \/ timerQueue' = Offer(timerQueue, "leds")
      \/ timerTask' = "drain"
      \/ hostCalls # <<>>
  <2>1. CASE TimerObeys \/ HostPosts \/ HostTurnsOff \/ WatchdogStops
    BY <2>1
    DEF TimerObeys, TimerTaskAt, HostPosts, HostTurnsOff, WatchdogStops, Does, Doing, BeaconCommands
  <2>2. CASE Host \/ HostLogs \/ HostChecksIn \/ WatchdogExpires \/ TimerDrained \/ TimerWakes
    BY <2>2
    DEF Host, Command, BeaconConfig, HostTurns, HostLogs, HostChecksIn, WatchdogExpires,
        TimerDrained, TimerWakes, timerVars
  <2>3. CASE Radio \/ LedsExpire \/ WatchdogBlinks
    BY <2>3 DEF Radio, RadioPulses, LedsExpire, WatchdogBlinks
  <2>4. CASE WatchdogCounts \/ WatchdogWarns \/ WatchdogFlags \/ UNCHANGED vars
    BY <2>4 DEF WatchdogCounts, WatchdogWarns, WatchdogFlags, vars
  <2> QED BY <2>1, <2>2, <2>3, <2>4 DEF Next, HostTask, TimerQueue, WatchdogCallback
<1>2. Len(Offer(timerQueue, "leds")) <= Len(timerQueue) + 1 /\ Len(Offer(timerQueue, "leds")) \in Nat
  <2>1. Offer(timerQueue, "leds") \in Seq(Commands)
        /\ Len(Offer(timerQueue, "leds")) <= Len(timerQueue) + 1
    BY OfferedLeds, Zenon DEF HostInv, TypeOK
  <2> QED BY <2>1, LenProperties
<1> USE DEF RoomLeft
<1>3. ASSUME NEW withPayload \in BOOLEAN, Command(withPayload)
      PROVE  RoomLeft'
  <2>1. hostCalls' # <<>> /\ timerTask \notin WatchdogSteps /\ timerTask' = timerTask
    BY <1>3, HostStarts DEF Command, timerVars, Meets
  <2> QED BY <2>1 DEF WatchdogSteps
<1>4. ASSUME hostCalls # <<>>, UNCHANGED timerTask, gCheckinsMissed' # 0 => hostCalls' # <<>>
      PROVE  RoomLeft'
  BY <1>4 DEF HostInv, HostAlone, WatchdogSteps
<1>5. ASSUME NEW enabled \in BOOLEAN, BeaconConfig(enabled)
      PROVE  RoomLeft'
  BY <1>4, <1>5, HostConfigures DEF BeaconConfig, watchdogVars, timerVars
<1>6. CASE HostTask
  <2>1. UNCHANGED timerTask
    BY <1>6 DEF HostTask, HostPosts, HostTurnsOff, HostLogs, HostChecksIn, timerVars
  <2>2. CASE HostChecksIn
    <3>1. hostCalls # <<>> /\ gCheckinsMissed' = 0
      BY <2>2 DEF HostChecksIn, Does, Doing
    <3> QED BY <1>4, <2>1, <3>1
  <2>3. CASE HostPosts \/ HostTurnsOff \/ HostLogs
    <3>1. /\ gCheckinsMissed' = gCheckinsMissed
          /\ \E call \in Calls : Does(call) /\ call # "checkIn"
      BY <2>3 DEF HostPosts, HostTurnsOff, HostLogs, watchdogVars, Calls, BeaconCommands
    <3>2. hostCalls # <<>> /\ (gCheckinsMissed # 0 => Has(hostCalls', "checkIn"))
      BY <3>1, HostDoes, Zenon
    <3>3. hostCalls' = <<>> => ~Has(hostCalls', "checkIn")
      BY NoCalls
    <3> QED BY <1>4, <2>1, <3>1, <3>2, <3>3
  <2> QED BY <1>6, <2>2, <2>3 DEF HostTask
<1>7. CASE HostTurns
  BY <1>7 DEF HostTurns, watchdogVars, timerVars, Pulses
<1>8. ASSUME NEW led \in {"tx", "rx"}, RadioPulses(led)
      PROVE  RoomLeft'
  <2>1. Pulses' = Pulses + 1
    BY <1>8 DEF RadioPulses, MayPulse, Pulses
  <2>2. Len(timerQueue') <= Len(timerQueue) + 1 /\ Len(timerQueue') \in Nat
    BY <1>2, <1>8 DEF RadioPulses
  <2>3. UNCHANGED <<gCheckinsMissed, missed, timerTask, hostCalls>>
    BY <1>8 DEF RadioPulses, watchdogVars
  <2> QED BY <1>0, <2>1, <2>2, <2>3
<1>9. CASE TimerObeys \/ TimerWakes \/ LedsExpire \/ WatchdogStops
  <2>1. timerTask' = "drain"
    BY <1>9 DEF TimerObeys, TimerWakes, LedsExpire, WatchdogStops, TimerTaskAt
  <2> QED BY <2>1
<1>10. CASE TimerDrained
  <2>1. Len(timerQueue') = 0 /\ timerTask' = "check" /\ Pulses' = Pulses
    BY <1>10 DEF TimerDrained, Pulses
  <2> QED BY <1>0, <2>1
<1>11. CASE WatchdogExpires
  <2>1. /\ timerTask = "check" /\ hostCalls = <<>> /\ timerTask' = "count"
        /\ missed' = gCheckinsMissed + 1 /\ timerQueue' = timerQueue
    BY <1>11 DEF WatchdogExpires, TimerTaskAt, Meets
  <2>2. Pulses' = Pulses
    BY <1>11 DEF WatchdogExpires, Pulses
  <2> QED BY <1>0, <2>1, <2>2
<1>12. CASE WatchdogCounts
  <2>1. /\ timerTask = "count" /\ timerQueue' = timerQueue
        /\ timerTask' = "drain" \/ (timerTask' = "warn" /\ missed > Threshold)
    BY <1>12 DEF WatchdogCounts, TooMany, TimerTaskAt
  <2>2. Pulses' = Pulses
    BY <1>12 DEF WatchdogCounts, Pulses
  <2> QED BY <1>0, <2>1, <2>2
<1>13. CASE WatchdogWarns \/ WatchdogFlags
  <2>1. /\ timerTask \in {"warn", "flag"} /\ timerTask' \in {"flag", "blink"}
        /\ timerQueue' = timerQueue /\ pulsing' = pulsing
    BY <1>13 DEF WatchdogWarns, WatchdogFlags, TimerTaskAt
  <2> QED BY <2>1 DEF Pulses
<1>14. CASE WatchdogBlinks
  <2>1. /\ timerTask = "blink" /\ timerTask' = "stop" /\ pulsing' = pulsing
        /\ timerQueue' = Offer(timerQueue, "leds")
    BY <1>14 DEF WatchdogBlinks, TimerTaskAt
  <2>2. Pulses' = Pulses
    BY <2>1 DEF Pulses
  <2> QED BY <1>0, <1>2, <2>1, <2>2
<1>15. CASE UNCHANGED vars
  BY <1>15 DEF vars, Pulses
<1> QED
  BY <1>3, <1>5, <1>6, <1>7, <1>8, <1>9, <1>10, <1>11, <1>12, <1>13, <1>14, <1>15, Zenon
  DEF Next, Host, Radio, TimerQueue, WatchdogCallback

\* The timer task waits for room in its own queue only if a command has met the
\* callback of the watchdog: four places are enough for whatever else was posted,
\* if it takes two silent intervals or more to declare comms lost.
THEOREM TimerTaskWaitsOnlyIfMet ==
    ASSUME Threshold >= 1, QueueLength >= 4
    PROVE  MCSpec => []TimerTaskFree
<1> DEFINE Inv == ~met => HostInv /\ RoomLeft
<1>1. MCInit => Inv
  BY HostInvInit, RoomInit DEF MCInit
<1>2. Inv /\ [MCNext]_mcVars => Inv'
  BY MetStays, HostInvStep, RoomStep
<1>3. Inv => TimerTaskFree
  <2> SUFFICES ASSUME HostInv, RoomLeft, timerTask = "stop" PROVE Len(timerQueue) # QueueLength
    BY DEF TimerTaskFree
  <2>1. Len(timerQueue) \in Nat /\ Pulses \in 0 .. 2
    BY LenProperties DEF HostInv, TypeOK, Pulses
  <2> QED BY <2>1, QueueLengthAssumption DEF RoomLeft
<1> QED BY <1>1, <1>2, <1>3, PTL DEF MCSpec

-----------------------------------------------------------------------------
(* What the watchdog counts is silence.                                      *)

SilenceCounted ==
    /\ silence \in Nat
    /\ timerTask = "count" => missed \in 1 .. silence
    /\ timerTask # "count" => gCheckinsMissed <= silence
    /\ timerTask \in {"warn", "flag"} => gCheckinsMissed > Threshold

LEMMA SilenceStep == HostInv /\ SilenceCounted /\ [MCNext]_mcVars => SilenceCounted'
<1> SUFFICES ASSUME HostInv, SilenceCounted, [MCNext]_mcVars PROVE SilenceCounted'
  OBVIOUS
<1>0. gCheckinsMissed \in 0 .. MaxMissed /\ missed \in 0 .. MaxMissed /\ Threshold \in Nat
  BY ThresholdAssumption DEF HostInv, TypeOK
<1> USE DEF SilenceCounted
<1>1. CASE UNCHANGED mcVars
  BY <1>1 DEF mcVars, vars
<1>2. ASSUME WatchdogExpires, Count
      PROVE  SilenceCounted'
  <2>1. /\ timerTask = "check" /\ timerTask' = "count" /\ gCheckinsMissed < MaxMissed
        /\ missed' = gCheckinsMissed + 1
    BY <1>2 DEF WatchdogExpires, TimerTaskAt
  <2>2. silence' = (IF silence < MaxMissed THEN silence + 1 ELSE silence)
    <3>1. ~(Doing = "checkIn" /\ hostCalls' # hostCalls)
      BY <1>2 DEF WatchdogExpires
    <3> QED BY <1>2, <2>1, <3>1 DEF Count
  <2> QED BY <1>0, <2>1, <2>2 DEF MaxMissed
<1>3. ASSUME HostChecksIn, Count
      PROVE  SilenceCounted'
  <2>1. hostCalls # <<>> /\ Doing = "checkIn" /\ hostCalls' = Tail(hostCalls)
    BY <1>3 DEF HostChecksIn, Does, Doing
  <2>2. timerTask \notin WatchdogSteps /\ timerTask' = timerTask /\ gCheckinsMissed' = 0
    BY <1>3, <2>1 DEF HostChecksIn, HostInv, HostAlone, timerVars
  <2>3. hostCalls' # hostCalls
    <3>1. Len(hostCalls) \in Nat /\ Len(Tail(hostCalls)) = Len(hostCalls) - 1
      BY <2>1, HeadTailProperties, LenProperties DEF HostInv, TypeOK
    <3>2. \A n \in Nat : n - 1 # n
      OBVIOUS
    <3> QED BY <2>1, <3>1, <3>2
  <2>4. silence' = 0
    BY <1>3, <2>1, <2>2, <2>3 DEF Count
  <2> QED BY <2>2, <2>4 DEF WatchdogSteps
<1>4. ASSUME Next, ~WatchdogExpires, ~HostChecksIn, Count
      PROVE  silence' = silence
  <2>1. ~(timerTask = "check" /\ timerTask' = "count")
    BY <1>4
    DEF Next, HostTask, HostPosts, HostTurnsOff, HostLogs, Host, Command, BeaconConfig, HostTurns,
        Radio, RadioPulses, TimerQueue, TimerObeys, TimerDrained, TimerWakes, LedsExpire,
        WatchdogCallback, WatchdogCounts, WatchdogWarns, WatchdogFlags, WatchdogBlinks,
        WatchdogStops, timerVars
  <2>2. ~(Doing = "checkIn" /\ hostCalls' # hostCalls)
    BY <1>4
    DEF Next, HostTask, HostPosts, HostTurnsOff, HostLogs, Host, Command, BeaconConfig, HostTurns,
        Radio, RadioPulses, TimerQueue, TimerObeys, TimerDrained, TimerWakes, LedsExpire,
        WatchdogCallback, WatchdogCounts, WatchdogWarns, WatchdogFlags, WatchdogBlinks,
        WatchdogStops, Does, Doing, BeaconCommands
  <2> QED BY <1>4, <2>1, <2>2 DEF Count
<1>5. ASSUME Next, ~WatchdogExpires, ~HostChecksIn, ~WatchdogCounts, silence' = silence
      PROVE  SilenceCounted'
  <2>1. UNCHANGED <<gCheckinsMissed, missed>>
    BY <1>5
    DEF Next, HostTask, HostPosts, HostTurnsOff, HostLogs, Host, Command, BeaconConfig, HostTurns,
        Radio, RadioPulses, TimerQueue, TimerObeys, TimerDrained, TimerWakes, LedsExpire,
        WatchdogCallback, WatchdogWarns, WatchdogFlags, WatchdogBlinks, WatchdogStops,
        timerVars, watchdogVars
  <2>2. \/ timerTask' = timerTask
        \/ timerTask' \in {"drain", "check", "blink", "stop"} /\ timerTask # "count"
        \/ timerTask = "warn" /\ timerTask' = "flag"
    BY <1>5
    DEF Next, HostTask, HostPosts, HostTurnsOff, HostLogs, Host, Command, BeaconConfig, HostTurns,
        Radio, RadioPulses, TimerQueue, TimerObeys, TimerDrained, TimerWakes, LedsExpire,
        WatchdogCallback, WatchdogWarns, WatchdogFlags, WatchdogBlinks, WatchdogStops,
        timerVars, TimerTaskAt
  <2> QED BY <1>5, <2>1, <2>2
<1>6. ASSUME WatchdogCounts, silence' = silence
      PROVE  SilenceCounted'
  <2>1. /\ timerTask = "count" /\ gCheckinsMissed' = missed
        /\ timerTask' = "drain" \/ (timerTask' = "warn" /\ missed > Threshold)
    BY <1>6 DEF WatchdogCounts, TooMany, TimerTaskAt
  <2> QED BY <1>0, <1>6, <2>1
<1> QED BY <1>1, <1>2, <1>3, <1>4, <1>5, <1>6 DEF MCNext

\* Comms are declared lost only after more than kWdogThreshold intervals went by
\* without a command, until a command has met the callback of the watchdog.
THEOREM OnlySilentHostsAreLost == MCSpec => LostMeansSilent
<1> DEFINE Inv == ~met => HostInv /\ SilenceCounted
<1>1. MCInit => Inv
  BY HostInvInit DEF MCInit, Init, SilenceCounted
<1>2. Inv /\ [MCNext]_mcVars => Inv'
  BY MetStays, HostInvStep, SilenceStep
<1>3. Inv /\ [MCNext]_mcVars
         => [~met /\ ~gCommsLostFlag /\ gCommsLostFlag' => silence > Threshold]_mcVars
  <2> SUFFICES ASSUME HostInv, SilenceCounted, MCNext, ~gCommsLostFlag, gCommsLostFlag'
               PROVE  silence > Threshold
    OBVIOUS
  <2>1. WatchdogFlags
    <3>1. Next /\ gCommsLostFlag' # gCommsLostFlag
      BY DEF MCNext
    <3>2. ~Command(TRUE) /\ ~Command(FALSE)
      BY DEF Command
    <3> QED BY <3>1, <3>2
        DEF Next, HostTask, HostPosts, HostTurnsOff, HostLogs, HostChecksIn, Host, BeaconConfig,
            HostTurns, Radio, RadioPulses, TimerQueue, TimerObeys, TimerDrained, TimerWakes,
            LedsExpire, WatchdogExpires, WatchdogCallback, WatchdogCounts, WatchdogWarns,
            WatchdogBlinks, WatchdogStops, watchdogVars
  <2>2. gCheckinsMissed > Threshold /\ gCheckinsMissed <= silence
    BY <2>1 DEF WatchdogFlags, TimerTaskAt, SilenceCounted
  <2>3. gCheckinsMissed \in Nat /\ Threshold \in Nat /\ silence \in Nat
    BY ThresholdAssumption DEF HostInv, TypeOK, MaxMissed, SilenceCounted
  <2> QED BY <2>2, <2>3
<1> QED BY <1>1, <1>2, <1>3, PTL DEF MCSpec, LostMeansSilent
==============================================================================
