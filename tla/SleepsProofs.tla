---------------------------- MODULE SleepsProofs ----------------------------
(***************************************************************************)
(* The deadlines of the sleeping calls, for any number of threads, any      *)
(* request and any width of the time fields.                                *)
(***************************************************************************)
EXTENDS Sleeps, TLAPS

Half == IntRange \div 2
Clocks == [tv_sec : Nat, tv_usec : 0 .. (Million - 1)]
\* What a caller may ask for and what the addition makes of it: the
\* microseconds may be a whole second.
Spans == [tv_sec : Nat, tv_usec : 0 .. Million]

\* The microseconds of a time compare as its two fields do.
LEMMA Products ==
  ASSUME NEW a \in Int, NEW b \in Int, NEW m \in Nat
  PROVE  /\ a * m \in Int /\ (a + b) * m = a * m + b * m
         /\ (a + 1) * m = a * m + m /\ (a - 1) * m = a * m - m
         /\ (a - b) * m = a * m - b * m
         /\ a <= b => a * m <= b * m
  OBVIOUS

\* A value in the range of an int is kept by the conversion.
LEMMA IntKept ==
  ASSUME NEW n \in Int, -Half <= n, n < Half PROVE ToInt(n) = n
<1>1. IntRange \in Nat /\ IntRange > 0 /\ IntRange = Half + Half /\ Half \in Nat
  BY SleepConstants DEF Half
<1>2. n + Half \in 0 .. (IntRange - 1)
  BY <1>1
<1>3. (n + Half) % IntRange = n + Half
  BY <1>1, <1>2
<1> QED
  BY <1>1, <1>3 DEF ToInt, Half

\* The sum has the microseconds of both, carried or not.
LEMMA AddExact ==
  ASSUME NEW t1 \in Clocks, NEW t2 \in Spans
  PROVE  /\ apth_time_add(t1, t2) \in Spans
         /\ Micros(apth_time_add(t1, t2)) = Micros(t1) + Micros(t2)
         /\ apth_time_add(t1, t2).tv_sec <= t1.tv_sec + t2.tv_sec + 1
<1> DEFINE sec == t1.tv_sec + t2.tv_sec
           usec == t1.tv_usec + t2.tv_usec
<1>1. Million \in Nat /\ t1.tv_sec \in Nat /\ t2.tv_sec \in Nat
      /\ t1.tv_usec \in 0 .. (Million - 1) /\ t2.tv_usec \in 0 .. Million
  BY SleepConstants DEF Clocks, Spans
<1>2. sec * Million = t1.tv_sec * Million + t2.tv_sec * Million
      /\ (sec + 1) * Million = sec * Million + Million
  BY <1>1, Products
<1>3. CASE usec > Million
  <2>1. apth_time_add(t1, t2) = [tv_sec |-> sec + 1, tv_usec |-> usec - Million]
    BY <1>3 DEF apth_time_add, apth_time
  <2> QED
    BY <1>1, <1>2, <1>3, <2>1, Products DEF Micros, Spans
<1>4. CASE ~(usec > Million)
  <2>1. apth_time_add(t1, t2) = [tv_sec |-> sec, tv_usec |-> usec]
    BY <1>4 DEF apth_time_add, apth_time
  <2> QED
    BY <1>1, <1>2, <1>4, <2>1, Products DEF Micros, Spans
<1> QED
  BY <1>3, <1>4

\* The comparison is exact while the seconds are within the reach of an int.
LEMMA CompareExact ==
  ASSUME NEW u \in Spans, NEW c \in Clocks, c.tv_sec <= Half,
         u.tv_sec - c.tv_sec < Half
  PROVE  /\ Micros(u) < Micros(c) => apth_time_cmp(u, c) < 0
         /\ apth_time_cmp(u, c) < 0 => Micros(u) <= Micros(c)
<1>1. /\ Million \in Nat /\ Million < Half /\ Half \in Nat
      /\ u.tv_sec \in Nat /\ c.tv_sec \in Nat
      /\ u.tv_usec \in 0 .. Million /\ c.tv_usec \in 0 .. (Million - 1)
  BY SleepConstants DEF Half, Clocks, Spans
<1>2. ToInt(u.tv_sec - c.tv_sec) = u.tv_sec - c.tv_sec
  BY <1>1, IntKept
<1>3. ToInt(u.tv_usec - c.tv_usec) = u.tv_usec - c.tv_usec
  BY <1>1, IntKept
<1>4. apth_time_cmp(u, c) = IF u.tv_sec - c.tv_sec = 0 THEN u.tv_usec - c.tv_usec
                            ELSE u.tv_sec - c.tv_sec
  BY <1>2, <1>3 DEF apth_time_cmp
<1>5. CASE u.tv_sec < c.tv_sec
  <2>1. (u.tv_sec + 1) * Million <= c.tv_sec * Million
    BY <1>1, <1>5, Products
  <2> QED
    BY <1>1, <1>4, <1>5, <2>1, Products DEF Micros
<1>6. CASE u.tv_sec = c.tv_sec
  BY <1>1, <1>4, <1>6, Products DEF Micros
<1>7. CASE c.tv_sec < u.tv_sec
  <2>1. (c.tv_sec + 1) * Million <= u.tv_sec * Million
    BY <1>1, <1>7, Products
  <2> QED
    BY <1>1, <1>4, <1>7, <2>1, Products DEF Micros
<1> QED
  BY <1>1, <1>5, <1>6, <1>7

\* The rest for rmtp is the difference, and nanosleep takes it again.
LEMMA RestExact ==
  ASSUME NEW u \in Spans, NEW c \in Clocks
  PROVE  /\ apth_time_sub(u, c) \in Times
         /\ apth_time_sub(u, c).tv_usec \in 0 .. Million
         /\ Micros(apth_time_sub(u, c)) = Micros(u) - Micros(c)
<1> DEFINE sec == u.tv_sec - c.tv_sec
           usec == u.tv_usec - c.tv_usec
<1>1. /\ Million \in Nat /\ u.tv_sec \in Nat /\ c.tv_sec \in Nat
      /\ u.tv_usec \in 0 .. Million /\ c.tv_usec \in 0 .. (Million - 1)
  BY SleepConstants DEF Clocks, Spans
<1>2. /\ sec * Million = u.tv_sec * Million - c.tv_sec * Million
      /\ (sec - 1) * Million = sec * Million - Million
      /\ u.tv_sec * Million \in Int /\ c.tv_sec * Million \in Int
  BY <1>1, Products
<1>3. CASE usec < 0
  <2>1. apth_time_sub(u, c) = [tv_sec |-> sec - 1, tv_usec |-> usec + Million]
    BY <1>3 DEF apth_time_sub, apth_time
  <2> QED
    BY <1>1, <1>2, <1>3, <2>1 DEF Micros, Times
<1>4. CASE ~(usec < 0)
  <2>1. apth_time_sub(u, c) = [tv_sec |-> sec, tv_usec |-> usec]
    BY <1>4 DEF apth_time_sub, apth_time
  <2> QED
    BY <1>1, <1>2, <1>4, <2>1 DEF Micros, Times
<1> QED
  BY <1>3, <1>4

-----------------------------------------------------------------------------
Types ==
  /\ clock \in Clocks /\ clock.tv_sec <= LastSecond
  /\ until \in [Dozers -> Spans] /\ offset \in [Dozers -> Spans]
  /\ start \in [Dozers -> Clocks] /\ remaining \in [Dozers -> Times]
  /\ doze \in [Dozers -> {"user", "asleep", "due", "early", "back"}]

\* The deadline is the sum, and the clock has not gone back since.
DeadlineIsSum ==
  \A t \in Dozers : doze[t] # "user" =>
    /\ until[t] = apth_time_add(start[t], offset[t])
    /\ start[t].tv_sec <= clock.tv_sec /\ Micros(start[t]) <= Micros(clock)

DueAfter ==
  \A t \in Dozers : doze[t] = "due" /\ InReach(t) => Micros(until[t]) <= Micros(clock)

RestIsLeft ==
  \A t \in Dozers : doze[t] = "back" =>
    /\ remaining[t].tv_usec \in 0 .. Million
    /\ Micros(until[t]) - Micros(remaining[t]) \in Micros(start[t]) .. Micros(clock)

IInv == Types /\ DeadlineIsSum /\ DueAfter /\ RestIsLeft

\* A sleeper's deadline is within the reach of the comparison.
LEMMA DueExact ==
  ASSUME IInv, NEW t \in Dozers, doze[t] # "user", InReach(t)
  PROVE  /\ Micros(until[t]) < Micros(clock) => Due(t)
         /\ Due(t) => Micros(until[t]) <= Micros(clock)
<1>1. /\ until[t] \in Spans /\ clock \in Clocks /\ start[t] \in Clocks
      /\ offset[t] \in Spans
  BY DEF IInv, Types
<1>2. clock.tv_sec <= Half
  BY SleepConstants DEF IInv, Types, Clocks, Half
<1>3. until[t].tv_sec <= start[t].tv_sec + offset[t].tv_sec + 1
  BY <1>1, AddExact DEF IInv, DeadlineIsSum
<1>4. until[t].tv_sec - clock.tv_sec < Half
  BY <1>1, <1>3, SleepConstants DEF IInv, DeadlineIsSum, InReach, Half, Clocks, Spans
<1> QED
  BY <1>1, <1>2, <1>4, CompareExact DEF Due

\* The inductive invariant implies the promise.
LEMMA Implied == IInv => SleepsAreExact
<1> SUFFICES ASSUME IInv, NEW t \in Dozers
             PROVE  SleepsAreExact!(t)
  BY DEF SleepsAreExact
<1>1. doze[t] # "user" => Micros(until[t]) = Micros(start[t]) + Micros(offset[t])
  BY AddExact DEF IInv, Types, DeadlineIsSum
<1>2. doze[t] = "asleep" /\ InReach(t) =>
        /\ Micros(until[t]) < Micros(clock) => Due(t)
        /\ Due(t) => Micros(until[t]) <= Micros(clock)
  BY DueExact
<1> QED
  BY <1>1, <1>2 DEF IInv, DueAfter, RestIsLeft

LEMMA Initially == SleepsInit => IInv
  BY SleepConstants DEF SleepsInit, IInv, Types, DeadlineIsSum, DueAfter, RestIsLeft,
     Clocks, Spans, Times, NoTime, apth_time

\* Entering a sleep with a span the deadline can be computed for.
LEMMA SleepKept ==
  ASSUME IInv, NEW t \in Dozers, NEW off \in Spans, SleepFor(t, off),
         UNCHANGED <<clock, remaining>>
  PROVE  IInv'
<1>1. clock \in Clocks /\ apth_time_add(clock, off) \in Spans
  BY AddExact DEF IInv, Types
<1>2. Types'
  BY <1>1 DEF IInv, Types, SleepFor
<1>3. Micros(clock) \in Int
  BY <1>1, SleepConstants, Products DEF Clocks, Micros
<1>4. DeadlineIsSum'
  BY <1>1, <1>3 DEF IInv, Types, DeadlineIsSum, SleepFor, Clocks
<1>5. DueAfter' /\ RestIsLeft'
  BY DEF IInv, Types, DueAfter, RestIsLeft, SleepFor, InReach
<1> QED
  BY <1>2, <1>4, <1>5 DEF IInv

\* Leaving it.
LEMMA ForgetKept ==
  ASSUME IInv, NEW t \in Dozers, Forget(t), UNCHANGED clock,
         remaining' \in [Dozers -> Times],
         \A u \in Dozers \ {t} : remaining'[u] = remaining[u]
  PROVE  IInv'
<1>1. NoTime \in Clocks /\ NoTime \in Spans
  BY SleepConstants DEF NoTime, apth_time, Clocks, Spans
<1>2. Types'
  BY <1>1 DEF IInv, Types, Forget
<1> QED
  BY <1>2 DEF IInv, Types, DeadlineIsSum, DueAfter, RestIsLeft, Forget, InReach

\* What may be asked for is a span.
LEMMA Requests ==
  /\ NanosleepOffsets \cup UsleepOffsets \cup SleepOffsets \subseteq Spans
  /\ apth_time(0, PollMicros) \in Spans
<1>1. ASSUME NEW n \in 1 .. (2 * Million - 1)
      PROVE  n \div Million \in Nat /\ n % Million \in 0 .. Million
  BY SleepConstants
<1>2. UsleepOffsets \subseteq Spans
  BY <1>1 DEF UsleepOffsets, Spans, apth_time
<1>3. NanosleepOffsets \subseteq Spans
  BY SleepConstants DEF NanosleepOffsets, Spans
<1>4. SleepOffsets \subseteq Spans
  <2> SUFFICES ASSUME NEW o \in SleepOffsets PROVE o \in Spans
    OBVIOUS
  <2>1. /\ o = [tv_sec |-> o.tv_sec, tv_usec |-> o.tv_usec]
        /\ o.tv_sec \in SleepSecs /\ o.tv_usec = 0
    BY DEF SleepOffsets
  <2> QED
    BY <2>1, SleepConstants DEF Spans
<1>5. apth_time(0, PollMicros) \in Spans
  BY SleepConstants DEF Spans, apth_time
<1> QED
  BY <1>2, <1>3, <1>4, <1>5

\* Time only grows.
LEMMA ClockGrows ==
  ASSUME IInv, ClockTicks
  PROVE  /\ clock' \in Clocks /\ clock'.tv_sec <= LastSecond
         /\ clock.tv_sec <= clock'.tv_sec /\ Micros(clock) <= Micros(clock')
<1>1. /\ Million \in Nat /\ Million > 0 /\ LastSecond \in Nat
      /\ clock.tv_sec \in Nat /\ clock.tv_usec \in 0 .. (Million - 1)
      /\ clock.tv_sec < LastSecond
  BY SleepConstants DEF IInv, Types, Clocks, ClockTicks
<1>2. (clock.tv_sec + 1) * Million = clock.tv_sec * Million + Million
      /\ clock.tv_sec * Million \in Int
  BY <1>1, Products
<1>3. CASE clock.tv_usec + 1 = Million
           /\ clock' = [tv_sec |-> clock.tv_sec + 1, tv_usec |-> 0]
  BY <1>1, <1>2, <1>3 DEF Clocks, Micros
<1>4. CASE clock.tv_usec + 1 # Million
           /\ clock' = [tv_sec |-> clock.tv_sec, tv_usec |-> clock.tv_usec + 1]
  BY <1>1, <1>2, <1>4 DEF Clocks, Micros
<1>5. CASE clock' = [tv_sec |-> clock.tv_sec + 1, tv_usec |-> clock.tv_usec]
  BY <1>1, <1>2, <1>5 DEF Clocks, Micros
<1> QED
  BY <1>3, <1>4, <1>5 DEF ClockTicks, apth_time

\* Every step keeps the inductive invariant.
LEMMA Preserved == IInv /\ [SleepsNext]_sleepVars => IInv'
<1> SUFFICES ASSUME IInv, [SleepsNext]_sleepVars PROVE IInv'
  OBVIOUS
<1>1. ASSUME ClockTicks PROVE IInv'
  <2>1. ASSUME NEW t \in Dozers
        PROVE  Micros(until[t]) \in Int /\ Micros(start[t]) \in Int /\ Micros(remaining[t]) \in Int
    BY SleepConstants, Products DEF IInv, Types, Spans, Clocks, Times, Micros
  <2>2. Micros(clock) \in Int /\ Micros(clock') \in Int
    BY <1>1, ClockGrows, SleepConstants, Products DEF IInv, Types, Clocks, Micros
  <2>3. Types'
    BY <1>1, ClockGrows DEF IInv, Types, ClockTicks
  <2>4. DeadlineIsSum'
    BY <1>1, <2>1, <2>2, ClockGrows DEF IInv, Types, DeadlineIsSum, ClockTicks, Clocks
  <2>5. DueAfter' /\ RestIsLeft'
    BY <1>1, <2>1, <2>2, ClockGrows DEF IInv, DueAfter, RestIsLeft, ClockTicks, InReach
  <2> QED
    BY <2>3, <2>4, <2>5 DEF IInv
<1>2. ASSUME NEW t \in Dozers, BeginSleep(t) PROVE IInv'
  <2>1. PICK off \in NanosleepOffsets \cup UsleepOffsets \cup SleepOffsets :
          SleepFor(t, off)
    BY <1>2 DEF BeginSleep
  <2> QED
    BY <1>2, <2>1, Requests, SleepKept DEF BeginSleep
<1>3. ASSUME NEW t \in Dozers, SleepIsDue(t) PROVE IInv'
  <2>1. InReach(t) => Micros(until[t]) <= Micros(clock)
    BY <1>3, DueExact DEF SleepIsDue
  <2> QED
    BY <1>3, <2>1 DEF IInv, Types, DeadlineIsSum, DueAfter, RestIsLeft, SleepIsDue, InReach
<1>4. ASSUME NEW t \in Dozers, SleepEndsEarly(t) PROVE IInv'
  BY <1>4 DEF IInv, Types, DeadlineIsSum, DueAfter, RestIsLeft, SleepEndsEarly, InReach
<1>5. ASSUME NEW t \in Dozers, ReturnFromSleep(t) PROVE IInv'
  <2> DEFINE rest == apth_time_sub(until[t], clock)
  <2>1. /\ rest \in Times /\ rest.tv_usec \in 0 .. Million
        /\ Micros(rest) = Micros(until[t]) - Micros(clock)
    BY RestExact DEF IInv, Types
  <2>2. /\ Micros(until[t]) \in Int /\ Micros(clock) \in Int /\ Micros(start[t]) \in Int
        /\ Micros(start[t]) <= Micros(clock)
    BY <1>5, SleepConstants, Products
    DEF IInv, Types, DeadlineIsSum, Spans, Clocks, Micros, ReturnFromSleep
  <2>3. /\ doze' = [doze EXCEPT ![t] = "back"] /\ remaining' = [remaining EXCEPT ![t] = rest]
        /\ doze[t] # "user" /\ UNCHANGED <<clock, until, offset, start>>
    BY <1>5 DEF ReturnFromSleep
  <2> HIDE DEF rest
  <2>4. Types' /\ DeadlineIsSum' /\ DueAfter'
    BY <2>1, <2>3 DEF IInv, Types, DeadlineIsSum, DueAfter, InReach
  <2>5. Micros(until[t]) - Micros(rest) \in Micros(start[t]) .. Micros(clock)
    BY <2>1, <2>2
  <2>6. RestIsLeft'
    BY <2>1, <2>3, <2>5 DEF IInv, Types, RestIsLeft
  <2> QED
    BY <2>4, <2>6 DEF IInv
<1>6. ASSUME NEW t \in Dozers, LeaveSleep(t) PROVE IInv'
  <2>1. /\ remaining' \in [Dozers -> Times]
        /\ \A u \in Dozers \ {t} : remaining'[u] = remaining[u]
    BY <1>6 DEF LeaveSleep, IInv, Types, NoTime, apth_time, Times
  <2> QED
    BY <1>6, <2>1, ForgetKept DEF LeaveSleep
<1>7. ASSUME NEW t \in Dozers, WaitPoll(t) PROVE IInv'
  <2>1. CASE SleepFor(t, apth_time(0, PollMicros))
    BY <1>7, <2>1, Requests, SleepKept DEF WaitPoll
  <2>2. CASE Forget(t)
    BY <1>7, <2>2, ForgetKept DEF WaitPoll, IInv, Types
  <2>3. CASE UNCHANGED <<until, offset, start, doze>>
    BY <1>7, <2>3 DEF WaitPoll, IInv, Types, DeadlineIsSum, DueAfter, RestIsLeft, InReach
  <2> QED
    BY <1>7, <2>1, <2>2, <2>3 DEF WaitPoll
<1>8. ASSUME NEW t \in Dozers, ChildEnds(t) PROVE IInv'
  BY <1>8 DEF IInv, Types, DeadlineIsSum, DueAfter, RestIsLeft, ChildEnds, InReach
<1>9. CASE UNCHANGED sleepVars
  BY <1>9 DEF IInv, Types, DeadlineIsSum, DueAfter, RestIsLeft, sleepVars, InReach
<1> QED
  BY <1>1, <1>2, <1>3, <1>4, <1>5, <1>6, <1>7, <1>8, <1>9 DEF SleepsNext

\* Whatever is asked for and however early sleeps are cut off, deadlines are exact,
\* the comparison is right within the reach of an int, and what nanosleep reports
\* as the rest is what is left of the request.
THEOREM SleepsExact == SleepsSpec => []SleepsAreExact
<1> QED
  BY Initially, Preserved, Implied, PTL DEF SleepsSpec
=============================================================================
