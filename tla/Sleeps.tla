------------------------------- MODULE Sleeps -------------------------------
(***************************************************************************)
(* Time values and the calls that sleep (internal/apth_time.c,              *)
(* hook_libc/hook_time.c, and the wait hooks of hook_libc/hook_process.c,   *)
(* which poll the kernel and sleep in between).  A time is a pair of long   *)
(* seconds and microseconds; its additions carry once and its comparison    *)
(* returns an int.  The event manager compares a sleeper's time with the    *)
(* clock on every pass, and may end the sleep before without looking at the *)
(* clock (a poll that timed out, an interrupted wait, a cancellation); how  *)
(* early that can be is EventManager's subject.                             *)
(***************************************************************************)
EXTENDS Integers

CONSTANTS Dozers,      \* the threads that sleep
          Parents,     \* those of them that wait for a child process
          Million,     \* microseconds in a second
          IntRange,    \* values of an int, 2^32
          SleepSecs,   \* seconds asked for
          PollMicros,  \* 250000, the wait hooks' pause
          LastSecond   \* bound: the clock stops

ASSUME SleepConstants ==
  /\ Parents \subseteq Dozers /\ Million \in Nat \ {0} /\ IntRange \in Nat \ {0}
  /\ IntRange % 2 = 0 /\ Million < IntRange \div 2 /\ SleepSecs \subseteq Nat
  /\ PollMicros \in 1 .. (Million - 1) /\ LastSecond \in 0 .. (IntRange \div 2)

VARIABLES clock,      \* what gettimeofday reads
          until,      \* the time of each thread's TIME event
          offset,     \* what it asked for
          start,      \* the clock when it asked (ghost)
          doze,       \* "user", "asleep", "due" or "early" (how the sleep ended),
                      \* or "back" in its caller
          remaining,  \* what nanosleep stored in rmtp
          child       \* "none", "running", "zombie" or "reaped"

sleepVars == <<clock, until, offset, start, doze, remaining, child>>

Times == [tv_sec : Int, tv_usec : Int]
apth_time(sec, usec) == [tv_sec |-> sec, tv_usec |-> usec]
Micros(tv) == tv.tv_sec * Million + tv.tv_usec

\* The conversion of a long to an int keeps the low bits.
ToInt(n) == ((n + IntRange \div 2) % IntRange) - IntRange \div 2

\* Mutant: forgets the carry.
AddNoCarry(t1, t2) ==
  LET usec == t1.tv_usec + t2.tv_usec
  IN  apth_time(t1.tv_sec + t2.tv_sec, IF usec > Million THEN usec - Million ELSE usec)

\* The carry is taken above a million, so a sum of exactly a million stays.
apth_time_add(t1, t2) ==
  LET sec == t1.tv_sec + t2.tv_sec
      usec == t1.tv_usec + t2.tv_usec
  IN  IF usec > Million THEN apth_time(sec + 1, usec - Million) ELSE apth_time(sec, usec)

apth_time_sub(t1, t2) ==
  LET sec == t1.tv_sec - t2.tv_sec
      usec == t1.tv_usec - t2.tv_usec
  IN  IF usec < 0 THEN apth_time(sec - 1, usec + Million) ELSE apth_time(sec, usec)

apth_time_cmp(t1, t2) ==
  LET rc == ToInt(t1.tv_sec - t2.tv_sec)
  IN  IF rc = 0 THEN ToInt(t1.tv_usec - t2.tv_usec) ELSE rc

NoTime == apth_time(0, 0)

SleepsInit ==
  /\ clock \in [tv_sec : {0}, tv_usec : 0 .. (Million - 1)]
  /\ until = [t \in Dozers |-> NoTime] /\ offset = [t \in Dozers |-> NoTime]
  /\ start = [t \in Dozers |-> NoTime] /\ remaining = [t \in Dozers |-> NoTime]
  /\ doze = [t \in Dozers |-> "user"]
  /\ child = [t \in Dozers |-> IF t \in Parents THEN "running" ELSE "none"]

\* An apth_event_st with the time `off` from now, and apth_wait_event.
SleepFor(t, off) ==
  /\ offset' = [offset EXCEPT ![t] = off]
  /\ start' = [start EXCEPT ![t] = clock]
  /\ until' = [until EXCEPT ![t] = apth_time_add(clock, off)]
  /\ doze' = [doze EXCEPT ![t] = "asleep"]

\* nanosleep takes a tv_nsec of a whole second too, and returns at once for
\* nothing; usleep divides what it is given, sleep takes whole seconds.
NanosleepOffsets == [tv_sec : SleepSecs, tv_usec : 0 .. Million] \ {NoTime}
UsleepOffsets ==
  {apth_time(n \div Million, n % Million) : n \in 1 .. (2 * Million - 1)}
SleepOffsets == [tv_sec : SleepSecs \ {0}, tv_usec : {0}]

BeginSleep(t) ==
  /\ doze[t] = "user" /\ t \notin Parents
  /\ \E off \in NanosleepOffsets \cup UsleepOffsets \cup SleepOffsets :
       SleepFor(t, off)
  /\ UNCHANGED <<clock, remaining, child>>

Due(t) == apth_time_cmp(until[t], clock) < 0

\* The event manager's pass finds the time before now.
SleepIsDue(t) ==
  /\ doze[t] = "asleep" /\ Due(t)
  /\ doze' = [doze EXCEPT ![t] = "due"]
  /\ UNCHANGED <<clock, until, offset, start, remaining, child>>

\* It takes the nearest sleep for over when a wait for events times out, when an
\* io_uring wait is interrupted, and when the sleeper is cancelled.
SleepEndsEarly(t) ==
  /\ doze[t] = "asleep"
  /\ doze' = [doze EXCEPT ![t] = "early"]
  /\ UNCHANGED <<clock, until, offset, start, remaining, child>>

\* The thread runs again; nanosleep works out the rest for rmtp, and returns 0
\* also when it has not slept long enough.
ReturnFromSleep(t) ==
  /\ doze[t] \in {"due", "early"} /\ t \notin Parents
  /\ doze' = [doze EXCEPT ![t] = "back"]
  /\ remaining' = [remaining EXCEPT ![t] = apth_time_sub(until[t], clock)]
  /\ UNCHANGED <<clock, until, offset, start, child>>

\* The caller goes on; the times were on its stack.
Forget(t) ==
  /\ doze' = [doze EXCEPT ![t] = "user"]
  /\ until' = [until EXCEPT ![t] = NoTime] /\ offset' = [offset EXCEPT ![t] = NoTime]
  /\ start' = [start EXCEPT ![t] = NoTime]

LeaveSleep(t) ==
  /\ doze[t] = "back" /\ Forget(t)
  /\ remaining' = [remaining EXCEPT ![t] = NoTime]
  /\ UNCHANGED <<clock, child>>

\* waitpid, wait and wait4 ask without blocking, first at the call and then
\* after every pause.  With no child left the answer is an error.
WaitPoll(t) ==
  /\ t \in Parents /\ doze[t] \in {"user", "due", "early"}
  /\ \/ /\ child[t] = "running"
        /\ SleepFor(t, apth_time(0, PollMicros))
        /\ UNCHANGED child
     \/ /\ child[t] = "zombie"
        /\ child' = [child EXCEPT ![t] = "reaped"]
        /\ Forget(t)
     \/ /\ child[t] = "reaped" /\ doze[t] = "user"
        /\ UNCHANGED <<until, offset, start, doze, child>>
  /\ UNCHANGED <<clock, remaining>>

ChildEnds(t) ==
  /\ child[t] = "running"
  /\ child' = [child EXCEPT ![t] = "zombie"]
  /\ UNCHANGED <<clock, until, offset, start, doze, remaining>>

\* The clock is normalised; it moves by a microsecond or by a second.
ClockTicks ==
  /\ clock.tv_sec < LastSecond
  /\ clock' \in {IF clock.tv_usec + 1 = Million THEN apth_time(clock.tv_sec + 1, 0)
                 ELSE apth_time(clock.tv_sec, clock.tv_usec + 1),
                 apth_time(clock.tv_sec + 1, clock.tv_usec)}
  /\ UNCHANGED <<until, offset, start, doze, remaining, child>>

SleepsNext ==
  \/ ClockTicks
  \/ \E t \in Dozers : \/ BeginSleep(t) \/ SleepIsDue(t) \/ SleepEndsEarly(t)
                       \/ ReturnFromSleep(t) \/ LeaveSleep(t)
                       \/ WaitPoll(t) \/ ChildEnds(t)

SleepsSpec == SleepsInit /\ [][SleepsNext]_sleepVars

-----------------------------------------------------------------------------
SleepsTypeOK ==
  /\ clock \in Times /\ clock.tv_usec \in 0 .. (Million - 1)
  /\ \A t \in Dozers : {until[t], offset[t], start[t], remaining[t]} \subseteq Times
  /\ doze \in [Dozers -> {"user", "asleep", "due", "early", "back"}]
  /\ child \in [Dozers -> {"none", "running", "zombie", "reaped"}]

\* The request is within the reach of the comparison's int.
InReach(t) == offset[t].tv_sec + 1 < IntRange \div 2

\* Sleeping threads have the deadline they asked for to the microsecond, also
\* when the microseconds add up to a million and are not carried.  For a sleep
\* within the reach of an int the comparison is right: it finds the deadline
\* behind the clock whenever it is and never before, so that the sleeps it ends
\* are long enough; beyond (2^31 seconds and more, which sleep and nanosleep
\* accept) it sees the sign of a truncated difference.  However early a sleep
\* ended, the rest that nanosleep reports can be given to nanosleep again, and
\* with what was slept, some time between the call and now, it makes up the
\* request.
SleepsAreExact ==
  \A t \in Dozers :
    /\ doze[t] # "user" => Micros(until[t]) = Micros(start[t]) + Micros(offset[t])
    /\ doze[t] = "asleep" /\ InReach(t) =>
         /\ Micros(until[t]) < Micros(clock) => Due(t)
         /\ Due(t) => Micros(until[t]) <= Micros(clock)
    /\ doze[t] = "due" /\ InReach(t) => Micros(until[t]) <= Micros(clock)
    /\ doze[t] = "back" =>
         /\ remaining[t].tv_usec \in 0 .. Million
         /\ Micros(until[t]) - Micros(remaining[t]) \in Micros(start[t]) .. Micros(clock)
=============================================================================
