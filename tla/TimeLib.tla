------------------------------- MODULE TimeLib --------------------------------
(***************************************************************************)
(* The calendar (date/timeLib.c): the base time that timeSet stores, and   *)
(* the time of now that timeGet computes from it and from the ticks since. *)
(* timeSet stores the base under its mutex; after it, it loads the tick and *)
(* stores it, and other tasks come in between.  timeGet reads the tick and *)
(* that store under the mutex, which does not keep them from changing.     *)
(***************************************************************************)
EXTENDS Integers, Sequences

CONSTANTS
  TimeTask,
  SetTimes,      \* the times that the tasks set
  Jumps,         \* the numbers of ticks that pass
  SYS_CLK_RATE,
  TICK_MOD,      \* the ticks are counted modulo this number (2^32)
  START_TICK,    \* the tick at which the behaviour begins
  MAX_STEPS      \* bound: the calls that set the time and the jumps of the tick

\* The times that tasks set need not be legal ones.
ASSUME TimeAssumption ==
  /\ SetTimes \subseteq [year : Int, mon : Int, day : Int, hour : Int, min : Int, sec : Int]
  /\ Jumps \subseteq Nat
  /\ SYS_CLK_RATE \in Nat \ {0}
  /\ TICK_MOD \in Nat \ {0} /\ START_TICK \in 0 .. TICK_MOD - 1

VARIABLES
  tick,      \* tick_get ()
  base,      \* __GtsBaseTime
  moment,    \* __GuiSetMomentTicks
  setter,    \* for each task: "out", in timeGet with the "tick" or the "moment" loaded,
             \* or in timeSet with the "new" time, "stored" it or "loaded" the tick;
             \* the new time, and what was loaded
  since,     \* the time last set, and the ticks since then: what a perfect clock
             \* would know
  alone,     \* when it was set, no other task was between its two stores
  steps      \* counts up to MAX_STEPS

timeVars == <<tick, base, moment, setter, since, alone, steps>>

-----------------------------------------------------------------------------

isLeapyear(y) == y % 400 = 0 \/ (y % 4 = 0 /\ y % 100 # 0)

monthDays(y, m) ==
  CASE m \in {1, 3, 5, 7, 8, 10, 12} -> 31
    [] m \in {4, 6, 9, 11} -> 30
    [] m = 2 -> IF isLeapyear(y) THEN 29 ELSE 28
    [] OTHER -> 0

checkTime(t) ==
  /\ t.sec \in 0 .. 59 /\ t.min \in 0 .. 59 /\ t.hour \in 0 .. 23
  /\ 1000 <= t.year /\ t.year <= 9999 /\ t.mon \in 1 .. 12
  /\ t.day \in 1 .. monthDays(t.year, t.mon)

\* The days before the month are those before the month before, and its days.
updateDayOfYear(d) ==
  LET before[m \in 1 .. 12] == IF m = 1 THEN 0 ELSE before[m - 1] + monthDays(d.year, m - 1)
  IN  before[d.mon] + d.day - 1

updateWeekday(d) ==
  LET y == d.year - 1
      newYear == (d.year + (y \div 400) - (y \div 100) + (y \div 4)) % 7
  IN  (newYear + updateDayOfYear(d)) % 7

\* Mutant: the year does not begin again.
nextDay_year(d) ==
  IF d.day < monthDays(d.year, d.mon) THEN [d EXCEPT !.day = @ + 1]
  ELSE [d EXCEPT !.day = 1, !.mon = (@ % 12) + 1]

\* One turn of the loop of addDays.
nextDay(d) ==
  IF d.day < monthDays(d.year, d.mon) THEN [d EXCEPT !.day = @ + 1]
  ELSE IF d.mon < 12 THEN [d EXCEPT !.day = 1, !.mon = @ + 1]
  ELSE [d EXCEPT !.day = 1, !.mon = 1, !.year = @ + 1]

addDays(d, n) ==
  LET turn[i \in Nat] == IF i = 0 THEN d ELSE nextDay(turn[i - 1])
  IN  turn[n]

\* Seconds, minutes and hours, each with the carry of the one before, from the tick
\* and the moment read; the ticks are subtracted as unsigned numbers.
calculateNowTime(ticks, from) ==
  LET seconds == ((ticks - from) % TICK_MOD) \div SYS_CLK_RATE
      sec     == base.sec + (seconds % 60)
      minutes == (seconds \div 60) + (IF sec > 59 THEN 1 ELSE 0)
      min     == base.min + (minutes % 60)
      hours   == (minutes \div 60) + (IF min > 59 THEN 1 ELSE 0)
      hour    == base.hour + (hours % 24)
      days    == (hours \div 24) + (IF hour > 23 THEN 1 ELSE 0)
      date    == addDays([year |-> base.year, mon |-> base.mon, day |-> base.day], days)
  IN  [year |-> date.year, mon |-> date.mon, day |-> date.day,
       hour |-> hour % 24, min |-> min % 60, sec |-> sec % 60]

-----------------------------------------------------------------------------

Epoch == [year |-> 1970, mon |-> 1, day |-> 1, hour |-> 0, min |-> 0, sec |-> 0]

Outside == [at |-> "out", new |-> Epoch, loaded |-> 0]

\* The tasks between the two stores of timeSet.
Storing == {t \in TimeTask : setter[t].at \in {"stored", "loaded"}}

\* __GsemBaseTimeMutex is free: the task that has it is in timeGet.
MutexFree == \A t \in TimeTask : setter[t].at \notin {"tick", "moment"}

\* The behaviour begins when a timeSet to the first value of __GtsBaseTime has just
\* ended, at START_TICK, so that the ticks wrap around within a few steps.
timeInit ==
  /\ tick = START_TICK
  /\ base = Epoch /\ moment = START_TICK
  /\ setter = [t \in TimeTask |-> Outside]
  /\ since = [time |-> Epoch, ticks |-> 0] /\ alone = TRUE
  /\ steps = 0

\* A task calls timeSet; a time that checkTime refuses changes nothing.
CallTimeSet(t, new) ==
  /\ steps < MAX_STEPS
  /\ setter[t] = Outside /\ checkTime(new)
  /\ setter' = [setter EXCEPT ![t] = [@ EXCEPT !.at = "new", !.new = new]]
  /\ steps' = steps + 1
  /\ UNCHANGED <<tick, base, moment, since, alone>>

\* timeGet takes the mutex and loads the tick or the moment: C leaves open which of
\* them the subtraction reads first.
timeGet(t) ==
  /\ steps < MAX_STEPS
  /\ setter[t] = Outside /\ MutexFree
  /\ \/ setter' = [setter EXCEPT ![t] = [@ EXCEPT !.at = "tick", !.loaded = tick]]
     \/ setter' = [setter EXCEPT ![t] = [@ EXCEPT !.at = "moment", !.loaded = moment]]
  /\ steps' = steps + 1
  /\ UNCHANGED <<tick, base, moment, since, alone>>

\* The time that timeGet computes when it has read the other one.
Got(t) ==
  IF setter[t].at = "tick" THEN calculateNowTime(setter[t].loaded, moment)
                           ELSE calculateNowTime(tick, setter[t].loaded)

\* setYear, setMonth, ... and C_date: timeGet, an element of it, and timeSet.
setElement(t, e, n) ==
  /\ setter[t].at \in {"tick", "moment"}
  /\ LET new == [Got(t) EXCEPT ![e] = n]
     IN  setter' = [setter EXCEPT ![t] = IF checkTime(new)
                                         THEN [at |-> "new", new |-> new, loaded |-> 0]
                                         ELSE Outside]
  /\ UNCHANGED <<tick, base, moment, since, alone, steps>>

\* The store of timeSet that the mutex covers.
timeSet(t) ==
  /\ setter[t].at = "new" /\ MutexFree
  /\ base' = setter[t].new
  /\ setter' = [setter EXCEPT ![t].at = "stored"]
  /\ since' = [time |-> base', ticks |-> 0]
  /\ alone' = (Storing = {})
  /\ UNCHANGED <<tick, moment, steps>>

\* tickGet () of its last statement.
timeSetLoad(t) ==
  /\ setter[t].at = "stored"
  /\ setter' = [setter EXCEPT ![t] = [@ EXCEPT !.at = "loaded", !.loaded = tick]]
  /\ UNCHANGED <<tick, base, moment, since, alone, steps>>

\* Mutant: the tick is forgotten.
timeSetMoment_not(t) ==
  /\ setter[t].at = "loaded"
  /\ setter' = [setter EXCEPT ![t] = Outside]
  /\ UNCHANGED <<tick, base, moment, since, alone, steps>>

\* The last store.
timeSetMoment(t) ==
  /\ setter[t].at = "loaded"
  /\ moment' = setter[t].loaded
  /\ setter' = [setter EXCEPT ![t] = Outside]
  /\ UNCHANGED <<tick, base, since, alone, steps>>

Pass(n) ==
  /\ steps < MAX_STEPS
  /\ tick' = (tick + n) % TICK_MOD
  /\ since' = [since EXCEPT !.ticks = @ + n]
  /\ steps' = steps + 1
  /\ UNCHANGED <<base, moment, setter, alone>>

timeNext ==
  \/ \E t \in TimeTask :
       \/ \E new \in SetTimes : CallTimeSet(t, new)
       \/ \E s \in SetTimes, e \in DOMAIN Epoch : setElement(t, e, s[e])
       \/ timeGet(t) \/ timeSet(t) \/ timeSetLoad(t) \/ timeSetMoment(t)
  \/ \E n \in Jumps : Pass(n)

timeSpec == timeInit /\ [][timeNext]_timeVars

-----------------------------------------------------------------------------
(* The reference: a time as days since the year 1 and seconds of its day.  *)

\* The days before each month of a year that is no leap year.
MonthStart == <<0, 31, 59, 90, 120, 151, 181, 212, 243, 273, 304, 334>>

\* The leap days of the years 1 to y.
LeapDays(y) == (y \div 4) - (y \div 100) + (y \div 400)

DayNumber(t) ==
  365 * (t.year - 1) + LeapDays(IF t.mon > 2 THEN t.year ELSE t.year - 1)
    + MonthStart[t.mon] + t.day
SecondOfDay(t) == 60 * (60 * t.hour + t.min) + t.sec

\* In minutes, and in seconds.
DayMinutes == 24 * 60
DayLength  == 60 * DayMinutes

After(t, seconds) ==
  <<DayNumber(t) + ((SecondOfDay(t) + seconds) \div DayLength),
    (SecondOfDay(t) + seconds) % DayLength>>

\* A timeGet that nothing disturbs adds the seconds since the moment to the base,
\* over the ends of minutes, hours, days, months, leap Februaries and years, and
\* when the ticks wrap around; the result is a legal time until the year 9999 ends, the last that timeSet takes,
\* and its weekday that of its day (day 1 of the year 1 was a Monday).
NowIsBasePlusTicks ==
  LET now == calculateNowTime(tick, moment)
  IN  /\ now.year <= 9999 => checkTime(now)
      /\ <<DayNumber(now), SecondOfDay(now)>> =
           After(base, ((tick - moment) % TICK_MOD) \div SYS_CLK_RATE)
      /\ updateWeekday(now) = DayNumber(now) % 7

Le(a, b) == a[1] < b[1] \/ (a[1] = b[1] /\ a[2] <= b[2])

\* __GuiSetMomentTicks is loaded and stored outside of the mutex.  Of two calls of
\* timeSet that overlap, the moment of one may stay with the base of the other, from
\* a tick long before, and the clock is fast until the time is set again.  But a
\* timeSet that began when no other one was between its stores, and that no other one
\* came into, leaves a clock that is never ahead of the time it set.
ClockNeverFast ==
  (Storing = {} /\ alone) =>
    LET now == calculateNowTime(tick, moment)
    IN  Le(<<DayNumber(now), SecondOfDay(now)>>,
           After(since.time, since.ticks \div SYS_CLK_RATE))
=============================================================================
