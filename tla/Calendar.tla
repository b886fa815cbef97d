-------------------------------- MODULE Calendar --------------------------------
(***************************************************************************)
(* Business-hours arithmetic (server/sla/calendar.ts), without state.      *)
(* Instants are naturals in UTC; a calendar has a fixed offset from UTC,   *)
(* which is the only kind of zone the code claims to be exact for, windows *)
(* per ISO weekday in the order of the JSON column, and holiday dates.     *)
(* Dates count from day 0, which is a Monday.                              *)
(***************************************************************************)
EXTENDS Integers, Sequences, FiniteSetsExt

CONSTANTS
  DayLen,      \* DAY_MS, in clock units
  MaxDays,     \* MAX_DAYS
  AllHours     \* the null calendar: 24x7

ASSUME DayAssumption == DayLen \in Nat \ {0} /\ MaxDays \in Nat \ {0}

Later(a, b) == IF a >= b THEN a ELSE b
Earlier(a, b) == IF a <= b THEN a ELSE b

ZonedDate(t, cal) == (t + cal.offset) \div DayLen
IsoDow(date) == (date % 7) + 1
ZonedWallToUtc(date, time, cal) == date * DayLen + time - cal.offset
Noon(date, cal) == ZonedWallToUtc(date, DayLen \div 2, cal)

\* The code's null is an interval without instants.
Shut == [from |-> 0, to |-> 0]

\* Only the first window of a weekday is looked at (Array.find).
WindowForDate(date, cal) ==
  LET today == {i \in DOMAIN cal.windows : cal.windows[i].day = IsoDow(date)}
      w == cal.windows[Min(today)]
  IN IF date \in cal.holidays \/ today = {} THEN Shut
     ELSE [from |-> ZonedWallToUtc(date, w.start, cal),
           to |-> ZonedWallToUtc(date, w.end, cal)]

\* How much of the i-th day of a span from s to e is worked.
Counted(s, e, i, cal) ==
  LET w == WindowForDate(ZonedDate(s, cal) + i, cal)
  IN Later(0, Earlier(e, w.to) - Later(s, w.from))

\* What the first days add up to.
Total(s, e, cal) ==
  LET sum[n \in 0 .. MaxDays] == IF n = 0 THEN 0 ELSE sum[n - 1] + Counted(s, e, n - 1, cal)
  IN sum

\* The loop visits the date of the start and then every date whose noon is
\* at most a day after the end.
BusinessMinutesBetween(s, e, cal) ==
  LET later == {i \in 1 .. MaxDays - 1 : Noon(ZonedDate(s, cal) + i, cal) <= e + DayLen}
  IN CASE e <= s -> 0
       [] e > s /\ cal = AllHours -> e - s
       [] OTHER -> Total(s, e, cal)[Max(later \cup {0}) + 1]

\* The i-th day of a span from s: where it starts to count, and how much of it
\* counts.  Only the first one starts at s; the others when their window opens.
SpanStart(s, i, cal) ==
  LET w == WindowForDate(ZonedDate(s, cal) + i, cal)
  IN IF i = 0 THEN Later(s, w.from) ELSE w.from
Avail(s, i, cal) ==
  Later(0, WindowForDate(ZonedDate(s, cal) + i, cal).to - SpanStart(s, i, cal))

\* What is left of the minutes before each day.
Remaining(s, minutes, cal) ==
  LET left[i \in 0 .. MaxDays] ==
        IF i = 0 THEN minutes ELSE left[i - 1] - Avail(s, i - 1, cal)
  IN left

\* The first day they fit in.  After MaxDays days the loop gives up at noon of
\* the next date.
AddBusinessMinutes(s, minutes, cal) ==
  LET left == Remaining(s, minutes, cal)
      fits == {i \in 0 .. MaxDays - 1 : left[i] <= Avail(s, i, cal)}
  IN CASE minutes <= 0 -> s
       [] minutes > 0 /\ cal = AllHours -> s + minutes
       [] OTHER -> IF fits = {} THEN Noon(ZonedDate(s, cal) + MaxDays, cal)
                   ELSE SpanStart(s, Min(fits), cal) + left[Min(fits)]

(***************************************************************************)
(* The reference: a calendar says of every instant whether it is worked.   *)
(***************************************************************************)
Working(t, cal) ==
  \/ cal = AllHours
  \/ LET w == WindowForDate(ZonedDate(t, cal), cal) IN w.from <= t /\ t < w.to

WorkedMinutes(s, e, cal) == Cardinality({t \in s .. e - 1 : Working(t, cal)})
==============================================================================
