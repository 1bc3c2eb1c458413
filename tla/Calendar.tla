------------------------------- MODULE Calendar -------------------------------
(***************************************************************************)
(* The calendar that dated records are read against (dates.py).  A day is  *)
(* the number of days since 1 January 2026, a Thursday; every part of the  *)
(* program resolves an omitted date against the same UTC day.              *)
(***************************************************************************)
EXTENDS Integers, FiniteSets, FiniteSetsExt

CONSTANTS
    FirstDay,       \* the day the model's calendar starts on
    LastDay,        \* bound: the day on which the model's calendar stops
    Horizon         \* bound: the day up to which dates are computed

ASSUME CalendarAssumption ==
    /\ FirstDay \in Nat /\ LastDay \in Nat /\ Horizon \in Nat
    /\ FirstDay <= LastDay /\ LastDay <= Horizon

VARIABLE today      \* utc_today()

Days == 0 .. LastDay

NoDate == -1        \* None: the date is not known

NextDay == today < LastDay /\ today' = today + 1

Leap(year) == year % 4 = 0 /\ (year % 100 # 0 \/ year % 400 = 0)

DaysIn(year, month) ==
    CASE month = 2             -> IF Leap(year) THEN 29 ELSE 28
      [] month \in {4, 6, 9, 11} -> 30
      [] OTHER                 -> 31

YearStart(year) == 365 * (year - 2026) + Cardinality({y \in 2026 .. year - 1 : Leap(y)})

MonthStart(year, month) ==
    YearStart(year) + MapThenSumSet(LAMBDA m : DaysIn(year, m), 1 .. month - 1)

MonthStarts ==
    [at \in (2026 .. 2026 + Horizon \div 365) \X (1 .. 12) |-> MonthStart(at[1], at[2])]

\* datetime.date
DateOf ==
    [n \in 0 .. Horizon |->
        LET at == CHOOSE p \in DOMAIN MonthStarts :
                      n - MonthStarts[p] \in 0 .. DaysIn(p[1], p[2]) - 1
        IN  [year |-> at[1], month |-> at[2], day |-> n - MonthStarts[at] + 1]]

\* date.weekday(): Monday is 0.
Weekday(n) == (n + 3) % 7
=============================================================================
