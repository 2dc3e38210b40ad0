--------------------------- MODULE CalendarDates ---------------------------
(***************************************************************************)
(* The date arithmetic of the calendar (javascript/calendar.js): the       *)
(* patches of Date and the moves that the buttons of the calendar make.  A *)
(* date is a record of year y, month m (0..11), day d and hour h.  The     *)
(* Date object of the browser is modelled by day numbers, in UTC.          *)
(***************************************************************************)
EXTENDS Integers, FiniteSets

CONSTANTS MinYear, MaxYear   \* setRange

\* The years of the range have more than two digits (1900 to 2999 in the code).
ASSUME RangeAssumption == MinYear \in Nat /\ MaxYear \in Nat /\ 100 <= MinYear /\ MinYear <= MaxYear

Months == 0..11
Hours == 0..23

GetMonthDays(y, m) ==
  IF m = 1 /\ y % 4 = 0 /\ (y % 100 # 0 \/ y % 400 = 0) THEN 29
  ELSE <<31, 28, 31, 30, 31, 30, 31, 31, 30, 31, 30, 31>>[m + 1]

IsDate(D) ==
  /\ D.y \in MinYear..MaxYear
  /\ D.m \in Months
  /\ D.d \in 1..GetMonthDays(D.y, D.m)
  /\ D.h \in Hours
Dates == {D \in [y : MinYear..MaxYear, m : Months, d : 1..31, h : Hours] : IsDate(D)}

-----------------------------------------------------------------------------
\* The days up to the end of year y - 1, and the number of a day; day 1, the
\* first of January of year 1, is a Monday.
DaysBefore(y) == 365 * (y - 1) + (y - 1) \div 4 - (y - 1) \div 100 + (y - 1) \div 400
Leap(y) == DaysBefore(y + 1) - DaysBefore(y) = 366
MonthStart(y, m) ==
  <<0, 31, 59, 90, 120, 151, 181, 212, 243, 273, 304, 334>>[m + 1] + IF m > 1 /\ Leap(y) THEN 1 ELSE 0
DayNumber(D) == DaysBefore(D.y) + MonthStart(D.y, D.m) + D.d
GetDay(D) == DayNumber(D) % 7

\* The setMonth of the browser: a day that the month does not have is counted
\* on into the next one.
NativeSetMonth(D, m) ==
  LET max == GetMonthDays(D.y, m)
  IN IF D.d <= max THEN [D EXCEPT !.m = m] ELSE [D EXCEPT !.m = m + 1, !.d = D.d - max]

-----------------------------------------------------------------------------
\* setFullYear as patched: 29 February becomes 28 February.
SetFullYear(D, y) ==
  IF D.d > GetMonthDays(y, D.m) THEN [D EXCEPT !.y = y, !.d = 28] ELSE [D EXCEPT !.y = y]

\* The setMonth inside cellClick.
SetMonth(D, m) ==
  LET max == GetMonthDays(D.y, m)
  IN [D EXCEPT !.m = m, !.d = IF D.d > max THEN max ELSE D.d]

\* Faulty variant: the day is not looked at before the month is changed.
CellClickDateNative(D, nav) ==
  CASE nav = -2 /\ D.y > MinYear -> SetFullYear(D, D.y - 1)
    [] nav = -1 /\ D.m > 0 -> NativeSetMonth(D, D.m - 1)
    [] nav = -1 /\ D.m = 0 /\ D.y > MinYear -> NativeSetMonth(SetFullYear(D, D.y - 1), 11)
    [] nav = 1 /\ D.m < 11 -> NativeSetMonth(D, D.m + 1)
    [] nav = 1 /\ D.m = 11 /\ D.y < MaxYear -> NativeSetMonth(SetFullYear(D, D.y + 1), 0)
    [] nav = 2 /\ D.y < MaxYear -> SetFullYear(D, D.y + 1)
    [] OTHER -> D

\* The date that the buttons for years and months lead to.
CellClickDate(D, nav) ==
  CASE nav = -2 /\ D.y > MinYear -> SetFullYear(D, D.y - 1)
    [] nav = -1 /\ D.m > 0 -> SetMonth(D, D.m - 1)
    [] nav = -1 /\ D.m = 0 /\ D.y > MinYear -> SetMonth(SetFullYear(D, D.y - 1), 11)
    [] nav = 1 /\ D.m < 11 -> SetMonth(D, D.m + 1)
    [] nav = 1 /\ D.m = 11 /\ D.y < MaxYear -> SetMonth(SetFullYear(D, D.y + 1), 0)
    [] nav = 2 /\ D.y < MaxYear -> SetFullYear(D, D.y + 1)
    [] OTHER -> D

-----------------------------------------------------------------------------
\* The Thursday of the week of D, and its year.
Thursday(D) == DayNumber(D) - ((GetDay(D) + 6) % 7) + 3
YearOfThursday(D) ==
  CHOOSE y \in {D.y - 1, D.y, D.y + 1} : DaysBefore(y) < Thursday(D) /\ Thursday(D) <= DaysBefore(y + 1)

\* getWeekNumber: the weeks between the fourth of January and the Thursday,
\* rounded.
GetWeekNumber(D) == (2 * (Thursday(D) - (DaysBefore(YearOfThursday(D)) + 4)) + 7) \div 14 + 1

\* The column in which the first day of a month is displayed.
Day1(y, m, firstDayOfWeek) == (GetDay([y |-> y, m |-> m, d |-> 1, h |-> 0]) - firstDayOfWeek) % 7
=============================================================================
