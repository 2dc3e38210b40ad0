-------------------------- MODULE MCCalendarWidget --------------------------
(* A small instance of CalendarWidget for TLC: dates at the ends of months,  *)
(* of years and of the range.                                                *)
EXTENDS CalendarWidget

On(y, m, d) == [y |-> y, m |-> m, d |-> d, h |-> 0]
MCToday == [y |-> 2012, m |-> 2, d |-> 30, h |-> 11]
MCYesterday == [y |-> 2012, m |-> 2, d |-> 29, h |-> 11]
MCStartDates == {On(2012, 0, 31)}
\* The start of the range, a year after it, a day that February lacks in a
\* year of two digits, and a month and a day.
MCTyped == {<<1900, 1, 1>>, <<3000, 2, 28>>, <<12, 2, 30>>, <<5, 31>>}
=============================================================================
