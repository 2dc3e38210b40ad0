------------------------ MODULE CalendarWidgetProofs ------------------------
(***************************************************************************)
(* Proofs about the popup calendar, for any fields, range of years (with   *)
(* years of three digits or more), present date and input.                 *)
(*                                                                         *)
(* IInv says of a calendar that is on display, or will be once its         *)
(* continuation has run, that its grid is the one _init makes for its date *)
(* (Agrees), except for the hour of the cells after the time was edited,   *)
(* and that the text in its field reads as its date (StandsFor) unless the *)
(* user has typed there since.  A hidden calendar need not agree: a click  *)
(* on a pressed day may leave it with the date of another month.  SlotInv  *)
(* says that only a calendar that was asked for is going to be shown.      *)
(***************************************************************************)
EXTENDS CalendarWidget, FiniteSetTheorems, TLAPS

\* What the calendar holds once it is made.
Texts == {DatePrint(D) : D \in Dates} \cup Typed
Calendars ==
  [of : Fields, date : Dates, shown : Int \X Int, first : 0..6, fdow : 0..6, head : 0..6, cur : 0..41,
   ch : Hours, hour : Hours \cup {Blank}, edited : BOOLEAN, clicked : BOOLEAN,
   vis : {"hidden", "asked", "shown"}]
DayEls == {el \in [kind : {"day"}, pos : 0..41, nav : {0}, date : Dates] : ~GetDateStatus(el.date)}
NavEls == [kind : {"nav"}, pos : {0}, nav : -2..2, date : {NoDate}]
WeekdayEls == [kind : {"weekday"}, pos : {0}, nav : 0..6, date : {NoDate}]
OtherEls == [kind : {"close", "title"}, pos : {0}, nav : {0}, date : {NoDate}]
Els == DayEls \cup NavEls \cup WeekdayEls \cup OtherEls
Lists == [kind : {"none", "months", "years"}, years : SUBSET (MinYear..MaxYear)]

Shape ==
  /\ page \in {"date", "datetime", "restore"} /\ khtml \in BOOLEAN
  /\ field \in [Fields -> Texts] /\ typed \subseteq Fields
  /\ cal = NoCalendar \/ cal \in Calendars
  /\ act = NoEl \/ act \in Els
  /\ timer \in {"none", "months", "later", "earlier"}
  /\ combo \in Lists
  /\ slot \in {"none", "show", "cover"}

\* The grid of C is that of its date.
Agrees(C) ==
  /\ C \in Calendars
  /\ C.clicked = FALSE
  /\ C.shown = <<C.date.y, C.date.m>>
  /\ C.first = Day1(C.date.y, C.date.m, C.fdow) /\ C.head = C.fdow
  /\ GetDateStatus(C.date) \/ C.cur = CellOf(C, C.date)
  /\ C.edited \/ (C.ch = C.date.h /\ C.hour \in {C.ch, Blank})

\* The text v stands for the date D.
StandsFor(v, D) == DatePrint(InRange(ParseDate(v))) = DatePrint(D)

\* A calendar that is on display, or will be, agrees with its date, and with its
\* field unless someone has typed there.
LiveInv ==
  cal.vis # "hidden" => Agrees(cal) /\ (cal.of \notin typed => StandsFor(field[cal.of], cal.date))

\* The continuation that shows a calendar is pending only if there is one to show.
SlotInv == slot = "show" => khtml = TRUE /\ cal.vis = "asked"

IInv ==
  /\ Shape
  /\ LiveInv
  /\ SlotInv
  /\ PressedCell
  /\ ClickedIsEnabled
  /\ ListWhilePressed

-----------------------------------------------------------------------------
(* Dates.                                                                  *)

\* A date is a record, its year is one of the range and has three digits.
LEMMA DateFacts ==
  ASSUME NEW D \in Dates
  PROVE  /\ D.y \in MinYear..MaxYear /\ D.y \in Nat /\ D.y >= 100
         /\ D.m \in 0..11 /\ D.d \in 1..GetMonthDays(D.y, D.m) /\ D.d \in 1..31 /\ D.h \in 0..23
         /\ D = [y |-> D.y, m |-> D.m, d |-> D.d, h |-> D.h]
<1>1. D \in [y : MinYear..MaxYear, m : Months, d : 1..31, h : Hours] /\ IsDate(D)
  BY DEF Dates
<1>2. D = [y |-> D.y, m |-> D.m, d |-> D.d, h |-> D.h]
  BY <1>1
<1> QED BY <1>1, <1>2, RangeAssumption DEF IsDate, Months, Hours

\* What is needed for a date.
LEMMA MakesDate ==
  ASSUME NEW y \in MinYear..MaxYear, NEW m \in 0..11, NEW d \in 1..31, NEW h \in 0..23,
         d <= GetMonthDays(y, m)
  PROVE  [y |-> y, m |-> m, d |-> d, h |-> h] \in Dates
<1> DEFINE D == [y |-> y, m |-> m, d |-> d, h |-> h]
<1>1. D \in [y : MinYear..MaxYear, m : Months, d : 1..31, h : Hours]
  BY DEF Months, Hours
<1>2. GetMonthDays(y, m) \in Int
  BY RangeAssumption DEF GetMonthDays
<1>3. IsDate(D)
  BY <1>2 DEF IsDate, Months, Hours
<1> QED BY <1>1, <1>3 DEF Dates

\* The length of a month.
LEMMA MonthLength ==
  ASSUME NEW y \in Nat, NEW m \in 0..11
  PROVE  GetMonthDays(y, m) \in 28..31 /\ (m # 1 => GetMonthDays(y, m) >= 30)
  BY DEF GetMonthDays

\* The years that have 366 days are those in which getMonthDays gives February
\* 29 days.
LEMMA LeapYear ==
  ASSUME NEW y \in Nat, y >= 1
  PROVE  /\ DaysBefore(y) \in Nat /\ DaysBefore(y + 1) \in Nat
         /\ Leap(y) <=> y % 4 = 0 /\ (y % 100 # 0 \/ y % 400 = 0)
         /\ DaysBefore(y + 1) - DaysBefore(y) = IF Leap(y) THEN 366 ELSE 365
  BY DEF Leap, DaysBefore

\* A month starts where the one before it ends.
LEMMA MonthAfterMonth ==
  ASSUME NEW y \in Nat, y >= 1, NEW m \in 0..11
  PROVE  /\ MonthStart(y, m) \in Nat
         /\ GetMonthDays(y, m) = (IF m = 11 THEN DaysBefore(y + 1) - DaysBefore(y)
                                  ELSE MonthStart(y, m + 1)) - MonthStart(y, m)
<1>1. Leap(y) <=> y % 4 = 0 /\ (y % 100 # 0 \/ y % 400 = 0)
  BY LeapYear
<1>2. DaysBefore(y + 1) - DaysBefore(y) = IF Leap(y) THEN 366 ELSE 365
  BY LeapYear
<1>3. CASE Leap(y)
  <2>1. GetMonthDays(y, m) = <<31, 29, 31, 30, 31, 30, 31, 31, 30, 31, 30, 31>>[m + 1]
    BY <1>1, <1>3 DEF GetMonthDays
  <2>2. \A k \in 0..11 : MonthStart(y, k) = <<0, 31, 60, 91, 121, 152, 182, 213, 244, 274, 305, 335>>[k + 1]
    BY <1>3 DEF MonthStart
  <2> QED BY <1>2, <1>3, <2>1, <2>2
<1>4. CASE ~Leap(y)
  <2>1. GetMonthDays(y, m) = <<31, 28, 31, 30, 31, 30, 31, 31, 30, 31, 30, 31>>[m + 1]
    BY <1>1, <1>4 DEF GetMonthDays
  <2>2. \A k \in 0..11 : MonthStart(y, k) = <<0, 31, 59, 90, 120, 151, 181, 212, 243, 273, 304, 334>>[k + 1]
    BY <1>4 DEF MonthStart
  <2> QED BY <1>2, <1>4, <2>1, <2>2
<1> QED BY <1>3, <1>4

\* The number of a day, and those of the same month.
LEMMA DayNumberFacts ==
  ASSUME NEW D \in Dates
  PROVE  /\ DayNumber(D) \in Nat
         /\ DayNumber(D) = DaysBefore(D.y) + MonthStart(D.y, D.m) + D.d
         /\ DaysBefore(D.y) \in Nat /\ MonthStart(D.y, D.m) \in Nat
<1>1. D.y \in Nat /\ D.y >= 1 /\ D.m \in 0..11 /\ D.d \in 1..31
  BY DateFacts
<1>2. DaysBefore(D.y) \in Nat /\ MonthStart(D.y, D.m) \in Nat
  <2>1. DaysBefore(D.y) \in Nat
    BY <1>1 DEF DaysBefore
  <2>2. MonthStart(D.y, D.m) \in Nat
    BY <1>1, MonthAfterMonth
  <2> QED BY <2>1, <2>2
<1>3. DayNumber(D) = DaysBefore(D.y) + MonthStart(D.y, D.m) + D.d
  BY DEF DayNumber
<1> QED BY <1>1, <1>2, <1>3

\* The days of a year come before those of later years, and the days of a month
\* before those of later months.
LEMMA MonthsInOrder ==
  ASSUME NEW D \in Dates, NEW E \in Dates, MonthCount(D) < MonthCount(E)
  PROVE  DayNumber(D) < DayNumber(E)
<1>1. /\ D.y \in Nat /\ D.y >= 1 /\ D.m \in 0..11 /\ D.d \in 1..GetMonthDays(D.y, D.m)
      /\ E.y \in Nat /\ E.y >= 1 /\ E.m \in 0..11 /\ E.d >= 1 /\ E.d \in Int /\ D.d \in Int
  BY DateFacts
<1>2. /\ DayNumber(D) = DaysBefore(D.y) + MonthStart(D.y, D.m) + D.d
      /\ DayNumber(E) = DaysBefore(E.y) + MonthStart(E.y, E.m) + E.d
      /\ DaysBefore(D.y) \in Nat /\ MonthStart(D.y, D.m) \in Nat
      /\ DaysBefore(E.y) \in Nat /\ MonthStart(E.y, E.m) \in Nat
  BY DayNumberFacts
<1>3. GetMonthDays(D.y, D.m) = (IF D.m = 11 THEN DaysBefore(D.y + 1) - DaysBefore(D.y)
                                ELSE MonthStart(D.y, D.m + 1)) - MonthStart(D.y, D.m)
  BY <1>1, MonthAfterMonth
<1>4. CASE D.y = E.y
  <2>1. D.m < E.m /\ D.m + 1 \in 0..11
    BY <1>1, <1>4 DEF MonthCount
  <2>2. \A k, l \in 0..11 : k <= l => MonthStart(E.y, k) <= MonthStart(E.y, l)
    BY DEF MonthStart
  <2>3. MonthStart(D.y, D.m + 1) <= MonthStart(E.y, E.m)
    BY <1>1, <1>4, <2>1, <2>2
  <2>4. MonthStart(D.y, D.m + 1) \in Nat
    BY <1>1, <2>1, MonthAfterMonth
  <2> QED BY <1>1, <1>2, <1>3, <1>4, <2>1, <2>3, <2>4
<1>5. CASE D.y # E.y
  <2>1. D.y + 1 <= E.y
    BY <1>1, <1>5 DEF MonthCount
  <2>2. DaysBefore(D.y + 1) <= DaysBefore(E.y) /\ DaysBefore(D.y + 1) \in Nat
    BY <1>1, <2>1 DEF DaysBefore
  <2>3. D.m = 11 \/ MonthStart(D.y, D.m + 1) <= DaysBefore(D.y + 1) - DaysBefore(D.y)
    <3>1. DaysBefore(D.y + 1) - DaysBefore(D.y) >= 365
      BY <1>1 DEF DaysBefore
    <3>2. \A k \in 0..11 : MonthStart(D.y, k) <= 335
      BY DEF MonthStart
    <3>3. D.m = 11 \/ MonthStart(D.y, D.m + 1) \in Nat
      BY <1>1, MonthAfterMonth
    <3>4. D.m = 11 \/ D.m + 1 \in 0..11
      BY <1>1
    <3> QED BY <1>1, <1>2, <2>2, <3>1, <3>2, <3>3, <3>4
  <2>4. D.m = 11 \/ MonthStart(D.y, D.m + 1) \in Nat
    BY <1>1, MonthAfterMonth
  <2> QED BY <1>1, <1>2, <1>3, <2>2, <2>3, <2>4
<1> QED BY <1>4, <1>5

\* The first day of a month is in the first week of the grid, and every day is
\* under its weekday.
LEMMA Day1Facts ==
  ASSUME NEW y \in Nat, y >= 1, NEW m \in 0..11, NEW f \in 0..6
  PROVE  /\ Day1(y, m, f) \in 0..6
         /\ \A d \in 1..31 : (Day1(y, m, f) + d - 1 + f) % 7 = GetDay([y |-> y, m |-> m, d |-> d, h |-> 0])
<1> DEFINE a == DaysBefore(y) + MonthStart(y, m)
<1>1. DaysBefore(y) \in Nat
  BY DEF DaysBefore
<1>2. MonthStart(y, m) \in Nat
  BY MonthAfterMonth
<1>3. a \in Nat /\ Day1(y, m, f) = (((a + 1) % 7) - f) % 7
  BY <1>1, <1>2 DEF Day1, GetDay, DayNumber
<1>4. \A d \in 1..31 : GetDay([y |-> y, m |-> m, d |-> d, h |-> 0]) = (a + d) % 7
  BY DEF GetDay, DayNumber
<1> HIDE DEF a
<1>5. \A d \in 1..31 : (((((a + 1) % 7) - f) % 7) + d - 1 + f) % 7 = (a + d) % 7
  BY <1>3
<1> QED BY <1>3, <1>4, <1>5

\* setFullYear as patched.
LEMMA SetFullYearFacts ==
  ASSUME NEW D \in Dates, NEW y \in MinYear..MaxYear
  PROVE  LET E == SetFullYear(D, y)
         IN  /\ E \in Dates /\ E.y = y /\ E.m = D.m
             /\ E.d = IF D.d > GetMonthDays(y, D.m) THEN GetMonthDays(y, D.m) ELSE D.d
<1> DEFINE e == IF D.d > GetMonthDays(y, D.m) THEN 28 ELSE D.d
           E == [y |-> y, m |-> D.m, d |-> e, h |-> D.h]
<1>1. /\ D.y \in Nat /\ D.m \in 0..11 /\ D.d \in 1..GetMonthDays(D.y, D.m) /\ D.d \in 1..31 /\ D.h \in 0..23
      /\ D = [y |-> D.y, m |-> D.m, d |-> D.d, h |-> D.h] /\ y \in Nat
  BY DateFacts, RangeAssumption
<1>2. SetFullYear(D, y) = E
  BY <1>1 DEF SetFullYear
<1>3. GetMonthDays(y, D.m) \in 28..31
  BY <1>1, MonthLength
<1>4. D.d > GetMonthDays(y, D.m) => GetMonthDays(y, D.m) = 28
  BY <1>1 DEF GetMonthDays
<1>5. e \in 1..31 /\ e <= GetMonthDays(y, D.m)
  BY <1>1, <1>3
<1>6. e = IF D.d > GetMonthDays(y, D.m) THEN GetMonthDays(y, D.m) ELSE D.d
  BY <1>4
<1> HIDE DEF e
<1>7. E \in Dates
  BY <1>1, <1>5, MakesDate
<1>8. E.y = y /\ E.m = D.m /\ E.d = e
  OBVIOUS
<1> HIDE DEF E
<1> QED BY <1>2, <1>6, <1>7, <1>8

\* setMonth inside cellClick.
LEMMA SetMonthFacts ==
  ASSUME NEW D \in Dates, NEW m \in 0..11
  PROVE  LET E == SetMonth(D, m)
         IN  /\ E \in Dates /\ E.y = D.y /\ E.m = m
             /\ E.d = IF D.d > GetMonthDays(D.y, m) THEN GetMonthDays(D.y, m) ELSE D.d
<1> DEFINE e == IF D.d > GetMonthDays(D.y, m) THEN GetMonthDays(D.y, m) ELSE D.d
           E == [y |-> D.y, m |-> m, d |-> e, h |-> D.h]
<1>1. /\ D.y \in Nat /\ D.y \in MinYear..MaxYear /\ D.d \in 1..31 /\ D.h \in 0..23
      /\ D = [y |-> D.y, m |-> D.m, d |-> D.d, h |-> D.h]
  BY DateFacts
<1>2. SetMonth(D, m) = E
  <2>1. SetMonth(D, m) = [D EXCEPT !.m = m, !.d = e]
    BY DEF SetMonth
  <2> HIDE DEF e
  <2> QED BY <1>1, <2>1
<1>3. GetMonthDays(D.y, m) \in 28..31
  BY <1>1, MonthLength
<1>4. e \in 1..31 /\ e <= GetMonthDays(D.y, m)
  BY <1>1, <1>3
<1>5. e = IF D.d > GetMonthDays(D.y, m) THEN GetMonthDays(D.y, m) ELSE D.d
  OBVIOUS
<1> HIDE DEF e
<1>6. E \in Dates
  BY <1>1, <1>4, MakesDate
<1>7. E.y = D.y /\ E.m = m /\ E.d = e
  OBVIOUS
<1> HIDE DEF E
<1> QED BY <1>2, <1>5, <1>6, <1>7

\* setMonth of the browser.
LEMMA NativeFacts ==
  ASSUME NEW y \in MinYear..MaxYear, NEW k \in 0..11, NEW d \in 1..31, NEW h \in 0..23, NEW m \in 0..11
  PROVE  LET D == [y |-> y, m |-> k, d |-> d, h |-> h]
             E == NativeSetMonth(D, m)
         IN  /\ E \in Dates /\ (E.m = m \/ d > GetMonthDays(y, m))
             /\ d <= GetMonthDays(y, m) => E = [y |-> y, m |-> m, d |-> d, h |-> h]
<1> DEFINE D == [y |-> y, m |-> k, d |-> d, h |-> h]
           max == GetMonthDays(y, m)
           E == NativeSetMonth(D, m)
<1>1. y \in Nat
  BY RangeAssumption
<1>2. max \in 28..31
  BY <1>1, MonthLength
<1>3. CASE d <= max
  <2>1. E = [y |-> y, m |-> m, d |-> d, h |-> h]
    BY <1>3 DEF NativeSetMonth
  <2>2. E \in Dates
    BY <1>3, <2>1, MakesDate
  <2> HIDE DEF E
  <2> QED BY <2>1, <2>2 DEF E
<1>4. CASE d > max
  <2>1. m # 11
    BY <1>4 DEF GetMonthDays
  <2>2. E = [y |-> y, m |-> m + 1, d |-> d - max, h |-> h]
    <3>1. D.y = y /\ D.d = d /\ ~(d <= max)
      BY <1>2, <1>4
    <3>2. E = [D EXCEPT !.m = m + 1, !.d = d - max]
      BY <3>1 DEF NativeSetMonth
    <3> HIDE DEF max, E
    <3> QED BY <3>2
  <2>3. m + 1 \in 0..11 /\ d - max \in 1..31 /\ d - max <= 3 /\ GetMonthDays(y, m + 1) >= 28
    <3>1. m + 1 \in 0..11
      BY <2>1
    <3> QED BY <1>1, <1>2, <1>4, <3>1, MonthLength
  <2>4. d - max <= GetMonthDays(y, m + 1)
    <3>1. GetMonthDays(y, m + 1) \in 28..31
      BY <1>1, <2>3, MonthLength
    <3> QED BY <1>2, <2>3, <3>1
  <2>5. [y |-> y, m |-> m + 1, d |-> d - max, h |-> h] \in Dates
    BY <2>3, <2>4, MakesDate
  <2>6. ~(d <= max)
    BY <1>2, <1>4
  <2> HIDE DEF E
  <2> QED BY <1>4, <2>2, <2>5, <2>6 DEF E
<1> QED BY <1>2, <1>3, <1>4

\* A date in the range stays as it is.
LEMMA InRangeSame ==
  ASSUME NEW D \in Dates
  PROVE  InRange(D) = D
  BY DateFacts, RangeAssumption DEF InRange

\* Concatenation, element by element.
LEMMA ConcatFacts ==
  ASSUME NEW a \in Seq(Nat), NEW b \in Seq(Nat)
  PROVE  /\ Len(a \o b) = Len(a) + Len(b)
         /\ \A i \in 1..Len(a) + Len(b) : (a \o b)[i] = IF i <= Len(a) THEN a[i] ELSE b[i - Len(a)]
  OBVIOUS

\* parseDate reads what print writes.
LEMMA ParsePrint ==
  ASSUME NEW D \in Dates
  PROVE  InRange(ParseDate(DatePrint(D))) \in Dates /\ StandsFor(DatePrint(D), D)
<1> DEFINE t == DatePrint(D)
           h == IF page = "datetime" THEN D.h ELSE 0
           E == [y |-> D.y, m |-> D.m, d |-> D.d, h |-> h]
<1>1. /\ D.y \in Nat /\ D.y >= 100 /\ D.y \in MinYear..MaxYear /\ D.m \in 0..11
      /\ D.d \in 1..GetMonthDays(D.y, D.m) /\ D.d \in 1..31 /\ D.h \in 0..23
      /\ GetMonthDays(D.y, D.m) \in 28..31
  BY DateFacts, MonthLength
<1>2. <<D.y, D.m + 1, D.d>> \in Seq(Nat) /\ <<D.h>> \in Seq(Nat)
  BY <1>1
<1>3. /\ Len(t) >= 3 /\ t[1] = D.y /\ t[2] = D.m + 1 /\ t[3] = D.d
      /\ h = IF page = "datetime" /\ Len(t) > 3 THEN t[4] ELSE 0
  <2>1. CASE page = "datetime"
    <3> DEFINE a == <<D.y, D.m + 1, D.d>>
               b == <<D.h>>
    <3>1. t = a \o b
      BY <2>1 DEF DatePrint
    <3>2. Len(a) = 3 /\ a[1] = D.y /\ a[2] = D.m + 1 /\ a[3] = D.d /\ Len(b) = 1 /\ b[1] = D.h
      OBVIOUS
    <3>3. a \in Seq(Nat) /\ b \in Seq(Nat)
      BY <1>2
    <3> HIDE DEF a, b
    <3>4. /\ Len(a \o b) = 4 /\ (a \o b)[1] = D.y /\ (a \o b)[2] = D.m + 1 /\ (a \o b)[3] = D.d
          /\ (a \o b)[4] = D.h
      <4> DEFINE c == a \o b
      <4>1. Len(c) = Len(a) + Len(b)
        BY <3>3, ConcatFacts
      <4>2. \A i \in 1..Len(a) + Len(b) : c[i] = IF i <= Len(a) THEN a[i] ELSE b[i - Len(a)]
        BY <3>3, ConcatFacts
      <4> HIDE DEF c
      <4>3. Len(c) = 4 /\ \A i \in 1..4 : c[i] = IF i <= 3 THEN a[i] ELSE b[i - 3]
        BY <3>2, <4>1, <4>2
      <4>4. c[1] = a[1] /\ c[2] = a[2] /\ c[3] = a[3] /\ c[4] = b[1]
        BY <4>3
      <4> QED BY <3>2, <4>3, <4>4 DEF c
    <3> QED BY <2>1, <3>1, <3>4
  <2>2. CASE page # "datetime"
    <3>1. t = <<D.y, D.m + 1, D.d>> \o <<>>
      BY <2>2 DEF DatePrint
    <3> QED BY <2>2, <3>1
  <2> QED BY <2>1, <2>2
<1>4. t[2] # 0 /\ t[3] # 0 /\ t[2] - 1 = D.m /\ Century(t[1]) = D.y
  BY <1>1, <1>3 DEF Century
<1>5. h \in 0..23
  BY <1>1
<1> HIDE DEF t, h
<1>6. ParseDate(t) = NewDate(D.y, D.m, D.d, h)
  BY <1>3, <1>4 DEF ParseDate, ParseText
<1>7. NewDate(D.y, D.m, D.d, h) = E
  <2>1. 0 \in 0..11 /\ D.d <= GetMonthDays(D.y, D.m)
    BY <1>1
  <2> QED BY <1>1, <1>5, <2>1, NativeFacts DEF NewDate
<1>8. E \in Dates
  <2>1. D.d <= GetMonthDays(D.y, D.m)
    BY <1>1
  <2> QED BY <1>1, <1>5, <2>1, MakesDate
<1>9. InRange(E) = E
  BY <1>8, InRangeSame
<1>10. DatePrint(E) = DatePrint(D)
  BY DEF DatePrint, h
<1> HIDE DEF E
<1> QED BY <1>6, <1>7, <1>8, <1>9, <1>10 DEF StandsFor, t

\* Every text in a field stands for a date.
LEMMA TextFacts ==
  ASSUME NEW v \in Texts
  PROVE  InRange(ParseDate(v)) \in Dates
<1>1. CASE v \in Typed
  <2>1. (page = "datetime") \in BOOLEAN
    OBVIOUS
  <2> QED BY <1>1, <2>1, TypedAssumption DEF ParseDate
<1>2. CASE v \in {DatePrint(D) : D \in Dates}
  BY <1>2, ParsePrint
<1> QED BY <1>1, <1>2 DEF Texts

\* Whether a day is disabled does not depend on the hour.
LEMMA StatusHour ==
  ASSUME NEW D \in Dates, NEW h
  PROVE  GetDateStatus([D EXCEPT !.h = h]) = GetDateStatus(D)
<1>1. D = [y |-> D.y, m |-> D.m, d |-> D.d, h |-> D.h]
  BY DateFacts
<1>2. LET E == [D EXCEPT !.h = h] IN E.y = D.y /\ E.m = D.m /\ E.d = D.d
  BY <1>1
<1> DEFINE E == [D EXCEPT !.h = h]
<1>3. DayNumber(E) = DayNumber(D) /\ E.d = D.d
  BY <1>2 DEF DayNumber
<1> HIDE DEF E
<1> QED BY <1>3 DEF GetDateStatus, E

\* The months that a button moves by.
NavMonths(nav) == CASE nav = -2 -> -12 [] nav = 2 -> 12 [] OTHER -> nav

\* The buttons for years and months lead to a date: k months further on, to the
\* same day or the last one of a shorter month.
LEMMA CellClickDateFacts ==
  ASSUME NEW D \in Dates, NEW nav \in {-2, -1, 1, 2}
  PROVE  LET E == CellClickDate(D, nav)
             k == NavMonths(nav)
         IN  /\ E \in Dates
             /\ IF AtEnd(D, k) THEN E = D
                ELSE /\ MonthCount(E) = MonthCount(D) + k
                     /\ E.d = IF D.d > GetMonthDays(E.y, E.m) THEN GetMonthDays(E.y, E.m) ELSE D.d
<1> DEFINE E == CellClickDate(D, nav)
           k == NavMonths(nav)
           Lands(F) == /\ F \in Dates
                       /\ MonthCount(F) = MonthCount(D) + k
                       /\ F.d = IF D.d > GetMonthDays(F.y, F.m) THEN GetMonthDays(F.y, F.m) ELSE D.d
<1>1. /\ D.y \in Nat /\ D.y \in MinYear..MaxYear /\ D.m \in 0..11 /\ D.d \in 1..31
      /\ MinYear \in Nat /\ MaxYear \in Nat
  BY DateFacts, RangeAssumption
<1>2. CASE nav = -2
  <2>1. k = -12 /\ (AtEnd(D, k) <=> ~(D.y > MinYear))
    BY <1>1, <1>2 DEF NavMonths, AtEnd, MonthCount
  <2>2. CASE D.y > MinYear
    <3>1. E = SetFullYear(D, D.y - 1) /\ D.y - 1 \in MinYear..MaxYear
      BY <1>1, <1>2, <2>2 DEF CellClickDate
    <3>2. /\ E \in Dates /\ E.y = D.y - 1 /\ E.m = D.m
          /\ E.d = IF D.d > GetMonthDays(E.y, E.m) THEN GetMonthDays(E.y, E.m) ELSE D.d
      BY <3>1, SetFullYearFacts
    <3> HIDE DEF E
    <3>3. MonthCount(E) = MonthCount(D) + k
      BY <1>1, <2>1, <3>2 DEF MonthCount
    <3> QED BY <2>1, <2>2, <3>2, <3>3 DEF E
  <2>3. CASE ~(D.y > MinYear)
    <3>1. E = D
      BY <1>2, <2>3 DEF CellClickDate
    <3> QED BY <2>1, <2>3, <3>1
  <2> QED BY <2>2, <2>3
<1>3. CASE nav = -1
  <2>1. k = -1 /\ (AtEnd(D, k) <=> D.m = 0 /\ ~(D.y > MinYear))
    BY <1>1, <1>3 DEF NavMonths, AtEnd, MonthCount
  <2>2. CASE D.m > 0
    <3>1. E = SetMonth(D, D.m - 1) /\ D.m - 1 \in 0..11
      BY <1>1, <1>3, <2>2 DEF CellClickDate
    <3>2. /\ E \in Dates /\ E.y = D.y /\ E.m = D.m - 1
          /\ E.d = IF D.d > GetMonthDays(E.y, E.m) THEN GetMonthDays(E.y, E.m) ELSE D.d
      BY <3>1, SetMonthFacts
    <3> HIDE DEF E
    <3>3. MonthCount(E) = MonthCount(D) + k
      BY <1>1, <2>1, <3>2 DEF MonthCount
    <3> QED BY <1>1, <2>1, <2>2, <3>2, <3>3 DEF E
  <2>3. CASE D.m = 0 /\ D.y > MinYear
    <3> DEFINE F == SetFullYear(D, D.y - 1)
    <3>1. E = SetMonth(F, 11) /\ D.y - 1 \in MinYear..MaxYear /\ 11 \in 0..11
      BY <1>1, <1>3, <2>3 DEF CellClickDate
    <3>2. /\ F \in Dates /\ F.y = D.y - 1 /\ F.m = D.m
          /\ F.d = IF D.d > GetMonthDays(D.y - 1, D.m) THEN GetMonthDays(D.y - 1, D.m) ELSE D.d
      BY <3>1, SetFullYearFacts
    <3>3. F.d = D.d
      BY <1>1, <2>3, <3>2 DEF GetMonthDays
    <3> HIDE DEF F
    <3>4. /\ E \in Dates /\ E.y = F.y /\ E.m = 11
          /\ E.d = IF F.d > GetMonthDays(E.y, E.m) THEN GetMonthDays(E.y, E.m) ELSE F.d
      BY <3>1, <3>2, SetMonthFacts
    <3> HIDE DEF E
    <3>5. MonthCount(E) = MonthCount(D) + k
      BY <1>1, <2>1, <2>3, <3>2, <3>4 DEF MonthCount
    <3> QED BY <1>1, <2>1, <2>3, <3>3, <3>4, <3>5 DEF E
  <2>4. CASE D.m = 0 /\ ~(D.y > MinYear)
    <3>1. E = D
      BY <1>3, <2>4 DEF CellClickDate
    <3> QED BY <2>1, <2>4, <3>1
  <2> QED BY <1>1, <2>2, <2>3, <2>4
<1>4. CASE nav = 1
  <2>1. k = 1 /\ (AtEnd(D, k) <=> D.m = 11 /\ ~(D.y < MaxYear))
    BY <1>1, <1>4 DEF NavMonths, AtEnd, MonthCount
  <2>2. CASE D.m < 11
    <3>1. E = SetMonth(D, D.m + 1) /\ D.m + 1 \in 0..11
      BY <1>1, <1>4, <2>2 DEF CellClickDate
    <3>2. /\ E \in Dates /\ E.y = D.y /\ E.m = D.m + 1
          /\ E.d = IF D.d > GetMonthDays(E.y, E.m) THEN GetMonthDays(E.y, E.m) ELSE D.d
      BY <3>1, SetMonthFacts
    <3> HIDE DEF E
    <3>3. MonthCount(E) = MonthCount(D) + k
      BY <1>1, <2>1, <3>2 DEF MonthCount
    <3> QED BY <1>1, <2>1, <2>2, <3>2, <3>3 DEF E
  <2>3. CASE D.m = 11 /\ D.y < MaxYear
    <3> DEFINE F == SetFullYear(D, D.y + 1)
    <3>1. E = SetMonth(F, 0) /\ D.y + 1 \in MinYear..MaxYear /\ 0 \in 0..11
      BY <1>1, <1>4, <2>3 DEF CellClickDate
    <3>2. /\ F \in Dates /\ F.y = D.y + 1 /\ F.m = D.m
          /\ F.d = IF D.d > GetMonthDays(D.y + 1, D.m) THEN GetMonthDays(D.y + 1, D.m) ELSE D.d
      BY <3>1, SetFullYearFacts
    <3>3. F.d = D.d
      BY <1>1, <2>3, <3>2 DEF GetMonthDays
    <3> HIDE DEF F
    <3>4. /\ E \in Dates /\ E.y = F.y /\ E.m = 0
          /\ E.d = IF F.d > GetMonthDays(E.y, E.m) THEN GetMonthDays(E.y, E.m) ELSE F.d
      BY <3>1, <3>2, SetMonthFacts
    <3> HIDE DEF E
    <3>5. MonthCount(E) = MonthCount(D) + k
      BY <1>1, <2>1, <2>3, <3>2, <3>4 DEF MonthCount
    <3> QED BY <1>1, <2>1, <2>3, <3>3, <3>4, <3>5 DEF E
  <2>4. CASE D.m = 11 /\ ~(D.y < MaxYear)
    <3>1. E = D
      BY <1>4, <2>4 DEF CellClickDate
    <3> QED BY <2>1, <2>4, <3>1
  <2> QED BY <1>1, <2>2, <2>3, <2>4
<1>5. CASE nav = 2
  <2>1. k = 12 /\ (AtEnd(D, k) <=> ~(D.y < MaxYear))
    BY <1>1, <1>5 DEF NavMonths, AtEnd, MonthCount
  <2>2. CASE D.y < MaxYear
    <3>1. E = SetFullYear(D, D.y + 1) /\ D.y + 1 \in MinYear..MaxYear
      BY <1>1, <1>5, <2>2 DEF CellClickDate
    <3>2. /\ E \in Dates /\ E.y = D.y + 1 /\ E.m = D.m
          /\ E.d = IF D.d > GetMonthDays(E.y, E.m) THEN GetMonthDays(E.y, E.m) ELSE D.d
      BY <3>1, SetFullYearFacts
    <3> HIDE DEF E
    <3>3. MonthCount(E) = MonthCount(D) + k
      BY <1>1, <2>1, <3>2 DEF MonthCount
    <3> QED BY <2>1, <2>2, <3>2, <3>3 DEF E
  <2>3. CASE ~(D.y < MaxYear)
    <3>1. E = D
      BY <1>5, <2>3 DEF CellClickDate
    <3> QED BY <2>1, <2>3, <3>1
  <2> QED BY <2>2, <2>3
<1> QED BY <1>2, <1>3, <1>4, <1>5


-----------------------------------------------------------------------------
(* The grid.                                                               *)

\* A calendar before and after it has a date.
Raw ==
  [of : Fields, date : Dates \cup {NoDate}, shown : Int \X Int, first : 0..6, fdow : 0..6, head : 0..6,
   cur : 0..41, ch : Hours, hour : Hours \cup {Blank}, edited : BOOLEAN, clicked : BOOLEAN,
   vis : {"hidden", "asked", "shown"}]

\* What _init makes of a calendar.
Inited(R, C, f, D) ==
  /\ R \in Calendars
  /\ R.of = C.of /\ R.head = C.head /\ R.clicked = C.clicked /\ R.vis = C.vis
  /\ R.date = D /\ R.fdow = f
  /\ R.shown = <<D.y, D.m>> /\ R.first = Day1(D.y, D.m, f)
  /\ R.ch = D.h /\ R.hour = D.h /\ R.edited = FALSE
  /\ GetDateStatus(D) \/ R.cur = CellOf(R, D)

\* _init gives the calendar the date, in its range, and the grid of that date.
LEMMA InitFacts ==
  ASSUME NEW C \in Raw, NEW f \in 0..6, NEW D0, InRange(D0) \in Dates
  PROVE  Inited(Init_(C, f, D0), C, f, InRange(D0))
<1> DEFINE D == InRange(D0)
           w == Day1(D.y, D.m, f)
           G == [C EXCEPT !.fdow = f, !.date = D, !.shown = <<D.y, D.m>>, !.first = w,
                          !.ch = D.h, !.hour = D.h, !.edited = FALSE]
           q == IF GetDateStatus(D) THEN G.cur ELSE CellOf(G, D)
           R == [G EXCEPT !.cur = q]
<1>1. Init_(C, f, D0) = R
  BY DEF Init_
<1>2. D \in Dates
  OBVIOUS
<1> HIDE DEF D
<1>3. D.y \in Nat /\ D.y >= 1 /\ D.m \in 0..11 /\ D.d \in 1..31 /\ D.h \in 0..23
  BY <1>2, DateFacts
<1>4. w \in 0..6
  BY <1>3, Day1Facts
<1> HIDE DEF w
<1>5. /\ G \in Raw /\ G.date = D /\ G.fdow = f /\ G.shown = <<D.y, D.m>> /\ G.first = w /\ G.ch = D.h
      /\ G.hour = D.h /\ G.edited = FALSE /\ G.of = C.of /\ G.head = C.head /\ G.clicked = C.clicked
      /\ G.vis = C.vis /\ G.cur \in 0..41
  <2>1. <<D.y, D.m>> \in Int \X Int
    BY <1>3
  <2>2. D.h \in Hours /\ D.h \in Hours \cup {Blank}
    BY <1>3 DEF Hours
  <2> QED BY <1>2, <1>4, <2>1, <2>2 DEF Raw
<1> HIDE DEF G
<1>6. q \in 0..41
  BY <1>3, <1>4, <1>5 DEF CellOf
<1>7. GetDateStatus(D) \/ q = w + D.d - 1
  BY <1>5 DEF CellOf
<1> HIDE DEF q
<1>8. R \in Calendars
  BY <1>2, <1>5, <1>6 DEF Raw, Calendars
<1>9. /\ R.date = D /\ R.fdow = f /\ R.shown = <<D.y, D.m>> /\ R.first = w /\ R.ch = D.h /\ R.cur = q
      /\ R.hour = D.h /\ R.edited = FALSE /\ R.of = C.of /\ R.head = C.head /\ R.clicked = C.clicked
      /\ R.vis = C.vis
  BY <1>5 DEF Raw
<1> HIDE DEF R
<1>10. GetDateStatus(D) \/ R.cur = CellOf(R, D)
  BY <1>7, <1>9 DEF CellOf
<1> QED BY <1>1, <1>8, <1>9, <1>10 DEF Inited, D, w

\* A calendar that _init has made agrees with its date, if it is not one whose
\* day was clicked on and its header is that of the first day of the week.
LEMMA InitedAgrees ==
  ASSUME NEW C, NEW R, NEW f, NEW D, Inited(R, C, f, D), C.clicked = FALSE, C.head = f
  PROVE  Agrees(R)
  BY DEF Inited, Agrees

\* A calendar has a record's shape, with or without a date.
LEMMA CalendarsRaw == Calendars \subseteq Raw
  BY DEF Calendars, Raw

\* Two calendars with the same grid.
SameGrid(C, E) == C.shown = E.shown /\ C.first = E.first /\ C.ch = E.ch

\* The members of K in order, as ar_days has them.
Listed(K) == [i \in 1..Cardinality(K) |-> CHOOSE p \in K : Cardinality(K \cap 0..p) = i]

\* The same grid has the same days and the same enabled cells.
LEMMA SameCells ==
  ASSUME NEW C, NEW E, SameGrid(C, E)
  PROVE  /\ \A p : DateAt(C, p) = DateAt(E, p)
         /\ \A p : Enabled(C, p) <=> Enabled(E, p)
         /\ Ar_days(C) = Ar_days(E)
<1>1. \A p : DateAt(C, p) = DateAt(E, p)
  BY DEF SameGrid, DateAt
<1>2. \A p : Enabled(C, p) <=> Enabled(E, p)
  BY <1>1 DEF Enabled
<1>3. {p \in 0..41 : Enabled(C, p)} = {p \in 0..41 : Enabled(E, p)}
  BY <1>2
<1>4. Ar_days(C) = Ar_days(E)
  <2>1. Ar_days(C) = Listed({p \in 0..41 : Enabled(C, p)})
    BY DEF Ar_days, Listed
  <2>2. Ar_days(E) = Listed({p \in 0..41 : Enabled(E, p)})
    BY DEF Ar_days, Listed
  <2> QED BY <1>3, <2>1, <2>2
<1> QED BY <1>1, <1>2, <1>4

\* The date of an enabled cell.
LEMMA CellFacts ==
  ASSUME NEW C \in Calendars, NEW p \in 0..41, IsDate(DateAt(C, p))
  PROVE  /\ DateAt(C, p) \in Dates
         /\ DateAt(C, p).y = C.shown[1] /\ DateAt(C, p).m = C.shown[2]
         /\ DateAt(C, p).d = p - C.first + 1 /\ DateAt(C, p).h = C.ch
<1> DEFINE D == DateAt(C, p)
<1>1. D = [y |-> C.shown[1], m |-> C.shown[2], d |-> p - C.first + 1, h |-> C.ch]
  BY DEF DateAt
<1>2. D.y = C.shown[1] /\ D.m = C.shown[2] /\ D.d = p - C.first + 1 /\ D.h = C.ch
  BY <1>1
<1>3. D.y \in MinYear..MaxYear /\ D.m \in 0..11 /\ D.d \in 1..GetMonthDays(D.y, D.m) /\ D.h \in 0..23
  BY DEF IsDate, Months, Hours
<1>4. D.y \in Nat
  BY <1>3, RangeAssumption
<1>5. GetMonthDays(D.y, D.m) \in 28..31
  BY <1>3, <1>4, MonthLength
<1>6. D.d \in 1..31 /\ D.d <= GetMonthDays(D.y, D.m)
  BY <1>3, <1>5
<1>7. [y |-> D.y, m |-> D.m, d |-> D.d, h |-> D.h] \in Dates
  BY <1>3, <1>6, MakesDate
<1>8. D = [y |-> D.y, m |-> D.m, d |-> D.d, h |-> D.h]
  BY <1>1
<1> HIDE DEF D
<1> QED BY <1>2, <1>7, <1>8 DEF D

\* The pressed element after _init: still the same element, with the date that
\* its cell displays if that can be clicked on.
LEMMA RecelledFacts ==
  ASSUME NEW C \in Calendars, NEW el, el = NoEl \/ el \in Els
  PROVE  LET e == Recelled(el, C)
         IN  /\ e = NoEl \/ e \in Els
             /\ e = NoEl <=> el = NoEl
             /\ e.kind = "day" => e.date = DateAt(C, e.pos) \/ ~Enabled(C, e.pos)
<1> DEFINE e == Recelled(el, C)
<1>1. CASE ~(el.kind = "day" /\ Enabled(C, el.pos))
  <2>1. e = el
    BY <1>1 DEF Recelled
  <2> QED BY <1>1, <2>1
<1>2. CASE el.kind = "day" /\ Enabled(C, el.pos)
  <2>1. el # NoEl
    BY <1>2 DEF NoEl
  <2>2. el \in DayEls
    BY <1>2, <2>1 DEF Els, NavEls, WeekdayEls, OtherEls
  <2> DEFINE D == DateAt(C, el.pos)
  <2>3. D \in Dates /\ ~GetDateStatus(D)
    BY <1>2, <2>2, CellFacts DEF DayEls, Enabled
  <2>4. e = [el EXCEPT !.date = D]
    BY <1>2 DEF Recelled
  <2> HIDE DEF D
  <2>5. el \in [kind : {"day"}, pos : 0..41, nav : {0}, date : Dates]
    BY <2>2 DEF DayEls
  <2> HIDE DEF e
  <2>6. e \in [kind : {"day"}, pos : 0..41, nav : {0}, date : Dates] /\ e.date = D /\ e.pos = el.pos
    BY <2>3, <2>4, <2>5
  <2>7. e \in DayEls
    BY <2>3, <2>6 DEF DayEls
  <2>8. e # NoEl
    BY <2>6 DEF NoEl
  <2> QED BY <2>1, <2>6, <2>7, <2>8 DEF e, D, Els
<1> QED BY <1>1, <1>2


\* More cells are enabled up to a later one.
LEMMA RankGrows ==
  ASSUME NEW K \in SUBSET Nat, IsFiniteSet(K), NEW a \in K, NEW b \in K, a < b
  PROVE  Cardinality(K \cap 0..a) < Cardinality(K \cap 0..b)
<1> DEFINE A == K \cap 0..a
           B == K \cap 0..b
<1>1. IsFiniteSet(A) /\ IsFiniteSet(B)
  BY FS_Subset
<1>2. A \in SUBSET B /\ b \in B /\ b \notin A
  <2>1. a \in Nat /\ b \in Nat
    OBVIOUS
  <2>2. \A j \in 0..a : j \in 0..b
    BY <2>1
  <2>3. b \notin 0..a /\ b \in 0..b
    BY <2>1
  <2> QED BY <2>2, <2>3, Zenon
<1>3. Cardinality(A) <= Cardinality(B) /\ (Cardinality(B) = Cardinality(A) => B = A)
  BY <1>1, <1>2, FS_Subset
<1>4. Cardinality(A) \in Nat /\ Cardinality(B) \in Nat
  BY <1>1, FS_CardinalityType
<1> QED BY <1>2, <1>3, <1>4

\* So there is a cell of every rank, and the list has that cell in that place.
LEMMA ListedFacts ==
  ASSUME NEW K \in SUBSET Nat, IsFiniteSet(K)
  PROVE  /\ Cardinality(K) \in Nat /\ DOMAIN Listed(K) = 1..Cardinality(K)
         /\ \A k \in 1..Cardinality(K) : Listed(K)[k] \in K /\ Cardinality(K \cap 0..Listed(K)[k]) = k
<1> DEFINE f == [i \in K |-> Cardinality(K \cap 0..i)]
           N == Cardinality(K)
<1>1. N \in Nat
  BY FS_CardinalityType
<1>2. ASSUME NEW i \in K PROVE f[i] \in 1..N
  <2> DEFINE A == K \cap 0..i
  <2>1. IsFiniteSet(A) /\ Cardinality(A) <= N
    BY FS_Subset
  <2>2. Cardinality(A) \in Nat /\ i \in A
    BY <2>1, FS_CardinalityType
  <2>3. Cardinality(A) # 0
    BY <2>1, <2>2, FS_EmptySet
  <2> QED BY <1>1, <2>1, <2>2, <2>3
<1>3. f \in [K -> 1..N]
  BY <1>2
<1>4. ASSUME NEW a \in K, NEW b \in K, f[a] = f[b] PROVE a = b
  <2>1. f[a] \in Nat /\ f[b] \in Nat
    BY <1>1, <1>2
  <2>2. ~(a < b)
    BY <1>4, <2>1, RankGrows
  <2>3. ~(b < a)
    BY <1>4, <2>1, RankGrows
  <2> QED BY <2>2, <2>3
<1> HIDE DEF f
<1>5. f \in Injection(K, 1..N)
  BY <1>3, <1>4 DEF Injection, IsInjective
<1>6. IsFiniteSet(1..N) /\ Cardinality(1..N) = N
  BY <1>1, FS_Interval
<1>7. f \in Surjection(K, 1..N)
  BY <1>5, <1>6, FS_Injection
<1>8. ASSUME NEW k \in 1..N PROVE Listed(K)[k] \in K /\ Cardinality(K \cap 0..Listed(K)[k]) = k
  <2>1. \E i \in K : f[i] = k
    BY <1>7 DEF Surjection
  <2>2. \E i \in K : Cardinality(K \cap 0..i) = k
    BY <2>1 DEF f
  <2>3. Listed(K)[k] = CHOOSE i \in K : Cardinality(K \cap 0..i) = k
    BY Zenon DEF Listed
  <2> QED BY <2>2, <2>3, Zenon
<1>9. DOMAIN Listed(K) = 1..N
  BY DEF Listed
<1> QED BY <1>1, <1>8, <1>9

\* ar_days lists cells that can be clicked on.
LEMMA ArDaysFacts ==
  ASSUME NEW C
  PROVE  /\ DOMAIN Ar_days(C) = 1..Cardinality({p \in 0..41 : Enabled(C, p)})
         /\ Cardinality({p \in 0..41 : Enabled(C, p)}) \in Nat
         /\ \A j \in DOMAIN Ar_days(C) :
              /\ Ar_days(C)[j] \in 0..41 /\ Enabled(C, Ar_days(C)[j])
              /\ Cardinality({p \in 0..41 : Enabled(C, p)} \cap 0..Ar_days(C)[j]) = j
<1> DEFINE K == {p \in 0..41 : Enabled(C, p)}
<1>1. Ar_days(C) = Listed(K)
  BY DEF Ar_days, Listed
<1>2. IsFiniteSet(0..41)
  <2>1. 0 \in Int /\ 41 \in Int
    OBVIOUS
  <2> QED BY <2>1, FS_Interval
<1>3. IsFiniteSet(K) /\ K \in SUBSET Nat
  <2>1. K \in SUBSET (0..41)
    OBVIOUS
  <2> QED BY <1>2, <2>1, FS_Subset
<1>4. \A p \in K : p \in 0..41 /\ Enabled(C, p)
  OBVIOUS
<1> HIDE DEF K
<1>5. /\ Cardinality(K) \in Nat /\ DOMAIN Listed(K) = 1..Cardinality(K)
      /\ \A k \in 1..Cardinality(K) : Listed(K)[k] \in K /\ Cardinality(K \cap 0..Listed(K)[k]) = k
  BY <1>3, ListedFacts
<1> QED BY <1>1, <1>4, <1>5 DEF K
-----------------------------------------------------------------------------
(* The operations.                                                         *)

\* setDate.
LEMMA SetDateFacts ==
  ASSUME NEW C, Agrees(C), NEW D \in Dates
  PROVE  LET R == SetDate(C, D)
         IN  Agrees(R) /\ R.date = D /\ R.of = C.of /\ R.vis = C.vis
<1> DEFINE R == SetDate(C, D)
<1>1. CASE D = C.date
  BY <1>1 DEF SetDate, EqualsTo
<1>2. CASE D # C.date
  <2>1. R = Init_(C, C.fdow, D)
    BY <1>2 DEF SetDate, EqualsTo
  <2>2. InRange(D) = D
    BY InRangeSame
  <2>3. C \in Raw /\ C.fdow \in 0..6 /\ C.clicked = FALSE /\ C.head = C.fdow
    BY CalendarsRaw DEF Agrees, Calendars
  <2>4. Inited(R, C, C.fdow, D)
    BY <2>1, <2>2, <2>3, InitFacts
  <2> HIDE DEF R
  <2>5. Agrees(R)
    BY <2>3, <2>4, InitedAgrees
  <2> QED BY <2>4, <2>5 DEF Inited, R
<1> QED BY <1>1, <1>2

\* A date keeps being one with another hour.
LEMMA HourFacts ==
  ASSUME NEW D \in Dates, NEW h \in 0..23
  PROVE  LET E == [D EXCEPT !.h = h]
         IN  E \in Dates /\ E.y = D.y /\ E.m = D.m /\ E.d = D.d /\ E.h = h
<1>1. /\ D.y \in MinYear..MaxYear /\ D.m \in 0..11 /\ D.d \in 1..GetMonthDays(D.y, D.m) /\ D.d \in 1..31
      /\ D = [y |-> D.y, m |-> D.m, d |-> D.d, h |-> D.h] /\ D.y \in Nat
  BY DateFacts
<1>2. D.d <= GetMonthDays(D.y, D.m)
  BY <1>1
<1>3. [D EXCEPT !.h = h] = [y |-> D.y, m |-> D.m, d |-> D.d, h |-> h]
  BY <1>1
<1>4. [y |-> D.y, m |-> D.m, d |-> D.d, h |-> h] \in Dates
  BY <1>1, <1>2, MakesDate
<1> QED BY <1>3, <1>4

\* cellClick on a button.
LEMMA CellClickNavFacts ==
  ASSUME Agrees(cal), NEW nav \in -2..2
  PROVE  LET R == CellClickNav(nav)
         IN  /\ Agrees(R) /\ R.of = cal.of /\ R.vis = cal.vis
             /\ nav # 0 => R.date = CellClickDate(cal.date, nav)
<1> DEFINE R == CellClickNav(nav)
           N == IF cal.of \in NowFields THEN Today ELSE [Today EXCEPT !.h = 0]
<1>1. cal \in Calendars /\ cal.date \in Dates /\ [cal EXCEPT !.clicked = FALSE] = cal
  BY DEF Agrees, Calendars
<1>2. CASE nav = 0
  <2>1. N \in Dates
    <3>1. Today \in Dates
      BY DatesAssumption
    <3>2. 0 \in 0..23
      OBVIOUS
    <3>3. [Today EXCEPT !.h = 0] \in Dates
      BY <3>1, <3>2, HourFacts
    <3> QED BY <3>1, <3>3
  <2>2. R = IF GetDateStatus(N) THEN cal ELSE SetDate(cal, N)
    BY <1>1, <1>2 DEF CellClickNav
  <2> HIDE DEF N
  <2>3. Agrees(SetDate(cal, N)) /\ SetDate(cal, N).of = cal.of /\ SetDate(cal, N).vis = cal.vis
    BY <2>1, SetDateFacts
  <2> QED BY <1>2, <2>2, <2>3
<1>3. CASE nav # 0
  <2> DEFINE D == CellClickDate(cal.date, nav)
  <2>1. nav \in {-2, -1, 1, 2}
    BY <1>3
  <2>2. D \in Dates
    BY <1>1, <2>1, CellClickDateFacts
  <2>3. R = SetDate(cal, D)
    BY <1>1, <1>3 DEF CellClickNav
  <2> HIDE DEF D, R
  <2>4. Agrees(R) /\ R.of = cal.of /\ R.vis = cal.vis /\ R.date = D
    BY <2>2, <2>3, SetDateFacts
  <2> QED BY <2>4 DEF D, R
<1> QED BY <1>2, <1>3

\* What has to be shown of a step: the facts about the new values, with the page
\* as it was.
LEMMA StepIInv ==
  ASSUME Shape, Quiet,
         field' \in [Fields -> Texts] /\ typed' \subseteq Fields,
         cal' = NoCalendar \/ cal' \in Calendars,
         act' = NoEl \/ act' \in Els,
         timer' \in {"none", "months", "later", "earlier"}, combo' \in Lists,
         slot' \in {"none", "show", "cover"},
         cal'.vis # "hidden" => Agrees(cal') /\ (cal'.of \notin typed' => StandsFor(field'[cal'.of], cal'.date)),
         slot' = "show" => khtml = TRUE /\ cal'.vis = "asked",
         act'.kind = "day" => act'.date = DateAt(cal', act'.pos) \/ ~Enabled(cal', act'.pos),
         cal'.clicked => ~GetDateStatus(cal'.date),
         (combo' # NoCombo \/ timer' # "none") => act' # NoEl
  PROVE  IInv'
<1>1. page' = page /\ khtml' = khtml
  BY DEF Quiet
<1>2. Shape'
  BY <1>1 DEF Shape, Texts, DatePrint, Els, DayEls, GetDateStatus
<1>3. LiveInv'
  BY <1>1 DEF LiveInv, Agrees, GetDateStatus, StandsFor, DatePrint, ParseDate
<1>4. SlotInv'
  BY <1>1 DEF SlotInv
<1>5. PressedCell'
  BY <1>1 DEF PressedCell, Enabled, GetDateStatus
<1>6. ClickedIsEnabled'
  BY <1>1 DEF ClickedIsEnabled, GetDateStatus
<1>7. ListWhilePressed'
  BY DEF ListWhilePressed
<1> QED BY <1>2, <1>3, <1>4, <1>5, <1>6, <1>7 DEF IInv


\* A calendar that is not hidden is one.
LEMMA NotHidden ==
  ASSUME Shape, cal.vis # "hidden"
  PROVE  cal \in Calendars
  BY DEF Shape, NoCalendar

\* Showing or hiding a calendar changes nothing else.
LEMMA VisFacts ==
  ASSUME NEW C \in Calendars, NEW v \in {"hidden", "asked", "shown"}
  PROVE  LET R == [C EXCEPT !.vis = v]
         IN  /\ R \in Calendars /\ SameGrid(R, C) /\ R.vis = v
             /\ R.of = C.of /\ R.date = C.date /\ R.clicked = C.clicked
             /\ Agrees(C) => Agrees(R)
<1> DEFINE R == [C EXCEPT !.vis = v]
<1>1. R \in Calendars
  BY DEF Calendars
<1>2. /\ R.of = C.of /\ R.date = C.date /\ R.clicked = C.clicked /\ R.shown = C.shown /\ R.first = C.first
      /\ R.fdow = C.fdow /\ R.head = C.head /\ R.cur = C.cur /\ R.ch = C.ch /\ R.hour = C.hour
      /\ R.edited = C.edited /\ R.vis = v
  BY DEF Calendars
<1> HIDE DEF R
<1>3. Agrees(C) => Agrees(R)
  BY <1>1, <1>2 DEF Agrees, CellOf
<1> QED BY <1>1, <1>2, <1>3 DEF R, SameGrid

\* The field gets a text that stands for the date.
LEMMA HandlerFacts ==
  ASSUME Shape, NEW C \in Calendars, CallHandler(C)
  PROVE  field' \in [Fields -> Texts] /\ typed' \subseteq Fields /\ StandsFor(field'[C.of], C.date)
<1>1. C.of \in Fields /\ C.date \in Dates
  BY DEF Calendars
<1>2. /\ field' = [field EXCEPT ![C.of] = DatePrint(C.date)] /\ field \in [Fields -> Texts]
      /\ typed' \subseteq Fields
  BY DEF CallHandler, Shape
<1>3. DatePrint(C.date) \in Texts
  BY <1>1 DEF Texts
<1>4. field' \in [Fields -> Texts] /\ typed' \subseteq Fields /\ field'[C.of] = DatePrint(C.date)
  BY <1>1, <1>2, <1>3
<1> QED BY <1>1, <1>4, ParsePrint

\* The date of an open calendar changes: the calendar is C and the field has the
\* date of C.
LEMMA Moved ==
  ASSUME Shape, LiveInv, Shown, NEW C, Agrees(C), C.of = cal.of,
         Select(C) \/ (C.date = cal.date /\ cal' = C /\ UNCHANGED <<field, typed, slot>>)
  PROVE  /\ cal' = C /\ slot' = slot
         /\ field' \in [Fields -> Texts] /\ typed' \subseteq Fields
         /\ cal'.of \notin typed' => StandsFor(field'[cal'.of], cal'.date)
<1>1. CASE Select(C)
  <2>1. C \in Calendars /\ C.clicked = FALSE
    BY DEF Agrees
  <2>2. cal' = C /\ slot' = slot /\ CallHandler(C)
    BY <1>1, <2>1 DEF Select, Handled
  <2> QED BY <2>1, <2>2, HandlerFacts
<1>2. CASE C.date = cal.date /\ cal' = C /\ UNCHANGED <<field, typed, slot>>
  BY <1>2 DEF LiveInv, Shape, Shown
<1> QED BY <1>1, <1>2

\* What of a step on an open calendar is left to show when C is the calendar
\* after it.
LEMMA MovedIInv ==
  ASSUME IInv, Shown, Quiet, NEW C, Agrees(C), C.of = cal.of, C.vis = cal.vis,
         Select(C) \/ (C.date = cal.date /\ cal' = C /\ UNCHANGED <<field, typed, slot>>),
         act' = NoEl \/ act' \in Els,
         act'.kind = "day" => act'.date = DateAt(C, act'.pos) \/ ~Enabled(C, act'.pos),
         timer' \in {"none", "months", "later", "earlier"}, combo' \in Lists,
         (combo' # NoCombo \/ timer' # "none") => act' # NoEl
  PROVE  IInv'
<1>1. Shape /\ LiveInv /\ SlotInv
  BY DEF IInv
<1>2. /\ cal' = C /\ slot' = slot
      /\ field' \in [Fields -> Texts] /\ typed' \subseteq Fields
      /\ cal'.of \notin typed' => StandsFor(field'[cal'.of], cal'.date)
  BY <1>1, Moved
<1>3. C \in Calendars /\ C.clicked = FALSE
  BY DEF Agrees
<1>4. slot' \in {"none", "show", "cover"} /\ (slot' = "show" => khtml = TRUE /\ cal'.vis = "asked")
  BY <1>1, <1>2 DEF SlotInv, Shape
<1> QED BY <1>1, <1>2, <1>3, <1>4, StepIInv

\* hideShowCovered never leaves a continuation that shows a calendar.
LEMMA CoverFacts ==
  ASSUME Shape, SlotInv, HideShowCovered
  PROVE  slot' \in {"none", "show", "cover"} /\ slot' # "show"
  BY DEF Shape, SlotInv, HideShowCovered

\* Typing into a field is recorded, so that an open calendar and another field
\* still agree.
LEMMA TypeFieldIInv ==
  ASSUME IInv, NEW f \in Fields, NEW v \in Typed, TypeField(f, v)
  PROVE  IInv'
<1>1. /\ Shape /\ LiveInv /\ SlotInv /\ PressedCell /\ ClickedIsEnabled /\ ListWhilePressed
      /\ field' = [field EXCEPT ![f] = v] /\ typed' = typed \cup {f}
      /\ cal' = cal /\ act' = act /\ timer' = timer /\ combo' = combo /\ slot' = slot /\ Quiet
  BY DEF IInv, TypeField
<1>2. field \in [Fields -> Texts] /\ v \in Texts
  BY <1>1 DEF Shape, Texts
<1>3. field' \in [Fields -> Texts] /\ typed' \subseteq Fields
  BY <1>1, <1>2 DEF Shape
<1>9. cal'.vis # "hidden" => Agrees(cal') /\ (cal'.of \notin typed' => StandsFor(field'[cal'.of], cal'.date))
  <2> SUFFICES ASSUME cal.vis # "hidden"
               PROVE  Agrees(cal) /\ (cal.of \notin typed' => StandsFor(field'[cal.of], cal.date))
    BY <1>1
  <2>1. cal.of \in Fields
    BY <1>1, NotHidden DEF Calendars
  <2>2. cal.of \notin typed' => cal.of \notin typed /\ field'[cal.of] = field[cal.of]
    BY <1>1, <1>2, <2>1
  <2> QED BY <1>1, <2>2 DEF LiveInv
<1>4. /\ cal' = NoCalendar \/ cal' \in Calendars
      /\ act' = NoEl \/ act' \in Els
      /\ timer' \in {"none", "months", "later", "earlier"} /\ combo' \in Lists
      /\ slot' \in {"none", "show", "cover"}
  BY <1>1 DEF Shape
<1>5. slot' = "show" => khtml = TRUE /\ cal'.vis = "asked"
  BY <1>1 DEF SlotInv
<1>6. act'.kind = "day" => act'.date = DateAt(cal', act'.pos) \/ ~Enabled(cal', act'.pos)
  BY <1>1 DEF PressedCell
<1>7. cal'.clicked => ~GetDateStatus(cal'.date)
  BY <1>1 DEF ClickedIsEnabled
<1>8. (combo' # NoCombo \/ timer' # "none") => act' # NoEl
  BY <1>1 DEF ListWhilePressed
<1> QED BY <1>1, <1>3, <1>4, <1>5, <1>6, <1>7, <1>8, <1>9, StepIInv

\* A calendar that the trigger of a field makes.
LEMMA CreateFacts ==
  ASSUME NEW f \in Fields
  PROVE  Agrees(Create(f)) /\ Create(f).date = Today /\ Create(f).of = f
<1> DEFINE N == [NoCalendar EXCEPT !.of = f]
<1>1. N \in Raw /\ N.of = f /\ N.clicked = FALSE /\ N.head = 0
  <2>1. 0 \in Hours /\ <<0, 0>> \in Int \X Int /\ 0 \in 0..41 /\ 0 \in 0..6
    BY DEF Hours
  <2> QED BY <2>1 DEF NoCalendar, Raw
<1> HIDE DEF N
<1>2. Today \in Dates /\ 0 \in 0..6
  BY DatesAssumption
<1>3. InRange(Today) = Today
  BY <1>2, InRangeSame
<1>4. Inited(Create(f), N, 0, Today)
  BY <1>1, <1>2, <1>3, InitFacts DEF Create, N
<1>5. Agrees(Create(f))
  BY <1>1, <1>4, InitedAgrees
<1> QED BY <1>1, <1>4, <1>5 DEF Inited

\* The trigger: the new calendar has the date that the text of the field stands
\* for, and act is free, so no pressed day belongs to the old one.
LEMMA TriggerIInv ==
  ASSUME IInv, NEW f \in Fields, Trigger(f)
  PROVE  IInv'
<1> DEFINE D == ParseDate(field[f])
           N == Create(f)
           C == SetDate(N, D)
           R == Refresh(C)
<1>1. /\ Shape /\ SlotInv /\ act = NoEl /\ ListWhilePressed
      /\ cal' = ShowAtElement(R) /\ slot' = (IF khtml THEN "show" ELSE slot)
      /\ field' = field /\ typed' = typed \ {f} /\ act' = act /\ timer' = timer /\ combo' = combo /\ Quiet
  BY DEF IInv, Trigger
<1>2. field[f] \in Texts /\ field \in [Fields -> Texts] /\ typed' \subseteq Fields
  BY <1>1 DEF Shape
<1>3. InRange(D) \in Dates
  BY <1>2, TextFacts
<1>4. Agrees(N) /\ N.date = Today /\ N.of = f
  BY CreateFacts
<1> HIDE DEF N
<1>5. Agrees(C) /\ C.of = f /\ C.date = InRange(D)
  <2>1. CASE D = N.date
    <3>1. C = N
      BY <2>1 DEF SetDate, EqualsTo
    <3>2. InRange(D) = D
      BY <1>4, <2>1, DatesAssumption, InRangeSame
    <3> QED BY <1>4, <2>1, <3>1, <3>2
  <2>2. CASE D # N.date
    <3>1. C = Init_(N, N.fdow, D)
      BY <2>2 DEF SetDate, EqualsTo
    <3>2. N \in Raw /\ N.fdow \in 0..6 /\ N.clicked = FALSE /\ N.head = N.fdow
      BY <1>4, CalendarsRaw DEF Agrees, Calendars
    <3>3. Inited(C, N, N.fdow, InRange(D))
      BY <1>3, <3>1, <3>2, InitFacts
    <3> HIDE DEF C, D
    <3>4. Agrees(C)
      BY <3>2, <3>3, InitedAgrees
    <3> QED BY <1>4, <3>3, <3>4 DEF Inited
  <2> QED BY <2>1, <2>2
<1> HIDE DEF C
<1>6. Agrees(R) /\ R.of = f /\ R.date = InRange(D)
  <2>1. R = Init_(C, C.fdow, C.date) /\ InRange(C.date) = C.date
    BY <1>3, <1>5, InRangeSame DEF Refresh
  <2>2. C \in Raw /\ C.fdow \in 0..6 /\ C.clicked = FALSE /\ C.head = C.fdow
    BY <1>5, CalendarsRaw DEF Agrees, Calendars
  <2>3. Inited(R, C, C.fdow, C.date)
    BY <1>3, <1>5, <2>1, <2>2, InitFacts
  <2> HIDE DEF R, D
  <2>4. Agrees(R)
    BY <2>2, <2>3, InitedAgrees
  <2> QED BY <1>5, <2>3, <2>4 DEF Inited
<1> HIDE DEF R
<1>7. R \in Calendars
  BY <1>6 DEF Agrees
<1>8. /\ cal' \in Calendars /\ Agrees(cal') /\ cal'.of = f /\ cal'.date = InRange(D)
      /\ cal'.vis = IF khtml THEN "asked" ELSE "shown"
  <2>1. CASE khtml
    <3>1. cal' = [R EXCEPT !.vis = "asked"]
      BY <1>1, <2>1 DEF ShowAtElement
    <3> QED BY <1>6, <1>7, <2>1, <3>1, VisFacts
  <2>2. CASE ~khtml
    <3>1. cal' = [R EXCEPT !.vis = "shown"]
      BY <1>1, <2>2 DEF ShowAtElement, Show
    <3> QED BY <1>6, <1>7, <2>2, <3>1, VisFacts
  <2> QED BY <2>1, <2>2
<1>9. StandsFor(field'[cal'.of], cal'.date)
  BY <1>1, <1>8 DEF StandsFor, D
<1> HIDE DEF D
<1>10. cal'.clicked = FALSE
  BY <1>8 DEF Agrees
<1>11. slot' \in {"none", "show", "cover"} /\ (slot' = "show" => khtml = TRUE /\ cal'.vis = "asked")
  BY <1>1, <1>8 DEF Shape, SlotInv
<1>12. act' = NoEl /\ act'.kind # "day" /\ timer' = "none" /\ combo' = NoCombo
  BY <1>1 DEF ListWhilePressed, NoEl
<1>13. NoCombo \in Lists
  BY DEF NoCombo, Lists
<1> QED BY <1>1, <1>2, <1>8, <1>9, <1>10, <1>11, <1>12, <1>13, StepIInv


\* The continuation shows the calendar that was asked for, as it is.
LEMMA ContinuationIInv ==
  ASSUME IInv, Continuation
  PROVE  IInv'
<1>1. /\ Shape /\ LiveInv /\ SlotInv /\ PressedCell /\ ClickedIsEnabled /\ ListWhilePressed
      /\ slot' = (IF slot = "show" THEN "cover" ELSE "none")
      /\ cal' = (IF slot = "show" THEN Show(cal) ELSE cal)
      /\ field' = field /\ typed' = typed /\ act' = act /\ timer' = timer /\ combo' = combo /\ Quiet
  BY DEF IInv, Continuation
<1>2. /\ cal' = NoCalendar \/ cal' \in Calendars
      /\ SameGrid(cal', cal) /\ cal'.of = cal.of /\ cal'.date = cal.date /\ cal'.clicked = cal.clicked
      /\ cal'.vis # "hidden" => cal.vis # "hidden" /\ Agrees(cal')
  <2>1. CASE slot = "show"
    <3>1. cal.vis = "asked" /\ cal' = [cal EXCEPT !.vis = "shown"]
      BY <1>1, <2>1 DEF SlotInv, Show
    <3>2. cal \in Calendars /\ Agrees(cal)
      BY <1>1, <3>1, NotHidden DEF LiveInv
    <3> QED BY <3>1, <3>2, VisFacts
  <2>2. CASE slot # "show"
    BY <1>1, <2>2 DEF Shape, LiveInv, SameGrid
  <2> QED BY <2>1, <2>2
<1>3. cal'.vis # "hidden" => Agrees(cal') /\ (cal'.of \notin typed' => StandsFor(field'[cal'.of], cal'.date))
  BY <1>1, <1>2 DEF LiveInv
<1>4. act'.kind = "day" => act'.date = DateAt(cal', act'.pos) \/ ~Enabled(cal', act'.pos)
  BY <1>1, <1>2, SameCells DEF PressedCell
<1>5. cal'.clicked => ~GetDateStatus(cal'.date)
  BY <1>1, <1>2 DEF ClickedIsEnabled
<1>6. /\ act' = NoEl \/ act' \in Els
      /\ timer' \in {"none", "months", "later", "earlier"} /\ combo' \in Lists
      /\ field' \in [Fields -> Texts] /\ typed' \subseteq Fields
  BY <1>1 DEF Shape
<1>7. (combo' # NoCombo \/ timer' # "none") => act' # NoEl
  BY <1>1 DEF ListWhilePressed
<1>8. slot' \in {"none", "show", "cover"} /\ slot' # "show"
  BY <1>1
<1> QED BY <1>1, <1>2, <1>3, <1>4, <1>5, <1>6, <1>7, <1>8, StepIInv

\* Closing an open calendar.
LEMMA HideIInv ==
  ASSUME IInv, Shown, Quiet, cal' = Hide(cal), HideShowCovered,
         field' \in [Fields -> Texts] /\ typed' \subseteq Fields,
         Released \/ (act' = act /\ timer' = timer /\ combo' = combo)
  PROVE  IInv'
<1>1. Shape /\ SlotInv /\ PressedCell /\ ClickedIsEnabled /\ ListWhilePressed
  BY DEF IInv
<1>2. cal \in Calendars
  BY <1>1, NotHidden DEF Shown
<1>3. /\ cal' \in Calendars /\ SameGrid(cal', cal) /\ cal'.vis = "hidden" /\ cal'.date = cal.date
      /\ cal'.clicked = cal.clicked
  BY <1>2, VisFacts DEF Hide
<1>4. slot' \in {"none", "show", "cover"} /\ slot' # "show"
  BY <1>1, CoverFacts
<1>5. act'.kind = "day" => act'.date = DateAt(cal', act'.pos) \/ ~Enabled(cal', act'.pos)
  <2>1. NoEl.kind # "day"
    BY DEF NoEl
  <2> QED BY <1>1, <1>3, <2>1, SameCells DEF PressedCell, Released
<1>6. cal'.clicked => ~GetDateStatus(cal'.date)
  BY <1>1, <1>3 DEF ClickedIsEnabled
<1>7. NoCombo \in Lists
  BY DEF NoCombo, Lists
<1>8. /\ act' = NoEl \/ act' \in Els
      /\ timer' \in {"none", "months", "later", "earlier"} /\ combo' \in Lists
  BY <1>1, <1>7 DEF Shape, Released
<1>9. (combo' # NoCombo \/ timer' # "none") => act' # NoEl
  BY <1>1 DEF ListWhilePressed, Released
<1> QED BY <1>1, <1>3, <1>4, <1>5, <1>6, <1>8, <1>9, StepIInv

\* Escape, or a click elsewhere.
LEMMA CallCloseHandlerIInv ==
  ASSUME IInv, CallCloseHandler
  PROVE  IInv'
<1>1. /\ Shown /\ Quiet /\ cal' = Hide(cal) /\ HideShowCovered
      /\ field' = field /\ typed' = typed /\ act' = act /\ timer' = timer /\ combo' = combo
  BY DEF CallCloseHandler
<1>2. field' \in [Fields -> Texts] /\ typed' \subseteq Fields
  BY <1>1 DEF IInv, Shape
<1> QED BY <1>1, <1>2, HideIInv

\* The enter key writes the field and closes.
LEMMA KeyEnterIInv ==
  ASSUME IInv, KeyEnter
  PROVE  IInv'
<1>1. /\ Shape /\ Shown /\ Quiet /\ CallHandler(cal) /\ cal' = Hide(cal) /\ HideShowCovered
      /\ act' = act /\ timer' = timer /\ combo' = combo
  BY DEF KeyEnter, IInv
<1>2. cal \in Calendars
  BY <1>1, NotHidden DEF Shown
<1>3. field' \in [Fields -> Texts] /\ typed' \subseteq Fields
  BY <1>1, <1>2, HandlerFacts
<1> QED BY <1>1, <1>3, HideIInv

\* A step that leaves the calendar alone.
LEMMA SameCalIInv ==
  ASSUME IInv, Quiet, cal' = cal, field' = field /\ typed' = typed, slot' = slot \/ (Shown /\ HideShowCovered),
         act' = NoEl \/ act' \in Els,
         act'.kind = "day" => act'.date = DateAt(cal, act'.pos) \/ ~Enabled(cal, act'.pos),
         timer' \in {"none", "months", "later", "earlier"}, combo' \in Lists,
         (combo' # NoCombo \/ timer' # "none") => act' # NoEl
  PROVE  IInv'
<1>1. Shape /\ LiveInv /\ SlotInv /\ ClickedIsEnabled
  BY DEF IInv
<1>2. slot' \in {"none", "show", "cover"} /\ (slot' = "show" => khtml = TRUE /\ cal'.vis = "asked")
  BY <1>1, CoverFacts DEF SlotInv, Shape
<1>3. (cal' = NoCalendar \/ cal' \in Calendars) /\ field' \in [Fields -> Texts] /\ typed' \subseteq Fields
  BY <1>1 DEF Shape
<1>4. cal'.vis # "hidden" => Agrees(cal') /\ (cal'.of \notin typed' => StandsFor(field'[cal'.of], cal'.date))
  BY <1>1 DEF LiveInv
<1>5. cal'.clicked => ~GetDateStatus(cal'.date)
  BY <1>1 DEF ClickedIsEnabled
<1> QED BY <1>1, <1>2, <1>3, <1>4, <1>5, StepIInv

\* What can be pressed.
LEMMA ElementsFacts ==
  ASSUME Shape, NEW el \in Elements
  PROVE  /\ Shown /\ el \in Els /\ el # NoEl
         /\ el.kind = "day" => el.date = DateAt(cal, el.pos)
<1>1. Shown /\ ((el \in DaysToPress /\ ~GetDateStatus(el.date)) \/ el \in Buttons)
  BY DEF Elements
<1>2. cal \in Calendars
  BY <1>1, NotHidden DEF Shown
<1>3. CASE el \in DaysToPress /\ ~GetDateStatus(el.date)
  <2>1. PICK p \in 0..41 : el = Cell(p) /\ IsDate(el.date)
    BY <1>3 DEF DaysToPress
  <2> DEFINE D == DateAt(cal, p)
  <2>2. el = [kind |-> "day", pos |-> p, nav |-> 0, date |-> D]
    BY <2>1 DEF Cell, DayEl
  <2> HIDE DEF D
  <2>3. el.date = D /\ el.pos = p /\ el.kind = "day"
    BY <2>2
  <2>4. D \in Dates
    BY <1>2, <2>1, <2>3, CellFacts DEF D
  <2>5. el \in DayEls
    BY <1>3, <2>2, <2>3, <2>4 DEF DayEls
  <2>6. el # NoEl
    BY <2>3 DEF NoEl
  <2> QED BY <1>1, <2>3, <2>5, <2>6 DEF D, Els
<1>4. CASE el \in Buttons
  <2>1. el \in NavEls \cup WeekdayEls \cup OtherEls
    <3>1. CASE el \in {NavEl(k) : k \in -2..2}
      BY <3>1 DEF NavEl, NavEls
    <3>2. CASE el \in {[NoEl EXCEPT !.kind = "weekday", !.nav = f] : f \in FirstDays}
      <4>1. PICK f \in 0..6 : el = [NoEl EXCEPT !.kind = "weekday", !.nav = f]
        BY <3>2, InputAssumption
      <4>2. el = [kind |-> "weekday", pos |-> 0, nav |-> f, date |-> NoDate]
        BY <4>1 DEF NoEl
      <4> QED BY <4>2 DEF WeekdayEls
    <3>3. CASE el \in {[NoEl EXCEPT !.kind = k] : k \in {"close", "title"}}
      <4>1. PICK k \in {"close", "title"} : el = [NoEl EXCEPT !.kind = k]
        BY <3>3
      <4>2. el = [kind |-> k, pos |-> 0, nav |-> 0, date |-> NoDate]
        BY <4>1 DEF NoEl
      <4> QED BY <4>2 DEF OtherEls
    <3> QED BY <1>4, <3>1, <3>2, <3>3 DEF Buttons
  <2>2. el.kind \in {"nav", "weekday", "close", "title"}
    BY <2>1 DEF NavEls, WeekdayEls, OtherEls
  <2>3. el # NoEl
    BY <2>2 DEF NoEl
  <2> QED BY <1>1, <2>1, <2>2, <2>3 DEF Els
<1> QED BY <1>1, <1>3, <1>4

\* What is pressed is an element of the grid on display.
LEMMA DayMouseDownIInv ==
  ASSUME IInv, NEW el \in Elements, DayMouseDown(el)
  PROVE  IInv'
<1>1. /\ Shape /\ Quiet /\ cal' = cal /\ field' = field /\ typed' = typed /\ combo' = combo /\ slot' = slot /\ act' = el
      /\ timer' = IF el.kind # "nav" \/ el.nav = 0 THEN "none"
                  ELSE CASE el.nav = 2 -> "later" [] el.nav = -2 -> "earlier" [] OTHER -> "months"
  BY DEF IInv, DayMouseDown
<1>2. el \in Els /\ el # NoEl /\ (el.kind = "day" => el.date = DateAt(cal, el.pos))
  BY <1>1, ElementsFacts
<1>3. timer' \in {"none", "months", "later", "earlier"}
  BY <1>1
<1>4. combo' \in Lists
  BY <1>1 DEF Shape
<1> QED BY <1>1, <1>2, <1>3, <1>4, SameCalIInv

\* The time-out shows a list only while the button is held.
LEMMA ShowComboIInv ==
  ASSUME IInv, ShowCombo
  PROVE  IInv'
<1> DEFINE years == {cal.date.y + (IF timer = "later" THEN 1 ELSE -1) * (2 * i + 1) : i \in 0..11}
                      \cap MinYear..MaxYear
<1>1. /\ Shape /\ PressedCell /\ ListWhilePressed /\ timer # "none" /\ timer' = "none"
      /\ combo' = (IF timer = "months" THEN [kind |-> "months", years |-> {}]
                   ELSE IF years = {} THEN combo ELSE [kind |-> "years", years |-> years])
      /\ cal' = cal /\ field' = field /\ typed' = typed /\ slot' = slot /\ act' = act /\ Quiet
  BY DEF IInv, ShowCombo
<1>2. years \in SUBSET (MinYear..MaxYear)
  OBVIOUS
<1> HIDE DEF years
<1>3. combo' \in Lists
  BY <1>1, <1>2 DEF Shape, Lists
<1>4. act' # NoEl /\ (act' = NoEl \/ act' \in Els)
  BY <1>1 DEF ListWhilePressed, Shape
<1>5. act'.kind = "day" => act'.date = DateAt(cal, act'.pos) \/ ~Enabled(cal, act'.pos)
  BY <1>1 DEF PressedCell
<1> QED BY <1>1, <1>3, <1>4, <1>5, SameCalIInv

\* The element is let go.
LEMMA ReleasedFacts ==
  ASSUME Released
  PROVE  /\ act' = NoEl /\ act'.kind # "day" /\ timer' = "none" /\ combo' = NoCombo
         /\ combo' \in Lists /\ timer' \in {"none", "months", "later", "earlier"}
  BY DEF Released, NoEl, NoCombo, Lists


\* setFirstDayOfWeek.
LEMMA FirstDayFacts ==
  ASSUME Agrees(cal), NEW f \in 0..6
  PROVE  LET R == SetFirstDayOfWeek(f)
         IN  Agrees(R) /\ R.of = cal.of /\ R.vis = cal.vis /\ R.date = cal.date
<1> DEFINE S == Init_(cal, f, cal.date)
           R == [S EXCEPT !.head = f]
<1>1. cal \in Raw /\ cal.date \in Dates /\ [cal EXCEPT !.clicked = FALSE] = cal /\ cal.clicked = FALSE
  BY CalendarsRaw DEF Agrees, Calendars
<1>2. InRange(cal.date) = cal.date
  BY <1>1, InRangeSame
<1>3. Inited(S, cal, f, cal.date)
  BY <1>1, <1>2, InitFacts
<1>4. SetFirstDayOfWeek(f) = R
  BY <1>1 DEF SetFirstDayOfWeek
<1> HIDE DEF S
<1>5. S \in Calendars
  BY <1>3 DEF Inited
<1>6. /\ R \in Calendars /\ R.head = f /\ R.of = S.of /\ R.vis = S.vis /\ R.date = S.date /\ R.cur = S.cur
      /\ R.fdow = S.fdow /\ R.clicked = S.clicked /\ R.shown = S.shown /\ R.first = S.first
      /\ R.ch = S.ch /\ R.hour = S.hour /\ R.edited = S.edited
  BY <1>5 DEF Calendars
<1> HIDE DEF R
<1>7. Agrees(R)
  BY <1>1, <1>3, <1>6 DEF Inited, Agrees, CellOf
<1> QED BY <1>3, <1>4, <1>6, <1>7 DEF Inited

\* cellClick: a day closes the calendar, every other element leaves one that
\* agrees with its date.
LEMMA MouseUpOnElementIInv ==
  ASSUME IInv, MouseUpOnElement
  PROVE  IInv'
<1>1. Shape /\ LiveInv /\ SlotInv /\ Shown /\ act # NoEl /\ Released /\ Quiet
  BY DEF IInv, MouseUpOnElement
<1>2. /\ act' = NoEl /\ act'.kind # "day" /\ timer' = "none" /\ combo' = NoCombo
      /\ combo' \in Lists /\ timer' \in {"none", "months", "later", "earlier"}
  BY <1>1, ReleasedFacts
<1>3. Agrees(cal) /\ cal \in Calendars
  BY <1>1 DEF LiveInv, Shown, Agrees
<1>4. act \in Els
  BY <1>1 DEF Shape
<1>5. CASE act.kind = "day"
  <2> DEFINE C == [cal EXCEPT !.date = act.date, !.cur = act.pos, !.clicked = TRUE]
  <2>1. Select(C)
    BY <1>5 DEF MouseUpOnElement, DayClick
  <2>2. act.date \in Dates /\ act.pos \in 0..41 /\ ~GetDateStatus(act.date)
    BY <1>4, <1>5 DEF Els, DayEls, NavEls, WeekdayEls, OtherEls
  <2>3. C \in Calendars /\ C.clicked = TRUE /\ C.date = act.date
    BY <1>3, <2>2 DEF Calendars
  <2> HIDE DEF C
  <2>4. cal' = [C EXCEPT !.vis = "hidden"] /\ CallHandler(C) /\ HideShowCovered
    BY <2>1, <2>3 DEF Select, Handled, Hide
  <2>5. field' \in [Fields -> Texts] /\ typed' \subseteq Fields
    BY <1>1, <2>3, <2>4, HandlerFacts
  <2>6. cal' \in Calendars /\ cal'.vis = "hidden" /\ cal'.date = act.date
    BY <2>3, <2>4, VisFacts
  <2>7. slot' \in {"none", "show", "cover"} /\ slot' # "show"
    BY <1>1, <2>4, CoverFacts
  <2> QED BY <1>1, <1>2, <2>2, <2>5, <2>6, <2>7, StepIInv
<1>6. CASE act.kind = "weekday"
  <2> DEFINE C == SetFirstDayOfWeek(act.nav)
  <2>1. cal' = C /\ UNCHANGED <<field, typed, slot>>
    BY <1>6 DEF MouseUpOnElement
  <2>2. act.nav \in 0..6
    BY <1>4, <1>6 DEF Els, DayEls, NavEls, WeekdayEls, OtherEls
  <2>3. Agrees(C) /\ C.of = cal.of /\ C.vis = cal.vis /\ C.date = cal.date
    BY <1>3, <2>2, FirstDayFacts
  <2> HIDE DEF C
  <2> QED BY <1>1, <1>2, <2>1, <2>3, MovedIInv
<1>7. CASE act.kind = "close"
  <2>1. cal' = Hide(cal) /\ field' = field /\ typed' = typed /\ HideShowCovered
    BY <1>7 DEF MouseUpOnElement
  <2>2. field' \in [Fields -> Texts] /\ typed' \subseteq Fields
    BY <1>1, <2>1 DEF Shape
  <2> QED BY <1>1, <2>1, <2>2, HideIInv
<1>8. CASE act.kind = "title"
  <2>1. cal' = cal /\ field' = field /\ typed' = typed /\ HideShowCovered
    BY <1>8 DEF MouseUpOnElement
  <2> QED BY <1>1, <1>2, <2>1, SameCalIInv
<1>9. CASE act.kind = "nav"
  <2> DEFINE C == CellClickNav(act.nav)
  <2>1. IF C.date = cal.date THEN cal' = C /\ UNCHANGED <<field, typed, slot>> ELSE Select(C)
    BY <1>9 DEF MouseUpOnElement
  <2>2. act.nav \in -2..2
    BY <1>4, <1>9 DEF Els, DayEls, NavEls, WeekdayEls, OtherEls
  <2>3. Agrees(C) /\ C.of = cal.of /\ C.vis = cal.vis
    BY <1>3, <2>2, CellClickNavFacts
  <2> HIDE DEF C
  <2> QED BY <1>1, <1>2, <2>1, <2>3, MovedIInv
<1>10. act.kind \in {"day", "weekday", "close", "title", "nav"}
  BY <1>4 DEF Els, DayEls, NavEls, WeekdayEls, OtherEls
<1> QED BY <1>5, <1>6, <1>7, <1>8, <1>9, <1>10

\* The button is let go elsewhere.
LEMMA MouseUpElsewhereIInv ==
  ASSUME IInv, MouseUpElsewhere
  PROVE  IInv'
<1>1. /\ Shape /\ LiveInv /\ SlotInv /\ ClickedIsEnabled /\ Released /\ Quiet /\ cal' = cal
      /\ field' = field /\ typed' = typed
      /\ HideShowCovered \/ slot' = slot
  BY DEF IInv, MouseUpElsewhere
<1>2. /\ act' = NoEl /\ act'.kind # "day" /\ timer' = "none" /\ combo' = NoCombo
      /\ combo' \in Lists /\ timer' \in {"none", "months", "later", "earlier"}
  BY <1>1, ReleasedFacts
<1>3. slot' \in {"none", "show", "cover"} /\ (slot' = "show" => khtml = TRUE /\ cal'.vis = "asked")
  BY <1>1, CoverFacts DEF SlotInv, Shape
<1>4. (cal' = NoCalendar \/ cal' \in Calendars) /\ field' \in [Fields -> Texts] /\ typed' \subseteq Fields
  BY <1>1 DEF Shape
<1>5. cal'.vis # "hidden" => Agrees(cal') /\ (cal'.of \notin typed' => StandsFor(field'[cal'.of], cal'.date))
  BY <1>1 DEF LiveInv
<1>6. cal'.clicked => ~GetDateStatus(cal'.date)
  BY <1>1 DEF ClickedIsEnabled
<1> QED BY <1>1, <1>2, <1>3, <1>4, <1>5, <1>6, StepIInv

\* A date that is set from a list.
LEMMA PickedIInv ==
  ASSUME IInv, NEW D \in Dates, Picked(D)
  PROVE  IInv'
<1>1. Shape /\ LiveInv /\ Shown /\ Released /\ Quiet
  BY DEF IInv, Picked
<1>2. /\ act' = NoEl /\ act'.kind # "day" /\ timer' = "none" /\ combo' = NoCombo
      /\ combo' \in Lists /\ timer' \in {"none", "months", "later", "earlier"}
  BY <1>1, ReleasedFacts
<1>3. Agrees(cal) /\ cal \in Calendars
  BY <1>1 DEF LiveInv, Shown, Agrees
<1>4. CASE D = cal.date
  <2>1. cal' = cal /\ UNCHANGED <<field, typed, slot>>
    BY <1>4 DEF Picked
  <2> QED BY <1>1, <1>2, <1>3, <2>1, MovedIInv
<1>5. CASE D # cal.date
  <2> DEFINE C == SetDate(cal, D)
  <2>1. Select([C EXCEPT !.clicked = FALSE])
    BY <1>5 DEF Picked
  <2>2. Agrees(C) /\ C.of = cal.of /\ C.vis = cal.vis
    BY <1>3, SetDateFacts
  <2> HIDE DEF C
  <2>3. [C EXCEPT !.clicked = FALSE] = C
    BY <2>2 DEF Agrees, Calendars
  <2>4. Select(C)
    BY <2>1, <2>3
  <2> QED BY <1>1, <1>2, <2>2, <2>4, MovedIInv
<1> QED BY <1>4, <1>5

\* The date that a list leads to.
LEMMA PickedDates ==
  ASSUME Shape, Shown
  PROVE  /\ \A m \in 0..11 : /\ NativeSetMonth(cal.date, m) \in Dates
                             /\ NativeSetMonth(cal.date, m).m = m \/ cal.date.d > GetMonthDays(cal.date.y, m)
         /\ \A y \in combo.years : SetFullYear(cal.date, y) \in Dates
<1>1. cal \in Calendars /\ combo \in Lists
  BY NotHidden DEF Shown, Shape
<1>2. cal.date \in Dates /\ combo.years \in SUBSET (MinYear..MaxYear)
  BY <1>1 DEF Calendars, Lists
<1> DEFINE D == cal.date
<1>3. D \in Dates
  BY <1>2
<1> HIDE DEF D
<1>4. /\ D.y \in MinYear..MaxYear /\ D.m \in 0..11 /\ D.d \in 1..31 /\ D.h \in 0..23
      /\ D = [y |-> D.y, m |-> D.m, d |-> D.d, h |-> D.h]
  BY <1>3, DateFacts
<1>5. ASSUME NEW m \in 0..11
      PROVE  NativeSetMonth(D, m) \in Dates /\ (NativeSetMonth(D, m).m = m \/ D.d > GetMonthDays(D.y, m))
  <2> DEFINE F == [y |-> D.y, m |-> D.m, d |-> D.d, h |-> D.h]
  <2>1. NativeSetMonth(F, m) \in Dates /\ (NativeSetMonth(F, m).m = m \/ D.d > GetMonthDays(D.y, m))
    BY <1>4, NativeFacts
  <2>2. F = D
    BY <1>4
  <2> HIDE DEF F
  <2> QED BY <2>1, <2>2
<1>6. \A y \in combo.years : SetFullYear(D, y) \in Dates
  BY <1>2, <1>3, SetFullYearFacts
<1> QED BY <1>5, <1>6 DEF D

\* Both lists lead to dates of the range.
LEMMA ListIInv ==
  ASSUME IInv, (\E m \in Picks : MouseUpOnMonth(m)) \/ (\E y \in combo.years : MouseUpOnYear(y))
  PROVE  IInv'
<1>1. Shape
  BY DEF IInv
<1>2. CASE \E m \in Picks : MouseUpOnMonth(m)
  <2>1. PICK m \in 0..11 : Picked(NativeSetMonth(cal.date, m))
    BY <1>2, InputAssumption DEF MouseUpOnMonth, Months
  <2>2. NativeSetMonth(cal.date, m) \in Dates
    BY <1>1, <2>1, PickedDates DEF Picked
  <2> QED BY <2>1, <2>2, PickedIInv
<1>3. CASE \E y \in combo.years : MouseUpOnYear(y)
  <2>1. PICK y \in combo.years : Picked(SetFullYear(cal.date, y))
    BY <1>3 DEF MouseUpOnYear
  <2>2. SetFullYear(cal.date, y) \in Dates
    BY <1>1, <2>1, PickedDates DEF Picked
  <2> QED BY <2>1, <2>2, PickedIInv
<1> QED BY <1>2, <1>3


\* A button clicked by a key, while an element may be held by the mouse: the
\* cell held gets its new date.
LEMMA KeyNavIInv ==
  ASSUME IInv, NEW nav \in -2..2, KeyNav(nav)
  PROVE  IInv'
<1> DEFINE C == CellClickNav(nav)
<1>1. /\ Shape /\ LiveInv /\ ListWhilePressed /\ Shown /\ Quiet /\ timer' = timer /\ combo' = combo
      /\ act' = Recelled(act, C)
      /\ IF C.date = cal.date THEN cal' = C /\ UNCHANGED <<field, typed, slot>> ELSE Select(C)
  BY DEF IInv, KeyNav, NavClick
<1>2. Agrees(cal)
  BY <1>1 DEF LiveInv, Shown
<1>3. Agrees(C) /\ C.of = cal.of /\ C.vis = cal.vis
  BY <1>2, CellClickNavFacts
<1> HIDE DEF C
<1>4. C \in Calendars /\ (act = NoEl \/ act \in Els)
  BY <1>1, <1>3 DEF Agrees, Shape
<1>5. /\ act' = NoEl \/ act' \in Els
      /\ act' = NoEl <=> act = NoEl
      /\ act'.kind = "day" => act'.date = DateAt(C, act'.pos) \/ ~Enabled(C, act'.pos)
  BY <1>1, <1>4, RecelledFacts
<1>6. timer' \in {"none", "months", "later", "earlier"} /\ combo' \in Lists
  BY <1>1 DEF Shape
<1>7. (combo' # NoCombo \/ timer' # "none") => act' # NoEl
  BY <1>1, <1>5 DEF ListWhilePressed
<1> QED BY <1>1, <1>3, <1>5, <1>6, <1>7, MovedIInv

\* A day of the grid becomes the date.
LEMMA DayOfGrid ==
  ASSUME NEW C, Agrees(C), NEW p \in 0..41, Enabled(C, p)
  PROVE  LET E == [C EXCEPT !.date = DateAt(C, p), !.cur = p]
         IN  /\ Agrees(E) /\ SameGrid(E, C) /\ E.of = C.of /\ E.vis = C.vis
             /\ E.date = DateAt(C, p) /\ E.shown = C.shown
<1> DEFINE D == DateAt(C, p)
           E == [C EXCEPT !.date = D, !.cur = p]
<1>1. C \in Calendars /\ IsDate(D)
  BY DEF Agrees, Enabled
<1>2. /\ D \in Dates /\ D.y = C.shown[1] /\ D.m = C.shown[2] /\ D.d = p - C.first + 1 /\ D.h = C.ch
  BY <1>1, CellFacts
<1> HIDE DEF D
<1>3. E \in Calendars
  BY <1>1, <1>2 DEF Calendars
<1>4. /\ E.of = C.of /\ E.date = D /\ E.clicked = C.clicked /\ E.shown = C.shown /\ E.first = C.first
      /\ E.fdow = C.fdow /\ E.head = C.head /\ E.cur = p /\ E.ch = C.ch /\ E.hour = C.hour
      /\ E.edited = C.edited /\ E.vis = C.vis
  BY <1>1 DEF Calendars
<1> HIDE DEF E
<1>5. C.first \in 0..6 /\ C.shown = <<C.date.y, C.date.m>>
  BY <1>1 DEF Agrees, Calendars
<1>6. D.y = C.date.y /\ D.m = C.date.m
  BY <1>2, <1>5
<1>7. E.cur = CellOf(E, E.date)
  BY <1>2, <1>4, <1>5 DEF CellOf
<1>8. Agrees(E)
  BY <1>2, <1>3, <1>4, <1>6, <1>7 DEF Agrees
<1> QED BY <1>4, <1>8 DEF E, D, SameGrid

\* An arrow key looks up the day in the month on display or, if it is not there,
\* in the one before or after.
LEMMA ArrowLooksUp ==
  ASSUME NEW step, KeyArrow(step)
  PROVE  LET i == cal.date.d + step
             inside == i \in DOMAIN Ar_days(cal)
             C == IF inside THEN cal ELSE CellClickNav(IF step < 0 THEN -1 ELSE 1)
             j == IF inside THEN i ELSE IF step < 0 THEN GetMonthDays(C.date.y, C.date.m) ELSE 1
         IN  LookUp(C, Ar_days(C), j)
<1> DEFINE i == cal.date.d + step
           N == CellClickNav(IF step < 0 THEN -1 ELSE 1)
           k == IF step < 0 THEN GetMonthDays(N.date.y, N.date.m) ELSE 1
<1>1. \E days \in {Ar_days(cal)} :
         IF i \in DOMAIN days THEN LookUp(cal, days, i)
         ELSE \E others \in {Ar_days(N)} : LookUp(N, others, k)
  BY Zenon DEF KeyArrow
<1>2. IF i \in DOMAIN Ar_days(cal) THEN LookUp(cal, Ar_days(cal), i)
      ELSE LookUp(N, Ar_days(N), k)
  BY <1>1, Zenon
<1>3. CASE i \in DOMAIN Ar_days(cal)
  BY <1>2, <1>3
<1>4. CASE i \notin DOMAIN Ar_days(cal)
  BY <1>2, <1>4
<1> QED BY <1>3, <1>4

\* An arrow key: the month C that is looked at, and the calendar E that is left.
LEMMA ArrowFacts ==
  ASSUME IInv, NEW step \in {-7, -1, 1, 7}, KeyArrow(step)
  PROVE  \E C, E : /\ Agrees(C) /\ Agrees(E) /\ SameGrid(E, C) /\ E.of = cal.of /\ E.vis = cal.vis
                   /\ act' = Recelled(act, C)
                   /\ Select(E) \/ (E.date = cal.date /\ cal' = E /\ UNCHANGED <<field, typed, slot>>)
<1> DEFINE i == cal.date.d + step
           inside == i \in DOMAIN Ar_days(cal)
           C == IF inside THEN cal ELSE CellClickNav(IF step < 0 THEN -1 ELSE 1)
           j == IF inside THEN i ELSE IF step < 0 THEN GetMonthDays(C.date.y, C.date.m) ELSE 1
           days == Ar_days(C)
           E == [C EXCEPT !.date = DateAt(C, days[j]), !.cur = days[j]]
<1>1. /\ Shown /\ LiveInv /\ act' = Recelled(act, C)
      /\ CASE j \in DOMAIN days -> Select(E)
           [] j \notin DOMAIN days /\ C.date # cal.date -> Select(C)
           [] j \notin DOMAIN days /\ C.date = cal.date -> cal' = C /\ UNCHANGED <<field, typed, slot>>
  BY ArrowLooksUp DEF IInv, LookUp, KeyArrow
<1>2. Agrees(cal)
  BY <1>1 DEF LiveInv, Shown
<1>3. Agrees(C) /\ C.of = cal.of /\ C.vis = cal.vis
  <2>1. -1 \in -2..2 /\ 1 \in -2..2
    OBVIOUS
  <2> QED BY <1>2, <2>1, CellClickNavFacts
<1>4. \A k \in DOMAIN days : days[k] \in 0..41 /\ Enabled(C, days[k])
  BY ArDaysFacts
<1> HIDE DEF C, j, days
<1>5. CASE j \in DOMAIN days
  <2>1. days[j] \in 0..41 /\ Enabled(C, days[j])
    BY <1>4, <1>5
  <2>2. Agrees(E) /\ SameGrid(E, C) /\ E.of = C.of /\ E.vis = C.vis
    BY <1>3, <2>1, DayOfGrid
  <2>3. Select(E)
    BY <1>1, <1>5
  <2> HIDE DEF E
  <2> QED BY <1>1, <1>3, <2>2, <2>3
<1>6. CASE j \notin DOMAIN days
  <2>1. Select(C) \/ (C.date = cal.date /\ cal' = C /\ UNCHANGED <<field, typed, slot>>)
    BY <1>1, <1>6
  <2>2. SameGrid(C, C)
    BY DEF SameGrid
  <2> QED BY <1>1, <1>3, <2>1, <2>2
<1> QED BY <1>5, <1>6

\* The arrow keys, while an element may be held.
LEMMA KeyArrowIInv ==
  ASSUME IInv, NEW step \in {-7, -1, 1, 7}, KeyArrow(step)
  PROVE  IInv'
<1>1. Shape /\ ListWhilePressed /\ Shown /\ Quiet /\ timer' = timer /\ combo' = combo
  BY DEF IInv, KeyArrow
<1>2. PICK C, E : /\ Agrees(C) /\ Agrees(E) /\ SameGrid(E, C) /\ E.of = cal.of /\ E.vis = cal.vis
                  /\ act' = Recelled(act, C)
                  /\ Select(E) \/ (E.date = cal.date /\ cal' = E /\ UNCHANGED <<field, typed, slot>>)
  BY ArrowFacts
<1>3. C \in Calendars /\ (act = NoEl \/ act \in Els)
  BY <1>1, <1>2 DEF Agrees, Shape
<1>4. /\ act' = NoEl \/ act' \in Els
      /\ act' = NoEl <=> act = NoEl
      /\ act'.kind = "day" => act'.date = DateAt(C, act'.pos) \/ ~Enabled(C, act'.pos)
  BY <1>2, <1>3, RecelledFacts
<1>5. act'.kind = "day" => act'.date = DateAt(E, act'.pos) \/ ~Enabled(E, act'.pos)
  BY <1>2, <1>4, SameCells
<1>6. timer' \in {"none", "months", "later", "earlier"} /\ combo' \in Lists
  BY <1>1 DEF Shape
<1>7. (combo' # NoCombo \/ timer' # "none") => act' # NoEl
  BY <1>1, <1>4 DEF ListWhilePressed
<1> QED BY <1>1, <1>2, <1>4, <1>5, <1>6, <1>7, MovedIInv

\* onUpdateTime.
LEMMA UpdateTimeFacts ==
  ASSUME Agrees(cal), NEW h \in Hours
  PROVE  LET C == [cal EXCEPT !.date.h = h]
             R == [cal EXCEPT !.date.h = h, !.hour = h, !.edited = TRUE, !.clicked = FALSE]
         IN  C \in Calendars /\ C.of = cal.of /\ Agrees(R) /\ R.of = cal.of /\ R.vis = cal.vis /\ R.date = C.date
<1> DEFINE D == [cal.date EXCEPT !.h = h]
           C == [cal EXCEPT !.date.h = h]
           R == [cal EXCEPT !.date.h = h, !.hour = h, !.edited = TRUE, !.clicked = FALSE]
           S == [cal EXCEPT !.date = D, !.hour = h, !.edited = TRUE, !.clicked = FALSE]
<1>1. cal \in Calendars /\ cal.date \in Dates /\ h \in 0..23
  BY DEF Agrees, Calendars, Hours
<1>2. D \in Dates /\ D.y = cal.date.y /\ D.m = cal.date.m /\ D.d = cal.date.d
  BY <1>1, HourFacts
<1>3. GetDateStatus(D) = GetDateStatus(cal.date)
  BY <1>1, StatusHour
<1>4. C = [cal EXCEPT !.date = D]
  BY <1>1 DEF Calendars
<1>5. R = S
  BY <1>1 DEF Calendars
<1> HIDE DEF D
<1>6. [cal EXCEPT !.date = D] \in Calendars /\ [cal EXCEPT !.date = D].of = cal.of /\ [cal EXCEPT !.date = D].date = D
  BY <1>1, <1>2 DEF Calendars
<1>7. h \in Hours \cup {Blank} /\ TRUE \in BOOLEAN /\ FALSE \in BOOLEAN
  OBVIOUS
<1>8. S \in Calendars
  BY <1>1, <1>2, <1>7 DEF Calendars
<1>9. /\ S.of = cal.of /\ S.vis = cal.vis /\ S.date = D /\ S.clicked = FALSE /\ S.edited = TRUE
      /\ S.shown = cal.shown /\ S.first = cal.first /\ S.fdow = cal.fdow /\ S.head = cal.head /\ S.cur = cal.cur
  BY <1>1 DEF Calendars
<1> HIDE DEF S
<1>10. Agrees(S)
  BY <1>2, <1>3, <1>8, <1>9 DEF Agrees, CellOf
<1> HIDE DEF C, R
<1>11. C \in Calendars /\ C.of = cal.of /\ C.date = D
  BY <1>4, <1>6
<1> QED BY <1>5, <1>9, <1>10, <1>11 DEF C, R

\* A step with the time part, when no element is pressed.
LEMMA TimeIInv ==
  ASSUME IInv, Shown, Quiet, act = NoEl, UNCHANGED <<act, timer, combo, slot>>,
         Agrees(cal'), cal'.of = cal.of, cal'.vis = cal.vis,
         field' \in [Fields -> Texts] /\ typed' \subseteq Fields,
         cal.of \notin typed' => StandsFor(field'[cal.of], cal'.date)
  PROVE  IInv'
<1>1. Shape /\ SlotInv /\ ListWhilePressed
  BY DEF IInv
<1>2. cal' \in Calendars /\ cal'.clicked = FALSE
  BY DEF Agrees
<1>3. act' = NoEl /\ act'.kind # "day"
  BY DEF NoEl
<1>4. timer' \in {"none", "months", "later", "earlier"} /\ combo' \in Lists /\ slot' \in {"none", "show", "cover"}
  BY <1>1 DEF Shape
<1>5. slot' = "show" => khtml = TRUE /\ cal'.vis = "asked"
  BY <1>1 DEF SlotInv
<1>6. (combo' # NoCombo \/ timer' # "none") => act' # NoEl
  BY <1>1 DEF ListWhilePressed
<1> QED BY <1>1, <1>2, <1>3, <1>4, <1>5, <1>6, StepIInv

\* The time is edited: only the hour of the date changes.
LEMMA UpdateTimeIInv ==
  ASSUME IInv, Shown, Quiet, act = NoEl, UNCHANGED <<act, timer, combo, slot>>, NEW h \in Hours,
         OnUpdateTime(h)
  PROVE  IInv'
<1> DEFINE C == [cal EXCEPT !.date.h = h]
           R == [cal EXCEPT !.date.h = h, !.hour = h, !.edited = TRUE, !.clicked = FALSE]
<1>1. Shape /\ Agrees(cal) /\ CallHandler(C) /\ cal' = R
  BY DEF IInv, LiveInv, Shown, OnUpdateTime
<1>2. C \in Calendars /\ C.of = cal.of /\ Agrees(R) /\ R.of = cal.of /\ R.vis = cal.vis /\ R.date = C.date
  BY <1>1, UpdateTimeFacts
<1> HIDE DEF C, R
<1>3. field' \in [Fields -> Texts] /\ typed' \subseteq Fields /\ StandsFor(field'[C.of], C.date)
  BY <1>1, <1>2, HandlerFacts
<1> QED BY <1>1, <1>2, <1>3, TimeIInv

\* The hour is entered or refused.
LEMMA EditHourIInv ==
  ASSUME IInv, NEW h \in HourInputs \cup {Blank}, EditHour(h)
  PROVE  IInv'
<1>1. Shape /\ LiveInv /\ Shown /\ Quiet /\ act = NoEl /\ UNCHANGED <<act, timer, combo, slot>>
  BY DEF IInv, EditHour
<1>2. CASE h = Blank
  <2> DEFINE R == [cal EXCEPT !.hour = Blank]
  <2>1. /\ cal' = R /\ field' = field /\ typed' = typed /\ Agrees(cal)
        /\ cal.of \notin typed => StandsFor(field[cal.of], cal.date)
    BY <1>1, <1>2 DEF EditHour, LiveInv, Shown
  <2>2. cal \in Calendars
    BY <2>1 DEF Agrees
  <2>3. R \in Calendars
    BY <2>2 DEF Calendars
  <2>4. /\ R.of = cal.of /\ R.vis = cal.vis /\ R.date = cal.date /\ R.clicked = cal.clicked
        /\ R.edited = cal.edited /\ R.shown = cal.shown /\ R.first = cal.first /\ R.fdow = cal.fdow
        /\ R.head = cal.head /\ R.cur = cal.cur /\ R.ch = cal.ch /\ R.hour = Blank
    BY <2>2 DEF Calendars
  <2> HIDE DEF R
  <2>5. Agrees(R)
    BY <2>1, <2>3, <2>4 DEF Agrees, CellOf
  <2>6. field' \in [Fields -> Texts] /\ typed' \subseteq Fields
    BY <1>1, <2>1 DEF Shape
  <2> QED BY <1>1, <2>1, <2>4, <2>5, <2>6, TimeIInv
<1>3. CASE h # Blank
  <2>1. h \in Hours /\ OnUpdateTime(h)
    BY <1>3, InputAssumption DEF EditHour
  <2> QED BY <1>1, <2>1, UpdateTimeIInv
<1> QED BY <1>2, <1>3

\* The minutes are edited.
LEMMA EditMinuteIInv ==
  ASSUME IInv, EditMinute
  PROVE  IInv'
<1> DEFINE h == IF cal.hour = Blank THEN 0 ELSE cal.hour
<1>1. Shape /\ Shown /\ Quiet /\ act = NoEl /\ UNCHANGED <<act, timer, combo, slot>> /\ OnUpdateTime(h)
  BY DEF IInv, EditMinute
<1>2. cal \in Calendars
  BY <1>1, NotHidden DEF Shown
<1>3. h \in Hours
  BY <1>2 DEF Calendars, Hours
<1> HIDE DEF h
<1> QED BY <1>1, <1>3, UpdateTimeIInv

-----------------------------------------------------------------------------
(* The invariant.                                                          *)

\* The start of the page.
LEMMA InitIInv ==
  ASSUME Init
  PROVE  IInv
<1>1. Shape
  <2>1. \A D \in StartDates : DatePrint(D) \in Texts
    BY DatesAssumption DEF Texts
  <2>2. field \in [Fields -> Texts]
    BY <2>1 DEF Init
  <2>3. NoCombo \in Lists
    BY DEF NoCombo, Lists
  <2> QED BY <2>2, <2>3 DEF Init, Shape
<1>2. LiveInv /\ SlotInv /\ PressedCell /\ ClickedIsEnabled /\ ListWhilePressed
  BY DEF Init, LiveInv, SlotInv, PressedCell, ClickedIsEnabled, ListWhilePressed, NoCalendar, NoEl
<1> QED BY <1>1, <1>2 DEF IInv

\* Every step keeps the invariant.
LEMMA NextIInv ==
  ASSUME IInv, [Next]_vars
  PROVE  IInv'
<1>1. CASE UNCHANGED vars
  <2>1. /\ page' = page /\ khtml' = khtml /\ field' = field /\ typed' = typed /\ cal' = cal /\ act' = act
        /\ timer' = timer /\ combo' = combo /\ slot' = slot
    BY <1>1 DEF vars
  <2>2. Quiet /\ PressedCell /\ ListWhilePressed /\ Shape
    BY <2>1 DEF Quiet, IInv
  <2>3. act'.kind = "day" => act'.date = DateAt(cal, act'.pos) \/ ~Enabled(cal, act'.pos)
    BY <2>1, <2>2 DEF PressedCell
  <2>4. /\ act' = NoEl \/ act' \in Els
        /\ timer' \in {"none", "months", "later", "earlier"} /\ combo' \in Lists
        /\ (combo' # NoCombo \/ timer' # "none") => act' # NoEl
    BY <2>1, <2>2 DEF Shape, ListWhilePressed
  <2> QED BY <2>1, <2>2, <2>3, <2>4, SameCalIInv
<1>2. CASE Next
  BY <1>2, TriggerIInv, TypeFieldIInv, ContinuationIInv, CallCloseHandlerIInv, ShowComboIInv,
     DayMouseDownIInv, MouseUpOnElementIInv, MouseUpElsewhereIInv, ListIInv, KeyNavIInv, KeyArrowIInv,
     KeyEnterIInv, EditHourIInv, EditMinuteIInv DEF Next
<1> QED BY <1>1, <1>2

\* So it holds in every state.
LEMMA Inductive == Spec => []IInv
<1>1. Init => IInv
  BY InitIInv
<1>2. IInv /\ [Next]_vars => IInv'
  BY NextIInv
<1> QED BY <1>1, <1>2, PTL DEF Spec


\* A field and a date that it stands for.
LEMMA FieldFollows ==
  ASSUME IInv
  PROVE  FieldAgrees
  BY DEF IInv, LiveInv, StandsFor, FieldAgrees, Shown

\* The grid of an open calendar.
LEMMA GridFollows ==
  ASSUME IInv
  PROVE  TypeOK /\ ShownIsDate /\ HeaderMatches /\ HourShown
<1>1. Shape /\ LiveInv
  BY DEF IInv
<1>2. TypeOK
  <2>1. cal # NoCalendar => IsDate(cal.date) /\ cal.of \in Fields
    BY <1>1 DEF Shape, Calendars, Dates
  <2>2. cal.fdow \in 0..6 /\ cal.head \in 0..6 /\ cal.cur \in 0..41 /\ cal.vis \in {"hidden", "asked", "shown"}
    BY <1>1 DEF Shape, Calendars, NoCalendar
  <2>3. act.pos \in 0..41
    BY <1>1 DEF Shape, Els, DayEls, NavEls, WeekdayEls, OtherEls, NoEl
  <2>4. combo.kind \in {"none", "months", "years"}
    BY <1>1 DEF Shape, Lists
  <2> QED BY <1>1, <2>1, <2>2, <2>3, <2>4 DEF TypeOK, Shape
<1>3. ASSUME Shown
      PROVE  /\ cal \in Calendars /\ cal.date \in Dates /\ cal.shown = <<cal.date.y, cal.date.m>>
             /\ cal.first = Day1(cal.date.y, cal.date.m, cal.fdow) /\ cal.head = cal.fdow
             /\ cal.first \in 0..6 /\ cal.fdow \in 0..6
             /\ GetDateStatus(cal.date) \/ cal.cur = CellOf(cal, cal.date)
             /\ cal.edited \/ (cal.ch = cal.date.h /\ cal.hour \in {cal.ch, Blank})
  BY <1>1, <1>3 DEF LiveInv, Shown, Agrees, Calendars
<1>4. ShownIsDate
  <2> SUFFICES ASSUME Shown
               PROVE  /\ cal.shown = <<cal.date.y, cal.date.m>>
                      /\ ~GetDateStatus(cal.date) => DateAt(cal, cal.cur).d = cal.date.d
    BY DEF ShownIsDate
  <2>1. cal.date.d \in Int
    BY <1>3, DateFacts
  <2> QED BY <1>3, <2>1 DEF DateAt, CellOf
<1>5. HeaderMatches
  <2> DEFINE y == cal.shown[1]
             m == cal.shown[2]
  <2> SUFFICES ASSUME Shown, NEW d \in 1..GetMonthDays(y, m)
               PROVE  LET D == [y |-> y, m |-> m, d |-> d, h |-> 0]
                      IN  CellOf(cal, D) \in 0..41 /\ (CellOf(cal, D) + cal.head) % 7 = GetDay(D)
    BY DEF HeaderMatches
  <2>1. y = cal.date.y /\ m = cal.date.m
    BY <1>3
  <2>2. y \in Nat /\ y >= 1 /\ m \in 0..11
    BY <1>3, <2>1, DateFacts
  <2> HIDE DEF y, m
  <2>3. GetMonthDays(y, m) \in 28..31
    BY <2>2, MonthLength
  <2>4. d \in 1..31
    BY <2>3
  <2>5. (cal.first + d - 1 + cal.head) % 7 = GetDay([y |-> y, m |-> m, d |-> d, h |-> 0])
    <3>1. (Day1(y, m, cal.fdow) + d - 1 + cal.fdow) % 7 = GetDay([y |-> y, m |-> m, d |-> d, h |-> 0])
      BY <1>3, <2>2, <2>4, Day1Facts
    <3>2. cal.first = Day1(y, m, cal.fdow) /\ cal.head = cal.fdow
      BY <1>3, <2>1
    <3> QED BY <3>1, <3>2
  <2>6. CellOf(cal, [y |-> y, m |-> m, d |-> d, h |-> 0]) = cal.first + d - 1
    BY DEF CellOf
  <2>7. cal.first + d - 1 \in 0..41
    BY <1>3, <2>4
  <2> QED BY <2>5, <2>6, <2>7
<1>6. HourShown
  BY <1>3 DEF HourShown
<1> QED BY <1>2, <1>4, <1>5, <1>6

\* The Thursday of a week, and the year it is in.
LEMMA ThursdayFacts ==
  ASSUME NEW D \in Dates
  PROVE  LET T == Thursday(D)
             y == YearOfThursday(D)
         IN  /\ T \in Int /\ T % 7 = 4
             /\ y \in Nat /\ y >= 1 /\ DaysBefore(y) \in Nat /\ DaysBefore(y) < T
<1> DEFINE T == Thursday(D)
           z == DayNumber(D)
           In(y) == DaysBefore(y) < T /\ T <= DaysBefore(y + 1)
<1>1. D.y \in Nat /\ D.y >= 100 /\ D.m \in 0..11 /\ D.d \in 1..GetMonthDays(D.y, D.m)
  BY DateFacts
<1>2. z \in Nat /\ z = DaysBefore(D.y) + MonthStart(D.y, D.m) + D.d
  BY DayNumberFacts
<1>3. T = z - (((z % 7) + 6) % 7) + 3
  BY DEF Thursday, GetDay
<1>4. T \in Int /\ T % 7 = 4 /\ z - 3 <= T /\ T <= z + 3
  BY <1>2, <1>3
<1>5. /\ DaysBefore(D.y - 1) \in Nat /\ DaysBefore(D.y) \in Nat /\ DaysBefore(D.y + 1) \in Nat
      /\ DaysBefore(D.y + 2) \in Nat
      /\ DaysBefore(D.y - 1) + 365 <= DaysBefore(D.y) /\ DaysBefore(D.y + 1) + 365 <= DaysBefore(D.y + 2)
  <2>1. \A y \in Nat : y >= 1 =>
          /\ DaysBefore(y) \in Nat /\ DaysBefore(y + 1) \in Nat
          /\ DaysBefore(y) + 365 <= DaysBefore(y + 1)
    BY LeapYear
  <2>2. /\ D.y - 1 \in Nat /\ D.y - 1 >= 1 /\ D.y + 1 \in Nat /\ D.y + 1 >= 1 /\ D.y >= 1
        /\ (D.y - 1) + 1 = D.y /\ (D.y + 1) + 1 = D.y + 2
    BY <1>1
  <2>3. DaysBefore(D.y - 1) \in Nat /\ DaysBefore(D.y - 1) + 365 <= DaysBefore(D.y)
    BY <2>1, <2>2
  <2>4. DaysBefore(D.y + 2) \in Nat /\ DaysBefore(D.y + 1) + 365 <= DaysBefore(D.y + 2)
    BY <2>1, <2>2
  <2> QED BY <1>1, <2>1, <2>2, <2>3, <2>4
<1>6. DaysBefore(D.y) < z /\ z <= DaysBefore(D.y + 1)
  <2>1. MonthStart(D.y, D.m) \in Nat
    BY <1>1, MonthAfterMonth
  <2>2. GetMonthDays(D.y, D.m) = (IF D.m = 11 THEN DaysBefore(D.y + 1) - DaysBefore(D.y)
                                  ELSE MonthStart(D.y, D.m + 1)) - MonthStart(D.y, D.m)
    BY <1>1, MonthAfterMonth
  <2>3. D.m # 11 => MonthStart(D.y, D.m + 1) \in Nat /\ MonthStart(D.y, D.m + 1) <= 335
    <3>1. \A k \in 0..11 : MonthStart(D.y, k) <= 335
      BY DEF MonthStart
    <3>2. D.m # 11 => D.m + 1 \in 0..11
      BY <1>1
    <3> QED BY <1>1, <3>1, <3>2, MonthAfterMonth
  <2>4. DaysBefore(D.y + 1) - DaysBefore(D.y) >= 365
    BY <1>1 DEF DaysBefore
  <2> QED BY <1>1, <1>2, <1>5, <2>1, <2>2, <2>3, <2>4
<1> HIDE DEF T, z
<1>7. \E y \in {D.y - 1, D.y, D.y + 1} : In(y)
  <2>1. CASE T <= DaysBefore(D.y)
    <3>1. DaysBefore(D.y - 1) < T
      BY <1>2, <1>4, <1>5, <1>6
    <3>2. D.y - 1 + 1 = D.y
      BY <1>1
    <3> QED BY <2>1, <3>1, <3>2
  <2>2. CASE DaysBefore(D.y) < T /\ T <= DaysBefore(D.y + 1)
    BY <2>2
  <2>3. CASE DaysBefore(D.y + 1) < T
    <3>1. T <= DaysBefore(D.y + 2)
      BY <1>2, <1>4, <1>5, <1>6
    <3>2. D.y + 1 + 1 = D.y + 2
      BY <1>1
    <3> QED BY <2>3, <3>1, <3>2
  <2> QED BY <1>4, <1>5, <2>1, <2>2, <2>3
<1>8. YearOfThursday(D) = CHOOSE y \in {D.y - 1, D.y, D.y + 1} : In(y)
  BY Zenon DEF YearOfThursday, T
<1>9. YearOfThursday(D) \in {D.y - 1, D.y, D.y + 1} /\ In(YearOfThursday(D))
  BY <1>7, <1>8, Zenon
<1> QED BY <1>1, <1>4, <1>5, <1>9 DEF T

\* The Thursdays of a year up to one of them, counted.
LEMMA ThursdaysCounted ==
  ASSUME NEW B \in Nat, NEW T \in Int, B < T, T % 7 = 4
  PROVE  Cardinality({t \in B + 1 .. T : t % 7 = 4}) = (2 * (T - (B + 4)) + 7) \div 14 + 1
<1> DEFINE q == (T - B - 1) \div 7
           S == {t \in B + 1 .. T : t % 7 = 4}
           f == [k \in 0..q |-> T - 7 * k]
<1>1. q \in Nat /\ 7 * q <= T - B - 1 /\ T - B - 1 < 7 * q + 7
  OBVIOUS
<1>2. (2 * (T - (B + 4)) + 7) \div 14 = q
  OBVIOUS
<1> HIDE DEF q
<1>3. \A k \in 0..q : T - 7 * k \in S
  BY <1>1
<1>4. f \in [0..q -> S]
  BY <1>3
<1>5. \A a, b \in 0..q : f[a] = f[b] => a = b
  BY <1>1
<1>6. ASSUME NEW t \in S PROVE \E k \in 0..q : f[k] = t
  <2> DEFINE k == (T - t) \div 7
  <2>1. t \in Int /\ t % 7 = 4 /\ B + 1 <= t /\ t <= T
    OBVIOUS
  <2>2. T - t = 7 * k /\ k \in Nat
    BY <2>1
  <2> HIDE DEF k
  <2>3. k \in 0..q
    BY <1>1, <2>1, <2>2
  <2>4. f[k] = t
    BY <2>1, <2>2, <2>3
  <2> QED BY <2>3, <2>4
<1>7. f \in Injection(0..q, S)
  BY <1>4, <1>5 DEF Injection, IsInjective
<1>8. f \in Surjection(0..q, S)
  BY <1>4, <1>6 DEF Surjection
<1> HIDE DEF f, S
<1>9. ExistsBijection(0..q, S)
  BY <1>7, <1>8 DEF ExistsBijection, Bijection
<1>10. IsFiniteSet(0..q) /\ Cardinality(0..q) = q + 1
  <2>1. 0 \in Int /\ q \in Int /\ ~(0 > q)
    BY <1>1
  <2>2. IsFiniteSet(0..q) /\ Cardinality(0..q) = q - 0 + 1
    BY <2>1, FS_Interval
  <2> QED BY <2>1, <2>2
<1>11. Cardinality(S) = q + 1
  BY <1>9, <1>10, FS_Bijection
<1> QED BY <1>2, <1>11 DEF S

\* The length of the month and the number of the week.
LEMMA ArithmeticFollows ==
  ASSUME IInv
  PROVE  DateArithmetic
<1> SUFFICES ASSUME cal # NoCalendar PROVE DateArithmetic
  BY DEF DateArithmetic
<1> DEFINE D == cal.date
<1>1. D \in Dates
  BY DEF IInv, Shape, Calendars
<1> HIDE DEF D
<1>2. D.y \in Nat /\ D.y >= 1 /\ D.m \in 0..11
  BY <1>1, DateFacts
<1>3. GetMonthDays(D.y, D.m) = (IF D.m = 11 THEN DaysBefore(D.y + 1) - DaysBefore(D.y)
                                ELSE MonthStart(D.y, D.m + 1)) - MonthStart(D.y, D.m)
  BY <1>2, MonthAfterMonth
<1>4. /\ Thursday(D) \in Int /\ Thursday(D) % 7 = 4
      /\ DaysBefore(YearOfThursday(D)) \in Nat /\ DaysBefore(YearOfThursday(D)) < Thursday(D)
  BY <1>1, ThursdayFacts
<1>5. GetWeekNumber(D) = Cardinality({t \in DaysBefore(YearOfThursday(D)) + 1 .. Thursday(D) : t % 7 = 4})
  BY <1>4, ThursdaysCounted DEF GetWeekNumber
<1> QED BY <1>3, <1>5 DEF DateArithmetic, D

\* At every step the month, the cells, the header, the time part and the lists of
\* the calendar are those of its date, the pressed day is enabled when it is
\* clicked on, and getMonthDays and getWeekNumber are right: for any fields,
\* range of years, present date and input.
THEOREM CalendarIsSound == Spec => []GridInv
<1>1. ASSUME IInv PROVE GridInv
  <2>1. ClickedIsEnabled /\ ListWhilePressed
    BY <1>1 DEF IInv
  <2> QED BY <1>1, <2>1, GridFollows, ArithmeticFollows DEF GridInv
<1> QED BY <1>1, Inductive, PTL

\* The text in the field of an open calendar stands for its date, whatever was
\* typed before or is typed meanwhile, pressed or picked, unless the user has
\* typed since the calendar last read or wrote it.
THEOREM FieldHasTheDate == Spec => []FieldAgrees
<1>1. IInv => FieldAgrees
  BY FieldFollows
<1> QED BY <1>1, Inductive, PTL

\* A day held pressed has the date that its cell displays, unless the cell was
\* emptied or disabled since.
THEOREM PressedDayIsDisplayed == Spec => []PressedCell
<1>1. IInv => PressedCell
  BY DEF IInv
<1> QED BY <1>1, Inductive, PTL


-----------------------------------------------------------------------------
(* Where the buttons and keys lead.                                        *)

\* A button for years or months.
LEMMA NavMoves ==
  ASSUME IInv, NEW nav \in {-2, -1, 1, 2}, KeyNav(nav) \/ (act = NavEl(nav) /\ MouseUpOnElement)
  PROVE  cal'.date = CellClickDate(cal.date, nav) /\ cal.date \in Dates
<1> DEFINE C == CellClickNav(nav)
<1>1. /\ Shape /\ LiveInv /\ Shown
      /\ IF C.date = cal.date THEN cal' = C /\ UNCHANGED <<field, typed, slot>> ELSE Select(C)
  <2>1. CASE KeyNav(nav)
    BY <2>1 DEF IInv, KeyNav, NavClick
  <2>2. CASE act = NavEl(nav) /\ MouseUpOnElement
    <3>1. act.kind = "nav" /\ act.nav = nav
      BY <2>2 DEF NavEl
    <3> QED BY <2>2, <3>1 DEF IInv, MouseUpOnElement
  <2> QED BY <2>1, <2>2
<1>2. Agrees(cal) /\ nav \in -2..2 /\ nav # 0
  BY <1>1 DEF LiveInv, Shown
<1>3. Agrees(C) /\ C.of = cal.of /\ C.date = CellClickDate(cal.date, nav)
  BY <1>2, CellClickNavFacts
<1> HIDE DEF C
<1>4. cal' = C
  BY <1>1, <1>3, Moved
<1>5. cal.date \in Dates
  BY <1>2 DEF Agrees, Calendars
<1> QED BY <1>3, <1>4, <1>5

\* A month picked from the list.
LEMMA PickMoves ==
  ASSUME IInv, NEW m \in Picks, MouseUpOnMonth(m)
  PROVE  cal'.date.m = m \/ cal.date.d > GetMonthDays(cal.date.y, m)
<1> DEFINE D == NativeSetMonth(cal.date, m)
<1>1. Shape /\ LiveInv /\ Shown /\ Picked(D) /\ m \in 0..11
  BY InputAssumption DEF IInv, MouseUpOnMonth, Picked, Months
<1>2. D \in Dates /\ (D.m = m \/ cal.date.d > GetMonthDays(cal.date.y, m))
  BY <1>1, PickedDates
<1> HIDE DEF D
<1>3. Agrees(cal)
  BY <1>1 DEF LiveInv, Shown
<1>4. CASE D = cal.date
  BY <1>1, <1>2, <1>4 DEF Picked
<1>5. CASE D # cal.date
  <2> DEFINE C == SetDate(cal, D)
  <2>1. Select([C EXCEPT !.clicked = FALSE])
    BY <1>1, <1>5 DEF Picked
  <2>2. Agrees(C) /\ C.of = cal.of /\ C.date = D
    BY <1>2, <1>3, SetDateFacts
  <2> HIDE DEF C
  <2>3. [C EXCEPT !.clicked = FALSE] = C
    BY <2>2 DEF Agrees, Calendars
  <2>4. Select(C)
    BY <2>1, <2>3
  <2>5. cal' = C
    BY <1>1, <2>2, <2>4, Moved
  <2> QED BY <1>2, <2>2, <2>5
<1> QED BY <1>4, <1>5

\* Buttons, keys and the list of months.
LEMMA StepNavLands ==
  ASSUME IInv
  PROVE  NavStep
<1> DEFINE D == cal.date
           E == cal'.date
           Lands(nav, k) ==
             (KeyNav(nav) \/ (act = NavEl(nav) /\ MouseUpOnElement)) =>
               IF AtEnd(D, k) THEN E = D
               ELSE /\ MonthCount(E) = MonthCount(D) + k
                    /\ E.d = IF D.d > GetMonthDays(E.y, E.m) THEN GetMonthDays(E.y, E.m) ELSE D.d
<1>1. ASSUME NEW nav \in {-2, -1, 1, 2} PROVE Lands(nav, NavMonths(nav))
  <2> SUFFICES ASSUME KeyNav(nav) \/ (act = NavEl(nav) /\ MouseUpOnElement)
               PROVE  IF AtEnd(D, NavMonths(nav)) THEN E = D
                      ELSE /\ MonthCount(E) = MonthCount(D) + NavMonths(nav)
                           /\ E.d = IF D.d > GetMonthDays(E.y, E.m) THEN GetMonthDays(E.y, E.m) ELSE D.d
    OBVIOUS
  <2>1. E = CellClickDate(D, nav) /\ D \in Dates
    BY NavMoves
  <2> HIDE DEF D, E
  <2> QED BY <2>1, CellClickDateFacts
<1> HIDE DEF Lands
<1>2. NavMonths(-2) = -12 /\ NavMonths(-1) = -1 /\ NavMonths(1) = 1 /\ NavMonths(2) = 12
  BY DEF NavMonths
<1>3. Lands(-2, -12) /\ Lands(-1, -1) /\ Lands(1, 1) /\ Lands(2, 12)
  BY <1>1, <1>2
<1>4. \A m \in Picks : MouseUpOnMonth(m) => E.m = m \/ D.d > GetMonthDays(D.y, m)
  BY PickMoves
<1> QED BY <1>3, <1>4 DEF NavStep, Lands

\* A month before that of yesterday has no disabled day: the list of its days has
\* them all, in order.
LEMMA AllListed ==
  ASSUME NEW C, Agrees(C), AllEnabled(C)
  PROVE  LET max == GetMonthDays(C.date.y, C.date.m)
         IN  /\ DOMAIN Ar_days(C) = 1..max
             /\ \A j \in 1..max : /\ Ar_days(C)[j] = C.first + j - 1
                                  /\ Ar_days(C)[j] \in 0..41 /\ Enabled(C, Ar_days(C)[j])
                                  /\ DateAt(C, Ar_days(C)[j]).d = j
<1> DEFINE y == C.date.y
           m == C.date.m
           max == GetMonthDays(y, m)
           w == C.first
           K == {p \in 0..41 : Enabled(C, p)}
<1>1. C \in Calendars /\ C.date \in Dates /\ C.shown = <<y, m>> /\ w \in 0..6 /\ C.ch \in Hours
  BY DEF Agrees, Calendars
<1>2. y \in MinYear..MaxYear /\ y \in Nat /\ m \in 0..11
  BY <1>1, DateFacts
<1>3. max \in 28..31
  BY <1>2, MonthLength
<1>4. MonthCount(C.date) = 12 * y + m /\ 12 * y + m < MonthCount(Yesterday)
  BY DEF MonthCount, AllEnabled
<1>5. Today \in Dates /\ Yesterday \in Dates /\ DayNumber(Yesterday) = DayNumber(Today) - 1
  BY DatesAssumption
<1> HIDE DEF y, m, max, w
<1>6. \A p \in 0..41 : DateAt(C, p) = [y |-> y, m |-> m, d |-> p - w + 1, h |-> C.ch]
  BY <1>1 DEF DateAt, w
<1>7. ASSUME NEW p \in 0..41 PROVE Enabled(C, p) <=> p \in w .. w + max - 1
  <2> DEFINE F == DateAt(C, p)
  <2>1. F.y = y /\ F.m = m /\ F.d = p - w + 1 /\ F.h = C.ch
    BY <1>6
  <2> HIDE DEF F
  <2>2. IsDate(F) <=> p - w + 1 \in 1..max
    BY <1>1, <1>2, <2>1 DEF IsDate, Months, max
  <2>3. p - w + 1 \in 1..max <=> p \in w .. w + max - 1
    BY <1>1, <1>3
  <2>4. IsDate(F) => ~GetDateStatus(F)
    <3> SUFFICES ASSUME IsDate(F) PROVE ~GetDateStatus(F)
      OBVIOUS
    <3>1. F \in Dates
      BY <1>1, CellFacts DEF F
    <3>2. MonthCount(F) < MonthCount(Yesterday)
      BY <1>4, <2>1 DEF MonthCount
    <3>3. DayNumber(F) < DayNumber(Yesterday)
      BY <1>5, <3>1, <3>2, MonthsInOrder
    <3>4. DayNumber(F) \in Nat /\ DayNumber(Yesterday) \in Nat /\ DayNumber(Today) \in Nat
      BY <1>5, <3>1, DayNumberFacts
    <3>5. ~(DayNumber(F) > DayNumber(Yesterday)) /\ ~(DayNumber(F) > DayNumber(Today))
      BY <1>5, <3>3, <3>4
    <3> QED BY <3>5 DEF GetDateStatus, TodayNumber, YesterdayNumber
  <2> QED BY <2>2, <2>3, <2>4 DEF Enabled, F
<1>8. K = w .. w + max - 1
  <2>1. w .. w + max - 1 \subseteq 0..41
    BY <1>1, <1>3
  <2> QED BY <1>7, <2>1
<1>9. Cardinality(w .. w + max - 1) = max
  <2>1. w \in Int /\ w + max - 1 \in Int /\ ~(w > w + max - 1)
    BY <1>1, <1>3
  <2>2. Cardinality(w .. w + max - 1) = (w + max - 1) - w + 1
    BY <2>1, FS_Interval
  <2> QED BY <1>1, <1>3, <2>2
<1>10. /\ DOMAIN Ar_days(C) = 1..Cardinality(K)
       /\ \A j \in DOMAIN Ar_days(C) :
            /\ Ar_days(C)[j] \in 0..41 /\ Enabled(C, Ar_days(C)[j])
            /\ Cardinality(K \cap 0..Ar_days(C)[j]) = j
  BY ArDaysFacts
<1> HIDE DEF K
<1>11. DOMAIN Ar_days(C) = 1..max
  BY <1>8, <1>9, <1>10
<1>12. ASSUME NEW j \in 1..max
       PROVE  /\ Ar_days(C)[j] = w + j - 1 /\ Ar_days(C)[j] \in 0..41 /\ Enabled(C, Ar_days(C)[j])
              /\ DateAt(C, Ar_days(C)[j]).d = j
  <2> DEFINE p == Ar_days(C)[j]
  <2>1. p \in 0..41 /\ Enabled(C, p) /\ Cardinality(K \cap 0..p) = j
    BY <1>10, <1>11
  <2> HIDE DEF p
  <2>2. p \in w .. w + max - 1
    BY <1>7, <2>1
  <2>3. K \cap 0..p = w..p
    BY <1>1, <1>3, <1>8, <2>1, <2>2
  <2>4. Cardinality(w..p) = p - w + 1
    <3>1. w \in Int /\ p \in Int /\ ~(w > p)
      BY <1>1, <1>3, <2>2
    <3> QED BY <3>1, FS_Interval
  <2>5. p = w + j - 1
    <3>1. p - w + 1 = j
      BY <2>1, <2>3, <2>4
    <3>2. p \in Int /\ w \in Int /\ j \in Int
      BY <1>1, <1>3, <2>1
    <3> QED BY <3>1, <3>2
  <2>6. DateAt(C, p).d = p - w + 1
    BY <1>6, <2>1
  <2> QED BY <1>1, <2>1, <2>5, <2>6 DEF p
<1> QED BY <1>11, <1>12 DEF max, w, y, m

\* A month starts where the one before it ends, also at the end of a year.
LEMMA NextMonth ==
  ASSUME NEW D \in Dates, NEW E \in Dates, MonthCount(E) = MonthCount(D) + 1
  PROVE  DayNumber(E) - E.d = DayNumber(D) - D.d + GetMonthDays(D.y, D.m)
<1>1. /\ D.y \in Nat /\ D.y >= 1 /\ D.m \in 0..11 /\ D.d \in Int
      /\ E.y \in Nat /\ E.y >= 1 /\ E.m \in 0..11 /\ E.d \in Int
  BY DateFacts
<1>2. /\ DayNumber(D) = DaysBefore(D.y) + MonthStart(D.y, D.m) + D.d
      /\ DayNumber(E) = DaysBefore(E.y) + MonthStart(E.y, E.m) + E.d
      /\ DaysBefore(D.y) \in Nat /\ MonthStart(D.y, D.m) \in Nat
      /\ DaysBefore(E.y) \in Nat /\ MonthStart(E.y, E.m) \in Nat
  BY DayNumberFacts
<1>3. GetMonthDays(D.y, D.m) = (IF D.m = 11 THEN DaysBefore(D.y + 1) - DaysBefore(D.y)
                                ELSE MonthStart(D.y, D.m + 1)) - MonthStart(D.y, D.m)
  BY <1>1, MonthAfterMonth
<1>4. CASE D.m = 11
  <2>1. E.y = D.y + 1 /\ E.m = 0
    BY <1>1, <1>4 DEF MonthCount
  <2>2. MonthStart(E.y, 0) = 0
    BY DEF MonthStart
  <2> QED BY <1>1, <1>2, <1>3, <1>4, <2>1, <2>2
<1>5. CASE D.m # 11
  <2>1. E.y = D.y /\ E.m = D.m + 1
    BY <1>1, <1>5 DEF MonthCount
  <2> QED BY <1>1, <1>2, <1>3, <1>5, <2>1
<1> QED BY <1>4, <1>5


\* The date of a cell is one of the month on display.
LEMMA DayOfMonth ==
  ASSUME NEW C, Agrees(C), NEW p \in 0..41, Enabled(C, p)
  PROVE  /\ DateAt(C, p) \in Dates /\ MonthCount(DateAt(C, p)) = MonthCount(C.date)
         /\ DayNumber(DateAt(C, p)) - DateAt(C, p).d = DayNumber(C.date) - C.date.d
<1> DEFINE F == DateAt(C, p)
<1>1. C \in Calendars /\ IsDate(F) /\ C.date \in Dates /\ C.shown = <<C.date.y, C.date.m>>
  BY DEF Agrees, Enabled, Calendars
<1>2. F \in Dates /\ F.y = C.date.y /\ F.m = C.date.m
  <2>1. F \in Dates /\ F.y = C.shown[1] /\ F.m = C.shown[2]
    BY <1>1, CellFacts
  <2>2. C.shown[1] = C.date.y /\ C.shown[2] = C.date.m
    BY <1>1
  <2> QED BY <2>1, <2>2
<1> HIDE DEF F
<1>3. /\ DayNumber(F) = DaysBefore(F.y) + MonthStart(F.y, F.m) + F.d
      /\ DayNumber(C.date) = DaysBefore(C.date.y) + MonthStart(C.date.y, C.date.m) + C.date.d
      /\ DaysBefore(F.y) \in Nat /\ MonthStart(F.y, F.m) \in Nat
  BY <1>1, <1>2, DayNumberFacts
<1>4. F.d \in Int /\ C.date.d \in Int
  BY <1>1, <1>2, DateFacts
<1> QED BY <1>2, <1>3, <1>4 DEF F, MonthCount

\* An arrow key from a day of cal to the day E of the month before or after it,
\* or of its own.
LEMMA StepArrowLands ==
  ASSUME IInv
  PROVE  ArrowStep
<1> SUFFICES ASSUME NEW k \in {-7, -1, 1, 7}, cal' # cal, AllEnabled(cal), AllEnabled(cal'),
                    ~AtEnd(cal.date, IF k < 0 THEN -1 ELSE 1), KeyArrow(k)
             PROVE  \/ DayNumber(cal'.date) = DayNumber(cal.date) + k
                    \/ /\ k \in {-7, 7}
                       /\ cal'.shown # cal.shown
                       /\ DayNumber(cal'.date) - DayNumber(cal.date) \in IF k < 0 THEN -7..-1 ELSE 1..7
  BY DEF ArrowStep
<1> DEFINE D == cal.date
           i == D.d + k
           nav == IF k < 0 THEN -1 ELSE 1
           inside == i \in DOMAIN Ar_days(cal)
           C == IF inside THEN cal ELSE CellClickNav(nav)
           j == IF inside THEN i ELSE IF k < 0 THEN GetMonthDays(C.date.y, C.date.m) ELSE 1
           days == Ar_days(C)
           E == [C EXCEPT !.date = DateAt(C, days[j]), !.cur = days[j]]
<1>1. /\ Shape /\ LiveInv /\ Shown
      /\ CASE j \in DOMAIN days -> Select(E)
           [] j \notin DOMAIN days /\ C.date # cal.date -> Select(C)
           [] j \notin DOMAIN days /\ C.date = cal.date -> cal' = C /\ UNCHANGED <<field, typed, slot>>
  BY ArrowLooksUp DEF IInv, LookUp, KeyArrow
<1>2. Agrees(cal) /\ D \in Dates
  BY <1>1 DEF LiveInv, Shown, Agrees, Calendars
<1>3. nav \in {-1, 1} /\ nav \in -2..2 /\ nav # 0
  OBVIOUS
<1>4. Agrees(C) /\ C.of = cal.of /\ (~inside => C.date = CellClickDate(D, nav))
  BY <1>2, <1>3, CellClickNavFacts
<1>5. DOMAIN Ar_days(cal) = 1..GetMonthDays(D.y, D.m)
  BY <1>2, AllListed
<1>6. D.d \in 1..GetMonthDays(D.y, D.m) /\ GetMonthDays(D.y, D.m) \in 28..31 /\ DayNumber(D) \in Nat
  BY <1>2, DateFacts, MonthLength, DayNumberFacts
<1>7. /\ inside => C = cal /\ j = i
      /\ ~inside => j = IF k < 0 THEN GetMonthDays(C.date.y, C.date.m) ELSE 1
  OBVIOUS
<1>8. inside <=> i \in 1..GetMonthDays(D.y, D.m)
  BY <1>5
<1>9. ~AtEnd(D, nav)
  OBVIOUS
<1> HIDE DEF C, j, inside, nav
<1>10. \A q \in DOMAIN days : days[q] \in 0..41 /\ Enabled(C, days[q])
  BY ArDaysFacts
<1> HIDE DEF days
<1>11. ASSUME j \in DOMAIN days
       PROVE  /\ cal' = E /\ E.date = DateAt(C, days[j]) /\ E.shown = C.shown
              /\ E.date \in Dates /\ MonthCount(E.date) = MonthCount(C.date)
              /\ DayNumber(E.date) - E.date.d = DayNumber(C.date) - C.date.d
  <2>1. days[j] \in 0..41 /\ Enabled(C, days[j])
    BY <1>10, <1>11
  <2>2. Agrees(E) /\ E.of = C.of /\ E.date = DateAt(C, days[j]) /\ E.shown = C.shown
    BY <1>4, <2>1, DayOfGrid
  <2>3. Select(E)
    BY <1>1, <1>11
  <2>4. /\ DateAt(C, days[j]) \in Dates /\ MonthCount(DateAt(C, days[j])) = MonthCount(C.date)
        /\ DayNumber(DateAt(C, days[j])) - DateAt(C, days[j]).d = DayNumber(C.date) - C.date.d
    BY <1>4, <2>1, DayOfMonth
  <2> HIDE DEF E
  <2>5. cal' = E
    BY <1>1, <1>4, <2>2, <2>3, Moved
  <2> QED BY <2>2, <2>4, <2>5
<1>12. ASSUME j \notin DOMAIN days PROVE cal' = C
  <2>1. Select(C) \/ (C.date = cal.date /\ cal' = C /\ UNCHANGED <<field, typed, slot>>)
    BY <1>1, <1>12
  <2> QED BY <1>1, <1>4, <2>1, Moved
<1> HIDE DEF E
<1>13. AllEnabled(C)
  <2>1. MonthCount(cal'.date) = MonthCount(C.date)
    BY <1>11, <1>12
  <2> QED BY <2>1 DEF AllEnabled
<1>14. C.date \in Dates /\ C.shown = <<C.date.y, C.date.m>> /\ cal.shown = <<D.y, D.m>>
  BY <1>2, <1>4 DEF Agrees, Calendars
<1>15. /\ DOMAIN days = 1..GetMonthDays(C.date.y, C.date.m)
       /\ \A q \in 1..GetMonthDays(C.date.y, C.date.m) : DateAt(C, days[q]).d = q
  BY <1>4, <1>13, AllListed DEF days
<1>16. GetMonthDays(C.date.y, C.date.m) \in 28..31 /\ C.date.d \in Int /\ DayNumber(C.date) \in Nat
  BY <1>14, DateFacts, MonthLength, DayNumberFacts
<1>17. j \in DOMAIN days
  BY <1>5, <1>7, <1>8, <1>15, <1>16
<1>18. /\ cal' = E /\ E.date.d = j /\ E.shown = C.shown /\ E.date \in Dates
       /\ DayNumber(E.date) - j = DayNumber(C.date) - C.date.d /\ DayNumber(E.date) \in Nat
  BY <1>11, <1>15, <1>17, DayNumberFacts
<1>19. j \in Int
  BY <1>15, <1>16, <1>17
<1>20. CASE inside
  <2>1. C.date = D /\ j = i
    BY <1>7, <1>20
  <2> QED BY <1>6, <1>16, <1>18, <1>19, <2>1
<1>21. CASE ~inside
  <2>1. nav \in {-2, -1, 1, 2} /\ NavMonths(nav) = nav
    BY <1>3 DEF NavMonths
  <2>2. MonthCount(C.date) = MonthCount(D) + nav
    BY <1>2, <1>4, <1>9, <1>21, <2>1, CellClickDateFacts
  <2>3. cal'.shown # cal.shown
    <3>1. C.date.y \in Nat /\ C.date.m \in Int /\ D.y \in Nat /\ D.m \in Int
      BY <1>2, <1>14, DateFacts
    <3>2. C.date.y # D.y \/ C.date.m # D.m
      BY <1>3, <2>2, <3>1 DEF MonthCount
    <3> QED BY <1>14, <1>18, <3>2
  <2>4. CASE k < 0
    <3>1. nav = -1 /\ k \in {-7, -1}
      BY <2>4 DEF nav
    <3>2. j = GetMonthDays(C.date.y, C.date.m)
      BY <1>7, <1>21, <2>4
    <3>3. MonthCount(D) = MonthCount(C.date) + 1
      <4>1. MonthCount(D) \in Int
        BY <1>2, DateFacts DEF MonthCount
      <4> QED BY <2>2, <3>1, <4>1
    <3>4. DayNumber(D) - D.d = DayNumber(C.date) - C.date.d + j
      BY <1>2, <1>14, <3>2, <3>3, NextMonth
    <3>5. DayNumber(E.date) = DayNumber(D) - D.d
      BY <1>6, <1>16, <1>18, <1>19, <3>4
    <3>6. D.d + k < 1
      BY <1>6, <1>8, <1>21, <3>1
    <3> QED BY <1>6, <1>18, <2>3, <3>1, <3>5, <3>6
  <2>5. CASE ~(k < 0)
    <3>1. nav = 1 /\ k \in {1, 7}
      BY <2>5 DEF nav
    <3>2. j = 1
      BY <1>7, <1>21, <2>5
    <3>3. DayNumber(C.date) - C.date.d = DayNumber(D) - D.d + GetMonthDays(D.y, D.m)
      BY <1>2, <1>14, <2>2, <3>1, NextMonth
    <3>4. DayNumber(E.date) = DayNumber(D) - D.d + GetMonthDays(D.y, D.m) + 1
      BY <1>6, <1>16, <1>18, <3>2, <3>3
    <3>5. D.d + k > GetMonthDays(D.y, D.m)
      BY <1>6, <1>8, <1>21, <3>1
    <3> QED BY <1>6, <1>18, <2>3, <3>1, <3>4, <3>5
  <2> QED BY <2>4, <2>5
<1> QED BY <1>20, <1>21

\* The buttons for years and months, the list of months and the arrow keys lead
\* to the date they should, for any range of years and any present date.
THEOREM MovesLandRight == Spec => MovesLand
<1>1. ASSUME IInv, [Next]_vars PROVE [NavStep]_vars
  BY <1>1, StepNavLands
<1>2. ASSUME IInv, [Next]_vars PROVE [ArrowStep]_vars
  BY <1>2, StepArrowLands
<1>3. Spec => NavLands
  BY <1>1, InitIInv, NextIInv, PTL DEF Spec, NavLands
<1>4. Spec => ArrowLands
  BY <1>2, InitIInv, NextIInv, PTL DEF Spec, ArrowLands
<1> QED BY <1>3, <1>4 DEF MovesLand
=============================================================================
