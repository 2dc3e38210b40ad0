--------------------------- MODULE CalendarWidget ---------------------------
(***************************************************************************)
(* The popup calendar of the date fields (javascript/calendar.js and       *)
(* calendar-setup.js, as Date.jsp and schedulebackuprestore.jsp set it up: *)
(* 24 hours, single click, electric, days of other months not shown).      *)
(* The mouse button may be held while keys are pressed and timers fire, so *)
(* pressing and releasing it are separate steps.                           *)
(***************************************************************************)
EXTENDS CalendarDates, SequencesExt

CONSTANTS
  Fields,      \* the date fields of the page
  NowFields,   \* those with timeFormatOnToday = 0, the others have 1
  Today,       \* the present date and time
  Yesterday,   \* the limit of schedulebackuprestore.jsp
  StartDates,  \* dates that the server writes into the fields
  Typed,       \* texts that the user types, as sequences of numbers
  Days,        \* days of the month that the user clicks on
  Picks,       \* months that the user picks from the list
  FirstDays,   \* weekdays that the user makes the first of the week
  HourInputs,  \* hours that the user enters
  MaxEvents    \* bound on the number of clicks and keys

ASSUME DatesAssumption ==
  /\ {Today, Yesterday} \cup StartDates \subseteq Dates
  /\ DayNumber(Yesterday) = DayNumber(Today) - 1
ASSUME InputAssumption == Picks \subseteq Months /\ FirstDays \subseteq 0..6 /\ HourInputs \subseteq Hours

VARIABLES
  page,     \* which page: "date", "datetime" (with the time) or "restore"
  khtml,    \* is_khtml: continuations run from a timer
  field,    \* the texts in the fields
  typed,    \* the fields typed into since the calendar last read or wrote them
  cal,      \* window.calendar
  act,      \* activeDiv while the button is held (_C is set)
  timer,    \* the time-out of 250 ms that shows a list
  combo,    \* the list on display
  slot,     \* continuation_for_the_khtml_browser, while a timer is pending
  n         \* number of clicks and keys

vars == <<page, khtml, field, typed, cal, act, timer, combo, slot, n>>

NoDate == [y |-> 0, m |-> 0, d |-> 0, h |-> 0]
Blank == -1         \* an hour that was refused
NoEl == [kind |-> "none", pos |-> 0, nav |-> 0, date |-> NoDate]
NoCombo == [kind |-> "none", years |-> {}]
NoField == "no field"
NoCalendar ==
  [of |-> NoField, date |-> NoDate, shown |-> <<0, 0>>, first |-> 0, fdow |-> 0, head |-> 0, cur |-> 0,
   ch |-> 0, hour |-> 0, edited |-> FALSE, clicked |-> FALSE, vis |-> "hidden"]

DayEl(p, D) == [kind |-> "day", pos |-> p, nav |-> 0, date |-> D]
NavEl(k) == [kind |-> "nav", pos |-> 0, nav |-> k, date |-> NoDate]

\* dateStatusFunc of the pages: the days after the last one that can be
\* restored, or after today, but for those with its number in the month.
TodayNumber == DayNumber(Today)
YesterdayNumber == DayNumber(Yesterday)
GetDateStatus(D) ==
  LET restore == page = "restore"
  IN /\ DayNumber(D) > (IF restore THEN YesterdayNumber ELSE TodayNumber)
     /\ D.d # (IF restore THEN Yesterday.d ELSE Today.d)

\* print with the format of the page: the numbers of the text.
DatePrint(D) == <<D.y, D.m + 1, D.d>> \o (IF page = "datetime" THEN <<D.h>> ELSE <<>>)

\* parseDate: numbers in the places of the format, or else a guess by their
\* size.  create has set the present date, which stays if there is no date.
Century(y) == IF y >= 100 THEN y ELSE IF y > 29 THEN y + 1900 ELSE y + 2000
Guess(g, t) ==
  IF t <= 12 /\ g.m = -1 THEN [g EXCEPT !.m = t - 1]
  ELSE IF t > 31 /\ g.y = 0 THEN [g EXCEPT !.y = Century(t)]
  ELSE IF g.d = 0 THEN [g EXCEPT !.d = t] ELSE g
NewDate(y, m, d, h) == NativeSetMonth([y |-> y, m |-> 0, d |-> d, h |-> h], m)
ParseText(t, time) ==
  LET h == IF time /\ Len(t) > 3 THEN t[4] ELSE 0
      g == FoldLeft(Guess, [y |-> 0, m |-> -1, d |-> 0], t)
  IN IF Len(t) >= 3 /\ t[2] # 0 /\ t[3] # 0 THEN NewDate(Century(t[1]), t[2] - 1, t[3], h)
     ELSE IF g.m # -1 /\ g.d # 0 THEN NewDate(IF g.y = 0 THEN Today.y ELSE g.y, g.m, g.d, h)
     ELSE Today
ParseDate(t) == ParseText(t, page = "datetime")

\* The year brought into the range of the calendar.
InRange(D) ==
  IF D.y < MinYear THEN SetFullYear(D, MinYear) ELSE IF D.y > MaxYear THEN SetFullYear(D, MaxYear) ELSE D

\* The user types what stands for a date.
ASSUME TypedAssumption == \A t \in Typed, time \in BOOLEAN : InRange(ParseText(t, time)) \in Dates

-----------------------------------------------------------------------------
\* The grid of calendar C: the date in cell p, and the days that can be clicked
\* on (ar_days, in order).
DateAt(C, p) ==
  [y |-> C.shown[1], m |-> C.shown[2], d |-> p - C.first + 1, h |-> C.ch]
Enabled(C, p) == IsDate(DateAt(C, p)) /\ ~GetDateStatus(DateAt(C, p))
Ar_days(C) ==
  LET cells == {p \in 0..41 : Enabled(C, p)}
  IN [i \in 1..Cardinality(cells) |-> CHOOSE p \in cells : Cardinality(cells \cap 0..p) = i]
CellOf(C, D) == C.first + D.d - 1

\* Faulty variant: the cell selected before stays selected.
InitKeepsCell(C, fdow, D0) ==
  LET D == InRange(D0)
  IN [C EXCEPT !.fdow = fdow, !.date = D, !.shown = <<D.y, D.m>>, !.first = Day1(D.y, D.m, fdow),
               !.ch = D.h, !.hour = D.h, !.edited = FALSE]

\* _init: the grid of the month of the date, whose cells have its hour, the time
\* part, and the selected cell unless the date is disabled.
Init_(C, fdow, D0) ==
  LET D == InRange(D0)
      G == [C EXCEPT !.fdow = fdow, !.date = D, !.shown = <<D.y, D.m>>, !.first = Day1(D.y, D.m, fdow),
                     !.ch = D.h, !.hour = D.h, !.edited = FALSE]
  IN [G EXCEPT !.cur = IF GetDateStatus(D) THEN @ ELSE CellOf(G, D)]

EqualsTo(D, E) == D = E
SetDate(C, D) == IF EqualsTo(D, C.date) THEN C ELSE Init_(C, C.fdow, D)

\* Faulty variant: the pressed cell keeps its date.
RecelledNever(el, C) == el

\* What _init does to the pressed cell: its date changes only if there is a day
\* in the new grid that can be clicked on.
Recelled(el, C) ==
  IF el.kind = "day" /\ Enabled(C, el.pos) THEN [el EXCEPT !.date = DateAt(C, el.pos)] ELSE el

\* Faulty variant: the field is left alone unless a day was clicked on.
CallHandlerClicked(C) ==
  /\ field' = IF C.clicked THEN [field EXCEPT ![C.of] = DatePrint(C.date)] ELSE field
  /\ typed' = typed \ {C.of}

\* callHandler and onSelect (electric): the field gets the date, whatever the
\* user has typed there.  The onchange of Date.jsp, which may write the date of
\* the start field into the end field, is left out.
CallHandler(C) ==
  /\ field' = [field EXCEPT ![C.of] = DatePrint(C.date)]
  /\ typed' = typed \ {C.of}

\* hideShowCovered: the continuation of another call is replaced.
HideShowCovered == slot' = IF khtml THEN "cover" ELSE slot

Hide(C) == [C EXCEPT !.vis = "hidden"]

\* callHandler with a date that was clicked on also closes the calendar.
Handled(C) == IF C.clicked THEN Hide(C) ELSE C
Select(C) ==
  /\ CallHandler(C)
  /\ cal' = Handled(C)
  /\ IF C.clicked THEN HideShowCovered ELSE UNCHANGED slot

-----------------------------------------------------------------------------
\* The calendar after cellClick on a button: today (0), years and months.  The
\* date is set, and the handler called, only if it differs.
CellClickNav(nav) ==
  LET D == IF nav # 0 THEN CellClickDate(cal.date, nav)
           ELSE IF cal.of \in NowFields THEN Today ELSE [Today EXCEPT !.h = 0]
      C == [cal EXCEPT !.clicked = FALSE]
  IN IF nav = 0 /\ GetDateStatus(D) THEN C ELSE SetDate(C, D)

\* cellClick on a button, with the element el held by the mouse afterwards.
NavClick(nav, el) ==
  LET C == CellClickNav(nav)
  IN /\ IF C.date = cal.date THEN cal' = C /\ UNCHANGED <<field, typed, slot>> ELSE Select(C)
     /\ act' = Recelled(el, C)

\* setFirstDayOfWeek.
SetFirstDayOfWeek(f) == [Init_([cal EXCEPT !.clicked = FALSE], f, cal.date) EXCEPT !.head = f]

\* cellClick on a day: the date is that of the cell, and the calendar closes.
DayClick(el) == Select([cal EXCEPT !.date = el.date, !.cur = el.pos, !.clicked = TRUE])

-----------------------------------------------------------------------------
Shown == cal.vis = "shown"
Event == n < MaxEvents /\ n' = n + 1
Quiet == UNCHANGED <<page, khtml>>

Init ==
  /\ page \in {"date", "datetime", "restore"}
  /\ khtml \in BOOLEAN
  /\ field \in [Fields -> {DatePrint(D) : D \in StartDates}]
  /\ typed = {}
  /\ cal = NoCalendar
  /\ act = NoEl
  /\ timer = "none"
  /\ combo = NoCombo
  /\ slot = "none"
  /\ n = 0

\* The user types into a field, also while the calendar is open: _keyEvent
\* leaves all other keys to the browser.
TypeField(f, v) ==
  /\ Event
  /\ field' = [field EXCEPT ![f] = v]
  /\ typed' = typed \cup {f}
  /\ UNCHANGED <<cal, act, timer, combo, slot>>
  /\ Quiet

\* create: a new calendar, with the present date, for field f.
Create(f) == Init_([NoCalendar EXCEPT !.of = f], 0, Today)
Refresh(C) == Init_(C, C.fdow, C.date)

\* showAtElement: its continuation calls show, at once except on KHTML.
Show(C) == [C EXCEPT !.vis = "shown"]
ShowAtElement(C) == IF khtml THEN [C EXCEPT !.vis = "asked"] ELSE Show(C)

\* A click on the trigger of a field makes a new calendar and shows it.
Trigger(f) ==
  LET C == SetDate(Create(f), ParseDate(field[f]))
  IN /\ Event
     /\ ~Shown /\ act = NoEl
     /\ cal' = ShowAtElement(Refresh(C))
     /\ slot' = IF khtml THEN "show" ELSE slot
     /\ typed' = typed \ {f}
     /\ UNCHANGED <<field, act, timer, combo>>
     /\ Quiet

\* Faulty variant: the continuation is not given the calendar to show.
ContinuationCover ==
  /\ slot # "none"
  /\ slot' = "none"
  /\ UNCHANGED <<field, typed, cal, act, timer, combo, n>>
  /\ Quiet

\* The timer of 10 ms: show, which calls hideShowCovered, or the continuation
\* of hideShowCovered.
Continuation ==
  /\ slot # "none"
  /\ slot' = IF slot = "show" THEN "cover" ELSE "none"
  /\ cal' = IF slot = "show" THEN Show(cal) ELSE cal
  /\ UNCHANGED <<field, typed, act, timer, combo, n>>
  /\ Quiet

\* callCloseHandler: from a click elsewhere (_checkCalendar) or the escape key.
CallCloseHandler ==
  /\ Event
  /\ Shown
  /\ cal' = Hide(cal)
  /\ HideShowCovered
  /\ UNCHANGED <<field, typed, act, timer, combo>>
  /\ Quiet

\* dayMouseDown: on a day, a button, the close button (200), a weekday or the
\* title (300, dragging).  The buttons for years and months start a timer.
DayMouseDown(el) ==
  /\ Event
  /\ act' = el
  /\ timer' = IF el.kind # "nav" \/ el.nav = 0 THEN "none"
              ELSE CASE el.nav = 2 -> "later" [] el.nav = -2 -> "earlier" [] OTHER -> "months"
  /\ UNCHANGED <<field, typed, cal, combo, slot>>
  /\ Quiet

\* showMonthsCombo and showYearsCombo: every second year, from the next one.
ShowCombo ==
  LET years == {cal.date.y + (IF timer = "later" THEN 1 ELSE -1) * (2 * i + 1) : i \in 0..11}
                 \cap MinYear..MaxYear
  IN /\ timer # "none"
     /\ timer' = "none"
     /\ combo' = IF timer = "months" THEN [kind |-> "months", years |-> {}]
                 ELSE IF years = {} THEN combo ELSE [kind |-> "years", years |-> years]
     /\ UNCHANGED <<field, typed, cal, act, slot, n>>
     /\ Quiet

\* tableMouseUp: whatever it is over, the timer is stopped, the lists are
\* hidden and the element is let go.
Released == act' = NoEl /\ timer' = "none" /\ combo' = NoCombo

\* tableMouseUp over the element that was pressed: cellClick.
MouseUpOnElement ==
  /\ Shown /\ act # NoEl
  /\ Released
  /\ CASE act.kind = "day" -> DayClick(act)
       [] act.kind = "weekday" -> cal' = SetFirstDayOfWeek(act.nav) /\ UNCHANGED <<field, typed, slot>>
       [] act.kind = "close" -> cal' = Hide(cal) /\ UNCHANGED <<field, typed>> /\ HideShowCovered
       [] act.kind = "title" -> UNCHANGED <<field, typed, cal>> /\ HideShowCovered
       [] act.kind = "nav" ->
            LET C == CellClickNav(act.nav)
            IN IF C.date = cal.date THEN cal' = C /\ UNCHANGED <<field, typed, slot>> ELSE Select(C)
  /\ UNCHANGED n
  /\ Quiet

\* tableMouseUp elsewhere.
MouseUpElsewhere ==
  /\ act # NoEl
  /\ Released
  /\ IF act.kind = "title" THEN HideShowCovered ELSE UNCHANGED slot
  /\ UNCHANGED <<field, typed, cal, n>>
  /\ Quiet

\* tableMouseUp over a list: the date becomes D.
Picked(D) ==
  /\ Shown /\ act # NoEl
  /\ Released
  /\ IF D = cal.date THEN UNCHANGED <<field, typed, cal, slot>>
     ELSE Select([SetDate(cal, D) EXCEPT !.clicked = FALSE])
  /\ UNCHANGED n
  /\ Quiet

\* The browser's own setMonth is used for the list of months.
MouseUpOnMonth(m) == combo.kind = "months" /\ Picked(NativeSetMonth(cal.date, m))
MouseUpOnYear(y) == y \in combo.years /\ Picked(SetFullYear(cal.date, y))

-----------------------------------------------------------------------------
\* _keyEvent, with the control key or the space bar: a button is clicked.
KeyNav(nav) ==
  /\ Event
  /\ Shown
  /\ NavClick(nav, act)
  /\ UNCHANGED <<timer, combo>>
  /\ Quiet

\* The day at place j of ar_days is selected, in the calendar C; if there is
\* none the handler throws, after the change of the month.
LookUp(C, days, j) ==
  /\ CASE j \in DOMAIN days -> Select([C EXCEPT !.date = DateAt(C, days[j]), !.cur = days[j]])
       [] j \notin DOMAIN days /\ C.date # cal.date -> Select(C)
       [] j \notin DOMAIN days /\ C.date = cal.date -> cal' = C /\ UNCHANGED <<field, typed, slot>>
  /\ act' = Recelled(act, C)

\* The arrow keys look up the day in ar_days, which has the enabled days only.
\* Without a day there, the month changes and its last or first day is looked up.
KeyArrow(step) ==
  /\ Event
  /\ Shown
  /\ UNCHANGED <<timer, combo>>
  /\ Quiet
  /\ \E days \in {Ar_days(cal)} :
       LET i == cal.date.d + step
           C == CellClickNav(IF step < 0 THEN -1 ELSE 1)
           j == IF step < 0 THEN GetMonthDays(C.date.y, C.date.m) ELSE 1
       IN IF i \in DOMAIN days THEN LookUp(cal, days, i)
          ELSE \E others \in {Ar_days(C)} : LookUp(C, others, j)

\* The enter key: the handler, and hide.
KeyEnter ==
  /\ Event
  /\ Shown
  /\ CallHandler(cal)
  /\ cal' = Hide(cal)
  /\ HideShowCovered
  /\ UNCHANGED <<act, timer, combo>>
  /\ Quiet

\* onUpdateTime with hour h.
OnUpdateTime(h) ==
  /\ CallHandler([cal EXCEPT !.date.h = h])
  /\ cal' = [cal EXCEPT !.date.h = h, !.hour = h, !.edited = TRUE, !.clicked = FALSE]

\* An hour is entered, or refused.
EditHour(h) ==
  /\ Event
  /\ Shown /\ page = "datetime" /\ act = NoEl
  /\ IF h = Blank THEN cal' = [cal EXCEPT !.hour = Blank] /\ UNCHANGED <<field, typed>> ELSE OnUpdateTime(h)
  /\ UNCHANGED <<act, timer, combo, slot>>
  /\ Quiet

\* The minutes are edited: an hour that was refused has become 00 by then.
EditMinute ==
  /\ Event
  /\ Shown /\ page = "datetime" /\ act = NoEl
  /\ OnUpdateTime(IF cal.hour = Blank THEN 0 ELSE cal.hour)
  /\ UNCHANGED <<act, timer, combo, slot>>
  /\ Quiet

-----------------------------------------------------------------------------
Cell(p) == DayEl(p, DateAt(cal, p))
Buttons ==
  {NavEl(k) : k \in -2..2}
    \cup {[NoEl EXCEPT !.kind = "weekday", !.nav = f] : f \in FirstDays}
    \cup {[NoEl EXCEPT !.kind = k] : k \in {"close", "title"}}

DaysToPress == {C \in {Cell(p) : p \in 0..41} : C.date.d \in Days /\ IsDate(C.date)}

\* What can be pressed.
Elements ==
  IF Shown /\ act = NoEl THEN {el \in DaysToPress : ~GetDateStatus(el.date)} \cup Buttons ELSE {}

Next ==
  \/ \E f \in Fields : Trigger(f) \/ \E v \in Typed : TypeField(f, v)
  \/ Continuation \/ CallCloseHandler \/ ShowCombo
  \/ \E el \in Elements : DayMouseDown(el)
  \/ MouseUpOnElement \/ MouseUpElsewhere
  \/ \E m \in Picks : MouseUpOnMonth(m)
  \/ \E y \in combo.years : MouseUpOnYear(y)
  \/ \E k \in -2..2 : KeyNav(k)
  \/ \E k \in {-7, -1, 1, 7} : KeyArrow(k)
  \/ KeyEnter
  \/ \E h \in HourInputs \cup {Blank} : EditHour(h)
  \/ EditMinute

Spec == Init /\ [][Next]_vars

\* The timer of the continuation fires.
FairSpec == Spec /\ WF_vars(Continuation)

-----------------------------------------------------------------------------
\* The calendar holds a date within its range, and its cells exist.
TypeOK ==
  /\ page \in {"date", "datetime", "restore"}
  /\ typed \subseteq Fields
  /\ cal # NoCalendar => IsDate(cal.date) /\ cal.of \in Fields
  /\ cal.fdow \in 0..6 /\ cal.head \in 0..6 /\ cal.cur \in 0..41
  /\ cal.vis \in {"hidden", "asked", "shown"}
  /\ act.pos \in 0..41
  /\ timer \in {"none", "months", "later", "earlier"}
  /\ combo.kind \in {"none", "months", "years"}
  /\ slot \in {"none", "show", "cover"}

\* The month on display is that of the date, and the selected cell shows its
\* day (a disabled date has no cell to select), however it was reached.
ShownIsDate ==
  Shown => /\ cal.shown = <<cal.date.y, cal.date.m>>
           /\ ~GetDateStatus(cal.date) => DateAt(cal, cal.cur).d = cal.date.d

\* Every day of the month is in the grid, under the name of its weekday, after
\* any change of the month and of the first day of the week.
HeaderMatches ==
  Shown => LET y == cal.shown[1] m == cal.shown[2] IN
    \A d \in 1..GetMonthDays(y, m) :
      LET D == [y |-> y, m |-> m, d |-> d, h |-> 0] IN
      CellOf(cal, D) \in 0..41 /\ (CellOf(cal, D) + cal.head) % 7 = GetDay(D)

\* The text in the field of an open calendar stands for the date of the
\* calendar, unless the user has typed there since the calendar last read or
\* wrote it: every change of the date, by mouse or key, reaches the field, also
\* over what was typed, and parseDate reads back what print writes.
FieldAgrees ==
  Shown /\ cal.of \notin typed =>
    DatePrint(cal.date) = DatePrint(InRange(ParseDate(field[cal.of])))

\* A day that is held pressed has the date that its cell now displays, unless
\* the cell was emptied or disabled since (the mouse button was held while the
\* month changed): then letting it go chooses the date it had.
PressedCell == act.kind = "day" => act.date = DateAt(cal, act.pos) \/ ~Enabled(cal, act.pos)

\* A date that was clicked on is not a disabled one, though the buttons for
\* months and years lead to disabled dates and put them into the field.
ClickedIsEnabled == cal.clicked => ~GetDateStatus(cal.date)

\* Unless the time was edited since the grid was built (the cells keep the hour
\* they were made with), the time part shows the hour of the date.
HourShown == (Shown /\ ~cal.edited /\ cal.hour # Blank) => cal.hour = cal.date.h

\* The lists of months and years are on display only while the button is held.
ListWhilePressed == (combo # NoCombo \/ timer # "none") => act # NoEl

\* getMonthDays is the length of the month in the Gregorian calendar, and
\* getWeekNumber counts the Thursdays of the year up to that of the week.
DateArithmetic ==
  cal # NoCalendar =>
    LET D == cal.date IN
    /\ GetMonthDays(D.y, D.m) = (IF D.m = 11 THEN DaysBefore(D.y + 1) - DaysBefore(D.y)
                                 ELSE MonthStart(D.y, D.m + 1)) - MonthStart(D.y, D.m)
    /\ GetWeekNumber(D) =
         Cardinality({t \in DaysBefore(YearOfThursday(D)) + 1 .. Thursday(D) : t % 7 = 4})

MonthCount(D) == 12 * D.y + D.m
AtEnd(D, k) == MonthCount(D) + k < 12 * MinYear \/ MonthCount(D) + k > 12 * MaxYear + 11

\* The button or key for k months leads to the month k further on, within the
\* range, and to the same day or the last one of a shorter month; a month
\* picked from the list is the one displayed, unless it lacks the day (setMonth
\* of the browser then goes on into the next month).
NavStep ==
  LET D == cal.date E == cal'.date
      Lands(nav, k) ==
        (KeyNav(nav) \/ (act = NavEl(nav) /\ MouseUpOnElement)) =>
          IF AtEnd(D, k) THEN E = D
          ELSE /\ MonthCount(E) = MonthCount(D) + k
               /\ E.d = IF D.d > GetMonthDays(E.y, E.m) THEN GetMonthDays(E.y, E.m) ELSE D.d
  IN /\ Lands(-2, -12) /\ Lands(-1, -1) /\ Lands(1, 1) /\ Lands(2, 12)
     /\ \A m \in Picks : MouseUpOnMonth(m) => E.m = m \/ D.d > GetMonthDays(D.y, m)
NavLands == [][NavStep]_vars

AllEnabled(C) == MonthCount(C.date) < MonthCount(Yesterday)

\* Before the present month, where no day is disabled, the left and right keys
\* move by one day, also from one month or year to the next, and the up and down
\* keys by a week or to the nearest day of the next month.
ArrowStep ==
  \A k \in {-7, -1, 1, 7} :
    (cal' # cal /\ AllEnabled(cal) /\ AllEnabled(cal')
       /\ ~AtEnd(cal.date, IF k < 0 THEN -1 ELSE 1) /\ KeyArrow(k)) =>
      \/ DayNumber(cal'.date) = DayNumber(cal.date) + k
      \/ /\ k \in {-7, 7}
         /\ cal'.shown # cal.shown
         /\ DayNumber(cal'.date) - DayNumber(cal.date) \in IF k < 0 THEN -7..-1 ELSE 1..7
ArrowLands == [][ArrowStep]_vars

\* A calendar that was asked for is shown: the continuation is not replaced by
\* that of hideShowCovered before it runs.
Opens == (cal.vis = "asked") ~> Shown

\* What holds of the calendar at every step: its month, cells, header, time part
\* and lists are those of its date, and that date is right.
GridInv ==
  /\ TypeOK
  /\ ShownIsDate
  /\ HeaderMatches
  /\ HourShown
  /\ ClickedIsEnabled
  /\ ListWhilePressed
  /\ DateArithmetic

\* Buttons, the list of months and the arrow keys lead to the date they should.
MovesLand == NavLands /\ ArrowLands
=============================================================================
