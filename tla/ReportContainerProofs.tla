------------------------ MODULE ReportContainerProofs ------------------------
(***************************************************************************)
(* For any reports, page sizes, numbers of rows and number of calls that   *)
(* wait: what the containers show is what their page number, their labels, *)
(* the search in force and the files they export say, with the exceptions  *)
(* that the properties name.                                               *)
(*                                                                         *)
(* The properties speak of containers that have settled.  The inductive    *)
(* invariant follows the calls on their way: the last call of a report     *)
(* carries the search in force, and Fits says that its offset is that of   *)
(* the page number as its answer will leave it.                            *)
(***************************************************************************)
EXTENDS ReportContainer, FiniteSetTheorems, TLAPS

Filters == [of : Reports \cup {NoReport}, cols : SUBSET Cols]
Views == [kind : {"empty", "progress", "missing", "garbled", "page", "search"},
          offset : Nat, rows : Nat, filter : Filters, known : Nat \cup {Unknown}]
Containers ==
  [nav : BOOLEAN, ix : BOOLEAN, open : BOOLEAN, page : Nat \ {0}, pages : Nat \ {0},
   rows : Nat \cup {Unknown}, size : Sizes \cup {GroupSize}, psize : Nat \ {0},
   table : BOOLEAN, tlabel : {"Hide", "Show", "none"},
   graph : BOOLEAN, glabel : {"Hide", "Show", "", "none"},
   min : BOOLEAN, view : Views, chart : {"empty", "chart", "misread"}, vals : SUBSET Cols]
Requests ==
  [of : Reports, kind : {"page", "search", "dns"}, offset : Nat, limit : Nat,
   table : BOOLEAN, graph : BOOLEAN, filter : Filters, known : Nat \cup {Unknown}]

\* The variables have their types.
Shape ==
  /\ rep \in [Reports -> Containers] /\ pending \in Seq(Requests)
  /\ filter \in Filters /\ dialog \in Reports \cup {NoReport}
  /\ dns \in {0, 1} /\ missed \subseteq Reports /\ crossed \subseteq Reports

\* What the labels say of one container.
Labelled(R) ==
  /\ R.nav => (R.table <=> R.tlabel = "Hide") /\ (R.graph <=> R.glabel = "Hide")
  /\ ~R.nav => (R.table <=> ~R.min) /\ (R.graph <=> ~R.min)

\* An empty page of a container was asked for at the end.
Blank(V) ==
  (V.kind \in {"page", "search"} /\ V.rows = 0 /\ V.known = Total(V)) => V.offset = V.known

\* What holds of container R of report r on its own.
Sound(r, R) ==
  /\ R.page <= R.pages
  /\ Blank(R.view)
  /\ Labelled(R)
  /\ ShowsRows(R) => R.psize = MaxOf(1, R.view.rows) + 1
  /\ ~R.nav => R.size = GroupSize /\ (R.min => R.view.kind # "empty")
  /\ R.nav => (R.open <=> r = Single) /\ (~R.open => R.view.kind = "empty")

\* Call i is a page or search call of report r.
Of(i, r) == pending[i].of = r /\ pending[i].kind # "dns"

\* It is the last one.
Last(i, r) == Of(i, r) /\ \A j \in DOMAIN pending : Of(j, r) => j <= i

\* The offset of call q is that of the page number of R once it is brought
\* into the range of the answer.
Fits(R, q) ==
  /\ q.kind = "search" => q.offset = 0
  /\ (q.kind = "page" /\ q.offset < Total(q) /\ q.known \in {Unknown, Total(q)}) =>
       q.offset = R.size * (MinOf(R.page, PagesFor(Total(q), R.size)) - 1)

\* All containers of a page are of one sort, each sound.
PageSound ==
  /\ \A r \in Reports : Sound(r, rep[r])
  /\ \A r, k \in Reports : rep[r].nav = rep[k].nav

\* The calls on their way.
CallInv ==
  \A i \in DOMAIN pending :
    /\ rep[pending[i].of].nav => pending[i].of = Single
    /\ pending[i].kind # "dns" =>
         /\ pending[i].limit >= 1
         /\ pending[i].known # Unknown => pending[i].offset <= pending[i].known
         /\ ~pending[i].table => pending[i].of \in missed
         /\ ~rep[pending[i].of].table => pending[i].of \in missed

\* At most one of them is a look-up.
LookupInv ==
  /\ \A i, j \in DOMAIN pending : pending[i].kind = "dns" /\ pending[j].kind = "dns" => i = j
  /\ \A i \in DOMAIN pending : pending[i].kind = "dns" => dns = 1

\* The search dialog belongs to a container that shows its table.
DialogInv ==
  dialog # NoReport => rep[dialog].open /\ rep[dialog].table /\ rep[dialog].view.kind # "empty"

\* The last call of a report carries the search in force, and so do all of them
\* unless a search crossed another call; then its offset fits the page number.
LastInv ==
  \A r \in Reports : rep[r].nav =>
    /\ \A i \in DOMAIN pending : Last(i, r) => pending[i].filter = filter
    /\ r \notin crossed =>
         /\ \A i \in DOMAIN pending : Of(i, r) => pending[i].filter = filter
         /\ \A i \in DOMAIN pending : Last(i, r) => Fits(rep[r], pending[i])

IInv ==
  /\ Shape /\ PageSound /\ CallInv /\ LookupInv /\ DialogInv /\ LastInv
  /\ StallsHaveCause /\ ViewIsCurrent

USE ReportAssumption, SizeAssumption, RowsAssumption

-----------------------------------------------------------------------------
(* Arithmetic of pages.                                                    *)

\* Multiplication by the page size is monotonic both ways.
LEMMA Scale ==
  ASSUME NEW z \in Nat \ {0}, NEW a \in Int, NEW b \in Int
  PROVE  /\ z * a \in Int /\ z * b \in Int
         /\ z * a < z * b => a < b
         /\ a <= b => z * a <= z * b
         /\ z * (a + 1) = (z * a) + z
  OBVIOUS

\* The number of pages of size z that t rows fill.
LEMMA PageCount ==
  ASSUME NEW z \in Nat \ {0}, NEW t \in Nat \ {0}
  PROVE  \E c \in Nat \ {0} : PagesFor(t, z) = c /\ z * (c - 1) < t /\ t <= z * c
<1> DEFINE c == (t + z - 1) \div z
<1>1. c \in Int /\ z * c <= t + z - 1 /\ t + z - 1 < (z * c) + z /\ z * c \in Int
  OBVIOUS
<1>2. (t + z - 1) \div z = c
  OBVIOUS
<1> HIDE DEF c
<1>3. z * 0 < z * (c + 1)
  BY <1>1, Scale
<1>4. c + 1 > 0
  BY <1>1, <1>3, Scale
<1>5. c # 0
  BY <1>1
<1>6. c \in Nat \ {0}
  BY <1>1, <1>4, <1>5
<1>7. z * (c - 1) = (z * c) - z
  BY <1>6
<1>8. z * (c - 1) < t /\ t <= z * c
  BY <1>1, <1>7
<1>9. PagesFor(t, z) = c
  BY <1>2, <1>6 DEF PagesFor, MaxOf
<1> QED BY <1>6, <1>8, <1>9

\* The offset that setContPage asks for is a number, not past the known end.
LEMMA OffsetRange ==
  ASSUME NEW R \in Containers
  PROVE  Offset(R) \in Nat /\ (R.rows # Unknown => Offset(R) <= R.rows)
<1>1. R.size \in Nat \ {0} /\ R.page \in Nat \ {0} /\ R.rows \in Nat \cup {Unknown}
  BY DEF Containers
<1>2. R.size * (R.page - 1) \in Nat
  BY <1>1
<1>3. ASSUME NEW a \in Nat, NEW z \in Nat \ {0}
      PROVE  a - (a % z) \in Nat /\ a - (a % z) <= a
  BY <1>3
<1>4. R.rows # Unknown => R.rows \in Nat
  BY <1>1
<1> DEFINE off == R.size * (R.page - 1)
           back == R.rows - (R.rows % R.size)
<1>5. R.rows # Unknown => back \in Nat /\ back <= R.rows
  BY <1>1, <1>3, <1>4
<1>6. Offset(R) = IF R.rows # Unknown /\ off > R.rows THEN back ELSE off
  BY DEF Offset
<1>7. off \in Nat
  BY <1>2
<1> HIDE DEF off, back
<1> QED BY <1>4, <1>5, <1>6, <1>7

\* If the rows known are those of the answer, and the answer has rows, the
\* offset is that of the page number as the answer will leave it.
LEMMA OffsetFits ==
  ASSUME NEW R \in Containers, NEW t \in Nat, R.rows \in {Unknown, t}, Offset(R) < t
  PROVE  Offset(R) = R.size * (MinOf(R.page, PagesFor(t, R.size)) - 1)
<1> DEFINE z == R.size
           p == R.page
<1>1. z \in Nat \ {0} /\ p \in Nat \ {0}
  BY DEF Containers
<1>2. Offset(R) \in Nat
  BY OffsetRange
<1>3. t \in Nat \ {0}
  BY <1>2
<1>4. PICK c \in Nat \ {0} : PagesFor(t, z) = c /\ z * (c - 1) < t /\ t <= z * c
  BY <1>1, <1>3, PageCount
<1>5. Offset(R) = IF R.rows # Unknown /\ z * (p - 1) > R.rows
                  THEN R.rows - (R.rows % z) ELSE z * (p - 1)
  BY DEF Offset
<1> HIDE DEF z, p
<1>6. CASE Offset(R) = z * (p - 1)
  <2>1. z * (p - 1) < z * c
    BY <1>1, <1>4, <1>6, Scale
  <2>2. p - 1 < c
    BY <1>1, <2>1, Scale
  <2>3. MinOf(p, c) = p
    BY <1>1, <2>2 DEF MinOf
  <2> QED BY <1>4, <1>6, <2>3 DEF z, p
<1>7. CASE Offset(R) # z * (p - 1)
  <2>1. R.rows = t /\ z * (p - 1) > t /\ Offset(R) = t - (t % z)
    BY <1>5, <1>7
  <2>2. PICK q \in Nat, r \in 0..(z - 1) : t % z = r /\ t = (z * q) + r
    <3>1. t % z \in 0..(z - 1) /\ t \div z \in Nat /\ t = (z * (t \div z)) + (t % z)
      BY <1>1
    <3> QED BY <3>1, Zenon
  <2>3. r >= 1 /\ Offset(R) = z * q
    BY <1>1, <2>1, <2>2
  <2>4. z * q < t /\ t < z * (q + 1)
    BY <1>1, <2>2, <2>3, Scale
  <2>5. z * q < z * c /\ z * (c - 1) < z * (q + 1)
    BY <1>1, <1>4, <2>4, Scale
  <2>6. q < c /\ c - 1 < q + 1
    BY <1>1, <2>5, Scale
  <2>7. c = q + 1
    BY <2>6
  <2>8. z * q < z * (p - 1)
    BY <1>1, <2>1, <2>4, Scale
  <2>9. q < p - 1
    BY <1>1, <2>8, Scale
  <2>10. MinOf(p, c) - 1 = q
    BY <1>1, <2>7, <2>9 DEF MinOf
  <2> QED BY <1>4, <2>3, <2>10 DEF z, p
<1> QED BY <1>6, <1>7

-----------------------------------------------------------------------------
(* What the invariant says of a page with navigation.                      *)

\* Every call is for one of the reports.
LEMMA CallsTyped ==
  ASSUME IInv
  PROVE  \A i \in DOMAIN pending : pending[i] \in Requests /\ pending[i].of \in Reports
<1>1. \A i \in DOMAIN pending : pending[i] \in Requests
  BY DEF IInv, Shape
<1>2. \A q \in Requests : q.of \in Reports
  BY DEF Requests
<1> QED BY <1>1, <1>2

\* It has one open container, and every call is for it.
LEMMA OneOpen ==
  ASSUME IInv, NEW r \in Reports, rep[r].nav
  PROVE  /\ \A k \in Reports : rep[k].nav /\ (rep[k].open <=> k = Single)
         /\ \A k \in Reports \ {Single} : rep[k].view.kind = "empty" /\ ~ShowsRows(rep[k])
         /\ \A i \in DOMAIN pending : pending[i].of = Single
<1>1. \A k \in Reports : rep[k].nav
  BY DEF IInv, PageSound
<1>2. \A k \in Reports : Sound(k, rep[k])
  BY DEF IInv, PageSound
<1>3. \A k \in Reports : /\ rep[k].open <=> k = Single
                         /\ ~rep[k].open => rep[k].view.kind = "empty"
  BY <1>1, <1>2 DEF Sound
<1>4. \A i \in DOMAIN pending : pending[i] \in Requests /\ pending[i].of \in Reports
  BY CallsTyped
<1>5. \A i \in DOMAIN pending : pending[i].of = Single
  BY <1>1, <1>4 DEF IInv, CallInv
<1> QED BY <1>1, <1>3, <1>5 DEF ShowsRows

\* What a call appended to the queue changes.
LEMMA Appended ==
  ASSUME IInv, NEW q \in Requests, pending' = Append(pending, q)
  PROVE  /\ pending' \in Seq(Requests)
         /\ \A i \in DOMAIN pending : /\ i \in DOMAIN pending' /\ pending'[i] = pending[i]
                                      /\ i \in Nat /\ i < Len(pending) + 1
         /\ Len(pending) + 1 \in DOMAIN pending' /\ pending'[Len(pending) + 1] = q
         /\ \A i \in DOMAIN pending' : i \in DOMAIN pending \/ i = Len(pending) + 1
         /\ Len(pending) + 1 \in Nat
  BY DEF IInv, Shape

\* A page or a search is asked for, by the container of r, which becomes S.
LEMMA AskKeeps ==
  ASSUME IInv, NEW r \in Reports, NEW q \in Requests, NEW S \in Containers,
         rep' = [rep EXCEPT ![r] = S], pending' = Append(pending, q),
         q.of = r, q.kind # "dns", q.limit >= 1,
         q.known # Unknown => q.offset <= q.known,
         Sound(r, S), rep[r].open, S.open, S.nav = rep[r].nav, S.table = rep[r].table,
         S.view.kind = "progress", S.chart = "empty",
         missed' \subseteq Reports, missed \ {r} \subseteq missed',
         ~q.table => r \in missed', ~S.table => r \in missed',
         Pending(r) \/ wedged => missed \subseteq missed',
         filter' \in Filters, q.filter = filter',
         crossed' \subseteq Reports,
         r \notin crossed' => ~Pending(r) \/ (r \notin crossed /\ filter' = filter),
         r \notin crossed' => Fits(S, q),
         dialog' \in {NoReport, dialog}, dialog' # r, UNCHANGED <<wedged, dns>>
  PROVE  IInv'
<1> DEFINE n == Len(pending) + 1
<1>1. /\ rep' \in [Reports -> Containers] /\ rep'[r] = S
      /\ \A k \in Reports : k # r => rep'[k] = rep[k]
  BY DEF IInv, Shape
<1>2. /\ pending' \in Seq(Requests)
      /\ \A i \in DOMAIN pending : i \in DOMAIN pending' /\ pending'[i] = pending[i]
                                   /\ i \in Nat /\ i < n
      /\ n \in DOMAIN pending' /\ pending'[n] = q
      /\ \A i \in DOMAIN pending' : i \in DOMAIN pending \/ i = n
      /\ n \in Nat
  BY Appended
<1>3. \A i \in DOMAIN pending : pending[i] \in Requests /\ pending[i].of \in Reports
  BY CallsTyped
<1> HIDE DEF n
<1>4. Shape'
  BY <1>1, <1>2 DEF IInv, Shape
<1>5. PageSound'
  <2>1. \A k \in Reports : Sound(k, rep'[k])
    BY <1>1 DEF IInv, PageSound
  <2>2. \A k \in Reports : rep'[k].nav = rep[k].nav
    BY <1>1
  <2> QED BY <2>1, <2>2 DEF IInv, PageSound
<1>6. \A k \in Reports : rep'[k].nav = rep[k].nav /\ rep'[k].table = rep[k].table
                         /\ rep'[k].open = rep[k].open
  <2>0. rep[r] \in Containers /\ \A R \in Containers : R.open \in BOOLEAN
    BY DEF IInv, Shape, Containers
  <2>1. S.open = rep[r].open
    BY <2>0, Zenon
  <2> QED BY <1>1, <2>1
<1>7. rep[r].nav => r = Single
  BY OneOpen
<1>8. CallInv'
  <2>1. ASSUME NEW i \in DOMAIN pending'
        PROVE  /\ rep'[pending'[i].of].nav => pending'[i].of = Single
               /\ pending'[i].kind # "dns" =>
                    /\ pending'[i].limit >= 1
                    /\ pending'[i].known # Unknown => pending'[i].offset <= pending'[i].known
                    /\ ~pending'[i].table => pending'[i].of \in missed'
                    /\ ~rep'[pending'[i].of].table => pending'[i].of \in missed'
    <3>1. CASE i = n
      BY <1>1, <1>2, <1>7, <3>1
    <3>2. CASE i # n
      <4>1. i \in DOMAIN pending /\ pending'[i] = pending[i]
        BY <1>2, <2>1, <3>2
      <4>2. pending[i].kind # "dns" /\ pending[i].of \in missed => pending[i].of \in missed'
        BY <4>1 DEF Pending
      <4> QED BY <1>3, <1>6, <4>1, <4>2 DEF IInv, CallInv
    <3> QED BY <3>1, <3>2
  <2> QED BY <2>1 DEF CallInv
<1>9. LookupInv'
  BY <1>2 DEF IInv, LookupInv
<1>10. DialogInv'
  BY <1>1 DEF IInv, DialogInv, Shape
<1>11. LastInv'
  <2>1. SUFFICES ASSUME NEW k \in Reports, rep'[k].nav
                 PROVE  /\ \A i \in DOMAIN pending' : Last(i, k)' => pending'[i].filter = filter'
                        /\ k \notin crossed' =>
                             /\ \A i \in DOMAIN pending' : Of(i, k)' => pending'[i].filter = filter'
                             /\ \A i \in DOMAIN pending' : Last(i, k)' => Fits(rep'[k], pending'[i])
    BY DEF LastInv, Fits, Total
  <2>2. rep[k].nav /\ r = Single /\ rep[r].nav
    BY <1>6, <1>7, <2>1 DEF IInv, PageSound
  <2>3. \A i \in DOMAIN pending' : pending'[i].of = r
    BY <1>2, <2>2, OneOpen
  <2>4. CASE k # r
    BY <2>3, <2>4 DEF Last, Of
  <2>5. CASE k = r
    <3>1. \A i \in DOMAIN pending' : Last(i, k)' => i = n
      BY <1>2, <2>5 DEF Last, Of
    <3>2. \A i \in DOMAIN pending' : Last(i, k)' => pending'[i] = q
      BY <1>2, <3>1
    <3>3. ASSUME k \notin crossed', NEW i \in DOMAIN pending', Of(i, k)'
          PROVE  pending'[i].filter = filter'
      <4>1. CASE i = n
        BY <1>2, <4>1
      <4>2. CASE i # n
        <5>1. i \in DOMAIN pending /\ pending'[i] = pending[i] /\ Of(i, r)
          BY <1>2, <2>5, <3>3, <4>2 DEF Of
        <5>2. Pending(r)
          BY <5>1 DEF Pending, Of
        <5> QED BY <2>2, <2>5, <3>3, <5>1, <5>2 DEF IInv, LastInv
      <4> QED BY <4>1, <4>2
    <3> QED BY <1>1, <2>5, <3>2, <3>3
  <2> QED BY <2>4, <2>5
<1>12. StallsHaveCause'
  <2>1. Pending(r)'
    BY <1>2 DEF Pending
  <2>2. \A k \in Reports : Pending(k) => Pending(k)'
    BY <1>2 DEF Pending
  <2>3. SpinnerHasRequest'
    BY <1>1, <2>1, <2>2 DEF SpinnerHasRequest, IInv, StallsHaveCause
  <2>4. \A k \in Reports :
          rep'[k].chart = "misread" \/ rep'[k].view.kind = "garbled" => k \in missed'
    BY <1>1 DEF IInv, StallsHaveCause, FailuresHaveCause
  <2>5. wedged' => missed' # {} \/ \E k \in Reports : ~rep'[k].open
    BY <1>6 DEF IInv, StallsHaveCause, FailuresHaveCause
  <2> QED BY <2>3, <2>4, <2>5 DEF StallsHaveCause, FailuresHaveCause
<1>13. ViewIsCurrent'
  <2>1. ASSUME NEW k \in Reports, rep'[k].nav PROVE ~ShowsRows(rep'[k])
    <3>1. rep[k].nav /\ r = Single /\ rep[r].nav
      BY <1>6, <1>7, <2>1 DEF IInv, PageSound
    <3>2. CASE k = r
      BY <1>1, <3>2 DEF ShowsRows
    <3>3. CASE k # r
      BY <1>1, <3>1, <3>3, OneOpen
    <3> QED BY <3>2, <3>3
  <2> QED BY <2>1 DEF ViewIsCurrent, Settled, ShowsRows
<1> QED BY <1>4, <1>5, <1>8, <1>9, <1>10, <1>11, <1>12, <1>13 DEF IInv

-----------------------------------------------------------------------------
(* Asking for a page.                                                      *)

\* What setContPage makes of container R when it asks.
Asking(R) ==
  [ShownGraph(R) EXCEPT !.view = Message("progress"), !.chart = "empty", !.psize = R.size]

\* Its fields.
LEMMA AskingFields ==
  ASSUME NEW R \in Containers
  PROVE  /\ Asking(R) \in Containers
         /\ Asking(R).nav = R.nav /\ Asking(R).open = R.open /\ Asking(R).page = R.page
         /\ Asking(R).pages = R.pages /\ Asking(R).size = R.size /\ Asking(R).table = R.table
         /\ Asking(R).tlabel = R.tlabel /\ Asking(R).min = R.min
         /\ Asking(R).view = Message("progress") /\ Asking(R).chart = "empty"
         /\ Asking(R).graph = ShownGraph(R).graph /\ Asking(R).glabel = ShownGraph(R).glabel
         /\ ShownGraph(R).graph \in BOOLEAN
         /\ ShownGraph(R).graph <=> R.size <= GraphLimit
         /\ R.nav => ShownGraph(R).glabel = IF R.size <= GraphLimit THEN "Hide" ELSE ""
<1> DEFINE S == ShownGraph(R)
<1>1. Message("progress") \in Views
  BY DEF Message, View, Views, NoFilter, Filters, Unknown
<1>2. R.size \in Nat \ {0} /\ R.nav \in BOOLEAN
  BY DEF Containers
<1>3. S \in Containers
  <2> DEFINE g == R.size <= GraphLimit
             l == IF ~R.nav THEN R.glabel ELSE IF R.size <= GraphLimit THEN "Hide" ELSE ""
  <2>1. g \in BOOLEAN
    BY <1>2
  <2>2. l \in {"Hide", "Show", "", "none"}
    <3>1. R.glabel \in {"Hide", "Show", "", "none"}
      BY DEF Containers
    <3> QED BY <3>1
  <2>3. S = [R EXCEPT !.graph = g, !.glabel = l]
    <3>1. R.glabel = [R EXCEPT !.graph = g].glabel
      BY DEF Containers
    <3> QED BY <3>1, Zenon DEF ShownGraph
  <2> HIDE DEF g, l, S
  <2> QED BY <2>1, <2>2, <2>3 DEF Containers
<1>4. /\ S.nav = R.nav /\ S.open = R.open /\ S.page = R.page
      /\ S.pages = R.pages /\ S.size = R.size /\ S.table = R.table
      /\ S.tlabel = R.tlabel /\ S.min = R.min
  BY DEF ShownGraph, Containers
<1>5. S.graph = (R.size <= GraphLimit)
  BY Zenon DEF ShownGraph, Containers
<1>6. R.nav => S.glabel = IF R.size <= GraphLimit THEN "Hide" ELSE ""
  BY <1>2 DEF ShownGraph, Containers
<1>7. (R.size <= GraphLimit) \in BOOLEAN
  BY <1>2
<1> HIDE DEF S
<1>8. [S EXCEPT !.view = Message("progress"), !.chart = "empty", !.psize = R.size] \in Containers
  BY <1>1, <1>2, <1>3 DEF Containers
<1>9. Asking(R) = [S EXCEPT !.view = Message("progress"), !.chart = "empty", !.psize = R.size]
  BY DEF Asking, S
<1>10. /\ Asking(R).nav = S.nav /\ Asking(R).open = S.open /\ Asking(R).page = S.page
       /\ Asking(R).pages = S.pages /\ Asking(R).size = S.size /\ Asking(R).table = S.table
       /\ Asking(R).tlabel = S.tlabel /\ Asking(R).min = S.min
       /\ Asking(R).view = Message("progress") /\ Asking(R).chart = "empty"
       /\ Asking(R).graph = S.graph /\ Asking(R).glabel = S.glabel
  BY <1>3, <1>9 DEF Containers
<1>11. S.graph \in BOOLEAN /\ (S.graph <=> R.size <= GraphLimit)
  BY <1>5, <1>7, Zenon
<1> QED BY <1>4, <1>6, <1>8, <1>9, <1>10, <1>11 DEF S

\* setContPage on a container whose page is in range.
LEMMA AskForPage ==
  ASSUME IInv, NEW r \in Reports, NEW R \in Containers, SetContPage(r, R),
         R.page <= R.pages, R.open, rep[r].open, R.nav = rep[r].nav,
         R.table = rep[r].table, R.tlabel = rep[r].tlabel, R.min = rep[r].min,
         ~R.nav => R.size = GroupSize /\ ~R.min,
         dialog # r
  PROVE  IInv'
<1> DEFINE S == Asking(R)
           q == Request(r, "page", Offset(R), R.size, R.table, ShownGraph(R).graph,
                        filter, R.rows)
<1>1. R.page \in 1..R.pages
  <2>1. R.page \in Nat \ {0} /\ R.pages \in Nat \ {0}
    BY DEF Containers
  <2> QED BY <2>1
<1>2. rep' = [rep EXCEPT ![r] = S] /\ pending' = Append(pending, q)
  BY <1>1 DEF SetContPage, Asking
<1>3. /\ missed' = IF ~R.table THEN missed \cup {r}
                   ELSE IF Pending(r) \/ wedged THEN missed ELSE missed \ {r}
      /\ crossed' = IF Pending(r) THEN crossed ELSE crossed \ {r}
      /\ UNCHANGED <<wedged, filter, dialog, dns>>
  BY DEF SetContPage
<1>4. /\ R.table \in BOOLEAN /\ R.nav \in BOOLEAN /\ R.size \in Nat \ {0}
      /\ R.rows \in Nat \cup {Unknown}
  BY DEF Containers
<1>5. Offset(R) \in Nat /\ (R.rows # Unknown => Offset(R) <= R.rows)
  BY OffsetRange
<1>6. filter \in Filters /\ missed \subseteq Reports /\ crossed \subseteq Reports
  BY DEF IInv, Shape
<1>7. ShownGraph(R).graph \in BOOLEAN
  BY AskingFields
<1>8. /\ q \in Requests /\ q.of = r /\ q.kind = "page" /\ q.offset = Offset(R)
      /\ q.limit = R.size /\ q.table = R.table /\ q.filter = filter /\ q.known = R.rows
  BY <1>4, <1>5, <1>6, <1>7 DEF Request, Requests
<1> HIDE DEF q
<1>9. /\ S \in Containers /\ S.nav = R.nav /\ S.open = R.open /\ S.page = R.page
      /\ S.pages = R.pages /\ S.size = R.size /\ S.table = R.table
      /\ S.tlabel = R.tlabel /\ S.min = R.min /\ S.view = Message("progress")
      /\ S.chart = "empty" /\ (S.graph <=> R.size <= GraphLimit)
      /\ R.nav => S.glabel = IF R.size <= GraphLimit THEN "Hide" ELSE ""
  BY AskingFields
<1> HIDE DEF S
<1>10. S.view.kind = "progress"
  <2>1. Message("progress").kind = "progress"
    BY DEF Message, View
  <2> QED BY <1>9, <2>1
<1>11. Sound(r, S)
  <2>1. Sound(r, rep[r])
    BY DEF IInv, PageSound
  <2>2. R.nav => (S.table <=> S.tlabel = "Hide")
    BY <1>9, <2>1 DEF Sound, Labelled
  <2>3. R.nav => (S.graph <=> S.glabel = "Hide")
    BY <1>9
  <2>4. ~R.nav => (S.table <=> ~S.min)
    BY <1>9, <2>1 DEF Sound, Labelled
  <2>5. ~R.nav => (S.graph <=> ~S.min)
    BY <1>9
  <2>6. R.nav => r = Single
    BY <2>1 DEF Sound
  <2> QED BY <1>9, <1>10, <2>2, <2>3, <2>4, <2>5, <2>6 DEF Sound, Labelled, Blank, ShowsRows
<1>12. r \notin crossed' => ~Pending(r) \/ (r \notin crossed /\ filter' = filter)
  BY <1>3
<1>13. Fits(S, q)
  <2>1. Total(q) \in Nat
    BY DEF Total
  <2>2. q.offset < Total(q) /\ q.known \in {Unknown, Total(q)} =>
          Offset(R) = R.size * (MinOf(R.page, PagesFor(Total(q), R.size)) - 1)
    BY <1>8, <2>1, OffsetFits
  <2>3. S.size = R.size /\ S.page = R.page /\ q.offset = Offset(R) /\ q.kind # "search"
    BY <1>8, <1>9
  <2> QED BY <2>2, <2>3, Zenon DEF Fits
<1>14. /\ missed' \subseteq Reports /\ missed \ {r} \subseteq missed'
       /\ ~R.table => r \in missed'
       /\ Pending(r) \/ wedged => missed \subseteq missed'
       /\ crossed' \subseteq Reports
  BY <1>3, <1>6
<1>15. /\ q.known # Unknown => q.offset <= q.known
       /\ q.kind # "dns" /\ q.limit >= 1
       /\ ~q.table => r \in missed'
       /\ ~S.table => r \in missed'
  <2>1. (~q.table => r \in missed') /\ (~S.table => r \in missed')
    BY <1>8, <1>9, <1>14, Zenon
  <2>2. q.known # Unknown => q.offset <= q.known
    BY <1>5, <1>8
  <2>3. q.kind # "dns" /\ q.limit >= 1
    BY <1>4, <1>8
  <2> QED BY <2>1, <2>2, <2>3
<1>16. /\ filter' \in Filters /\ q.filter = filter'
       /\ dialog' \in {NoReport, dialog} /\ dialog' # r /\ UNCHANGED <<wedged, dns>>
  BY <1>3, <1>6, <1>8
<1>17. S.open /\ S.nav = rep[r].nav /\ S.table = rep[r].table
  BY <1>9
<1> QED BY <1>2, <1>8, <1>9, <1>10, <1>11, <1>12, <1>13, <1>14, <1>15, <1>16, <1>17, AskKeeps

\* What the invariant says of one container.
LEMMA OneContainer ==
  ASSUME IInv, NEW r \in Reports
  PROVE  /\ rep[r] \in Containers /\ Sound(r, rep[r])
         /\ rep[r].page \in Nat \ {0} /\ rep[r].pages \in Nat \ {0}
         /\ rep[r].page <= rep[r].pages /\ rep[r].size \in Nat \ {0}
         /\ rep[r].nav \in BOOLEAN /\ rep[r].table \in BOOLEAN /\ rep[r].open \in BOOLEAN
<1>1. rep[r] \in Containers /\ Sound(r, rep[r])
  BY DEF IInv, Shape, PageSound
<1> QED BY <1>1 DEF Containers, Sound

\* A click on a page number, on the head of a column or on the page size.
LEMMA Turns ==
  ASSUME IInv, NEW r \in Reports, Navigable(r),
         \/ \E p \in 1..rep[r].pages : SetContPage(r, [rep[r] EXCEPT !.page = p])
         \/ \E z \in Sizes : SetContPage(r, [rep[r] EXCEPT !.size = z])
  PROVE  IInv'
<1>1. rep[r] \in Containers /\ rep[r].pages \in Nat \ {0} /\ rep[r].page <= rep[r].pages
  BY OneContainer
<1>2. rep[r].nav /\ rep[r].open /\ dialog # r
  BY DEF Navigable, Usable
<1>3. ASSUME NEW p \in 1..rep[r].pages, SetContPage(r, [rep[r] EXCEPT !.page = p])
      PROVE  IInv'
  <2> DEFINE R == [rep[r] EXCEPT !.page = p]
  <2>1. /\ R \in Containers /\ R.page <= R.pages /\ R.nav = rep[r].nav /\ R.open = rep[r].open
        /\ R.table = rep[r].table /\ R.tlabel = rep[r].tlabel /\ R.min = rep[r].min
    <3>1. p \in Nat \ {0} /\ p <= rep[r].pages
      BY <1>1
    <3> QED BY <1>1, <3>1 DEF Containers
  <2>2. SetContPage(r, R)
    BY <1>3
  <2> HIDE DEF R
  <2>3. R.nav /\ R.open
    BY <1>2, <2>1
  <2> QED BY <1>2, <2>1, <2>2, <2>3, AskForPage
<1>4. ASSUME NEW z \in Sizes, SetContPage(r, [rep[r] EXCEPT !.size = z])
      PROVE  IInv'
  <2> DEFINE R == [rep[r] EXCEPT !.size = z]
  <2>1. /\ R \in Containers /\ R.page = rep[r].page /\ R.pages = rep[r].pages
        /\ R.nav = rep[r].nav /\ R.open = rep[r].open
        /\ R.table = rep[r].table /\ R.tlabel = rep[r].tlabel /\ R.min = rep[r].min
    BY <1>1 DEF Containers
  <2>2. SetContPage(r, R)
    BY <1>4
  <2> HIDE DEF R
  <2>3. R.nav /\ R.open /\ R.page <= R.pages
    BY <1>1, <1>2, <2>1
  <2> QED BY <1>2, <2>1, <2>2, <2>3, AskForPage
<1> QED BY <1>3, <1>4

\* Load and the navigation of a single report keep the invariant.
LEMMA PagesKeep ==
  ASSUME IInv, NEW r \in Reports,
         \/ Load(r) \/ NextPage(r) \/ PrevPage(r) \/ FirstPage(r) \/ LastPage(r)
         \/ \E p \in 1..rep[r].pages : JumpToPage(r, p)
         \/ \E z \in Sizes : SelectCombo(r, z)
         \/ SortColumn(r)
  PROVE  IInv'
<1>1. /\ rep[r] \in Containers /\ Sound(r, rep[r])
      /\ rep[r].page \in Nat \ {0} /\ rep[r].pages \in Nat \ {0}
      /\ rep[r].page <= rep[r].pages
  BY OneContainer
<1>2. CASE Load(r)
  <2>1. rep[r].open /\ rep[r].view.kind = "empty" /\ SetContPage(r, rep[r])
    BY <1>2 DEF Load
  <2>2. dialog # r
    BY <2>1 DEF IInv, DialogInv
  <2>3. ~rep[r].nav => rep[r].size = GroupSize /\ ~rep[r].min
    BY <1>1, <2>1 DEF Sound
  <2> QED BY <1>1, <2>1, <2>2, <2>3, AskForPage
<1>3. CASE NextPage(r)
  <2>1. rep[r].page + 1 \in 1..rep[r].pages
    BY <1>1, <1>3 DEF NextPage
  <2> QED BY <1>3, <2>1, Turns DEF NextPage
<1>4. CASE PrevPage(r)
  <2>1. rep[r].page - 1 \in 1..rep[r].pages
    BY <1>1, <1>4 DEF PrevPage
  <2> QED BY <1>4, <2>1, Turns DEF PrevPage
<1>5. CASE FirstPage(r) \/ SortColumn(r) \/ LastPage(r)
  <2>1. 1 \in 1..rep[r].pages /\ rep[r].pages \in 1..rep[r].pages
    BY <1>1
  <2> QED BY <1>5, <2>1, Turns DEF FirstPage, SortColumn, LastPage
<1>6. CASE \E p \in 1..rep[r].pages : JumpToPage(r, p)
  BY <1>6, Turns DEF JumpToPage
<1>7. CASE \E z \in Sizes : SelectCombo(r, z)
  BY <1>7, Turns DEF SelectCombo
<1> QED BY <1>2, <1>3, <1>4, <1>5, <1>6, <1>7

\* A search keeps the invariant.
LEMMA SearchKeeps ==
  ASSUME IInv, NEW c \in Cols, NEW given \in BOOLEAN, GetSearchResult(c, given)
  PROVE  IInv'
<1> DEFINE r == dialog
           vals == IF given THEN rep[r].vals \cup {c} ELSE rep[r].vals \ {c}
           f == IF vals = {} THEN NoFilter ELSE [of |-> r, cols |-> vals]
           S == [rep[r] EXCEPT !.vals = vals, !.view = Message("progress"), !.chart = "empty"]
           q == Request(r, "search", 0, rep[r].size, TRUE, TRUE, f, rep[r].rows)
<1>1. r \in Reports /\ rep[r].open /\ rep[r].table
  BY DEF GetSearchResult, IInv, Shape, DialogInv
<1>2. /\ filter' = f /\ pending' = Append(pending, q) /\ dialog' = NoReport
      /\ crossed' = IF Pending(r) THEN crossed \cup {r} ELSE crossed \ {r}
      /\ UNCHANGED <<wedged, dns, missed>>
  BY DEF GetSearchResult
<1>3. rep' = [rep EXCEPT ![r] = S]
  BY <1>1 DEF GetSearchResult, IInv, Shape, Containers
<1>4. rep[r] \in Containers /\ Sound(r, rep[r]) /\ rep[r].size \in Nat \ {0}
  BY <1>1, OneContainer
<1>5. rep[r].vals \in SUBSET Cols /\ rep[r].rows \in Nat \cup {Unknown}
  BY <1>4 DEF Containers
<1>6. vals \in SUBSET Cols
  BY <1>5
<1> HIDE DEF vals
<1>7. f \in Filters
  BY <1>1, <1>6 DEF Filters, NoFilter
<1> HIDE DEF f
<1>8. /\ q \in Requests /\ q.of = r /\ q.kind = "search" /\ q.offset = 0 /\ q.table
      /\ q.limit = rep[r].size /\ q.filter = f /\ q.known = rep[r].rows
  BY <1>1, <1>4, <1>5, <1>7 DEF Request, Requests
<1>9. Message("progress") \in Views /\ Message("progress").kind = "progress"
  BY DEF Message, View, Views, NoFilter, Filters, Unknown
<1>10. /\ S \in Containers /\ S.nav = rep[r].nav /\ S.open = rep[r].open
       /\ S.page = rep[r].page /\ S.pages = rep[r].pages /\ S.size = rep[r].size
       /\ S.table = rep[r].table /\ S.tlabel = rep[r].tlabel /\ S.graph = rep[r].graph
       /\ S.glabel = rep[r].glabel /\ S.min = rep[r].min
       /\ S.view = Message("progress") /\ S.chart = "empty"
  BY <1>4, <1>6, <1>9 DEF Containers
<1> HIDE DEF q, S
<1>11. Sound(r, S)
  BY <1>1, <1>4, <1>9, <1>10 DEF Sound, Labelled, Blank, ShowsRows
<1>12. r \notin crossed' => ~Pending(r)
  BY <1>2
<1>13. Fits(S, q)
  BY <1>8 DEF Fits
<1>14. q.known # Unknown => q.offset <= q.known
  BY <1>5, <1>8
<1>15. q.limit >= 1
  BY <1>4, <1>8
<1>16. /\ missed' \subseteq Reports /\ missed' = missed /\ crossed' \subseteq Reports
       /\ r # NoReport
  BY <1>1, <1>2 DEF IInv, Shape
<1>17. S.open /\ S.table /\ S.view.kind = "progress"
  BY <1>1, <1>9, <1>10
<1> HIDE DEF r
<1> QED BY <1>1, <1>2, <1>3, <1>7, <1>8, <1>10, <1>11, <1>12, <1>13, <1>14, <1>15, <1>16,
           <1>17, AskKeeps

-----------------------------------------------------------------------------
(* Buttons that ask for nothing.                                           *)

\* The layout of the container of r changes, or it is closed.
LEMMA LayoutKeeps ==
  ASSUME IInv, NEW r \in Reports, NEW S \in Containers, Usable(r),
         rep' = [rep EXCEPT ![r] = S], Sound(r, S),
         S.nav = rep[r].nav, S.page = rep[r].page, S.size = rep[r].size,
         S.view = rep[r].view, S.chart = rep[r].chart,
         (S.table = rep[r].table /\ missed' = missed) \/ Moves(r),
         UNCHANGED <<pending, wedged, filter, dialog, dns, crossed>>
  PROVE  IInv'
<1>1. /\ rep' \in [Reports -> Containers] /\ rep'[r] = S
      /\ \A k \in Reports : k # r => rep'[k] = rep[k]
  BY DEF IInv, Shape
<1>2. /\ missed' \subseteq Reports /\ missed \subseteq missed'
      /\ S.table = rep[r].table \/ (Pending(r) => r \in missed')
  BY DEF Moves, IInv, Shape
<1>3. \A i \in DOMAIN pending : pending[i] \in Requests /\ pending[i].of \in Reports
  BY CallsTyped
<1>4. \A k \in Reports : /\ rep'[k].nav = rep[k].nav /\ rep'[k].page = rep[k].page
                         /\ rep'[k].size = rep[k].size /\ rep'[k].view = rep[k].view
                         /\ rep'[k].chart = rep[k].chart
  BY <1>1
<1>5. Shape'
  BY <1>1, <1>2 DEF IInv, Shape
<1>6. PageSound'
  BY <1>1, <1>4 DEF IInv, PageSound
<1>7. CallInv'
  <2>1. ASSUME NEW i \in DOMAIN pending
        PROVE  /\ rep'[pending[i].of].nav => pending[i].of = Single
               /\ pending[i].kind # "dns" =>
                    /\ pending[i].limit >= 1
                    /\ pending[i].known # Unknown => pending[i].offset <= pending[i].known
                    /\ ~pending[i].table => pending[i].of \in missed'
                    /\ ~rep'[pending[i].of].table => pending[i].of \in missed'
    <3>1. pending[i].kind # "dns" => Pending(pending[i].of)
      BY DEF Pending
    <3>2. pending[i].kind # "dns" /\ ~rep'[pending[i].of].table => pending[i].of \in missed'
      <4>1. CASE pending[i].of = r
        BY <1>1, <1>2, <3>1, <4>1 DEF IInv, CallInv
      <4>2. CASE pending[i].of # r
        BY <1>1, <1>2, <1>3, <4>2 DEF IInv, CallInv
      <4> QED BY <4>1, <4>2
    <3> QED BY <1>2, <1>3, <1>4, <3>2 DEF IInv, CallInv
  <2> QED BY <2>1 DEF CallInv
<1>8. LookupInv'
  BY DEF IInv, LookupInv
<1>9. DialogInv'
  BY DEF DialogInv, Usable
<1>10. LastInv'
  <2>1. \A k \in Reports, i \in DOMAIN pending : (Last(i, k)' <=> Last(i, k)) /\ (Of(i, k)' <=> Of(i, k))
    BY DEF Last, Of
  <2>2. \A k \in Reports, i \in DOMAIN pending : Fits(rep[k], pending[i]) <=> Fits(rep[k], pending[i])'
    BY <1>4 DEF Fits
  <2> QED BY <1>4, <2>1, <2>2 DEF IInv, LastInv
<1>11. \A k \in Reports : Pending(k)' <=> Pending(k)
  BY DEF Pending
<1>12. StallsHaveCause'
  <2>1. \A k \in Reports : rep'[k].open => rep[k].open
    BY <1>1 DEF Usable
  <2> QED BY <1>2, <1>4, <1>11, <2>1
          DEF IInv, StallsHaveCause, SpinnerHasRequest, FailuresHaveCause
<1>13. ViewIsCurrent'
  <2>1. SUFFICES ASSUME NEW k \in Reports, Settled(k)'
                 PROVE  /\ rep'[k].view.filter = filter'
                        /\ rep'[k].view.rows > 0 /\ Aligned(k)' =>
                             rep'[k].view.offset = IF rep'[k].view.kind = "search" THEN 0
                                                   ELSE rep'[k].size * (rep'[k].page - 1)
    BY DEF ViewIsCurrent
  <2>2. Settled(k)
    BY <1>2, <1>4, <1>11, <2>1 DEF Settled, ShowsRows
  <2>3. Aligned(k)' => Aligned(k)
    BY <1>4 DEF Aligned, Total
  <2> QED BY <1>4, <2>2, <2>3 DEF IInv, ViewIsCurrent
<1> QED BY <1>5, <1>6, <1>7, <1>8, <1>9, <1>10, <1>12, <1>13 DEF IInv

\* The layout buttons and the close button keep the invariant.
LEMMA ButtonsKeep ==
  ASSUME IInv, NEW r \in Reports,
         ShowHideTable(r) \/ ShowHideGraph(r) \/ MinContainer(r) \/ CloseContainer(r)
  PROVE  IInv'
<1> DEFINE R == rep[r]
<1>1. /\ R \in Containers /\ Sound(r, R) /\ R.nav \in BOOLEAN
      /\ R.table \in BOOLEAN /\ R.open \in BOOLEAN
  BY OneContainer
<1>2. R.graph \in BOOLEAN /\ R.min \in BOOLEAN
  BY <1>1 DEF Containers
<1>3. rep \in [Reports -> Containers]
  BY DEF IInv, Shape
<1>4. CASE ShowHideTable(r)
  <2> DEFINE t == ~R.table
             l == IF R.table THEN "Show" ELSE "Hide"
             S == [R EXCEPT !.table = t, !.tlabel = l]
  <2>1. rep' = [rep EXCEPT ![r] = S]
    BY <1>3, <1>4 DEF ShowHideTable, Containers
  <2>2. Usable(r) /\ R.nav /\ Moves(r) /\ UNCHANGED <<pending, wedged, filter, dialog, dns, crossed>>
    BY <1>4 DEF ShowHideTable, Navigable
  <2>3. t \in BOOLEAN /\ l \in {"Show", "Hide", "none"} /\ (t <=> l = "Hide")
    BY <1>1
  <2> HIDE DEF t, l, R
  <2>4. /\ S \in Containers /\ S.table = t /\ S.tlabel = l
        /\ S.nav = R.nav /\ S.open = R.open /\ S.page = R.page /\ S.pages = R.pages
        /\ S.size = R.size /\ S.psize = R.psize /\ S.graph = R.graph /\ S.glabel = R.glabel
        /\ S.min = R.min /\ S.view = R.view /\ S.chart = R.chart
    BY <1>1, <2>3 DEF Containers
  <2> HIDE DEF S
  <2>5. Sound(r, S)
    BY <1>1, <2>2, <2>3, <2>4 DEF Sound, Labelled, ShowsRows
  <2> QED BY <2>1, <2>2, <2>4, <2>5, LayoutKeeps DEF R
<1>5. CASE ShowHideGraph(r)
  <2> DEFINE g == ~R.graph
             l == IF R.graph THEN "Show" ELSE "Hide"
             S == [R EXCEPT !.graph = g, !.glabel = l]
  <2>1. rep' = [rep EXCEPT ![r] = S]
    BY <1>3, <1>5 DEF ShowHideGraph, Containers
  <2>2. Usable(r) /\ R.nav /\ missed' = missed /\ UNCHANGED <<pending, wedged, filter, dialog, dns, crossed>>
    BY <1>5 DEF ShowHideGraph, Navigable
  <2>3. g \in BOOLEAN /\ l \in {"Show", "Hide", "", "none"} /\ (g <=> l = "Hide")
    BY <1>2
  <2> HIDE DEF g, l, R
  <2>4. /\ S \in Containers /\ S.graph = g /\ S.glabel = l
        /\ S.nav = R.nav /\ S.open = R.open /\ S.page = R.page /\ S.pages = R.pages
        /\ S.size = R.size /\ S.psize = R.psize /\ S.table = R.table /\ S.tlabel = R.tlabel
        /\ S.min = R.min /\ S.view = R.view /\ S.chart = R.chart
    BY <1>1, <2>3 DEF Containers
  <2> HIDE DEF S
  <2>5. Sound(r, S)
    BY <1>1, <2>2, <2>3, <2>4 DEF Sound, Labelled, ShowsRows
  <2> QED BY <2>1, <2>2, <2>4, <2>5, LayoutKeeps DEF R
<1>6. CASE MinContainer(r)
  <2> DEFINE t == ~R.table
             g == ~R.graph
             m == ~R.min
             S == [R EXCEPT !.table = t, !.graph = g, !.min = m]
  <2>1. rep' = [rep EXCEPT ![r] = S]
    BY <1>3, <1>6 DEF MinContainer, Containers
  <2>2. Usable(r) /\ ~R.nav /\ Moves(r) /\ UNCHANGED <<pending, wedged, filter, dialog, dns, crossed>>
    BY <1>6 DEF MinContainer
  <2>3. t \in BOOLEAN /\ g \in BOOLEAN /\ m \in BOOLEAN
    BY <1>1, <1>2
  <2>4. (t <=> ~m) /\ (g <=> ~m) /\ R.view.kind # "empty"
    BY <1>1, <1>2, <2>2 DEF Sound, Labelled, Usable
  <2> HIDE DEF t, g, m, R
  <2>5. /\ S \in Containers /\ S.table = t /\ S.graph = g /\ S.min = m
        /\ S.nav = R.nav /\ S.open = R.open /\ S.page = R.page /\ S.pages = R.pages
        /\ S.size = R.size /\ S.psize = R.psize
        /\ S.view = R.view /\ S.chart = R.chart
    BY <1>1, <2>3 DEF Containers
  <2> HIDE DEF S
  <2>6. Sound(r, S)
    BY <1>1, <2>2, <2>4, <2>5 DEF Sound, Labelled, ShowsRows
  <2> QED BY <2>1, <2>2, <2>5, <2>6, LayoutKeeps DEF R
<1>7. CASE CloseContainer(r)
  <2> DEFINE S == [R EXCEPT !.open = FALSE]
  <2>1. rep' = [rep EXCEPT ![r] = S]
    BY <1>3, <1>7 DEF CloseContainer, Containers
  <2>2. Usable(r) /\ ~R.nav /\ missed' = missed /\ UNCHANGED <<pending, wedged, filter, dialog, dns, crossed>>
    BY <1>7 DEF CloseContainer
  <2> HIDE DEF R
  <2>3. /\ S \in Containers /\ S.graph = R.graph /\ S.min = R.min
        /\ S.nav = R.nav /\ S.page = R.page /\ S.pages = R.pages
        /\ S.size = R.size /\ S.psize = R.psize /\ S.table = R.table
        /\ S.view = R.view /\ S.chart = R.chart
    BY <1>1 DEF Containers
  <2> HIDE DEF S
  <2>4. Sound(r, S)
    BY <1>1, <2>2, <2>3 DEF Sound, Labelled, ShowsRows
  <2> QED BY <2>1, <2>2, <2>3, <2>4, LayoutKeeps DEF R
<1> QED BY <1>4, <1>5, <1>6, <1>7

\* The search dialog opens and closes.
LEMMA DialogKeeps ==
  ASSUME IInv, HideSearch \/ \E r \in Reports : ShowSearch(r)
  PROVE  IInv'
<1>1. UNCHANGED <<rep, pending, wedged, filter, dns, missed, crossed>>
  BY DEF HideSearch, ShowSearch
<1>2. DialogInv' /\ dialog' \in Reports \cup {NoReport}
  BY DEF HideSearch, ShowSearch, DialogInv, Usable
<1>3. PageSound' /\ CallInv' /\ LookupInv'
  BY <1>1 DEF IInv, PageSound, CallInv, LookupInv
<1>4. LastInv'
  BY <1>1 DEF IInv, LastInv, Last, Of, Fits, Total
<1>5. StallsHaveCause'
  BY <1>1 DEF IInv, StallsHaveCause, SpinnerHasRequest, FailuresHaveCause, Pending
<1>6. ViewIsCurrent'
  BY <1>1 DEF IInv, ViewIsCurrent, Settled, Aligned, Pending, ShowsRows, Total
<1> QED BY <1>1, <1>2, <1>3, <1>4, <1>5, <1>6 DEF IInv, Shape

-----------------------------------------------------------------------------
(* Look-ups of names.                                                      *)

\* What taking the first call from the queue changes.
LEMMA Taken ==
  ASSUME IInv, pending # <<>>, pending' = Tail(pending)
  PROVE  /\ pending' \in Seq(Requests)
         /\ 1 \in DOMAIN pending /\ Head(pending) = pending[1]
         /\ \A i \in DOMAIN pending' : /\ i \in Nat /\ i >= 1 /\ i + 1 \in DOMAIN pending
                                       /\ pending'[i] = pending[i + 1]
         /\ \A i \in DOMAIN pending : /\ i \in Nat /\ i >= 1
                                      /\ i # 1 => i - 1 \in DOMAIN pending'
  BY DEF IInv, Shape

\* The last call of a report, and whether there is one, once a call is taken.
LEMMA TakenLast ==
  ASSUME IInv, pending # <<>>, pending' = Tail(pending), NEW k \in Reports
  PROVE  /\ \A i \in DOMAIN pending' : Of(i, k)' => Of(i + 1, k)
         /\ \A i \in DOMAIN pending' : Last(i, k)' => Last(i + 1, k)
         /\ Pending(k)' => Pending(k)
         /\ Pending(k) => Pending(k)' \/ Last(1, k)
         /\ Pending(k) => Pending(k)' \/ Of(1, k)
<1>1. /\ 1 \in DOMAIN pending
      /\ \A i \in DOMAIN pending' : /\ i \in Nat /\ i >= 1 /\ i + 1 \in DOMAIN pending
                                    /\ pending'[i] = pending[i + 1]
      /\ \A i \in DOMAIN pending : /\ i \in Nat /\ i >= 1
                                   /\ i # 1 => i - 1 \in DOMAIN pending'
  BY Taken
<1>2. \A i \in DOMAIN pending' : Of(i, k)' <=> Of(i + 1, k)
  BY <1>1 DEF Of
<1>3. ASSUME NEW i \in DOMAIN pending, i # 1, Of(i, k)
      PROVE  i - 1 \in DOMAIN pending' /\ Of(i - 1, k)'
  <2>1. i - 1 \in DOMAIN pending' /\ (i - 1) + 1 = i
    BY <1>1, <1>3
  <2> QED BY <1>2, <1>3, <2>1
<1>4. ASSUME NEW i \in DOMAIN pending', Last(i, k)'
      PROVE  Last(i + 1, k)
  <2>1. Of(i + 1, k)
    BY <1>2, <1>4 DEF Last
  <2>2. ASSUME NEW j \in DOMAIN pending, Of(j, k) PROVE j <= i + 1
    <3>1. CASE j = 1
      BY <1>1, <3>1
    <3>2. CASE j # 1
      <4>1. j - 1 \in DOMAIN pending' /\ Of(j - 1, k)'
        BY <1>3, <2>2, <3>2
      <4>2. j - 1 <= i
        BY <1>4, <4>1 DEF Last
      <4> QED BY <1>1, <4>2
    <3> QED BY <3>1, <3>2
  <2> QED BY <2>1, <2>2 DEF Last
<1>5. Pending(k)' <=> \E i \in DOMAIN pending' : Of(i, k)'
  BY DEF Pending, Of
<1>6. Pending(k) <=> \E i \in DOMAIN pending : Of(i, k)
  BY DEF Pending, Of
<1>7. Pending(k)' => Pending(k)
  BY <1>1, <1>2, <1>5, <1>6
<1>8. Pending(k) /\ ~Pending(k)' => Of(1, k) /\ \A i \in DOMAIN pending : Of(i, k) => i = 1
  BY <1>3, <1>5, <1>6
<1>9. Pending(k) /\ ~Pending(k)' => Last(1, k)
  BY <1>1, <1>8 DEF Last
<1> QED BY <1>2, <1>4, <1>7, <1>8, <1>9

\* A call for a look-up, which is not one for a page, is asked for.
LEMMA LookupKeeps ==
  ASSUME IInv, NEW r \in Reports, ResolveDNS(r)
  PROVE  IInv'
<1> DEFINE q == Request(r, "dns", 0, 0, FALSE, FALSE, NoFilter, Unknown)
           n == Len(pending) + 1
<1>1. /\ Usable(r) /\ dns # 1 /\ dns' = 1 /\ pending' = Append(pending, q)
      /\ UNCHANGED <<rep, wedged, filter, dialog, missed, crossed>>
  BY DEF ResolveDNS
<1>2. q \in Requests /\ q.of = r /\ q.kind = "dns"
  BY DEF Request, Requests, NoFilter, Filters, Unknown
<1> HIDE DEF q
<1>3. /\ pending' \in Seq(Requests)
      /\ \A i \in DOMAIN pending : i \in DOMAIN pending' /\ pending'[i] = pending[i]
      /\ n \in DOMAIN pending' /\ pending'[n] = q
      /\ \A i \in DOMAIN pending' : i \in DOMAIN pending \/ i = n
  BY <1>1, <1>2, Appended
<1> HIDE DEF n
<1>4. \A k \in Reports, i \in DOMAIN pending' :
        Of(i, k)' => i \in DOMAIN pending /\ Of(i, k) /\ pending'[i] = pending[i]
  BY <1>2, <1>3 DEF Of
<1>5. \A k \in Reports, i \in DOMAIN pending : Of(i, k) => i \in DOMAIN pending' /\ Of(i, k)'
  BY <1>3 DEF Of
<1>6. \A k \in Reports : Pending(k)' <=> Pending(k)
  BY <1>4, <1>5 DEF Pending, Of
<1>7. \A k \in Reports, i \in DOMAIN pending' :
        Last(i, k)' => i \in DOMAIN pending /\ Last(i, k) /\ pending'[i] = pending[i]
  BY <1>4, <1>5 DEF Last
<1>8. Shape'
  BY <1>1, <1>3 DEF IInv, Shape
<1>9. PageSound'
  BY <1>1 DEF IInv, PageSound
<1>10. CallInv'
  <2>1. rep[r].nav => r = Single
    BY <1>1, OneOpen DEF Usable
  <2>2. ASSUME NEW i \in DOMAIN pending'
        PROVE  /\ rep[pending'[i].of].nav => pending'[i].of = Single
               /\ pending'[i].kind # "dns" => i \in DOMAIN pending /\ pending'[i] = pending[i]
    BY <1>2, <1>3, <2>1 DEF IInv, CallInv
  <2> QED BY <1>1, <2>2 DEF IInv, CallInv
<1>11. LookupInv'
  <2>1. \A i \in DOMAIN pending : pending[i].kind # "dns"
    BY <1>1 DEF IInv, LookupInv
  <2>2. \A i \in DOMAIN pending' : pending'[i].kind = "dns" => i = n
    BY <1>3, <2>1
  <2> QED BY <1>1, <2>2 DEF LookupInv
<1>12. DialogInv'
  BY <1>1 DEF IInv, DialogInv
<1>13. LastInv'
  <2>1. SUFFICES ASSUME NEW k \in Reports, rep[k].nav
                 PROVE  /\ \A i \in DOMAIN pending' : Last(i, k)' => pending'[i].filter = filter
                        /\ k \notin crossed =>
                             /\ \A i \in DOMAIN pending' : Of(i, k)' => pending'[i].filter = filter
                             /\ \A i \in DOMAIN pending' : Last(i, k)' => Fits(rep[k], pending'[i])
    BY <1>1 DEF LastInv, Fits, Total
  <2> QED BY <1>4, <1>7, <2>1 DEF IInv, LastInv
<1>14. StallsHaveCause'
  BY <1>1, <1>6 DEF IInv, StallsHaveCause, SpinnerHasRequest, FailuresHaveCause
<1>15. ViewIsCurrent'
  BY <1>1, <1>6 DEF IInv, ViewIsCurrent, Settled, Aligned, ShowsRows, Total
<1> QED BY <1>8, <1>9, <1>10, <1>11, <1>12, <1>13, <1>14, <1>15 DEF IInv

\* A call is answered: the container of its report becomes S.
LEMMA AnswerKeeps ==
  ASSUME IInv, ~wedged, pending # <<>>, pending' = Tail(pending),
         NEW q, q = Head(pending), NEW S \in Containers,
         rep' = [rep EXCEPT ![q.of] = S], Sound(q.of, S),
         S.nav = rep[q.of].nav, S.open = rep[q.of].open, S.table = rep[q.of].table,
         S.view.kind # "empty" \/ S.view = rep[q.of].view,
         S.chart = "misread" \/ S.view.kind = "garbled" => q.of \in missed,
         wedged' => missed # {} \/ \E k \in Reports : ~rep[k].open,
         S.open /\ S.view.kind = "progress" => Pending(q.of)' \/ wedged' \/ q.of \in missed,
         \A c \in Requests :
           S.nav /\ q.of \notin crossed' /\ c.filter = filter /\ Of(1, q.of) /\ q.filter = filter
             /\ Fits(rep[q.of], c) => Fits(S, c),
         q.kind = "dns" => S = rep[q.of] /\ UNCHANGED wedged,
         Settled(q.of)' /\ q.kind # "dns" =>
           /\ S.view.filter = filter
           /\ S.view.rows > 0 /\ Aligned(q.of)' =>
                S.view.offset = IF S.view.kind = "search" THEN 0 ELSE S.size * (S.page - 1),
         dns' \in {0, 1}, dns' = dns \/ q.kind = "dns",
         crossed \subseteq crossed', crossed' \subseteq Reports,
         UNCHANGED <<filter, dialog, missed>>
  PROVE  IInv'
<1> DEFINE r == q.of
<1>1. /\ pending' \in Seq(Requests)
      /\ 1 \in DOMAIN pending /\ q = pending[1]
      /\ \A i \in DOMAIN pending' : /\ i \in Nat /\ i >= 1 /\ i + 1 \in DOMAIN pending
                                    /\ pending'[i] = pending[i + 1]
  BY Taken
<1>2. \A i \in DOMAIN pending : pending[i] \in Requests /\ pending[i].of \in Reports
  BY CallsTyped
<1>3. r \in Reports
  BY <1>1, <1>2
<1> HIDE DEF r
<1>4. /\ rep' \in [Reports -> Containers] /\ rep'[r] = S
      /\ \A k \in Reports : k # r => rep'[k] = rep[k]
  BY <1>3 DEF IInv, Shape, r
<1>5. \A k \in Reports : /\ rep'[k].nav = rep[k].nav /\ rep'[k].open = rep[k].open
                         /\ rep'[k].table = rep[k].table
  BY <1>4 DEF r
<1>6. Shape'
  BY <1>1, <1>4 DEF IInv, Shape
<1>7. PageSound'
  <2>1. \A k \in Reports : Sound(k, rep'[k])
    BY <1>4 DEF IInv, PageSound, r
  <2> QED BY <1>5, <2>1 DEF IInv, PageSound
<1>8. CallInv'
  <2>1. \A i \in DOMAIN pending' : pending'[i].of \in Reports
    BY <1>1, <1>2
  <2> QED BY <1>1, <1>5, <2>1 DEF IInv, CallInv
<1>9. LookupInv'
  <2>1. ASSUME NEW i \in DOMAIN pending', pending'[i].kind = "dns"
        PROVE  dns' = 1
    <3>1. i + 1 \in DOMAIN pending /\ pending[i + 1].kind = "dns" /\ i + 1 # 1
      BY <1>1, <2>1
    <3>2. q.kind # "dns"
      BY <1>1, <3>1 DEF IInv, LookupInv
    <3> QED BY <3>1, <3>2 DEF IInv, LookupInv
  <2>2. ASSUME NEW i \in DOMAIN pending', NEW j \in DOMAIN pending',
               pending'[i].kind = "dns", pending'[j].kind = "dns"
        PROVE  i = j
    <3>1. i + 1 = j + 1
      BY <1>1, <2>2 DEF IInv, LookupInv
    <3> QED BY <1>1, <3>1
  <2> QED BY <2>1, <2>2 DEF LookupInv
<1>10. DialogInv'
  BY <1>4, <1>5 DEF IInv, DialogInv, Shape, r
<1>11. LastInv'
  <2>1. SUFFICES ASSUME NEW k \in Reports, rep'[k].nav
                 PROVE  /\ \A i \in DOMAIN pending' : Last(i, k)' => pending'[i].filter = filter
                        /\ k \notin crossed' =>
                             /\ \A i \in DOMAIN pending' : Of(i, k)' => pending'[i].filter = filter
                             /\ \A i \in DOMAIN pending' : Last(i, k)' => Fits(rep'[k], pending'[i])
    BY DEF LastInv, Fits, Total
  <2>2. rep[k].nav
    BY <1>5, <2>1
  <2>3. /\ \A i \in DOMAIN pending' : Of(i, k)' => Of(i + 1, k)
        /\ \A i \in DOMAIN pending' : Last(i, k)' => Last(i + 1, k)
    BY TakenLast
  <2>4. /\ \A i \in DOMAIN pending' : Last(i, k)' => pending'[i].filter = filter
        /\ k \notin crossed =>
             /\ \A i \in DOMAIN pending' : Of(i, k)' => pending'[i].filter = filter
             /\ \A i \in DOMAIN pending' : Last(i, k)' => Fits(rep[k], pending'[i])
    BY <1>1, <2>2, <2>3 DEF IInv, LastInv
  <2>5. ASSUME k \notin crossed', NEW i \in DOMAIN pending', Last(i, k)'
        PROVE  Fits(rep'[k], pending'[i])
    <3>1. Fits(rep[k], pending'[i]) /\ pending'[i].filter = filter /\ pending'[i] \in Requests
      BY <1>1, <1>2, <2>4, <2>5
    <3>2. CASE k # r \/ q.kind = "dns"
      BY <1>4, <3>1, <3>2 DEF r
    <3>3. CASE k = r /\ q.kind # "dns"
      <4>1. Of(1, k) /\ q.filter = filter
        BY <1>1, <2>2, <2>5, <3>3 DEF Of, r, IInv, LastInv
      <4>2. S.nav
        BY <1>4, <2>1, <3>3
      <4> QED BY <1>4, <2>5, <3>1, <3>3, <4>1, <4>2 DEF r
    <3> QED BY <3>2, <3>3
  <2> QED BY <2>4, <2>5
<1>12. \A k \in Reports : k # r \/ q.kind = "dns" => (Pending(k)' <=> Pending(k))
  <2>1. ASSUME NEW k \in Reports, k # r \/ q.kind = "dns" PROVE ~Of(1, k)
    BY <1>1, <2>1 DEF Of, r
  <2> QED BY <2>1, TakenLast
<1>13. StallsHaveCause'
  <2>1. ASSUME NEW k \in Reports, rep'[k].open, rep'[k].view.kind = "progress"
        PROVE  Pending(k)' \/ wedged' \/ k \in missed'
    <3>1. CASE k = r
      BY <1>4, <2>1, <3>1 DEF r
    <3>2. CASE k # r
      BY <1>4, <1>12, <2>1, <3>2 DEF IInv, StallsHaveCause, SpinnerHasRequest
    <3> QED BY <3>1, <3>2
  <2>2. \A k \in Reports :
          rep'[k].chart = "misread" \/ rep'[k].view.kind = "garbled" => k \in missed'
    BY <1>4 DEF IInv, StallsHaveCause, FailuresHaveCause, r
  <2> QED BY <1>5, <2>1, <2>2 DEF StallsHaveCause, SpinnerHasRequest, FailuresHaveCause
<1>14. ViewIsCurrent'
  <2>1. SUFFICES ASSUME NEW k \in Reports, Settled(k)'
                 PROVE  /\ rep'[k].view.filter = filter
                        /\ rep'[k].view.rows > 0 /\ Aligned(k)' =>
                             rep'[k].view.offset = IF rep'[k].view.kind = "search" THEN 0
                                                   ELSE rep'[k].size * (rep'[k].page - 1)
    BY DEF ViewIsCurrent
  <2>2. CASE k = r /\ q.kind # "dns"
    BY <1>4, <2>1, <2>2 DEF r
  <2>3. CASE k # r \/ q.kind = "dns"
    <3>1. rep'[k] = rep[k]
      BY <1>4, <2>3 DEF r
    <3>2. Settled(k)
      BY <1>12, <2>1, <2>3, <3>1 DEF Settled
    <3>3. Aligned(k)' => Aligned(k)
      BY <3>1 DEF Aligned, Total
    <3> QED BY <3>1, <3>2, <3>3 DEF IInv, ViewIsCurrent
  <2> QED BY <2>2, <2>3
<1> QED BY <1>6, <1>7, <1>8, <1>9, <1>10, <1>11, <1>13, <1>14 DEF IInv

\* handleResolveDNS keeps the invariant.
LEMMA ResolvedKeeps ==
  ASSUME IInv, NEW null \in BOOLEAN, HandleResolveDNS(null)
  PROVE  IInv'
<1>0. PICK q : q = Head(pending)
  OBVIOUS
<1> DEFINE R == rep[q.of]
<1>1. /\ ~wedged /\ pending # <<>> /\ q.kind = "dns" /\ pending' = Tail(pending)
      /\ dns' = (IF null THEN dns ELSE 0)
      /\ UNCHANGED <<rep, wedged, filter, dialog, missed, crossed>>
  BY <1>0 DEF HandleResolveDNS
<1>2. 1 \in DOMAIN pending /\ q = pending[1] /\ q.of \in Reports
  BY <1>0, <1>1, Taken, CallsTyped
<1>3. R \in Containers /\ Sound(q.of, R)
  BY <1>2, OneContainer
<1>4. rep' = [rep EXCEPT ![q.of] = R]
  BY <1>1, <1>2 DEF IInv, Shape
<1>5. dns' \in {0, 1}
  BY <1>1 DEF IInv, Shape
<1>6. ~Of(1, q.of)
  BY <1>1, <1>2 DEF Of
<1>7. Pending(q.of) => Pending(q.of)'
  BY <1>1, <1>2, <1>6, TakenLast
<1>8. R.open /\ R.view.kind = "progress" => Pending(q.of)' \/ wedged' \/ q.of \in missed
  BY <1>1, <1>2, <1>7 DEF IInv, StallsHaveCause, SpinnerHasRequest
<1>9. R.chart = "misread" \/ R.view.kind = "garbled" => q.of \in missed
  BY <1>2 DEF IInv, StallsHaveCause, FailuresHaveCause
<1>10. PICK S : S = R
  OBVIOUS
<1>11. crossed \subseteq crossed' /\ crossed' \subseteq Reports
  BY <1>1 DEF IInv, Shape
<1> QED BY <1>0, <1>1, <1>3, <1>4, <1>5, <1>6, <1>8, <1>9, <1>10, <1>11, AnswerKeeps

-----------------------------------------------------------------------------
(* Answers to page and search calls.                                       *)

\* A call for a page or a search is well formed, and its container shows its
\* table and the call asks for it unless the history says otherwise.
LEMMA FirstCall ==
  ASSUME IInv, pending # <<>>, NEW q, q = Head(pending), q.kind # "dns"
  PROVE  /\ q \in Requests /\ q.of \in Reports /\ q.kind \in {"page", "search"}
         /\ q.offset \in Nat /\ q.limit \in Nat /\ q.limit >= 1
         /\ q.known \in Nat \cup {Unknown} /\ (q.known # Unknown => q.offset <= q.known)
         /\ q.filter \in Filters /\ q.table \in BOOLEAN /\ q.graph \in BOOLEAN
         /\ q.of \notin missed => q.table /\ rep[q.of].table
         /\ rep[q.of].nav => q.of = Single /\ rep[q.of].open
         /\ Of(1, q.of) /\ 1 \in DOMAIN pending /\ q = pending[1]
         /\ Total(q) \in Nat
<1>1. 1 \in DOMAIN pending /\ q = pending[1]
  BY DEF IInv, Shape
<1>2. q \in Requests /\ q.of \in Reports
  BY <1>1, CallsTyped
<1>3. /\ q.kind \in {"page", "search"} /\ q.offset \in Nat /\ q.limit \in Nat
      /\ q.known \in Nat \cup {Unknown} /\ q.filter \in Filters
      /\ q.table \in BOOLEAN /\ q.graph \in BOOLEAN
  BY <1>2 DEF Requests
<1>4. /\ q.limit >= 1 /\ (q.known # Unknown => q.offset <= q.known)
      /\ q.of \notin missed => q.table /\ rep[q.of].table
      /\ rep[q.of].nav => q.of = Single
  BY <1>1 DEF IInv, CallInv
<1>5. rep[q.of].nav => rep[q.of].open
  BY <1>2, <1>4, OneOpen
<1>6. Of(1, q.of)
  BY <1>1 DEF Of
<1>7. Total(q) \in Nat
  BY DEF Total
<1> QED BY <1>1, <1>2, <1>3, <1>4, <1>5, <1>6, <1>7

\* The number of pages is positive.
LEMMA PagesPositive ==
  ASSUME NEW t \in Int, NEW z \in Nat \ {0}
  PROVE  PagesFor(t, z) \in Nat \ {0}
<1> DEFINE c == (t + z - 1) \div z
<1>1. c \in Int
  OBVIOUS
<1> HIDE DEF c
<1>2. PagesFor(t, z) = MaxOf(1, c)
  BY DEF PagesFor, c
<1> QED BY <1>1, <1>2 DEF MaxOf

\* The totals of an answer change the number of rows, of pages and the page.
LEMMA TotalsFields ==
  ASSUME NEW R \in Containers, NEW t \in Nat \cup {Unknown, Absent}
  PROVE  /\ Totals(R, t) \in Containers
         /\ Totals(R, t).nav = R.nav /\ Totals(R, t).open = R.open /\ Totals(R, t).size = R.size
         /\ Totals(R, t).psize = R.psize /\ Totals(R, t).table = R.table
         /\ Totals(R, t).tlabel = R.tlabel /\ Totals(R, t).graph = R.graph
         /\ Totals(R, t).glabel = R.glabel /\ Totals(R, t).min = R.min
         /\ Totals(R, t).view = R.view /\ Totals(R, t).chart = R.chart
         /\ R.nav /\ t # Absent => /\ Totals(R, t).page = MinOf(R.page, PagesFor(t, R.size))
                                   /\ Totals(R, t).page <= Totals(R, t).pages
         /\ ~R.nav \/ t = Absent => Totals(R, t) = R
<1> DEFINE c == PagesFor(t, R.size)
           m == MinOf(R.page, c)
           T == [R EXCEPT !.rows = t, !.pages = c, !.page = m]
<1>1. R.size \in Nat \ {0} /\ R.page \in Nat \ {0} /\ R.nav \in BOOLEAN
  BY DEF Containers
<1>2. c \in Nat \ {0}
  <2>1. t \in Int
    BY DEF Unknown, Absent
  <2> QED BY <1>1, <2>1, PagesPositive
<1> HIDE DEF c
<1>3. m \in Nat \ {0} /\ m <= c
  BY <1>1, <1>2 DEF MinOf
<1>4. Totals(R, t) = IF R.nav /\ t # Absent THEN T ELSE R
  BY DEF Totals, Containers, c
<1> HIDE DEF m
<1>0. t # Absent => t \in Nat \cup {Unknown}
  OBVIOUS
<1>5. t # Absent =>
      /\ T \in Containers /\ T.page = m /\ T.pages = c
      /\ T.nav = R.nav /\ T.open = R.open /\ T.size = R.size
      /\ T.psize = R.psize /\ T.table = R.table
      /\ T.tlabel = R.tlabel /\ T.graph = R.graph
      /\ T.glabel = R.glabel /\ T.min = R.min
      /\ T.view = R.view /\ T.chart = R.chart
  BY <1>0, <1>2, <1>3 DEF Containers
<1> HIDE DEF T
<1>6. CASE R.nav /\ t # Absent
  BY <1>3, <1>4, <1>5, <1>6 DEF c, m
<1>7. CASE ~R.nav \/ t = Absent
  BY <1>4, <1>7
<1> QED BY <1>1, <1>6, <1>7

\* The parts of an answer: the table, if it was asked for, before the graph.
LEMMA Parts ==
  ASSUME NEW q \in Requests
  PROVE  /\ q.table => Len(Nodes(q)) >= 1
         /\ 2 <= Len(Nodes(q)) => Nodes(q)[2] = "graph"
<1> DEFINE drawn == q.graph /\ ~rep[q.of].ix
<1>1. Nodes(q) = (IF q.table THEN <<"table">> ELSE <<>>) \o (IF drawn THEN <<"graph">> ELSE <<>>)
  BY DEF Nodes
<1> HIDE DEF drawn
<1>2. CASE q.table /\ drawn
  <2>1. ASSUME NEW x, NEW y PROVE (<<x>> \o <<y>>)[2] = y /\ Len(<<x>> \o <<y>>) >= 1
    OBVIOUS
  <2>2. Nodes(q) = <<"table">> \o <<"graph">>
    BY <1>1, <1>2
  <2> QED BY <2>1, <2>2, Zenon
<1>3. CASE q.table /\ ~drawn
  BY <1>1, <1>3
<1>4. CASE ~q.table
  BY <1>1, <1>4
<1> QED BY <1>2, <1>3, <1>4

\* The graph is taken from the part for the table only when the table is hidden.
LEMMA Misreads ==
  ASSUME NEW R \in Containers, NEW q \in Requests, GraphNode(R, q) = "table"
  PROVE  ~R.table
<1>1. ASSUME R.table PROVE FALSE
  <2>1. 2 <= Len(Nodes(q)) /\ Nodes(q)[2] = "table"
    BY <1>1 DEF GraphNode
  <2> QED BY <2>1, Parts
<1> QED BY <1>1

\* A call that fits a page number fits it once that is brought into range.
LEMMA TotalsFit ==
  ASSUME NEW R \in Containers, R.nav, NEW t \in Nat, NEW S,
         S.size = R.size, S.page = MinOf(R.page, PagesFor(t, R.size)),
         NEW c \in Requests, Total(c) = t, Fits(R, c)
  PROVE  Fits(S, c)
<1>1. R.size \in Nat \ {0} /\ R.page \in Nat \ {0}
  BY DEF Containers
<1>2. PagesFor(t, R.size) \in Nat \ {0}
  BY <1>1, PagesPositive
<1>3. MinOf(S.page, PagesFor(t, R.size)) = MinOf(R.page, PagesFor(t, R.size))
  BY <1>1, <1>2 DEF MinOf
<1> QED BY <1>3, Zenon DEF Fits

\* What the rows of an answer are.
LEMMA RowsRange ==
  ASSUME NEW q \in Requests, Total(q) \in Nat, q.limit >= 1
  PROVE  /\ RowsOf(q) \in Nat
         /\ RowsOf(q) > 0 <=> q.offset < Total(q)
<1>1. q.limit \in Nat /\ q.offset \in Nat
  BY DEF Requests
<1> QED BY <1>1 DEF RowsOf, MaxOf, MinOf

\* The fields of a container into which the answer to q is rendered.
LEMMA RenderedFields ==
  ASSUME NEW R \in Containers, NEW q \in Requests, q.kind # "dns", RowsOf(q) \in Nat
  PROVE  /\ Rendered(R, q) \in Containers
         /\ Rendered(R, q).nav = R.nav /\ Rendered(R, q).open = R.open
         /\ Rendered(R, q).page = R.page /\ Rendered(R, q).pages = R.pages
         /\ Rendered(R, q).size = R.size /\ Rendered(R, q).table = R.table
         /\ Rendered(R, q).tlabel = R.tlabel /\ Rendered(R, q).graph = R.graph
         /\ Rendered(R, q).glabel = R.glabel /\ Rendered(R, q).min = R.min
         /\ Rendered(R, q).chart = R.chart
         /\ R.table /\ q.table =>
                       /\ Rendered(R, q).view = View(q.kind, q.offset, RowsOf(q), q.filter, q.known)
                       /\ Rendered(R, q).psize = MaxOf(1, RowsOf(q)) + 1
         /\ R.table /\ ~q.table => Rendered(R, q).view = Message("garbled")
         /\ ~R.table => Rendered(R, q) = R
<1> DEFINE V == View(q.kind, q.offset, RowsOf(q), q.filter, q.known)
           l == MaxOf(1, RowsOf(q)) + 1
           T == [R EXCEPT !.view = V, !.psize = l]
<1>1. V \in Views
  BY DEF Requests, View, Views
<1>2. l \in Nat \ {0}
  BY DEF MaxOf
<1> HIDE DEF V, l
<1>3. /\ T \in Containers /\ T.view = V /\ T.psize = l
      /\ T.nav = R.nav /\ T.open = R.open /\ T.page = R.page /\ T.pages = R.pages
      /\ T.size = R.size /\ T.table = R.table /\ T.tlabel = R.tlabel /\ T.graph = R.graph
      /\ T.glabel = R.glabel /\ T.min = R.min /\ T.chart = R.chart
  BY <1>1, <1>2 DEF Containers
<1> DEFINE M == Message("garbled")
           G == [R EXCEPT !.view = M, !.psize = 2]
<1>4. Rendered(R, q) = IF ~R.table THEN R ELSE IF q.table THEN T ELSE G
  BY DEF Rendered, V, l
<1> HIDE DEF T
<1>5. R.table \in BOOLEAN /\ q.table \in BOOLEAN
  BY DEF Containers, Requests
<1>6. M \in Views
  BY DEF Message, View, Views, NoFilter, Filters, Unknown
<1> HIDE DEF M
<1>7. /\ G \in Containers /\ G.view = M
      /\ G.nav = R.nav /\ G.open = R.open /\ G.page = R.page /\ G.pages = R.pages
      /\ G.size = R.size /\ G.table = R.table /\ G.tlabel = R.tlabel /\ G.graph = R.graph
      /\ G.glabel = R.glabel /\ G.min = R.min /\ G.chart = R.chart
  <2>1. 2 \in Nat \ {0}
    OBVIOUS
  <2> QED BY <1>6, <2>1 DEF Containers
<1> HIDE DEF G
<1>8. CASE R.table /\ q.table
  BY <1>3, <1>4, <1>8 DEF V, l
<1>9. CASE R.table /\ ~q.table
  BY <1>4, <1>7, <1>9 DEF M
<1>10. CASE ~R.table
  BY <1>4, <1>10
<1> QED BY <1>5, <1>8, <1>9, <1>10

\* ajaxRequest and its error handling keep the invariant.
LEMMA AnswersKeep ==
  ASSUME IInv, AjaxRequestFails \/ AjaxRequest
  PROVE  IInv'
<1>0. PICK q : q = Head(pending)
  OBVIOUS
<1> DEFINE r == q.of
           C == rep[r]
<1>1. /\ ~wedged /\ pending # <<>> /\ q.kind # "dns" /\ pending' = Tail(pending)
      /\ UNCHANGED <<filter, dialog, dns, missed>>
  BY <1>0 DEF AjaxRequestFails, AjaxRequest
<1>2. /\ q \in Requests /\ r \in Reports /\ q.kind \in {"page", "search"}
      /\ q.offset \in Nat /\ q.limit \in Nat /\ q.limit >= 1
      /\ q.known \in Nat \cup {Unknown} /\ (q.known # Unknown => q.offset <= q.known)
      /\ q.filter \in Filters /\ q.table \in BOOLEAN /\ q.graph \in BOOLEAN
      /\ r \notin missed => q.table /\ C.table
      /\ C.nav => r = Single /\ C.open
      /\ Of(1, r) /\ 1 \in DOMAIN pending /\ q = pending[1]
      /\ Total(q) \in Nat
  BY <1>0, <1>1, FirstCall
<1>3. /\ C \in Containers /\ Sound(r, C) /\ C.open \in BOOLEAN /\ C.table \in BOOLEAN
      /\ C.nav \in BOOLEAN
  BY <1>2, OneContainer
<1>4. C.chart = "misread" \/ C.view.kind = "garbled" => r \in missed
  BY <1>2 DEF IInv, StallsHaveCause, FailuresHaveCause
<1>5. dns' \in {0, 1} /\ dns' = dns
  BY <1>1 DEF IInv, Shape
<1>6. rep \in [Reports -> Containers]
  BY DEF IInv, Shape
<1>crossed. crossed \subseteq crossed' /\ crossed' \subseteq Reports
  BY <1>0, <1>2 DEF AjaxRequestFails, AjaxRequest, IInv, Shape
<1>7. ASSUME rep' = rep, ~C.open
      PROVE  IInv'
  <2>1. rep' = [rep EXCEPT ![r] = C]
    BY <1>2, <1>6, <1>7
  <2>2. ~C.nav /\ ~Settled(r)'
    BY <1>2, <1>7 DEF Settled
  <2>3. wedged' => missed # {} \/ \E k \in Reports : ~rep[k].open
    BY <1>2, <1>7
  <2>4. PICK S : S = C
    OBVIOUS
  <2> QED BY <1>0, <1>1, <1>2, <1>3, <1>4, <1>5, <1>7, <1>crossed, <2>1, <2>2, <2>3, <2>4, AnswerKeeps
<1>8. CASE AjaxRequestFails /\ ~C.open
  BY <1>0, <1>3, <1>7, <1>8 DEF AjaxRequestFails
<1>9. CASE AjaxRequestFails /\ C.open
  <2>1. PICK S : S = [C EXCEPT !.view = Message("missing")]
    OBVIOUS
  <2>2. rep' = [rep EXCEPT ![r] = S]
    BY <1>0, <1>2, <1>6, <1>9, <2>1 DEF AjaxRequestFails, Containers
  <2>3. Message("missing") \in Views /\ Message("missing").kind = "missing"
    BY DEF Message, View, Views, NoFilter, Filters, Unknown
  <2>4. /\ S \in Containers /\ S.view = Message("missing") /\ S.psize = C.psize
        /\ S.nav = C.nav /\ S.open = C.open /\ S.page = C.page /\ S.pages = C.pages
        /\ S.size = C.size /\ S.table = C.table /\ S.tlabel = C.tlabel /\ S.graph = C.graph
        /\ S.glabel = C.glabel /\ S.min = C.min /\ S.chart = C.chart
    BY <1>3, <2>1, <2>3 DEF Containers
  <2>5. Sound(r, S)
    BY <1>3, <1>9, <2>3, <2>4 DEF Sound, Labelled, Blank, ShowsRows
  <2>6. wedged' = FALSE
    BY <1>0, <1>9 DEF AjaxRequestFails
  <2>7. \A c \in Requests : Fits(C, c) => Fits(S, c)
    BY <2>4 DEF Fits
  <2>8. ~Settled(r)'
    <3>1. rep'[r] = S
      BY <1>2, <1>6, <2>2
    <3> QED BY <2>3, <2>4, <3>1 DEF Settled, ShowsRows
  <2>9. S.view.kind = "missing" /\ (S.chart = "misread" => r \in missed)
    BY <1>4, <2>3, <2>4
  <2> QED BY <1>0, <1>1, <1>5, <1>crossed, <2>2, <2>4, <2>5, <2>6, <2>7, <2>8, <2>9, AnswerKeeps
<1>10. CASE AjaxRequest
  <2>0. PICK t \in Counts(q), threw \in Throws(C, q) :
          /\ IF C.open
             THEN /\ rep' = [rep EXCEPT ![r] = IF threw THEN Totals(C, t) ELSE Shown(Totals(C, t), q)]
                  /\ wedged' = threw
             ELSE UNCHANGED <<rep, wedged>>
          /\ crossed' = IF t = Unknown THEN crossed \cup {r} ELSE crossed
    BY <1>0, <1>10 DEF AjaxRequest
  <2> DEFINE R == Totals(C, t)
             node == GraphNode(R, q)
             shown == Shown(R, q)
  <2>1. CASE ~C.open
    BY <1>0, <1>1, <1>7, <2>0, <2>1
  <2>2. CASE C.open
    <3>1. /\ rep' = [rep EXCEPT ![r] = IF threw THEN R ELSE shown]
          /\ wedged' = threw
      BY <2>0, <2>2
    <3>0. /\ t \in Nat \cup {Unknown, Absent}
          /\ t = Unknown => r \in crossed'
          /\ t \notin {Unknown, Absent} => t = Total(q)
          /\ C.nav /\ q.kind = "page" => t # Absent
      <4>1. t \in {Total(q), Unknown, Absent} /\ (t = Unknown => r \in crossed')
        BY <2>0 DEF Counts
      <4>2. C.nav /\ q.kind = "page" => t \in {Total(q), Unknown}
        BY <2>0 DEF Counts
      <4>3. Absent \notin {Total(q), Unknown}
        BY <1>2 DEF Absent, Unknown
      <4> QED BY <1>2, <4>1, <4>2, <4>3
    <3>2. /\ R \in Containers
          /\ R.nav = C.nav /\ R.open = C.open /\ R.size = C.size
          /\ R.psize = C.psize /\ R.table = C.table
          /\ R.tlabel = C.tlabel /\ R.graph = C.graph
          /\ R.glabel = C.glabel /\ R.min = C.min
          /\ R.view = C.view /\ R.chart = C.chart
          /\ C.nav /\ t # Absent => /\ R.page = MinOf(C.page, PagesFor(t, C.size))
                                    /\ R.page <= R.pages
          /\ ~C.nav \/ t = Absent => R = C
      <4>1. PICK D \in Containers, u \in Nat \cup {Unknown, Absent} : D = C /\ u = t
        BY <1>3, <3>0
      <4>2. R = Totals(D, u)
        BY <4>1
      <4>3. /\ R \in Containers
            /\ R.nav = D.nav /\ R.open = D.open /\ R.size = D.size
            /\ R.psize = D.psize /\ R.table = D.table
            /\ R.tlabel = D.tlabel /\ R.graph = D.graph
            /\ R.glabel = D.glabel /\ R.min = D.min
            /\ R.view = D.view /\ R.chart = D.chart
        <5>1. /\ Totals(D, u) \in Containers
              /\ Totals(D, u).nav = D.nav /\ Totals(D, u).open = D.open
              /\ Totals(D, u).size = D.size
              /\ Totals(D, u).psize = D.psize /\ Totals(D, u).table = D.table
              /\ Totals(D, u).tlabel = D.tlabel /\ Totals(D, u).graph = D.graph
              /\ Totals(D, u).glabel = D.glabel /\ Totals(D, u).min = D.min
              /\ Totals(D, u).view = D.view /\ Totals(D, u).chart = D.chart
          BY TotalsFields, Zenon
        <5> HIDE DEF R
        <5> QED BY <4>2, <5>1, Zenon
      <4>4. D.nav /\ u # Absent => /\ R.page = MinOf(D.page, PagesFor(u, D.size))
                                  /\ R.page <= R.pages
        <5>1. D.nav /\ u # Absent => /\ Totals(D, u).page = MinOf(D.page, PagesFor(u, D.size))
                                    /\ Totals(D, u).page <= Totals(D, u).pages
          BY TotalsFields, Zenon
        <5> QED BY <4>2, <5>1, Zenon
      <4>5. ~D.nav \/ u = Absent => R = D
        BY <4>2, TotalsFields
      <4> HIDE DEF R, C
      <4> QED BY <4>1, <4>3, <4>4, <4>5, Zenon
    <3>n. GraphNode(C, q) = node
      BY <3>2 DEF GraphNode
    <3> HIDE DEF R
    <3>3. Sound(r, R)
      <4>1. CASE R = C
        BY <1>3, <4>1
      <4>2. CASE C.nav /\ t # Absent
        BY <1>3, <2>2, <3>2, <4>2 DEF Sound, Labelled, ShowsRows
      <4> QED BY <1>3, <3>2, <4>1, <4>2
    <3>4. node = "table" => r \in missed
      BY <1>2, <3>2, Misreads
    <3>5. ASSUME NEW S, S.size = R.size, S.page = R.page, C.nav, r \notin crossed', q.filter = filter,
                 NEW c \in Requests, c.filter = filter, Fits(C, c)
          PROVE  Fits(S, c)
      <4>1. Total(c) = Total(q)
        BY <3>5 DEF Total
      <4>2. CASE t = Absent
        <5>1. S.size = C.size /\ S.page = C.page
          BY <3>2, <3>5, <4>2
        <5> QED BY <3>5, <5>1, Zenon DEF Fits
      <4>3. CASE t = Total(q)
        <5>1. t # Absent
          BY <1>2, <4>3 DEF Absent
        <5> QED BY <1>2, <1>3, <3>2, <3>5, <4>1, <4>3, <5>1, TotalsFit
      <4> QED BY <3>0, <3>5, <4>2, <4>3
    <3>6. CASE threw
      <4>1. r \in missed
        <5>1. CASE r \in missed
          BY <5>1
        <5>2. CASE r \notin missed
          <6>1. q.table /\ C.table
            BY <1>2, <5>2
          <6>2. Nodes(q) # << >>
            <7>1. Len(Nodes(q)) >= 1
              BY <1>2, <6>1, Parts, Zenon
            <7> QED BY <7>1
          <6>3. GraphNode(C, q) # "table"
            BY <3>4, <3>n, <5>2
          <6> QED BY <2>0, <3>6, <6>1, <6>2, <6>3 DEF Throws
        <5> QED BY <5>1, <5>2
      <4>2. rep' = [rep EXCEPT ![r] = R] /\ wedged'
        BY <3>1, <3>6
      <4>3. PICK S : S = R
        OBVIOUS
      <4>4. ~Settled(r)'
        BY <4>2 DEF Settled
      <4> QED BY <1>0, <1>1, <1>5, <1>crossed, <3>2, <3>3, <3>5, <4>1, <4>2, <4>3, <4>4, AnswerKeeps
    <3>7. CASE ~threw
      <4>1. PICK S : S = shown
        OBVIOUS
      <4>2. rep' = [rep EXCEPT ![r] = S] /\ ~wedged'
        BY <3>1, <3>7, <4>1
      <4>3. RowsOf(q) \in Nat /\ (RowsOf(q) > 0 <=> q.offset < Total(q))
        BY <1>2, RowsRange
      <4> DEFINE T == Rendered(R, q)
      <4>4. /\ T \in Containers
            /\ T.nav = R.nav /\ T.open = R.open
            /\ T.page = R.page /\ T.pages = R.pages
            /\ T.size = R.size /\ T.table = R.table
            /\ T.tlabel = R.tlabel /\ T.graph = R.graph
            /\ T.glabel = R.glabel /\ T.min = R.min
            /\ T.chart = R.chart
            /\ R.table /\ q.table =>
                          /\ T.view = View(q.kind, q.offset, RowsOf(q), q.filter, q.known)
                          /\ T.psize = MaxOf(1, RowsOf(q)) + 1
            /\ R.table /\ ~q.table => T.view = Message("garbled")
            /\ ~R.table => T = R
        BY <1>1, <1>2, <3>2, <4>3, RenderedFields
      <4> HIDE DEF T
      <4>5. /\ S \in Containers
            /\ S.nav = T.nav /\ S.open = T.open /\ S.page = T.page /\ S.pages = T.pages
            /\ S.size = T.size /\ S.psize = T.psize /\ S.table = T.table
            /\ S.tlabel = T.tlabel /\ S.graph = T.graph
            /\ S.glabel = T.glabel /\ S.min = T.min /\ S.view = T.view
            /\ S.chart = IF node = "graph" THEN "chart" ELSE IF node = "table" THEN "misread" ELSE T.chart
        <5> DEFINE ch == IF node = "graph" THEN "chart" ELSE IF node = "table" THEN "misread" ELSE T.chart
        <5>1. S = [T EXCEPT !.chart = ch]
          BY <4>1, <4>4 DEF Containers, T, Shown
        <5>2. ch \in {"empty", "chart", "misread"}
          <6>1. T.chart \in {"empty", "chart", "misread"}
            BY <4>4 DEF Containers
          <6> QED BY <6>1
        <5> HIDE DEF ch
        <5>3. S.chart = ch
          BY <4>4, <5>1 DEF Containers
        <5>4. S.chart = IF node = "graph" THEN "chart" ELSE IF node = "table" THEN "misread" ELSE T.chart
          BY <5>3 DEF ch
        <5> QED BY <4>4, <5>1, <5>2, <5>4 DEF Containers
      <4>6. S.chart = "misread" => r \in missed
        BY <1>4, <3>2, <3>4, <4>4, <4>5
      <4> DEFINE V == View(q.kind, q.offset, RowsOf(q), q.filter, q.known)
      <4>7. /\ V.kind = q.kind /\ V.offset = q.offset /\ V.rows = RowsOf(q)
            /\ V.filter = q.filter /\ V.known = q.known
        BY DEF View
      <4> HIDE DEF V
      <4>8. Total(V) = Total(q)
        BY <4>7 DEF Total
      <4>9. /\ C.table /\ q.table => S.view = V /\ S.psize = MaxOf(1, V.rows) + 1
            /\ C.table /\ ~q.table => S.view.kind = "garbled"
            /\ ~C.table => S.view = C.view /\ S.psize = C.psize
        <5>1. Message("garbled").kind = "garbled"
          BY DEF Message, View
        <5> QED BY <3>2, <4>4, <4>5, <4>7, <5>1 DEF V
      <4>10. Blank(V)
        BY <1>2, <4>3, <4>7, <4>8 DEF Blank, Unknown
      <4>11. Sound(r, S)
        <5>1. /\ S.nav = R.nav /\ S.open = R.open /\ S.page = R.page /\ S.pages = R.pages
              /\ S.size = R.size /\ S.table = R.table
              /\ S.tlabel = R.tlabel /\ S.graph = R.graph
              /\ S.glabel = R.glabel /\ S.min = R.min
          BY <4>4, <4>5
        <5>2. CASE C.table /\ q.table
          BY <1>2, <2>2, <3>2, <3>3, <4>7, <4>9, <4>10, <5>1, <5>2 DEF Sound, Labelled, ShowsRows
        <5>3. CASE ~C.table
          BY <1>3, <2>2, <3>2, <3>3, <4>9, <5>1, <5>3 DEF Sound, Labelled, ShowsRows
        <5>4. CASE C.table /\ ~q.table
          BY <2>2, <3>2, <3>3, <4>9, <5>1, <5>4 DEF Sound, Labelled, ShowsRows, Blank
        <5> QED BY <1>2, <1>3, <5>2, <5>3, <5>4
      <4>12. ~C.table => r \in missed
        BY <1>2
      <4>13. S.open /\ S.view.kind = "progress" => r \in missed
        BY <1>2, <1>3, <4>7, <4>9, <4>12
      <4>21. S.chart = "misread" \/ S.view.kind = "garbled" => r \in missed
        BY <1>2, <1>3, <1>4, <4>6, <4>7, <4>9
      <4>14. S.view.kind # "empty" \/ S.view = C.view
        BY <1>2, <1>3, <4>7, <4>9
      <4>15. ASSUME Settled(r)'
             PROVE  /\ S.view.filter = filter
                    /\ S.view.rows > 0 /\ Aligned(r)' =>
                         S.view.offset = IF S.view.kind = "search" THEN 0 ELSE S.size * (S.page - 1)
        <5>1. rep'[r] = S
          BY <1>2, <1>6, <4>2
        <5>2. S.nav /\ ~Pending(r)' /\ r \notin missed
          BY <1>1, <4>15, <5>1 DEF Settled
        <5>3. C.nav /\ S.view = V
          BY <1>2, <3>2, <4>4, <4>5, <4>9, <5>2
        <5>4. Pending(r)
          BY <1>2 DEF Pending, Of
        <5>5. Last(1, r)
          BY <1>1, <1>2, <5>2, <5>4, TakenLast
        <5>6. q.filter = filter /\ (r \notin crossed' => Fits(C, q))
          BY <1>2, <1>crossed, <5>3, <5>5 DEF IInv, LastInv
        <5>7. ASSUME S.view.rows > 0, Aligned(r)'
              PROVE  S.view.offset = IF S.view.kind = "search" THEN 0 ELSE S.size * (S.page - 1)
          <6>1. r \notin crossed' /\ q.known \in {Unknown, Total(q)}
            <7>1. r \notin crossed' /\ S.view.known \in {Unknown, Total(rep'[r].view)}
              BY <5>1, <5>7 DEF Aligned, Total
            <7> QED BY <1>1, <4>7, <4>8, <5>1, <5>3, <7>1
          <6>2. q.offset < Total(q)
            BY <4>3, <4>7, <5>3, <5>7
          <6>3. q.kind = "page" => q.offset = C.size * (MinOf(C.page, PagesFor(Total(q), C.size)) - 1)
            BY <5>6, <6>1, <6>2 DEF Fits
          <6>4. q.kind = "search" => q.offset = 0
            BY <5>6, <6>1 DEF Fits
          <6>5. /\ S.size = C.size
                /\ q.kind = "page" => S.page = MinOf(C.page, PagesFor(Total(q), C.size))
            <7>1. q.kind = "page" => t = Total(q) /\ t # Absent
              BY <3>0, <5>3, <6>1
            <7> QED BY <3>2, <4>4, <4>5, <5>3, <7>1
          <6>6. q.kind = "page" => q.offset = S.size * (S.page - 1)
            BY <6>3, <6>5
          <6> QED BY <1>2, <4>7, <5>3, <6>4, <6>6
        <5> QED BY <4>7, <5>3, <5>6, <5>7
      <4>16. S.nav = C.nav /\ S.open = C.open /\ S.table = C.table
        BY <3>2, <4>4, <4>5
      <4>17. \A c \in Requests :
               S.nav /\ r \notin crossed' /\ c.filter = filter /\ Of(1, r) /\ q.filter = filter
                 /\ Fits(C, c) => Fits(S, c)
        <5>1. S.size = R.size /\ S.page = R.page
          BY <4>4, <4>5
        <5>2. S.nav => C.nav
          BY <4>16
        <5>3. ASSUME NEW c \in Requests, S.nav, r \notin crossed', c.filter = filter,
                     q.filter = filter, Fits(C, c)
              PROVE  Fits(S, c)
          BY <3>5, <5>1, <5>2, <5>3
        <5> QED BY <5>3
      <4>18. Settled(r)' /\ q.kind # "dns" =>
               /\ S.view.filter = filter
               /\ S.view.rows > 0 /\ Aligned(r)' =>
                    S.view.offset = IF S.view.kind = "search" THEN 0 ELSE S.size * (S.page - 1)
        BY <4>15
      <4>19. S \in Containers
        BY <4>5
      <4> HIDE DEF C, node, shown
      <4>20. C = rep[q.of]
        BY DEF C
      <4> QED BY <1>0, <1>1, <1>5, <1>crossed, <4>2, <4>21, <4>11, <4>13, <4>14, <4>16, <4>17, <4>18, <4>19,
                 <4>20, AnswerKeeps
    <3> QED BY <3>6, <3>7
  <2> QED BY <1>3, <2>1, <2>2
<1> QED BY <1>3, <1>8, <1>9, <1>10

-----------------------------------------------------------------------------
(* The theorems.                                                           *)

\* A page as its script makes it, with one report or with a group.
LEMMA InitIInv == Init => IInv
<1> SUFFICES ASSUME Init PROVE IInv
  OBVIOUS
<1>1. pending = <<>> /\ wedged = FALSE /\ filter = NoFilter /\ dialog = NoReport /\ dns = 0
      /\ missed = {} /\ crossed = {}
  BY DEF Init
<1>2. ASSUME NEW nav \in BOOLEAN, NEW ix \in BOOLEAN, NEW z \in Sizes \cup {GroupSize},
             NEW there \in BOOLEAN
      PROVE  /\ Container(nav, ix, z, there) \in Containers
             /\ Container(nav, ix, z, there).view.kind = "empty"
             /\ Container(nav, ix, z, there).chart = "empty"
             /\ Container(nav, ix, z, there).nav = nav
             /\ \A r : (nav => (there <=> r = Single)) /\ (~nav => z = GroupSize) =>
                        Sound(r, Container(nav, ix, z, there))
  <2> DEFINE M == Message("empty")
             tl == IF nav THEN "Hide" ELSE "none"
             C == Container(nav, ix, z, there)
  <2>1. M \in Views /\ M.kind = "empty"
    BY DEF Message, View, Views, NoFilter, Filters, Unknown
  <2>2. tl \in {"Hide", "none"} /\ z \in Nat \ {0}
    BY <1>2
  <2>3. C = [nav |-> nav, ix |-> ix, open |-> there, page |-> 1, pages |-> 1, rows |-> Unknown, size |-> z,
             psize |-> z, table |-> TRUE, tlabel |-> tl, graph |-> TRUE, glabel |-> tl,
             min |-> FALSE, view |-> M, chart |-> "empty", vals |-> {}]
    BY DEF Container
  <2>4. (nav => tl = "Hide") /\ (~nav => tl = "none")
    OBVIOUS
  <2> HIDE DEF M, tl, C
  <2>5. C \in Containers
    <3>1. tl \in {"Hide", "Show", "none"} /\ tl \in {"Hide", "Show", "", "none"}
      BY <2>2
    <3>2. Unknown \in Nat \cup {Unknown} /\ {} \in SUBSET Cols
      OBVIOUS
    <3>3. 1 \in Nat \ {0}
      OBVIOUS
    <3> QED BY <2>1, <2>2, <2>3, <3>1, <3>2, <3>3, Zenon DEF Containers
  <2>6. /\ C.nav = nav /\ C.open = there /\ C.page = 1 /\ C.pages = 1 /\ C.size = z
        /\ C.table = TRUE /\ C.tlabel = tl /\ C.graph = TRUE /\ C.glabel = tl
        /\ C.min = FALSE /\ C.view = M /\ C.chart = "empty"
    BY <2>3
  <2>7. ASSUME NEW r, nav => (there <=> r = Single), ~nav => z = GroupSize
        PROVE  Sound(r, C)
    BY <2>1, <2>4, <2>6, <2>7 DEF Sound, Labelled, Blank, ShowsRows
  <2> QED BY <2>1, <2>5, <2>6, <2>7 DEF C
<1>3. PICK nav \in BOOLEAN, ix \in [Reports -> BOOLEAN], z \in Sizes \cup {GroupSize} :
        /\ ~nav => z = GroupSize
        /\ rep = [r \in Reports |-> Container(nav, ix[r], z, nav => r = Single)]
  <2>1. CASE \E z \in Sizes, ix \in BOOLEAN :
               rep = [r \in Reports |-> Container(TRUE, ix, z, r = Single)]
    <3>1. PICK z \in Sizes, ix \in BOOLEAN :
            rep = [r \in Reports |-> Container(TRUE, ix, z, r = Single)]
      BY <2>1
    <3>2. \A r : (TRUE => r = Single) = (r = Single)
      OBVIOUS
    <3> DEFINE f == [r \in Reports |-> ix]
    <3>3. f \in [Reports -> BOOLEAN] /\ \A r \in Reports : f[r] = ix
      OBVIOUS
    <3> HIDE DEF f
    <3>4. rep = [r \in Reports |-> Container(TRUE, f[r], z, TRUE => r = Single)]
      BY <3>1, <3>2, <3>3
    <3> QED BY <3>3, <3>4
  <2>2. CASE rep = [r \in Reports |-> Container(FALSE, r \in Indexed, GroupSize, TRUE)]
    <3> DEFINE f == [r \in Reports |-> r \in Indexed]
    <3>1. f \in [Reports -> BOOLEAN] /\ \A r \in Reports : f[r] = (r \in Indexed)
      OBVIOUS
    <3> HIDE DEF f
    <3>2. rep = [r \in Reports |-> Container(FALSE, f[r], GroupSize, FALSE => r = Single)]
      BY <2>2, <3>1
    <3> QED BY <3>1, <3>2
  <2> QED BY <2>1, <2>2 DEF Init
<1>4. \A r \in Reports : /\ rep[r] \in Containers /\ Sound(r, rep[r]) /\ rep[r].nav = nav
                         /\ rep[r].view.kind = "empty" /\ rep[r].chart = "empty"
  <2>1. ASSUME NEW r \in Reports
        PROVE  /\ rep[r] \in Containers /\ Sound(r, rep[r]) /\ rep[r].nav = nav
               /\ rep[r].view.kind = "empty" /\ rep[r].chart = "empty"
    <3>1. PICK there \in BOOLEAN : there = (nav => r = Single)
      OBVIOUS
    <3>4. PICK x \in BOOLEAN : x = ix[r]
      BY <1>3
    <3>2. rep[r] = Container(nav, x, z, there)
      BY <1>3, <3>1, <3>4
    <3>3. (nav => (there <=> r = Single)) /\ (~nav => z = GroupSize)
      BY <1>3, <3>1
    <3>5. /\ Container(nav, x, z, there) \in Containers
          /\ Container(nav, x, z, there).view.kind = "empty"
          /\ Container(nav, x, z, there).chart = "empty"
      BY <1>2
    <3>7. Container(nav, x, z, there).nav = nav
      BY Zenon DEF Container
    <3>6. Sound(r, Container(nav, x, z, there))
      <4>1. \A k : (nav => (there <=> k = Single)) /\ (~nav => z = GroupSize) =>
                     Sound(k, Container(nav, x, z, there))
        BY <1>2
      <4> QED BY <3>3, <4>1, Zenon
    <3> QED BY <3>2, <3>5, <3>6, <3>7, Zenon
  <2> QED BY <2>1
<1>5. Shape
  <2>1. rep \in [Reports -> Containers]
    BY <1>3, <1>4
  <2>2. filter \in Filters
    BY <1>1 DEF NoFilter, Filters
  <2> QED BY <1>1, <2>1, <2>2 DEF Shape
<1>6. PageSound
  BY <1>4 DEF PageSound
<1>7. CallInv /\ LookupInv /\ DialogInv /\ LastInv
  BY <1>1 DEF CallInv, LookupInv, DialogInv, LastInv
<1>8. StallsHaveCause /\ ViewIsCurrent
  BY <1>1, <1>4 DEF StallsHaveCause, SpinnerHasRequest, FailuresHaveCause, ViewIsCurrent,
                    Settled, ShowsRows
<1> QED BY <1>5, <1>6, <1>7, <1>8 DEF IInv

\* Every step keeps the invariant.
LEMMA NextIInv == IInv /\ [Next]_vars => IInv'
<1> SUFFICES ASSUME IInv, [Next]_vars PROVE IInv'
  OBVIOUS
<1>1. CASE UNCHANGED vars
  <2>1. UNCHANGED <<rep, pending, wedged, filter, dialog, dns, missed, crossed>>
    BY <1>1 DEF vars
  <2>2. Shape' /\ PageSound' /\ CallInv' /\ LookupInv' /\ DialogInv'
    BY <2>1 DEF IInv, Shape, PageSound, CallInv, LookupInv, DialogInv
  <2>3. LastInv'
    BY <2>1 DEF IInv, LastInv, Last, Of, Fits, Total
  <2>4. StallsHaveCause'
    BY <2>1 DEF IInv, StallsHaveCause, SpinnerHasRequest, FailuresHaveCause, Pending
  <2>5. ViewIsCurrent'
    BY <2>1 DEF IInv, ViewIsCurrent, Settled, Aligned, Pending, ShowsRows, Total
  <2> QED BY <2>2, <2>3, <2>4, <2>5 DEF IInv
<1>2. CASE \E r \in Reports :
             \/ Load(r) \/ NextPage(r) \/ PrevPage(r) \/ FirstPage(r) \/ LastPage(r)
             \/ \E p \in 1..rep[r].pages : JumpToPage(r, p)
             \/ \E z \in Sizes : SelectCombo(r, z)
             \/ SortColumn(r)
  BY <1>2, PagesKeep
<1>3. CASE \E r \in Reports :
             ShowHideTable(r) \/ ShowHideGraph(r) \/ MinContainer(r) \/ CloseContainer(r)
  BY <1>3, ButtonsKeep
<1>4. CASE HideSearch \/ \E r \in Reports : ShowSearch(r)
  BY <1>4, DialogKeeps
<1>5. CASE \E r \in Reports : ResolveDNS(r)
  BY <1>5, LookupKeeps
<1>6. CASE \E c \in Cols, given \in BOOLEAN : GetSearchResult(c, given)
  BY <1>6, SearchKeeps
<1>7. CASE AjaxRequestFails \/ AjaxRequest
  BY <1>7, AnswersKeep
<1>8. CASE \E null \in BOOLEAN : HandleResolveDNS(null)
  BY <1>8, ResolvedKeeps
<1> QED BY <1>1, <1>2, <1>3, <1>4, <1>5, <1>6, <1>7, <1>8 DEF Next, Answer

\* The invariant holds of every behaviour.
LEMMA Invariant == Spec => []IInv
  BY InitIInv, NextIInv, PTL DEF Spec

\* The invariant gives what PageInv says of every container and call.
LEMMA IInvPage == IInv => PageInv
<1> SUFFICES ASSUME IInv PROVE PageInv
  OBVIOUS
<1>1. TypeOK
  <2>1. \A R \in Containers :
          /\ R.page \in Nat \ {0} /\ R.pages \in Nat \ {0}
          /\ R.rows \in Nat \cup {Unknown} /\ R.size \in Sizes \cup {GroupSize}
          /\ R.psize \in Nat \ {0} /\ R.vals \subseteq Cols
    BY DEF Containers
  <2>2. \A r \in Reports : rep[r] \in Containers
    BY DEF IInv, Shape
  <2>3. \A i \in DOMAIN pending : pending[i].of \in Reports /\ pending[i].offset \in Nat
    <3>1. \A q \in Requests : q.offset \in Nat
      BY DEF Requests
    <3> QED BY <3>1, CallsTyped
  <2> QED BY <2>1, <2>2, <2>3 DEF TypeOK, IInv, Shape
<1>2. PageInRange
  BY DEF PageInRange, IInv, PageSound, Sound
<1>3. BlankPageCause
  BY DEF BlankPageCause, IInv, PageSound, Sound, Blank, ShowsRows
<1>4. OneLookup
  <2> DEFINE lookups == {i \in DOMAIN pending : pending[i].kind = "dns"}
  <2>1. lookups # {} => dns = 1
    BY DEF IInv, LookupInv
  <2>2. CASE lookups = {}
    <3>1. Cardinality(lookups) = 0
      BY <2>2, FS_EmptySet
    <3> QED BY <2>2, <3>1 DEF OneLookup
  <2>3. CASE lookups # {}
    <3>1. PICK i \in DOMAIN pending : pending[i].kind = "dns"
      BY <2>3
    <3>2. lookups = {i}
      BY <3>1 DEF IInv, LookupInv
    <3>3. Cardinality(lookups) = 1
      BY <3>2, FS_Singleton
    <3> QED BY <2>1, <3>3 DEF OneLookup
  <2> QED BY <2>2, <2>3
<1>5. LayoutAsLabelled
  <2>1. \A r \in Reports : Labelled(rep[r]) /\ rep[r].nav \in BOOLEAN
    BY OneContainer DEF Sound
  <2> QED BY <2>1 DEF LayoutAsLabelled, Labelled
<1> QED BY <1>1, <1>2, <1>3, <1>4, <1>5 DEF PageInv

\* The page number is in range whatever was clicked while an answer was on its
\* way, a page without rows was asked for at the very end, at most one name is
\* looked up and DNSTimer is then set, and the labels say what is shown.
THEOREM PagesAreSound == Spec => []PageInv
  BY Invariant, IInvPage, PTL

\* Once nothing is awaited, the rows on display are those of the search in
\* force and, unless a search crossed another call, those of the page number.
THEOREM RowsOfThePage == Spec => []ViewIsCurrent
<1>1. IInv => ViewIsCurrent
  BY DEF IInv
<1> QED BY <1>1, Invariant, PTL

\* The links that getPDF and getXLS make start at the first row on display, in
\* the cases that ExportsThePage names.
THEOREM FilesOfThePage == Spec => []ExportsThePage
<1>1. IInv => ExportsThePage
  <2> SUFFICES ASSUME IInv, NEW r \in Reports,
                      Settled(r), rep[r].view.kind = "page", rep[r].view.rows > 0, Aligned(r)
               PROVE  /\ GetPDF(rep[r]) = rep[r].view.offset
                      /\ (rep[r].page = 1 \/ rep[r].view.rows = rep[r].size) =>
                           GetXLS(rep[r]) = rep[r].view.offset
    BY DEF ExportsThePage
  <2> DEFINE R == rep[r]
  <2>1. R.view.offset = R.size * (R.page - 1)
    BY DEF IInv, ViewIsCurrent
  <2>2. R \in Containers /\ R.page \in Nat \ {0} /\ R.size \in Nat \ {0} /\ Sound(r, R)
    BY OneContainer
  <2>3. R.view.rows \in Nat
    BY <2>2 DEF Containers, Views
  <2>4. R.psize - 1 = R.view.rows
    BY <2>2, <2>3 DEF Sound, ShowsRows, MaxOf
  <2> HIDE DEF R
  <2>5. GetPDF(R) = R.view.offset
    BY <2>1 DEF GetPDF
  <2>6. GetXLS(R) = R.view.rows * (R.page - 1)
    BY <2>4 DEF GetXLS
  <2>7. R.page = 1 => GetXLS(R) = R.view.offset
    BY <2>1, <2>2, <2>3, <2>6
  <2>8. R.view.rows = R.size => GetXLS(R) = R.view.offset
    BY <2>1, <2>6
  <2> QED BY <2>5, <2>7, <2>8 DEF R
<1> QED BY <1>1, Invariant, PTL

\* A progress image that stays, a misread answer and a stuck queue come only
\* from a table hidden or toggled while loading or from a closed container.
THEOREM StallsExplained == Spec => []StallsHaveCause
<1>1. IInv => StallsHaveCause
  BY DEF IInv
<1> QED BY <1>1, Invariant, PTL
=============================================================================
