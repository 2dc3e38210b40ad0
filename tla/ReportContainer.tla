-------------------------- MODULE ReportContainer --------------------------
(***************************************************************************)
(* The report containers of the web pages (javascript/container.js).  A    *)
(* page holds either one report with navigation (singlereport.jsp) or a    *)
(* group of reports with minimise and close buttons (report.jsp); all of   *)
(* them share the request queue of ajax.js, the search query, the sort     *)
(* order and the flag DNSTimer.  The queue is used here as AjaxQueue shows *)
(* it to work for SimpleAJAXCall: answers in the order of the calls, and   *)
(* none after a callback has thrown.  The server (AjaxController.java)     *)
(* answers a report from the database or from the index of raw logs, and   *)
(* the two kinds of answer differ in their totals and in their graph.      *)
(***************************************************************************)
EXTENDS Integers, Sequences, FiniteSets

CONSTANTS
  Reports,      \* identifiers of the reports of a page
  Single,       \* the report of a page with navigation
  Indexed,      \* the reports of a group that are answered from the index
  NoReport,     \* no report
  Sizes,        \* the page sizes offered
  GroupSize,    \* page size of the reports of a group (5)
  GraphLimit,   \* largest page size shown with a graph (10)
  Cols,         \* searchable columns
  TotalRows,    \* rows of the report in the database
  FoundRows,    \* rows that pass a search
  MaxPending    \* bound on the calls waiting for an answer

ASSUME ReportAssumption ==
  Single \in Reports /\ Indexed \subseteq Reports /\ NoReport \notin Reports
ASSUME SizeAssumption ==
  /\ Sizes # {} /\ Sizes \cup {GroupSize} \subseteq Nat \ {0, 1}
  /\ GraphLimit \in Nat /\ GroupSize <= GraphLimit
ASSUME RowsAssumption == TotalRows \in Nat /\ FoundRows \in Nat /\ MaxPending \in Nat

VARIABLES
  rep,       \* the containers
  pending,   \* calls waiting for their answers, in order
  wedged,    \* a callback threw: the queue is stuck
  filter,    \* searchQuery: the report it was built for, and its columns
  dialog,    \* the report whose search dialog is open
  dns,       \* DNSTimer
  missed,    \* history: reports whose table was hidden when its page was asked
             \* for, or toggled before the answer came
  crossed    \* history: reports for which a search was asked for while an
             \* answer was awaited, or whose rows the server failed to count

vars == <<rep, pending, wedged, filter, dialog, dns, missed, crossed>>

Unknown == -1
MinOf(a, b) == IF a < b THEN a ELSE b
MaxOf(a, b) == IF a > b THEN a ELSE b

NoFilter == [of |-> NoReport, cols |-> {}]
View(k, o, w, f, n) == [kind |-> k, offset |-> o, rows |-> w, filter |-> f, known |-> n]
Message(k) == View(k, 0, 0, NoFilter, Unknown)

\* A call: kind "page" from setContPage, "search" from getSearchResult, "dns".
\* known is a history field: the number of rows known when the call was made.
Request(r, k, off, lim, tab, gr, f, n) ==
  [of |-> r, kind |-> k, offset |-> off, limit |-> lim, table |-> tab, graph |-> gr,
   filter |-> f, known |-> n]

\* setContainer and setNevigation of a report, which is answered from the index
\* (ix) or from the database: size is what the combo shows, psize the field
\* pageSize, which holds the number of table lines once a page is rendered.
Container(nav, ix, size, there) ==
  [nav |-> nav, ix |-> ix, open |-> there, page |-> 1, pages |-> 1, rows |-> Unknown, size |-> size, psize |-> size,
   table |-> TRUE, tlabel |-> IF nav THEN "Hide" ELSE "none",
   graph |-> TRUE, glabel |-> IF nav THEN "Hide" ELSE "none",
   min |-> FALSE, view |-> Message("empty"), chart |-> "empty", vals |-> {}]

Pending(r) == \E i \in DOMAIN pending : pending[i].of = r /\ pending[i].kind # "dns"

-----------------------------------------------------------------------------
\* The offset that setContPage asks for.
Offset(R) ==
  LET off == R.size * (R.page - 1)
  IN IF R.rows # Unknown /\ off > R.rows THEN R.rows - (R.rows % R.size) ELSE off

\* showGraph and hideGraph as setContPage calls them, with the label.
ShownGraph(R) ==
  [R EXCEPT !.graph = (R.size <= GraphLimit),
            !.glabel = IF ~R.nav THEN @ ELSE IF R.size <= GraphLimit THEN "Hide" ELSE ""]

\* setContPage on report r, whose container the caller has changed to R.
SetContPage(r, R) ==
  /\ Len(pending) < MaxPending
  /\ IF R.page \in 1..R.pages
     THEN LET S == ShownGraph(R) IN
          /\ rep' = [rep EXCEPT ![r] = [S EXCEPT !.view = Message("progress"), !.chart = "empty",
                                                       !.psize = R.size]]
          /\ pending' = Append(pending,
                Request(r, "page", Offset(R), R.size, R.table, S.graph, filter, R.rows))
     ELSE /\ rep' = [rep EXCEPT ![r] = [R EXCEPT !.chart = "empty"]]
          /\ UNCHANGED pending
  /\ missed' = IF ~R.table THEN missed \cup {r}
               ELSE IF Pending(r) \/ wedged THEN missed ELSE missed \ {r}
  /\ crossed' = IF Pending(r) THEN crossed ELSE crossed \ {r}
  /\ UNCHANGED <<wedged, filter, dialog, dns>>

\* The user reaches a container that was loaded; the search dialog covers it.
Usable(r) == dialog = NoReport /\ rep[r].open /\ rep[r].view.kind # "empty"
Navigable(r) == Usable(r) /\ rep[r].nav
ShowsRows(R) == R.view.kind \in {"page", "search"}

Init ==
  /\ \E single \in BOOLEAN :
       IF single
       THEN \E z \in Sizes, ix \in BOOLEAN :
              rep = [r \in Reports |-> Container(TRUE, ix, z, r = Single)]
       ELSE rep = [r \in Reports |-> Container(FALSE, r \in Indexed, GroupSize, TRUE)]
  /\ pending = <<>>
  /\ wedged = FALSE
  /\ filter = NoFilter
  /\ dialog = NoReport
  /\ dns = 0
  /\ missed = {} /\ crossed = {}

\* The script of the page calls setContPage once per report.
Load(r) ==
  /\ rep[r].open
  /\ rep[r].view.kind = "empty"
  /\ SetContPage(r, rep[r])

NextPage(r) ==
  /\ Navigable(r)
  /\ rep[r].page < rep[r].pages
  /\ SetContPage(r, [rep[r] EXCEPT !.page = @ + 1])

PrevPage(r) ==
  /\ Navigable(r)
  /\ rep[r].page # 1
  /\ SetContPage(r, [rep[r] EXCEPT !.page = @ - 1])

FirstPage(r) ==
  /\ Navigable(r)
  /\ SetContPage(r, [rep[r] EXCEPT !.page = 1])

LastPage(r) ==
  /\ Navigable(r)
  /\ rep[r].page # rep[r].pages
  /\ SetContPage(r, [rep[r] EXCEPT !.page = rep[r].pages])

\* Of the texts that the check accepts, such as 1.5, the whole numbers.
JumpToPage(r, p) ==
  /\ Navigable(r)
  /\ p \in 1..rep[r].pages
  /\ SetContPage(r, [rep[r] EXCEPT !.page = p])

\* selectCombo: the page stays what it was.
SelectCombo(r, z) ==
  /\ Navigable(r)
  /\ SetContPage(r, [rep[r] EXCEPT !.size = z])

\* A click on the head of a column: the order changes, the first page is shown.
SortColumn(r) ==
  /\ Navigable(r)
  /\ rep[r].table /\ ShowsRows(rep[r])
  /\ SetContPage(r, [rep[r] EXCEPT !.page = 1])

-----------------------------------------------------------------------------
\* The table of r is shown or hidden while an answer may be on its way.
Moves(r) == missed' = IF Pending(r) THEN missed \cup {r} ELSE missed

ShowHideTable(r) ==
  /\ Navigable(r)
  /\ rep' = [rep EXCEPT ![r].table = ~@, ![r].tlabel = IF rep[r].table THEN "Show" ELSE "Hide"]
  /\ Moves(r)
  /\ UNCHANGED <<pending, wedged, filter, dialog, dns, crossed>>

\* With an empty label there is nothing to click on.
ShowHideGraph(r) ==
  /\ Navigable(r)
  /\ rep[r].glabel # ""
  /\ rep' = [rep EXCEPT ![r].graph = ~@, ![r].glabel = IF rep[r].graph THEN "Show" ELSE "Hide"]
  /\ UNCHANGED <<pending, wedged, filter, dialog, dns, missed, crossed>>

\* minContainer of a report in a group, which has no labels.
MinContainer(r) ==
  /\ Usable(r) /\ ~rep[r].nav
  /\ rep' = [rep EXCEPT ![r].table = ~@, ![r].graph = ~@, ![r].min = ~@]
  /\ Moves(r)
  /\ UNCHANGED <<pending, wedged, filter, dialog, dns, crossed>>

\* closeContainer empties the element: the fields of the report are gone.
CloseContainer(r) ==
  /\ Usable(r) /\ ~rep[r].nav
  /\ rep' = [rep EXCEPT ![r].open = FALSE]
  /\ UNCHANGED <<pending, wedged, filter, dialog, dns, missed, crossed>>

-----------------------------------------------------------------------------
\* The filter images are in the head of the table.
ShowSearch(r) ==
  /\ Usable(r)
  /\ rep[r].table /\ ShowsRows(rep[r])
  /\ dialog' = r
  /\ UNCHANGED <<rep, pending, wedged, filter, dns, missed, crossed>>

HideSearch ==
  /\ dialog # NoReport
  /\ dialog' = NoReport
  /\ UNCHANGED <<rep, pending, wedged, filter, dns, missed, crossed>>

\* Faulty variant: searchQuery is not kept for the pages that follow.
GetSearchResultOnce(c, given) ==
  LET r == dialog
      vals == IF given THEN rep[r].vals \cup {c} ELSE rep[r].vals \ {c}
      f == IF vals = {} THEN NoFilter ELSE [of |-> r, cols |-> vals]
  IN /\ dialog # NoReport
     /\ Len(pending) < MaxPending
     /\ rep' = [rep EXCEPT ![r].vals = vals, ![r].view = Message("progress"), ![r].chart = "empty"]
     /\ pending' = Append(pending, Request(r, "search", 0, rep[r].size, TRUE, TRUE, f, rep[r].rows))
     /\ dialog' = NoReport
     /\ crossed' = IF Pending(r) THEN crossed \cup {r} ELSE crossed \ {r}
     /\ UNCHANGED <<wedged, filter, dns, missed>>

\* getSearchResult: column c gets a value or loses it, searchQuery is built
\* from every column of the report with a value, and table and graph are asked
\* for from offset 0, whatever is hidden, in the default order; the number of
\* the page on display stays.
GetSearchResult(c, given) ==
  LET r == dialog
      vals == IF given THEN rep[r].vals \cup {c} ELSE rep[r].vals \ {c}
      f == IF vals = {} THEN NoFilter ELSE [of |-> r, cols |-> vals]
  IN /\ dialog # NoReport
     /\ Len(pending) < MaxPending
     /\ filter' = f
     /\ rep' = [rep EXCEPT ![r].vals = vals, ![r].view = Message("progress"), ![r].chart = "empty"]
     /\ pending' = Append(pending, Request(r, "search", 0, rep[r].size, TRUE, TRUE, f, rep[r].rows))
     /\ dialog' = NoReport
     /\ crossed' = IF Pending(r) THEN crossed \cup {r} ELSE crossed \ {r}
     /\ UNCHANGED <<wedged, dns, missed>>

\* A click on the image beside an address.
ResolveDNS(r) ==
  /\ Usable(r)
  /\ rep[r].table /\ ShowsRows(rep[r])
  /\ dns # 1
  /\ Len(pending) < MaxPending
  /\ dns' = 1
  /\ pending' = Append(pending, Request(r, "dns", 0, 0, FALSE, FALSE, NoFilter, Unknown))
  /\ UNCHANGED <<rep, wedged, filter, dialog, missed, crossed>>

-----------------------------------------------------------------------------
\* The rows that the server holds for a request.
Total(q) == IF q.filter = NoFilter THEN TotalRows ELSE FoundRows

\* The attribute totalRecord of the answer: an index knows its hits; rows of the
\* database are counted if the call says issort=true, which setContPage does on
\* a page with one report and getSearchResult never does, and -1 is sent if
\* that query fails.
Absent == -2
Counts(q) ==
  IF rep[q.of].ix THEN {Total(q)}
  ELSE IF q.kind = "page" /\ rep[q.of].nav THEN {Total(q), Unknown}
  ELSE {Absent}

PagesFor(t, z) == MaxOf(1, (t + z - 1) \div z)

\* Faulty variant: the page on display is left alone.
TotalsKeepPage(R, t) ==
  IF R.nav /\ t # Absent THEN [R EXCEPT !.rows = t, !.pages = PagesFor(t, R.size)] ELSE R

\* ajaxRequest, the totals: the number of pages is that of the size selected
\* now, one if the rows were not counted; the page on display is brought back
\* into range.
Totals(R, t) ==
  IF R.nav /\ t # Absent
  THEN [R EXCEPT !.rows = t, !.pages = PagesFor(t, R.size),
                 !.page = MinOf(@, PagesFor(t, R.size))]
  ELSE R

\* The rows of the answer to q.
RowsOf(q) == MaxOf(0, MinOf(q.limit, Total(q) - q.offset))

\* Faulty variant: pageSize is not set.
RenderedKeepSize(R, q) ==
  IF R.table THEN [R EXCEPT !.view = View(q.kind, q.offset, RowsOf(q), q.filter, q.known)] ELSE R

\* ajaxRequest, the table: rendered if it is visible now, from the first node
\* of the answer; an empty page counts one line, and the head another.  If no
\* table was asked for that node is the graph, and makes a head without rows.
Rendered(R, q) ==
  IF ~R.table THEN R
  ELSE IF q.table
  THEN [R EXCEPT !.view = View(q.kind, q.offset, RowsOf(q), q.filter, q.known),
                 !.psize = MaxOf(1, RowsOf(q)) + 1]
  ELSE [R EXCEPT !.view = Message("garbled"), !.psize = 2]

\* The parts of the answer to q, and the one that the graph is taken from.
Nodes(q) ==
  (IF q.table THEN <<"table">> ELSE <<>>)
  \o (IF q.graph /\ ~rep[q.of].ix THEN <<"graph">> ELSE <<>>)

\* Faulty variant: the node of the table is not counted.
GraphNodeFirst(R, q) == IF R.graph /\ Nodes(q) # <<>> THEN Nodes(q)[1] ELSE "none"

GraphNode(R, q) ==
  LET i == IF R.table THEN 2 ELSE 1
  IN IF R.graph /\ i <= Len(Nodes(q)) THEN Nodes(q)[i] ELSE "none"

\* Whether ajaxRequest throws: it does if a table is to be shown and the answer
\* is empty; it may if the table is to be made from a graph (a browser that
\* drops blank text finds none in the first cell) or a graph from a table
\* (which may have fewer than five columns).
Throws(R, q) ==
  IF R.table /\ Nodes(q) = <<>> THEN {TRUE}
  ELSE IF (R.table /\ ~q.table) \/ GraphNode(R, q) = "table" THEN BOOLEAN
  ELSE {FALSE}

\* What an answer without an exception makes of the container.
Shown(R, q) ==
  [Rendered(R, q) EXCEPT !.chart =
     IF GraphNode(R, q) = "graph" THEN "chart"
     ELSE IF GraphNode(R, q) = "table" THEN "misread" ELSE @]

\* The answer to a page or search request arrives.  The server sends one only
\* if a table or a graph was asked for.  An element of a closed container is
\* not found, and nothing is shown.
AjaxRequest ==
  LET q == Head(pending)
  IN /\ ~wedged /\ pending # <<>> /\ q.kind # "dns"
     /\ q.table \/ q.graph
     /\ pending' = Tail(pending)
     /\ \E t \in Counts(q), threw \in Throws(rep[q.of], q) :
          LET R == Totals(rep[q.of], t)
          IN /\ IF rep[q.of].open
                THEN /\ rep' = [rep EXCEPT ![q.of] = IF threw THEN R ELSE Shown(R, q)]
                     /\ wedged' = threw
                ELSE UNCHANGED <<rep, wedged>>
             /\ crossed' = IF t = Unknown THEN crossed \cup {q.of} ELSE crossed
     /\ UNCHANGED <<filter, dialog, dns, missed>>

\* Faulty variant: no message is shown.
AjaxRequestFailsSilent ==
  /\ ~wedged /\ pending # <<>> /\ Head(pending).kind # "dns"
  /\ pending' = Tail(pending)
  /\ UNCHANGED <<rep, wedged, filter, dialog, dns, missed, crossed>>

\* There is no answer, or one without a root: a message goes into the table,
\* and the statement throws if the container was closed.
AjaxRequestFails ==
  LET q == Head(pending)
  IN /\ ~wedged /\ pending # <<>> /\ q.kind # "dns"
     /\ pending' = Tail(pending)
     /\ wedged' = ~rep[q.of].open
     /\ rep' = IF rep[q.of].open THEN [rep EXCEPT ![q.of].view = Message("missing")] ELSE rep
     /\ UNCHANGED <<filter, dialog, dns, missed, crossed>>

\* handleResolveDNS: without an answer (null) DNSTimer stays 1.
HandleResolveDNS(null) ==
  /\ ~wedged /\ pending # <<>> /\ Head(pending).kind = "dns"
  /\ pending' = Tail(pending)
  /\ dns' = IF null THEN dns ELSE 0
  /\ UNCHANGED <<rep, wedged, filter, dialog, missed, crossed>>

\* The offsets in the links that getPDF and getXLS make for a single report.
GetPDF(R) == R.size * (R.page - 1)
GetXLS(R) == (R.psize - 1) * (R.page - 1)

Answer ==
  \/ AjaxRequest
  \/ AjaxRequestFails
  \/ \E null \in BOOLEAN : HandleResolveDNS(null)

Next ==
  \/ \E r \in Reports :
       \/ Load(r) \/ NextPage(r) \/ PrevPage(r) \/ FirstPage(r) \/ LastPage(r)
       \/ \E p \in 1..rep[r].pages : JumpToPage(r, p)
       \/ \E z \in Sizes : SelectCombo(r, z)
       \/ SortColumn(r) \/ ShowHideTable(r) \/ ShowHideGraph(r)
       \/ MinContainer(r) \/ CloseContainer(r) \/ ShowSearch(r) \/ ResolveDNS(r)
  \/ HideSearch
  \/ \E c \in Cols, given \in BOOLEAN : GetSearchResult(c, given)
  \/ Answer

Spec == Init /\ [][Next]_vars

\* The browser answers or gives up on every call.
FairSpec == Spec /\ WF_vars(Answer)

-----------------------------------------------------------------------------
\* The containers and the calls are well formed.
TypeOK ==
  /\ \A r \in Reports :
       /\ rep[r].page \in Nat \ {0} /\ rep[r].pages \in Nat \ {0}
       /\ rep[r].rows \in Nat \cup {Unknown} /\ rep[r].size \in Sizes \cup {GroupSize}
       /\ rep[r].psize \in Nat \ {0}
       /\ rep[r].vals \subseteq Cols
  /\ \A i \in DOMAIN pending : pending[i].of \in Reports /\ pending[i].offset \in Nat
  /\ dialog \in Reports \cup {NoReport}
  /\ dns \in {0, 1}
  /\ missed \subseteq Reports /\ crossed \subseteq Reports

\* The page on display is one of the pages there are, whatever was clicked
\* while the answer with the new number of pages was on its way.
PageInRange == \A r \in Reports : rep[r].page <= rep[r].pages

Settled(r) == rep[r].nav /\ ~Pending(r) /\ ~wedged /\ r \notin missed /\ ShowsRows(rep[r])

\* The number of the page and its rows go together: no search was made while
\* another answer was awaited (whose totals would move the page), the rows were
\* counted, and the offset was computed from the number of rows there are.
Aligned(r) == r \notin crossed /\ rep[r].view.known \in {Unknown, Total(rep[r].view)}

\* Once no answer is awaited, a page that shows rows shows those of the search
\* now in force, and they are the rows of the page number on display (those of
\* a search just made start at 0 whatever that number says): neither a click
\* made while loading nor the correction of the number leaves the two apart,
\* unless a search came between.
ViewIsCurrent ==
  \A r \in Reports :
    LET R == rep[r] IN
    Settled(r) =>
      /\ R.view.filter = filter
      /\ R.view.rows > 0 /\ Aligned(r) =>
           R.view.offset = IF R.view.kind = "search" THEN 0 ELSE R.size * (R.page - 1)

\* Once such a page is loaded, an exported file starts at its first row: the
\* PDF always, the spreadsheet (whose offset getXLS computes from the lines of
\* the table on display) if the page is the first one or a full one.
ExportsThePage ==
  \A r \in Reports :
    LET R == rep[r] IN
    (Settled(r) /\ R.view.kind = "page" /\ R.view.rows > 0 /\ Aligned(r)) =>
      /\ GetPDF(R) = R.view.offset
      /\ (R.page = 1 \/ R.view.rows = R.size) => GetXLS(R) = R.view.offset

\* If the number of rows known when a page was asked for is that of the answer,
\* the page has rows, unless its offset was that number itself: setContPage
\* moves back an offset past the end, and takes one at the end for a page.
BlankPageCause ==
  \A r \in Reports :
    LET V == rep[r].view IN
    (ShowsRows(rep[r]) /\ V.rows = 0 /\ V.known = Total(V)) => V.offset = V.known

\* A container shows the progress image only while its answer is awaited,
\* unless its table was hidden or toggled meanwhile (ajaxRequest skips a hidden
\* table and nothing asks again) or the queue is stuck.
SpinnerHasRequest ==
  \A r \in Reports :
    (rep[r].open /\ rep[r].view.kind = "progress") => Pending(r) \/ wedged \/ r \in missed

\* ajaxRequest misreads an answer, or throws and so stops the queue for every
\* report, only if a table was toggled while loading or a container closed.
FailuresHaveCause ==
  /\ \A r \in Reports :
       rep[r].chart = "misread" \/ rep[r].view.kind = "garbled" => r \in missed
  /\ wedged => missed # {} \/ \E r \in Reports : ~rep[r].open

\* One look-up of a name at a time, and DNSTimer is set while there is one.
OneLookup ==
  LET lookups == {i \in DOMAIN pending : pending[i].kind = "dns"}
  IN Cardinality(lookups) <= 1 /\ (lookups # {} => dns = 1)

\* What the labels say is what is shown, after any sequence of toggles, sizes
\* and minimise buttons.
LayoutAsLabelled ==
  \A r \in Reports :
    LET R == rep[r] IN
    IF R.nav THEN /\ R.table <=> (R.tlabel = "Hide")
                  /\ R.graph <=> (R.glabel = "Hide")
             ELSE /\ R.table <=> ~R.min
                  /\ R.graph <=> ~R.min

\* Loading ends: the progress image gives way, except in the cases above.
LoadingEnds ==
  \A r \in Reports :
    (rep[r].view.kind = "progress") ~>
      (rep[r].view.kind # "progress" \/ wedged \/ r \in missed \/ ~rep[r].open)

\* What holds of a page at every step: its number is in range, an empty page has
\* its one cause, one look-up at a time, and the labels say what is shown.
PageInv == TypeOK /\ PageInRange /\ BlankPageCause /\ OneLookup /\ LayoutAsLabelled

\* A progress image that stays, a misread answer and a stuck queue all come from
\* a table that was hidden or toggled while loading or a container that closed.
StallsHaveCause == SpinnerHasRequest /\ FailuresHaveCause
=============================================================================
