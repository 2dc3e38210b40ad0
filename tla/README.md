# TLA+ models of iView

iView collects logs of network devices and reports on them. It has three parts:

* **garner** (`src/garner`, C): a daemon that receives log lines on UDP, TCP or
  UNIX sockets, turns each into a standard event with an *input plugin* and
  passes it to *output plugins* that store it in PostgreSQL, archive it in
  files, count it, and so on;
* **the web application** (`src/webapp`, Java): it summarises the stored rows
  with stored procedures, moves and searches the archives, and serves reports;
* **the JavaScript of its pages** (`src/webapp/src/web/javascript`): the queue of
  requests, the report containers, the popup calendar, the list of devices, the
  combo box and the popup form. It runs one handler at a time, but clicks, keys,
  timers and answers come in any order.

This directory holds TLA+ modules that model the parts whose correctness depends
on the order of steps, the TLC configurations that check them on small
instances, and TLAPS proofs, for every value of the constants, of every safety
and action property that the runs check, in all ten components (section 4).
`PROJECT.json` lists runs, mutants, findings, hazards and theorems, and maps every
definition to the lines it models.

## 1. Inventory

| Component | State | Operations | Hard behaviour | Correct if | Module |
|---|---|---|---|---|---|
| `libpostgres` output plugin | flags and counters of `struct _db` / `struct _table`; the server session; tables and the two queues in the database | insert with batches, choose / create / rotate table, release, clock event | every SQL command may be refused, time out or lose its link; crash between any two; concurrent readers of the used queue | no committed row is unreachable, a fault costs at most a batch, used tables are never written, the plugin recovers | `OpPostgres`, `TableQueue` |
| garner main loop, signals, clock thread | flag byte, pipe, counters per consumer | `do_epoll`, `CHECK_SIG`, handlers, `handle_clockevent`, shutdown | handlers in two threads update bits of one byte; signals between test and reset; infinite `epoll_wait` | no tick lost, consumers served, shutdown honoured | `GarnerLoop` |
| garner connection table | records, pool, descriptors, batch of ready events | accept, input, flush of idle connections, release | descriptors closed or reused inside a batch, plugin failures, address reuse | callbacks get live records, each freed once | `FdPool` |
| garner start, watcher, `garner -k` | pid file, watcher and child of each start | check, fork, wait, restart, pid file, bind, signals | check-then-act between starts, stale pid files, crashes at every step | restart after crash, no restart after shutdown, one garner | `GarnerDaemon` |
| `libarchiever` output plugin | logger (descriptor, size, offset, name), files in `base_dir`, `rotated`, sums | create, write with retries, account, rotate, sum, sweep at start | short writes, failing calls, crash between calls, names with a resolution of a second | index entries keep leading to their event, every file gets rotated | `Archiver` |
| connection pool of the web application | list of connections, in-use flags, use counts, timer | `getConnection`, `close`, `TimerEvent`, `SqlReader` | requests, timer and dying connections interleave; removal while iterating | never shared, never closed under a user, limits kept | `ConnectionPool` |
| `ajax.js`: request queue | queue, its state, one request object, one set of callback fields | calls, inject, interrupt, pause, resume, flush, response handler | callbacks use the queue and may throw; calls started over a request in progress; refused requests | each answer goes to its own callback, in order; calls do not wait for ever without a cause | `AjaxQueue` |
| `container.js`: report containers | page, size, number of rows, table and graph with their labels, search, sort order, `DNSTimer` | page, size, sort, search, toggle, minimise, close, export, look-up, answer | clicks while answers are on their way; answers to hidden tables; failed answers | page number, rows, search, labels and exports agree when loading has ended, and it ends | `ReportContainer` |
| `calendar.js`, `calendar-setup.js`: popup calendar | date, month on display, cells, pressed element, lists, timers, text of the field | open, keys, buttons, lists, cells, time part | keys while the mouse button is held, disabled days, ends of months and of the range, a shared continuation | field, date, grid and time part agree; arithmetic of the Gregorian calendar and ISO weeks | `CalendarDates`, `CalendarWidget` |
| `popup.js`, `combo.js`, `popupform.js`: device popup, combo box, popup form | `currentEle`, timers, ticks, search text, label, content of the form | open, close, tick, search, category, answer | clicks before timers have fired, answers out of order or after closing | what is open can be closed, ticks survive a search, the form asked for is the one shown | `PageWidgets` |
| `libpgtrigger` | counter, connection with a procedure under way | clock event, send, check | asynchronous result, hanging procedure | procedures run again and again, never two at once | no |
| `libsethreshold`, dispatch and conditions | count and drop flag per period; condition tree | output, clock event, `evalexp` | lost clock tick, boundary of the count | at most `max_se` accepted per period | no |
| `libdevdiscovery` | hash of device ids | output | - | a device is reported once | no |
| archives in the web application (`WarmFilesRotation`, `FileManager`) | `processFlag`, static request parameters, warm and cold directories | scheduled rotation, unload on request | the flag decides what a thread does; files appear while they are collected | a file is in exactly one place, an unload is done once | no |
| load, backup, restore of archives | static stop and progress flags | requests, worker threads | check-then-act between requests | at most one load | no |
| search index, schedulers, mail, control of garner, SQL procedures | library state, thread pools | - | mostly inside libraries, the database or the shell | - | no |
| input plugins, resolver, heartbeat, parsers, logging | none between lines, or tables loaded once | - | text processing | - | no |
| servlets, beans, reports, charts, JSP pages | per request | - | none beyond the pool | - | no |
| `SearchData.js`, `menu.js`, `protocolgroup.js`, `ipvalidation.js`, `utilities.js`, `table.js`; grid (`dhtmlx*`) | one form field or element | - | none; `table.js` is on no page, the grid is minified code of another project | - | no |

How they interact: the main loop calls input and output plugins one event at a
time, so within garner there is no concurrency but the clock thread and the
signal handlers; the clock thread writes a byte per tick into a pipe, and
`handle_clockevent` calls `libname_event` of the plugins (rotation of tables and
archive files, `oppgtrigger`). `libpostgres` hands tables to the stored
procedures through two tables of the database, the *available* and the *used*
queue. `libarchiever` hands files to the web application through the directory
`rotated`. The watcher restarts garner, whose plugins then meet what the dead
process left in the database and on the disk. On the pages every report asks the
servlets for its rows through the one queue of `ajax.js`, so a callback of one
report that throws stops all of them; `ReportContainer` uses the queue as
`AjaxQueue` shows it to work for the calls it makes (answers in the order of the
calls, none after a callback has thrown). The widgets share `currentEle`, the
element that a click elsewhere closes. The popup form makes requests of its own.

## 2. Modules

**TableQueue** is the abstract specification of what `libpostgres` promises to
the procedures: rows are committed a batch at a time into available tables, a
table moves once to the used queue, is never written after that, and is dropped
by a reader.

**OpPostgres** models one instance of the plugin. `pc` is the SQL command about
to be sent, so each call of `process_pgsql_query`, `PQprepare` and
`process_insert_query_async` is one step and every C function of `postgres_db.c` is a
sequence of steps; `mvret` and `relret` are the return addresses of the two
functions that are called from several places. A command is accepted, refused
(only those in `Refusable`), or its link breaks before or after the server has
executed it; `do_datainsert` may time out and the cancel may come too late;
garner may crash between any two steps. The server's session (`link`, `txn`,
`stmt`, `pend`) is modelled from how the plugin uses it, including that an
aborted transaction refuses everything until it is ended. `ReaderConsume` is the
`DROP` at the end of a procedure. `move_from_avail_to_used` is a function of the
database that is not in the repository; it is taken to move the row atomically.

**GarnerLoop** models `do_epoll`, `CHECK_SIG` as its separate tests and the
final reset, the handlers as a load and a store of the flag byte by whichever
thread the signal reaches, the clock thread and its pipe, and `parent_main`.
`phase` is the number of ticks modulo a consumer's skip count; it is a history
variable. Assumption: no consumer has an interval shorter than the clock period
(`SkipCount` would be 0 and the code would divide by it).

**FdPool** models `struct _fd_data` records by address, the pool that owns them
and the loop that calls them back, for the epoll and the select build. Freed
addresses may be handed out again.

**GarnerDaemon** models several `garner` commands: the check of the pid file,
`watch_child`, the child's repeated check, `create_file_safely` as `lstat` and
`open`, the writing of the pid, the listener, `garner_shutdown` and `garner -k`.

**Archiver** models one logger of `libarchiever` system call by system call: file
contents are sequences of `<<event, byte>>`, so what an offset leads to can be
asked. Formatting an event is abstracted to its length. `clocked` says whether the
archiver is an `EventConsumer`: the shipped configurations comment that line out
(`conf/garner.conf:138-139`, `garner_event_static.conf:18-20`),
`src/tmp/garner_my.conf:73` has it; `rotation_period` is parsed and not used.
`Over` is a directory into which files are moved that may replace others.

**ConnectionPool** models the synchronized methods as one step each, the timer
thread, and `SqlReader` objects of concurrent requests, which hold a connection
until they are closed. The database may go down in the middle of `fillPool`, at
the start or from the timer: the connections made so far stay in the pool.
`Visited` gives the positions that `getConnection` looks at: removing element i
while counting on skips the next one, so of a run of closed connections every
other one is looked at, and what follows the run only if its length is even.
`Ranked` lists a set of numbers in increasing order: `Without` and `TimerEvent`
use it for the places that stay and the connections that are added.

**AjaxQueue** models the global `g_ajax_obj`: the queue, the request object, the
callback fields (`cur`: the call they belong to) and the ready state of every
request. A call is *good*, *bad* (no request object is made: no URL, or a POST
without a query) or *refused* (`open` or `send` throws after the object is
assigned). A callback may use the queue before it returns, so the time inside it
is a state (`incb`). `overrun` records that a call was started over a request in
progress; `log` (complete responses), `partial` (partial ones) and `started` are
histories.

**ReportContainer** models a page with one report and navigation, or with a group
of reports, as records (`rep[r]`) of what the elements of the page hold: page
number, sizes, rows known, labels, what the table shows. `pending` is the queue of
calls; an answer carries the rows of its offset, no document, no root element or
an error. The server's side (`Total`, `Counts`, `RowsOf`, `Nodes`) is
`AjaxController.java`: the answer from an index has totals and no graph; the one
from the database has totals only if the call says `issort=true`, which a page of
a single report does and a search does not, and those are -1 if the count failed.
Without totals `ajaxRequest` leaves rows, pages and page number as they were, so
after a search in the database they are those of before until a page is asked for.
A table made from the graph node of an answer is `garbled`. `JumpToPage` takes
whole numbers only; the check of the page also lets 1.5 or 1e1 through. `missed`
records reports whose table was hidden when a page was asked for or toggled before
the answer came, `crossed` those for which a search and another call were awaited
at the same time or a count failed, `wedged` that a callback threw.

**CalendarDates** has the date arithmetic of `calendar.js` (length of months,
setting of months, week numbers, days before a year) on records of year, month,
day and hour; **CalendarWidget** has the calendar as the pages set it up. A
pressed mouse button is a state (`act`), so that keys and timers can come before
it is let go. Texts in fields are sequences of numbers: `DatePrint` and
`ParseDate` do what the formats do with them. `Ar_days` is the list of the enabled
cells in the order of the grid. The user may type into the field at any time, also
while the calendar is open, since `_keyEvent` leaves all other keys to the
browser: `typed` records the fields in which that happened since the calendar last
read or wrote them. `CallHandler` leaves the `onchange` of the field out
(`calendar-setup.js:120-121`): on `Date.jsp` it is `syncDate` of the start field,
which writes the start date into the end field if that is earlier. Three
assumptions: the limit of the restore page is the day before today (as
`schedulebackuprestore.jsp` sets it), years of the range have more than two
digits, and what the user types reads as a date (a month or a day beyond the
calendar is not typed).

**PageWidgets** models the popup (`w.pop`), the combo box and the popup form on
the two kinds of page that have them. A click runs the handler of its element and
then `closeElements` at the document; a radio button that is already checked and a
key that leaves the search text as it is run their handlers too. `w.timers` holds
the pending calls of `setOpenComponent`, which fire in the order of their times.
What a search text finds is a table of constants, since `popup.js` compares
prefixes of names and of the parts between dashes. The lists that the server
renders are assumed to be well formed: finite categories, the first of which
exists, stored values with a category or empty. `hasty`, `late` and `overtaken`
record a click before a timer, an answer to a closed form and an answer that came
before an earlier one.

The `MC*` modules instantiate them; they add only model values, symmetry sets and
tables of constants. Definitions named *...Late*, *...Nothing*, *...Keeps* and so
on, with the comment "Variant for mutation" or "Faulty variant", are not used by the
specifications: they are the plausible mistakes against which each property is
tested (`PROJECT.json`, "mutants").

## 3. Runs

| Run | Expect | What it shows |
|---|---|---|
| `postgres_safety` | pass | with two faults anywhere: `IInv`, the loss of at most a batch (`LossBounded`), no unreachable row (`NoRowStranded`), one available table at most, and that the plugin implements `TableQueue` |
| `postgres_liveness` | pass | after the last fault the plugin stores events again (`InsertsResume`) and hands over every table with rows (`RowsHandedOver`), if the server refuses neither `DEALLOCATE` nor `PREPARE` (`AllButPrepare`) |
| `postgres_wedge` | violation | one refused `DEALLOCATE` stops storage for good: the flag is reset although the statement still exists, the next `PQprepare` aborts the transaction, and with no table name the clock event never resets the connection |
| `loop` | pass | ticks are conserved however reads split the pipe, consumers are called again and again, a quit flag that the waiting loop has is honoured, although only a tick is sure to wake it |
| `fdpool` | pass | both builds: callbacks get live records, the pool's assertion holds, and without plugin failures each record is freed once |
| `archiver` | pass | with short writes, failing calls and crashes: index entries stay exact and sizes and sums right for files whose name was chosen once; a full file, and with an `EventConsumer` every file, reaches `rotated` |
| `connection_pool` | pass | connections are never shared or closed under a user, limits hold, refusal only when all are in use or the database is down, the minimum is restored |
| `daemon` | pass | two racing starts, one crash, one stop: garner is restarted after a crash, not after a shutdown, and the pid file names a garner that was started alone |
| `ajax` | pass | answers go to the right callback and in order unless a request was overrun; calls wait behind an idle object only for the named causes, and otherwise the queue drains |
| `report` | pass | whatever is clicked while loading, with answers from the database and from the index: page number, rows, search, exports and labels agree afterwards; empty pages, progress images that stay and a stuck queue have the named causes only; loading ends |
| `calendar` | pass | field (unless it was typed into since), date, grid and time part agree, a held cell keeps its date, buttons and keys lead where they should, week numbers are those of ISO 8601, an asked-for calendar is shown |
| `widgets` | pass | what is open is current once timers have fired, ticks survive searches, a radio button goes back to what is stored, Select All means all, a form starts as stored and is the one asked for |

Each run checks its deep properties one by one and the rest as one invariant, a
conjunction of named parts that starts with the module's type invariant: `IInv`
(with `OneAvailable`), `LoopInv` (`TicksConserved`), `PoolInv` (`FoundInPool`,
`ClosedIsFreed`), `FilesInv` (`SizeBounded`, `HotIsOpen`, `SumsCurrent`),
`ConnectionsInv` (`Exclusive`, `SessionsBounded`, `UseBounded`), `DaemonInv`
(`SoleServerIsNamed`), `PageInv` (`PageInRange`, `BlankPageCause`, `OneLookup`,
`LayoutAsLabelled`), `GridInv` (`ShownIsDate`, `HeaderMatches`, `HourShown`,
`ClickedIsEnabled`, `ListWhilePressed`, `DateArithmetic`) and `PopupInv`
(`SelectAllMeansAll`). Likewise `StallsHaveCause` (`SpinnerHasRequest`,
`FailuresHaveCause`), `MovesLand` (`NavLands`, `ArrowLands`) and `TicksKept`
(`SearchKeepsTicks`, `RadioRestoresStored`, `StartsAsStored`). `TypeOK` of
`AjaxQueue` and `CreatedIsUsable` of `OpPostgres` are proved.

Met while modelling, and excepted by the properties that pass:

* `libpostgres`: a table that is selected again is counted from zero and may
  exceed `max_records`; a connection on which `PQsetnonblocking` fails is never
  finished (`leaked`).
* Main loop: a `SIGTERM` handled between the test of `quit` in `CHECK_SIG` and
  `sig = 0` is forgotten, so `QuitHonoured` speaks of a flag that a waiting or
  dispatching loop can still see.
* Connection table: a `libname_init` that fails leaves a freed record in the
  pool, which `release_fdpool` frees again (`FreedOnce` is for runs without it).
* Archiver: two files of the same second whose first events have the same
  timestamp get the same name, and the second replaces the first (`IndexExact`
  is for names given once). Without an `EventConsumer` a file that is not full stays in
  `base_dir` until more events, a shutdown or the next start, for ever if none comes.
* Connection table with epoll: records of closed connections stay allocated until
  `release_fdpool` (`ClosedIsFreed` is for select).
* Connection pool: if the database is down when the pool is created the timer is never
  started (`MinimumRestored` is for a timer that was).
* Start of garner: a watcher that has reached its limit is gone
  (`RestartedAfterCrash` excuses it); `match_proc_name` never matches the name
  `(garner)` of the child, and with the shipped UDP listener and `SO_REUSEADDR`
  two garners can serve; the run has one TCP port.
* Request queue: `QueueResume`, `QueueFlush` and `QueueInterrupt` start a call
  over a request in progress; a call without a URL is dropped and the calls behind
  it wait; a callback that throws stops the queue.
* Reports: the offset of the spreadsheet is computed from the lines on display,
  so from a last page that is not full it starts too early; a page is empty if
  the page size divides the number of rows and that offset is asked for; a table
  hidden while loading keeps its progress image; after a look-up without an
  answer no name is looked up any more. A search that is asked for while a page is
  awaited, or a page while a search is, can leave page number and rows apart: each
  answer with totals corrects the number by its own count of rows, also under the
  other call. After a search in the database the number of pages is the old one, so
  the pages behind the last one found can be asked for: their offset is beyond the
  rows, and the answer, which has totals, brings the number back. A failed count
  makes one page of any number of rows. In all these cases, a crossed search, a
  failed count, and a number of rows known when a page was asked for that is not
  that of its answer (the first page after a search in the database, or after one
  that failed), page number and rows can differ; `ViewIsCurrent` and `ExportsThePage`
  state their agreement for the other containers (`Aligned`), and the search in
  force for all.
* Calendar: a month picked from the list may lead to the next one (the 31st);
  the cells keep the hour they were made with, so a time that was edited is lost
  when a day is clicked; the buttons lead to disabled dates. Text typed while the
  calendar is open is overwritten by the next change of the date and by Enter.
* Widgets: a click before a timer has fired can leave an open list that nothing
  closes; a click on a radio button, also on the checked one, clears the search
  and drops the ticks that were not stored; a search with a dash loses ticks;
  stored devices come back ticked after a search; a device whose name is another
  one's id, or also the name of another one, is ticked with it, and a ticked
  device named -1 ticks all (the attempt to prove `SearchKeepsTicks` showed the
  last two); cancelling leaves the ticks changed under the stored label; an error
  answer leaves the overlay without its close button.

### Bounds

* *OpPostgres*: three tables (one used, one available, one being created), a
  batch of two, three records per table (a table ends in the middle of a batch),
  one rotation per connection, two faults: a fault, and another during the
  handling of the first. Table names are symmetric in the safety run.
* *GarnerLoop*: consumers with skip counts 1, 2, 3, a pipe of 3 bytes read 2 at a
  time (so reads split the pipe and it fills up), one signal of two kinds.
* *FdPool*: two connection descriptors, three addresses, four accepts: a
  descriptor and an address are both reused with another connection alive.
* *GarnerDaemon*: two commands, the watcher gives up after 3 failures instead of
  5, one crash and one stop. Two commands suffice for each race of a pair; with
  three a file could be unlinked and made again under an open descriptor, which
  the model does not represent.
* *Archiver*: three events of one or two bytes, files of two, three seconds, two
  faults: a file is filled by one or two events, rotated by size or clock, and a
  fault can hit the recovery from the first.
* *ConnectionPool*: two requests, a minimum and a maximum of 2 (so that a fill can
  stop half-way), two uses, two attempts, two outages or broken sessions.
* *AjaxQueue*: three calls (one in progress, one to overrun it, one waiting), one
  phase for partial callbacks besides the default.
* *ReportContainer*: two reports, in a group one of the database and one of the
  index, five rows of which four pass a search, pages of 2 and 4: full, partial
  and empty last pages and both sides of the limit for graphs occur; two calls on
  their way, so a search can cross a page.
* *CalendarWidget*: one field, four clicks or keys, start and typed dates at the
  ends of February, of the year and of the range, days 29 and 31, today and
  yesterday as limits, all three kinds of page, with and without the
  continuation timer. Four suffice to press a cell, change the month, let it go
  and see the result.
* *PageWidgets*: three devices (one whose id is the name of another, one with a
  dash) and one group, four forms (nothing, one device, all, a group stored), six
  clicks or keys, two timers pending when the user acts, two requests.

### Fairness

* *OpPostgres*: weak fairness of the plugin's steps (handlers run to their end),
  strong fairness of `Output` and `ClockEvent` (the main loop dispatches every
  ready descriptor of a batch, so neither starves the other; events keep
  coming), weak fairness of the readers (triggered every minute).
* *GarnerLoop*: weak fairness of the two threads and of a handler that has begun.
  Signals need not be sent. `epoll_wait` has no time-out, so the main thread is
  taken to leave it only while a tick is in the pipe (`MainRuns`): that clients
  send something or a signal interrupts it is not assumed.
* *Archiver*: weak fairness of the steps and of the restart after a crash (the
  watcher), strong fairness of the clock event as above, where
  there is an `EventConsumer` (`clocked`); without one there is no clock event.
* *ConnectionPool*: weak fairness of the timer thread only; requests may keep
  their connections for ever.
* *GarnerDaemon*: weak fairness of each watcher and each child. Starting,
  stopping and crashing need not happen. `Leave` takes the quit flag to be seen; that
  `CHECK_SIG` can lose it is in *GarnerLoop*.

* *AjaxQueue*: weak fairness of every request (it reaches state 4, the browser
  gives up at its own time-out) and of a callback that has begun.
* *ReportContainer*: weak fairness of the answers, which is what `Drains` gives.
* *CalendarWidget*: weak fairness of the continuation timer. No user has to act.

Deadlock is checked except in `daemon`, `report`, `calendar` and `widgets`: when
every command has ended, or the bound on clicks is reached, nothing is left to
do, and that is a legal end. *GarnerLoop*, *FdPool* and
*Archiver* have an explicit final step instead.

## 4. Proofs

`OpPostgresProofs` proves for every set of table names, every batch size, limit,
rotation count and number of faults, from `ConstantsAssumption` and

    DeallocateReliable == "deallocate" \notin Refusable

(the server does not refuse to deallocate a statement that exists; without it
`postgres_wedge` shows what happens, and the invariant fails too):

| Theorem | Statement |
|---|---|
| `Invariance` | `Spec => []IInv` |
| `LossIsBounded` | `Spec => []LossBounded` |
| `RowsAreReachable` | `Spec => []NoRowStranded` |
| `AtMostOneAvailable` | `Spec => []OneAvailable` |
| `CreatedTableIsUsable` | `Spec => []CreatedIsUsable` |
| `QueueRefinement` | `Spec => ImplementsQueue` |

The argument. None of the properties is inductive by itself: whether `END`
commits rows into an available table depends on the prepared statement, which
the plugin tracks only through its *created* flag. `IInv` therefore ties three
things together. `SessionInv`: a prepared statement exists only on a live link,
for a table that was selected (`created`) and is still available; so rows can
only go to an available table. `ChoiceInv`: while a table is being created there
is no other available one, and it is empty and in no queue or in the available
one; so `drop` never removes rows. `MoveInv`: from `DEALLOCATE` to the move there
is no statement and no open transaction; so nothing is written to a table once
it is used. `CountInv`: rows of the open transaction never exceed what the
plugin has counted (by one while a failed insert is handled, for the late
cancel); so a batch bounds the loss. There is a lemma per action (`StartStep`
... `ReaderStep`), `NextIInv` collects them, and the theorems follow by
temporal logic. For the refinement the mapping is the identity on `avail`,
`used` and `rows`; `QueueStep` goes through the actions, with `CommitsBatch` and
`InsertsRow` for the two that change `rows`.

`AjaxQueueProofs` proves for every number of calls and every set of phases, from
`CallsAssumption` and `PhasesAssumption`:

| Theorem | Statement |
|---|---|
| `Invariance` | `Spec => []IInv` |
| `QueueTypes` | `Spec => []TypeOK` |
| `CallersAreRight` | `Spec => []RightCaller` |
| `ResponsesInOrder` | `Spec => []InOrder` |
| `BacklogsHaveCauses` | `Spec => []BacklogHasCause` |

The argument. `RightCaller` speaks of the history, so it needs what makes the
next callback right: `OwnerInv` says that, unless a request was overrun, only the
request of the request object can be in progress, that the callback fields are
its own while it is or while its callback runs, and that it has completed while
its callback runs. This is kept when a call is started because the call has had
no request before: `QueueInv` (calls that wait have distinct identifiers, all made
and without a request). `ObjectInv` says that there is a request object while a
callback runs. `StartCallKeeps` and `DequeueKeeps` show that starting a call keeps
the invariant under what their callers provide (`QueueOp`, `ObjectGiven`,
`Startable`); there is a lemma per operation on top of them.

`OrderInv` serves `ResponsesInOrder`: unless a request was overrun, the requests
sent are those reported, in that order, followed by the one in progress.

The other proof modules, each for every value of the constants that satisfies the
named assumptions of the component's module:

| Module | Theorem | Statement |
|---|---|---|
| `GarnerProofs` | `TicksAreConserved` | `LoopSpec => []LoopInv` |
| | `PoolIsSound` | `PoolSpec => []PoolInv` |
| | `CallbacksAreLive` | `PoolSpec => []LiveCallback` |
| | `RecordsFreedOnce` | `PoolSpec => []FreedOnce` |
| | `ServerIsNamed` | `DaemonSpec => []DaemonInv` |
| `ArchiverProofs` | `IndexIsExact` | `Spec => []IndexExact` |
| | `FilesAreSound` | `Spec => []FilesInv` |
| `ConnectionPoolProofs` | `ConnectionsAreSound` | `Spec => []ConnectionsInv` |
| | `NobodyPulls` | `Spec => NeverPulled` |
| | `RefusalsHaveCause` | `Spec => RefusedOnlyWhenFull` |
| `ReportContainerProofs` | `PagesAreSound` | `Spec => []PageInv` |
| | `RowsOfThePage` | `Spec => []ViewIsCurrent` |
| | `FilesOfThePage` | `Spec => []ExportsThePage` |
| | `StallsExplained` | `Spec => []StallsHaveCause` |
| `CalendarWidgetProofs` | `CalendarIsSound` | `Spec => []GridInv` |
| | `FieldHasTheDate` | `Spec => []FieldAgrees` |
| | `PressedDayIsDisplayed` | `Spec => []PressedCell` |
| | `MovesLandRight` | `Spec => MovesLand` |
| `PageWidgetsProofs` | `PopupIsSound` | `Spec => []PopupInv` |
| | `OpenBecomesCurrent` | `Spec => []OpenIsCurrent` |
| | `FormShownIsAskedFor` | `Spec => []FormIsAskedFor` |
| | `TicksAreKept` | `Spec => TicksKept` |

`GarnerProofs` extends the three modules of garner, `GarnerLoop`, `FdPool` and
`GarnerDaemon`, whose specifications have names of their own for that reason; the
build (`Builds`, `Cygwin`) that the last two share is declared in `GarnerBuild`.

*GarnerLoop.* `LoopInv` is inductive once the functions have their domains. The
work is arithmetic: a tick moves from the pipe to the counts, what a count drops is
a multiple of its skip count, and `EarlyRemainder` says that a remainder may be
taken before or after adding. From `LoopAssumption`: no interval is shorter than
the clock period.

*FdPool.* `OwnInv`: the record registered for a descriptor is allocated and its
own; `ListedInv`: with select every allocated record is registered. `BatchInv`
carries them through a batch: with epoll, what `epoll_wait` returned for a
descriptor still to be dispatched is what is registered for it now. From
`PoolAssumption`: the null pointer is no address and no descriptor.

*GarnerDaemon.* `SoleServerIsNamed` speaks of one step of the child; `NamedInv`
says from which step on the pid file exists and from which it holds the pid.
`CountInv`: a watcher that has reached its limit is gone. From `DaemonAssumption`:
an absent file is not an empty one (`NoFile # Empty`).

*Archiver.* The plugin never asks the disk where a file ends; it keeps `file_size`.
`WrittenInv`: while a file whose name was given once is open, its length is
`file_size`, plus the bytes written so far of the event under way, whose first byte
is at that place; so the offset given at the end is right, after short writes and
errors too. `OpenInv`: the open file has room for an event unless it is about to be
rotated; so an event is the most by which the limit is exceeded. `OnceInv`: a name
that was given once is that of one file, in `base_dir` or in `rotated`; so moving
it replaces nothing, keeps its contents and leaves sums right.

*ConnectionPool.* The pool knows a connection by its place in the list and by
`inUse`, a request by a reference that may outlive the place. `LentInv`: a
connection of the pool that a request refers to is in use; `OutInv`: one that left
the pool is closed; `Distinct`: none has two places. `NobodyPulls` follows: an open
connection that a request refers to is in the pool, hence in use, hence neither
expired nor lent again. `WornInv`: a connection that can be lent has a use left.
For `RefusalsHaveCause`: a full pool after the loop means that the loop removed
nothing; the first closed connection would have been looked at, so there is none,
and then every place was looked at (`NothingSkipped`). From
`ConnectionPoolAssumption`: the minimum does not exceed the maximum, and there are
finitely many requests and more connection objects than requests and places.

*ReportContainer.* The properties speak of containers that have settled, the
invariant follows the calls on their way. `LastInv`: the last call of a report
carries the search in force, and its offset `Fits` the page number as the answer
will leave it, with totals or without, unless a search crossed another call or a count
failed. `Parts` says which nodes an answer has, so which of them the table and the graph
are made from. `PageSound` is what holds of
a container on its own (number in range, labels, lines shown), `CallInv` what a
call has asked for, `DialogInv` that a search starts only where a table is shown.
From `SizeAssumption`: the reports of a group (5 rows) are small enough for a graph
(10), and `RowsAssumption`.

*CalendarWidget.* The properties speak of an open calendar; what keeps them is
that `_init` is called on every way to a new date. `Agrees` says that the grid,
the selected cell and the time part are what `_init` makes of the date,
`StandsFor` that the text of the field reads as that date, and `IInv` that the
first holds of every calendar that is shown or waits for its continuation, and the
second unless its field is in `typed`, from which `CallHandler` and `Trigger`
remove it. They do not hold of a hidden one: a day that was held while the month
changed may be clicked on, and the calendar closes with its date. `PressedCell`
and `ClickedIsEnabled` are inductive with them, since what is pressed is an
enabled day and `Recelled` gives it a new date only from an enabled cell.
`SlotInv` (a continuation that shows is pending only for a calendar that was asked
for) makes the timer harmless. The arithmetic is by day numbers: `MonthAfterMonth`
(a month begins where the one before ends, from the leap years of `DaysBefore`)
gives the length of the month, `Day1Facts` the weekday of every column,
`MonthsInOrder` that a month before that of yesterday has no disabled day.
`ThursdaysCounted` maps the Thursdays of a year to consecutive numbers and so
counts them for the week number. For the arrow keys `ListedFacts` shows that the
list of enabled cells has a cell in every place, and `AllListed` that in such a
month the place of a day is its number; `NextMonth` crosses the end of a month or
a year. From `RangeAssumption`, `DatesAssumption`, `InputAssumption` and
`TypedAssumption`.

*PageWidgets.* `PopSound` is `SelectAllMeansAll` with what it rests on: boxes and
ticks of the category and, without a search, all boxes. `RadioTicks` says what
`setRecord` ticks; it does not depend on the category on display before. `OpenIsCurrent`
speaks of a state without timers; `Becomes` says of any state that what is open is
current, or a pending timer makes it current and every timer that would make
another one so fires before such a timer. `RequestInv`: the last request is for
the form asked for last, unless an answer overtook another. From
`PopupAssumption`.

In every module the invariant was first checked by TLC, on the instance of the run.

Only model-checked: the liveness properties (`InsertsResume`, `RowsHandedOver`,
`ConsumersServed`, `QuitHonoured`, `EventuallyRotated`, `MinimumRestored`,
`RestartedAfterCrash`, `ShutdownSticks`, `Drains`, `LoadingEnds`, `Opens`): fairness
and `ENABLED` are out of the prover's reach.

## 5. Not modelled

Text processing (parsers, formatting of events, logging), the values bound to
columns, the stored procedures' arithmetic, Lucene, JFreeChart and other
libraries, generation of HTML and PDF, layout and styles of the pages, build files
and vendored code. Of the JavaScript: the vendored grid, `table.js` (on no page),
validation of single fields, menus, the flat calendar of `Date.jsp` (747-760) and
its `syncDate`, options of the calendar and of the combo box that no page uses,
bookmarks, dragging and placing of elements. In the modelled components: parsing
of plugin options, foreground mode and change of user in garner,
`ConnectionPool.destroy` and the `SqlReader` methods without callers, several
archivers that share a logger. Undefined behaviour (`printparam` through the wrong
type after a failed insert) is represented by the crash that may follow any step.

The other plugins of garner (`libpgtrigger`, `libsethreshold`, `libdevdiscovery`,
`libresolver`), its dispatch of events and the archive threads of the web
application are not modelled; they are the candidates below.

## 6. Plan

1. Candidates for further modules: the archive files of the web application
   (`WarmFilesRotation`, `FileManager`), the reader of what `Archiver` rotates;
   `libpgtrigger`, the reader of the table queue; dispatch and conditions of
   garner with `libsethreshold` and `libdevdiscovery`.
2. An abstract specification of a connection pool (a set of lent connections)
   that `ConnectionPool` implements, and of an archive (a set of written events
   that only grows) that `Archiver` implements.
3. Texts typed into a date field with months and days beyond the calendar, which
   the browser counts on into later months; they would replace
   `TypedAssumption`.
