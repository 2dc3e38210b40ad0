----------------------------- MODULE OpPostgres -----------------------------
(***************************************************************************)
(* The postgres output plugin (libpostgres): one plugin instance, its      *)
(* connection to the database server, the tables it fills and the queues   *)
(* that hand them to the summarisation procedures.                         *)
(*                                                                         *)
(* Every SQL command of the plugin is one step, so that the server, the    *)
(* reader of the used queue, a broken link and a crash of garner can come  *)
(* between any two of them.  pc is the command about to be sent.  A        *)
(* command is accepted, refused by the server, or its link breaks before   *)
(* or after the server has executed it.                                    *)
(***************************************************************************)
EXTENDS Naturals, FiniteSets

CONSTANTS
  Tables,        \* names create_table can make up (sec_usec, never equal)
  NoTable,       \* table->table_name == NULL, or no prepared statement
  MaxUncommitted,\* table->max_uncommitted_records
  MaxRecords,    \* table->max_records
  MaxRotate,     \* MAX_ROTATE_PER_CONNECTION
  Refusable,     \* commands a healthy session may still answer with an error
  MaxFaults      \* bound: faults of the environment in one behaviour

Commands == {"select", "create", "enqueue", "drop", "begin", "prepare",
             "insert", "end", "deallocate", "move"}

ASSUME ConstantsAssumption ==
  /\ NoTable \notin Tables
  /\ MaxUncommitted \in Nat \ {0}
  /\ MaxRecords \in Nat \ {0}
  /\ MaxRotate \in Nat \ {0}
  /\ Refusable \subseteq Commands
  /\ MaxFaults \in Nat

VARIABLES
  \* the plugin (struct _db, struct _table, struct _plugin_data)
  pc,            \* command about to be sent, or "idle", or "down"
  mvret,         \* where move_table_to_usedqueue returns to
  relret,        \* where release_postgres_client returns to
  insret,        \* 1, 2: process_insert_query_async returned -1, -2
  connected,     \* IS_DB_CONNECTED
  created,       \* IS_TABLE_CREATED
  tname,         \* table->table_name
  ucount,        \* table->uncommitted_record_count
  rcount,        \* table->record_count
  rotate_count,  \* pdata->rotate_count
  \* the server's session behind db_handle
  link,          \* "none": no handle; "up"; "down": PQstatus is bad
  txn,           \* "idle", "open" or "aborted"
  stmt,          \* table the prepared statement inserts into
  pend,          \* rows inserted by the open transaction
  leaked,        \* sessions whose handle was overwritten without PQfinish
  \* the database
  tables, avail, used, rows,
  faults         \* faults the environment may still inject

ctlVars  == <<pc, mvret, relret, insret>>
plugVars == <<connected, created, tname, ucount, rcount, rotate_count>>
sessVars == <<link, txn, stmt, pend, leaked>>
dbVars   == <<tables, avail, used, rows>>
vars == <<ctlVars, plugVars, sessVars, dbVars, faults>>

-----------------------------------------------------------------------------
(* How the server answers one command.                                     *)

\* The command is executed and its answer arrives.
Accepts(cmd) == link = "up" /\ (txn # "aborted" \/ cmd = "end")

\* The link breaks; the server rolls the transaction back and forgets the
\* session with its prepared statement.
Break ==
  /\ link = "up"
  /\ faults > 0
  /\ faults' = faults - 1
  /\ link' = "down" /\ txn' = "idle" /\ stmt' = NoTable /\ pend' = 0
  /\ UNCHANGED leaked

\* An error answer: for free in an aborted transaction, a fault otherwise.
\* It aborts an open transaction; a failing END ends it without its rows.
Refused(cmd) ==
  /\ link = "up"
  /\ IF Accepts(cmd)
     THEN cmd \in Refusable /\ faults > 0 /\ faults' = faults - 1
     ELSE UNCHANGED faults
  /\ txn' = IF cmd = "end" \/ txn = "idle" THEN "idle" ELSE "aborted"
  /\ pend' = 0
  /\ UNCHANGED <<link, stmt, leaked>>

\* A command on a handle that is NULL or known to be bad.
Dead ==
  /\ link # "up"
  /\ UNCHANGED <<sessVars, faults>>

Fails(cmd) == Refused(cmd) \/ Break \/ Dead

\* END: the rows of an open transaction become visible.
Committed == IF txn = "open" /\ pend > 0
             THEN [rows EXCEPT ![stmt] = @ + pend] ELSE rows

EndAccepted ==
  /\ Accepts("end")
  /\ rows' = Committed
  /\ txn' = "idle" /\ pend' = 0
  /\ UNCHANGED <<link, stmt, leaked, faults>>

\* END fails for the client; the server may have committed all the same.
EndFails ==
  \/ Fails("end") /\ UNCHANGED rows
  \/ Break /\ rows' = Committed

BeginAccepted ==
  /\ Accepts("begin")
  /\ txn' = "open"
  /\ UNCHANGED <<link, stmt, pend, leaked, faults>>

-----------------------------------------------------------------------------
(* Connection: init_postgres_client, release_postgres_client.              *)

\* connect, then make the connection non-blocking.  When the latter fails
\* release_postgres_client finds the connected flag unset and does not
\* disconnect: the session stays open with nobody to use it.
ConnectAccepted ==
  /\ link' = "up" /\ txn' = "idle" /\ stmt' = NoTable /\ pend' = 0
  /\ UNCHANGED <<leaked, faults>>

ConnectFails ==
  /\ faults > 0
  /\ faults' = faults - 1
  /\ leaked' \in {leaked, leaked + 1}
  /\ link' = "none" /\ txn' = "idle" /\ stmt' = NoTable /\ pend' = 0

\* oppostgres_init: plugin_data_postinit resets the table and tries to connect.
Start ==
  /\ pc = "down"
  /\ pc' = "idle"
  /\ created' = FALSE
  /\ \/ ConnectAccepted /\ connected' = TRUE
     \/ ConnectFails /\ connected' = FALSE
  /\ UNCHANGED <<mvret, relret, insret, tname, ucount, rcount, rotate_count,
                 dbVars>>

\* release_postgres_client begins with END, whatever the state.
Release(ret) == pc' = "rel_end" /\ relret' = ret

\* Variant for mutation: the table is moved first, END and DEALLOCATE skipped.
MoveTableOnly(ret) == pc' = "mv_move" /\ mvret' = ret

\* move_table_to_usedqueue begins with END.
MoveTable(ret) == pc' = "mv_end" /\ mvret' = ret

RelEnd ==
  /\ pc = "rel_end"
  /\ EndAccepted \/ EndFails
  /\ IF created THEN MoveTable("rel_disconnect")
                ELSE pc' = "rel_disconnect" /\ UNCHANGED mvret
  /\ UNCHANGED <<relret, insret, plugVars, tables, avail, used>>

\* Variant for mutation: the connected flag survives PQfinish.
RelDisconnectKeepsFlag ==
  /\ pc = "rel_disconnect"
  /\ link' = "none" /\ txn' = "idle" /\ stmt' = NoTable /\ pend' = 0
  /\ pc' = IF relret = "rotated" THEN "idle" ELSE relret
  /\ rotate_count' = IF relret \in {"rotated", "down"} THEN 0
                                                      ELSE rotate_count
  /\ tname' = IF relret = "down" THEN NoTable ELSE tname
  /\ UNCHANGED <<connected, mvret, relret, insret, created, ucount, rcount,
                 leaked, dbVars, faults>>

\* PQfinish and the end of release_postgres_client; oppostgres_event resets
\* its count, oppostgres_close frees the instance.
RelDisconnect ==
  /\ pc = "rel_disconnect"
  /\ connected' = FALSE
  /\ link' = "none" /\ txn' = "idle" /\ stmt' = NoTable /\ pend' = 0
  /\ pc' = IF relret = "rotated" THEN "idle" ELSE relret
  /\ rotate_count' = IF relret \in {"rotated", "down"} THEN 0
                                                      ELSE rotate_count
  /\ tname' = IF relret = "down" THEN NoTable ELSE tname
  /\ UNCHANGED <<mvret, relret, insret, created, ucount, rcount, leaked,
                 dbVars, faults>>

-----------------------------------------------------------------------------
(* do_datainsert: connection check and choice of a table.                  *)

\* One standard event reaches oppostgres_output.
Output ==
  /\ pc = "idle"
  /\ pc' = "conn"
  /\ UNCHANGED <<mvret, relret, insret, plugVars, sessVars, dbVars, faults>>

\* Variant for mutation: the flag is believed without a look at PQstatus.
CheckConnFlagOnly ==
  /\ pc = "conn"
  /\ UNCHANGED <<mvret, insret, tname, ucount, rcount, rotate_count, dbVars>>
  /\ \/ /\ connected
        /\ pc' = "table"
        /\ UNCHANGED <<relret, connected, created, sessVars, faults>>
     \/ /\ ~connected
        /\ ConnectAccepted
        /\ connected' = TRUE /\ created' = FALSE
        /\ pc' = "table"
        /\ UNCHANGED relret
     \/ /\ ~connected
        /\ ConnectFails
        /\ pc' = "idle"
        /\ UNCHANGED <<connected, created, relret>>

\* The part of do_datainsert at retry_conn.
CheckConn ==
  /\ pc = "conn"
  /\ UNCHANGED <<mvret, insret, tname, ucount, rcount, rotate_count, dbVars>>
  /\ \/ /\ connected
        /\ IF link = "up" THEN pc' = "table" /\ UNCHANGED relret
                          ELSE Release("conn")
        /\ UNCHANGED <<connected, created, sessVars, faults>>
     \/ /\ ~connected
        /\ ConnectAccepted
        /\ connected' = TRUE /\ created' = FALSE
        /\ pc' = "table"
        /\ UNCHANGED relret
     \/ /\ ~connected
        /\ ConnectFails
        /\ pc' = "idle"
        /\ UNCHANGED <<connected, created, relret>>

\* The insert statement is ready, or get_next_available_table looks for a
\* table in the available queue.
SelectTable ==
  /\ pc = "table"
  /\ UNCHANGED <<mvret, relret, insret, connected, ucount, rcount,
                 rotate_count, dbVars>>
  /\ \/ /\ created
        /\ pc' = "insert"
        /\ UNCHANGED <<created, tname, sessVars, faults>>
     \/ /\ ~created
        /\ Accepts("select")
        /\ \/ \E t \in avail : tname' = t /\ created' = TRUE /\ pc' = "begin"
           \/ avail = {} /\ tname' = NoTable /\ pc' = "create"
              /\ UNCHANGED created
        /\ UNCHANGED <<sessVars, faults>>
     \/ /\ ~created
        /\ Fails("select")
        /\ tname' = NoTable
        /\ pc' = "idle"
        /\ UNCHANGED created

CreateTable ==
  /\ pc = "create"
  /\ \E t \in Tables \ tables :
       /\ t # stmt
       /\ tname' = t
       /\ \/ /\ Accepts("create")
             /\ UNCHANGED <<sessVars, faults>>
             /\ tables' = tables \cup {t}
             /\ pc' = "enqueue"
          \/ /\ Fails("create")
             /\ UNCHANGED tables
             /\ pc' = "idle"
          \/ /\ Accepts("create") /\ Break
             /\ tables' = tables \cup {t}
             /\ pc' = "idle"
  /\ UNCHANGED <<mvret, relret, insret, connected, created, ucount, rcount,
                 rotate_count, avail, used, rows>>

\* Variant for mutation: a failing INSERT into the queue is ignored.
EnqueueTableUnchecked ==
  /\ pc = "enqueue"
  /\ \/ /\ Accepts("enqueue")
        /\ UNCHANGED <<sessVars, faults>>
        /\ avail' = avail \cup {tname}
     \/ Fails("enqueue") /\ UNCHANGED avail
  /\ pc' = "begin"
  /\ UNCHANGED <<mvret, relret, insret, plugVars, tables, used, rows>>

\* The new table is inserted into the available queue, else dropped again.
EnqueueTable ==
  /\ pc = "enqueue"
  /\ \/ /\ Accepts("enqueue")
        /\ UNCHANGED <<sessVars, faults>>
        /\ avail' = avail \cup {tname}
        /\ pc' = "begin"
     \/ /\ Fails("enqueue")
        /\ UNCHANGED avail
        /\ pc' = "drop"
     \/ /\ Accepts("enqueue") /\ Break
        /\ avail' = avail \cup {tname}
        /\ pc' = "drop"
  /\ UNCHANGED <<mvret, relret, insret, plugVars, tables, used, rows>>

DropTable ==
  /\ pc = "drop"
  /\ \/ /\ Accepts("drop")
        /\ UNCHANGED <<sessVars, faults>>
        /\ tables' = tables \ {tname}
     \/ Fails("drop") /\ UNCHANGED tables
     \/ Accepts("drop") /\ Break /\ tables' = tables \ {tname}
  /\ pc' = "idle"
  /\ UNCHANGED <<mvret, relret, insret, plugVars, avail, used, rows>>

BeginTable ==
  /\ pc = "begin"
  /\ \/ BeginAccepted /\ pc' = "prepare"
     \/ Fails("begin") /\ pc' = "idle"
  /\ UNCHANGED <<mvret, relret, insret, plugVars, dbVars>>

\* PQprepare; a statement of that name left behind makes the server refuse.
Prepare ==
  /\ pc = "prepare"
  /\ \/ /\ Accepts("prepare") /\ stmt = NoTable
        /\ stmt' = tname
        /\ ucount' = 0 /\ rcount' = 0 /\ created' = TRUE
        /\ pc' = "insert"
        /\ UNCHANGED <<link, txn, pend, leaked, faults>>
     \/ /\ \/ Fails("prepare")
           \/ /\ Accepts("prepare") /\ stmt # NoTable
              /\ txn' = IF txn = "open" THEN "aborted" ELSE txn
              /\ pend' = 0
              /\ UNCHANGED <<link, stmt, leaked, faults>>
        /\ pc' = "idle"
        /\ UNCHANGED <<ucount, rcount, created>>
  /\ UNCHANGED <<mvret, relret, insret, connected, tname, rotate_count, dbVars>>

-----------------------------------------------------------------------------
(* do_datainsert: the insert, the commit and the rotation.                 *)

\* The server runs the prepared INSERT, inside the transaction if one is open.
RowInserted ==
  /\ Accepts("insert") /\ stmt \in tables
  /\ IF txn = "open"
     THEN pend' = pend + 1 /\ UNCHANGED rows
     ELSE rows' = [rows EXCEPT ![stmt] = @ + 1] /\ UNCHANGED pend

\* After a successful insert: record_count and the size limit.
CountRecord ==
  /\ rcount' = rcount + 1
  /\ IF rcount + 1 >= MaxRecords THEN MoveTable("idle")
                                 ELSE pc' = "idle" /\ UNCHANGED mvret

\* Variant for mutation: the batch is committed one row too late.
InsertOkOneLate ==
  /\ pc = "insert"
  /\ RowInserted
  /\ ucount' = ucount + 1
  /\ IF ucount + 1 > MaxUncommitted
     THEN pc' = "commit_end" /\ UNCHANGED <<rcount, mvret>>
     ELSE CountRecord
  /\ UNCHANGED <<relret, insret, connected, created, tname, rotate_count,
                 link, txn, stmt, leaked, tables, avail, used, faults>>

InsertOk ==
  /\ pc = "insert"
  /\ RowInserted
  /\ ucount' = ucount + 1
  /\ IF ucount + 1 >= MaxUncommitted
     THEN pc' = "commit_end" /\ UNCHANGED <<rcount, mvret>>
     ELSE CountRecord
  /\ UNCHANGED <<relret, insret, connected, created, tname, rotate_count,
                 link, txn, stmt, leaked, tables, avail, used, faults>>

InsertFails ==
  /\ pc = "insert"
  /\ pc' = "fail_end"
  /\ UNCHANGED <<mvret, relret, plugVars, tables, avail, used, leaked>>
  /\ \/ \* the server answers with an error, or the send fails
        /\ Fails("insert") /\ UNCHANGED rows
        /\ insret' = 1
     \/ \* no such prepared statement, or its table is gone
        /\ Accepts("insert") /\ stmt \notin tables
        /\ txn' = (IF txn = "open" THEN "aborted" ELSE txn) /\ pend' = 0
        /\ insret' = 1
        /\ UNCHANGED <<link, stmt, rows, faults>>
     \/ \* outside a transaction the row may be in although the link broke
        /\ Accepts("insert") /\ stmt \in tables /\ txn = "idle" /\ Break
        /\ rows' = [rows EXCEPT ![stmt] = @ + 1]
        /\ insret' = 1
     \/ \* a signal interrupts select() while the server inserts the row
        /\ faults > 0 /\ faults' = faults - 1
        /\ RowInserted
        /\ insret' = 1
        /\ UNCHANGED <<link, txn, stmt>>
     \/ \* 100 ms are over; the cancel comes too late ...
        /\ faults > 0 /\ faults' = faults - 1
        /\ RowInserted
        /\ insret' = 2
        /\ UNCHANGED <<link, txn, stmt>>
     \/ \* ... or in time, and aborts the transaction
        /\ Accepts("insert") /\ stmt \in tables
        /\ faults > 0 /\ faults' = faults - 1
        /\ txn' = (IF txn = "open" THEN "aborted" ELSE txn) /\ pend' = 0
        /\ insret' = 2
        /\ UNCHANGED <<link, stmt, rows>>

\* Only after a time-out (-2) is the connection kept.
FailDone ==
  /\ ucount' = 0
  /\ IF insret = 2 THEN pc' = "idle" /\ UNCHANGED relret
                   ELSE Release("idle")

FailEnd ==
  /\ pc = "fail_end"
  /\ \/ EndAccepted /\ pc' = "fail_begin" /\ UNCHANGED <<relret, ucount>>
     \/ EndFails /\ FailDone
  /\ UNCHANGED <<mvret, insret, connected, created, tname, rcount,
                 rotate_count, tables, avail, used>>

FailBegin ==
  /\ pc = "fail_begin"
  /\ BeginAccepted \/ Fails("begin")
  /\ FailDone
  /\ UNCHANGED <<mvret, insret, connected, created, tname, rcount,
                 rotate_count, dbVars>>

CommitEnd ==
  /\ pc = "commit_end"
  /\ \/ EndAccepted /\ pc' = "commit_begin" /\ UNCHANGED relret
     \/ EndFails /\ Release("idle")
  /\ UNCHANGED <<mvret, insret, plugVars, tables, avail, used>>

CommitBegin ==
  /\ pc = "commit_begin"
  /\ \/ BeginAccepted /\ ucount' = 0 /\ CountRecord /\ UNCHANGED relret
     \/ Fails("begin") /\ Release("idle") /\ UNCHANGED <<ucount, rcount, mvret>>
  /\ UNCHANGED <<insret, connected, created, tname, rotate_count, dbVars>>

-----------------------------------------------------------------------------
(* move_table_to_usedqueue and the clock event.                            *)

MvEnd ==
  /\ pc = "mv_end"
  /\ EndAccepted \/ EndFails
  /\ pc' = "mv_deallocate"
  /\ UNCHANGED <<mvret, relret, insret, plugVars, tables, avail, used>>

\* A failing DEALLOCATE is only logged; the created flag is reset anyway.
MvDeallocate ==
  /\ pc = "mv_deallocate"
  /\ \/ Accepts("deallocate") /\ stmt' = NoTable
        /\ UNCHANGED <<link, txn, pend, leaked, faults>>
     \/ Fails("deallocate")
  /\ created' = FALSE
  /\ pc' = "mv_move"
  /\ UNCHANGED <<mvret, relret, insret, connected, tname, ucount, rcount,
                 rotate_count, dbVars>>

\* The function move_from_avail_to_used of the database.
MovedToUsed ==
  /\ used' = IF tname \in avail THEN used \cup {tname} ELSE used
  /\ avail' = avail \ {tname}

MvMove ==
  /\ pc = "mv_move"
  /\ \/ Accepts("move") /\ MovedToUsed /\ UNCHANGED <<sessVars, faults>>
     \/ Accepts("move") /\ MovedToUsed /\ Break
     \/ Fails("move") /\ UNCHANGED <<avail, used>>
  /\ pc' = mvret
  /\ UNCHANGED <<mvret, relret, insret, plugVars, tables, rows>>

\* oppostgres_event: rotate the table in use, then maybe the connection.
ClockEvent ==
  /\ pc = "idle"
  /\ IF created THEN MoveTable("rotate")
                ELSE pc' = "rotate" /\ UNCHANGED mvret
  /\ UNCHANGED <<relret, insret, plugVars, sessVars, dbVars, faults>>

Rotate ==
  /\ pc = "rotate"
  /\ IF connected /\ tname # NoTable
     THEN /\ rotate_count' = rotate_count + 1
          /\ IF rotate_count + 1 >= MaxRotate
             THEN Release("rotated")
             ELSE pc' = "idle" /\ UNCHANGED relret
     ELSE pc' = "idle" /\ UNCHANGED <<rotate_count, relret>>
  /\ UNCHANGED <<mvret, insret, connected, created, tname, ucount, rcount,
                 sessVars, dbVars, faults>>

\* oppostgres_close at shutdown.
Close ==
  /\ pc = "idle"
  /\ Release("down")
  /\ UNCHANGED <<mvret, insret, plugVars, sessVars, dbVars, faults>>

-----------------------------------------------------------------------------
(* The environment.                                                        *)

\* garner dies anywhere; its server session is rolled back and closed.
Crash ==
  /\ pc # "down"
  /\ faults > 0 /\ faults' = faults - 1
  /\ pc' = "down"
  /\ connected' = FALSE /\ created' = FALSE /\ tname' = NoTable
  /\ ucount' = 0 /\ rcount' = 0 /\ rotate_count' = 0
  /\ link' = "none" /\ txn' = "idle" /\ stmt' = NoTable /\ pend' = 0
  /\ leaked' = 0
  /\ UNCHANGED <<mvret, relret, insret, dbVars>>

\* A summarisation procedure merges the rows of a used table and drops it.
ReaderConsume(t) ==
  /\ t \in used
  /\ used' = used \ {t}
  /\ tables' = tables \ {t}
  /\ rows' = [rows EXCEPT ![t] = 0]
  /\ UNCHANGED <<avail, ctlVars, plugVars, sessVars, faults>>

Init ==
  /\ pc = "down" /\ mvret = "idle" /\ relret = "idle" /\ insret = 1
  /\ connected = FALSE /\ created = FALSE /\ tname = NoTable
  /\ ucount = 0 /\ rcount = 0 /\ rotate_count = 0
  /\ link = "none" /\ txn = "idle" /\ stmt = NoTable /\ pend = 0 /\ leaked = 0
  /\ tables = {} /\ avail = {} /\ used = {} /\ rows = [t \in Tables |-> 0]
  /\ faults = MaxFaults

Step ==
  \/ Start \/ CheckConn \/ SelectTable \/ CreateTable \/ EnqueueTable
  \/ DropTable \/ BeginTable \/ Prepare \/ InsertOk \/ InsertFails
  \/ FailEnd \/ FailBegin \/ CommitEnd \/ CommitBegin
  \/ MvEnd \/ MvDeallocate \/ MvMove \/ Rotate \/ RelEnd \/ RelDisconnect

Next ==
  \/ Step \/ Output \/ ClockEvent \/ Close \/ Crash
  \/ \E t \in Tables : ReaderConsume(t)

Spec == Init /\ [][Next]_vars

(* garner's main loop serves the sockets and the clock pipe in turn, so    *)
(* neither kind of event is passed over for ever; the handlers run to      *)
(* their end; the procedures of the database are triggered every minute.   *)
Fairness ==
  /\ WF_vars(Step)
  /\ SF_vars(Output)
  /\ SF_vars(ClockEvent)
  /\ \A t \in Tables : WF_vars(ReaderConsume(t))

FairSpec == Spec /\ Fairness

-----------------------------------------------------------------------------
(* Properties.                                                             *)

CmdSteps == {"create", "enqueue", "drop", "begin", "prepare", "insert",
             "commit_end", "commit_begin", "fail_end", "fail_begin",
             "mv_end", "mv_deallocate", "mv_move", "rel_end",
             "rel_disconnect"}

\* The fields keep the ranges the code gives them.
TypeOK ==
  /\ pc \in CmdSteps \cup {"down", "idle", "conn", "table", "rotate"}
  /\ mvret \in {"idle", "rel_disconnect", "rotate"}
  /\ relret \in {"idle", "conn", "rotated", "down"}
  /\ insret \in {1, 2}
  /\ connected \in BOOLEAN /\ created \in BOOLEAN
  /\ tname \in Tables \cup {NoTable} /\ stmt \in Tables \cup {NoTable}
  /\ ucount \in 0..MaxUncommitted /\ pend \in 0..MaxUncommitted
  /\ rcount \in Nat /\ rotate_count \in Nat
  /\ link \in {"none", "up", "down"} /\ txn \in {"idle", "open", "aborted"}
  /\ leaked \in Nat /\ faults \in 0..MaxFaults
  /\ tables \subseteq Tables /\ avail \subseteq tables /\ used \subseteq tables
  /\ rows \in [Tables -> Nat]

\* A crash or a broken link costs at most the batch: between two events the
\* open transaction of do_datainsert holds fewer than max_uncommitted_records
\* rows, never more than it has counted, and all of them go to a table that
\* is still in the available queue.
LossBounded ==
  /\ pc = "idle" => pend <= ucount /\ pend < MaxUncommitted
  /\ pend > 0 => stmt \in avail /\ txn = "open"

\* Whatever command fails on the way, a table that has rows is in one of the
\* two queues, so a summarisation procedure or a later connection finds it.
NoRowStranded == \A t \in Tables : rows[t] > 0 => t \in avail \cup used

\* get_next_available_table creates a table only when the queue is empty, so
\* lost answers, failed moves and restarts never pile up available tables,
\* of which LIMIT 1 would choose one at random.
OneAvailable == \A t, u \in avail : t = u

\* The flag that lets do_datainsert skip prepare_next_table is never set
\* without a connection, and a table it speaks of is in the available queue.
CreatedIsUsable == created => connected /\ tname \in avail

Queue == INSTANCE TableQueue WITH MaxBatch <- MaxUncommitted

\* The plugin implements the table queue: rows appear only in available
\* tables, at most one batch at a time, and a used table is never written.
ImplementsQueue == Queue!QSpec

\* Rows committed to an available table are handed to the readers, as long as
\* events and clock ticks keep coming, whatever faults happened before, if the
\* server refuses neither DEALLOCATE nor PREPARE (Refusable of the run).
RowsHandedOver ==
  \A t \in Tables : (t \in avail /\ rows[t] > 0) ~> (t \notin avail)

\* Once the faults are over the plugin stores events again, if neither DEALLOCATE
\* nor PREPARE was among what the server refused; with a refused DEALLOCATE it
\* does not (postgres_wedge).
InsertsResume == []<><<InsertOk>>_vars

\* Parts of the inductive invariant.  SessionInv: a prepared statement exists
\* only for a selected table that is still in the available queue.
SessionInv ==
  /\ link # "up" => txn = "idle" /\ stmt = NoTable
  /\ pend > 0 => txn = "open" /\ stmt # NoTable
  /\ stmt # NoTable => stmt \in avail /\ created
  /\ created => connected /\ tname \in avail
  /\ connected => link # "none"
  /\ ~connected => link = "none"
  /\ pc = "down" => ~connected

\* While prepare_next_table looks for a table.
ChoiceInv ==
  /\ pc \in {"create", "enqueue", "drop"} => ~created
  /\ pc \in {"create", "enqueue"} => avail = {}
  /\ pc \in {"enqueue", "drop"} =>
       tname \in tables \ used /\ rows[tname] = 0
  /\ pc = "drop" /\ tname \in avail => link # "up"
  /\ pc \in {"begin", "prepare"} =>
       tname \in avail /\ stmt = NoTable /\ connected

\* While move_table_to_usedqueue closes one.
MoveInv ==
  /\ pc = "mv_deallocate" => txn = "idle"
  /\ pc = "mv_move" => txn = "idle" /\ stmt = NoTable
  /\ pc \in {"mv_move", "rel_disconnect", "rotate"} => ~created

\* The server's open transaction against the plugin's count.
CountInv ==
  /\ pc = "fail_end" => pend <= ucount + 1
  /\ pc # "fail_end" => pend <= ucount
  /\ pc \in {"fail_begin", "commit_begin"} => pend = 0
  /\ pc \in {"idle", "conn", "table", "insert", "rotate", "fail_end"}
       /\ stmt # NoTable => ucount < MaxUncommitted

\* The two queues.
QueueInv ==
  /\ avail \cap used = {}
  /\ OneAvailable
  /\ NoRowStranded

\* The inductive invariant behind the safety properties: in every state the
\* plugin's flags and counts, the session's statement and transaction, and the
\* queues agree.  It holds when the server never refuses DEALLOCATE.
IInv == TypeOK /\ SessionInv /\ ChoiceInv /\ MoveInv /\ CountInv /\ QueueInv
=============================================================================
