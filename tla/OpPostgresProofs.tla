-------------------------- MODULE OpPostgresProofs --------------------------
(***************************************************************************)
(* For every set of table names and every limit: the postgres output       *)
(* plugin implements the table queue, loses at most one batch and never    *)
(* strands a row, provided the server does not refuse to deallocate a      *)
(* statement that exists.                                                  *)
(*                                                                         *)
(* IInv is inductive.  Its heart is SessionInv: a prepared statement       *)
(* exists only for a table that the plugin has selected (created) and that *)
(* is still in the available queue.  MoveInv carries this through          *)
(* move_table_to_usedqueue, where the statement must be gone before the    *)
(* table leaves the available queue; ChoiceInv through prepare_next_table, *)
(* where the table must be in the queue before the statement exists;       *)
(* CountInv bounds the rows of the open transaction by the plugin's count. *)
(***************************************************************************)
EXTENDS OpPostgres, TLAPS

\* The assumption of this module about the server.
DeallocateReliable == "deallocate" \notin Refusable

\* What the provers unfold in every step.
USE ConstantsAssumption
    DEF DeallocateReliable, ctlVars, plugVars, sessVars, dbVars,
        IInv, TypeOK, CmdSteps, SessionInv, ChoiceInv, MoveInv, CountInv,
        QueueInv, OneAvailable, NoRowStranded,
        Accepts, Fails, Refused, Break, Dead

-----------------------------------------------------------------------------
(* Each action preserves the invariant.  Flags that are assigned get a     *)
(* step of their own.                                                      *)

\* IInv is kept by Start: oppostgres_init.
LEMMA StartStep == ASSUME DeallocateReliable, IInv, Start PROVE IInv'
<1>1. connected' \in BOOLEAN /\ created' \in BOOLEAN
  BY Zenon DEF Start, ConnectAccepted, ConnectFails
<1>2. TypeOK'
  BY <1>1 DEF Start, ConnectAccepted, ConnectFails
<1>3. SessionInv' /\ ChoiceInv' /\ MoveInv'
  BY DEF Start, ConnectAccepted, ConnectFails
<1>4. CountInv' /\ QueueInv'
  BY DEF Start, ConnectAccepted, ConnectFails
<1> QED BY <1>2, <1>3, <1>4

\* IInv is kept by CheckConn: the connection check of do_datainsert.
LEMMA CheckConnStep == ASSUME DeallocateReliable, IInv, CheckConn PROVE IInv'
<1>1. connected' \in BOOLEAN /\ created' \in BOOLEAN
  BY Zenon DEF CheckConn, ConnectAccepted, ConnectFails, Release
<1>2. TypeOK'
  BY <1>1 DEF CheckConn, ConnectAccepted, ConnectFails, Release
<1>3. SessionInv' /\ ChoiceInv' /\ MoveInv'
  BY DEF CheckConn, ConnectAccepted, ConnectFails, Release
<1>4. CountInv' /\ QueueInv'
  BY DEF CheckConn, ConnectAccepted, ConnectFails, Release
<1> QED BY <1>2, <1>3, <1>4

\* IInv is kept by SelectTable: get_next_available_table, first half.
LEMMA SelectTableStep == ASSUME DeallocateReliable, IInv, SelectTable PROVE IInv'
<1>1. connected' \in BOOLEAN /\ created' \in BOOLEAN
  BY Zenon DEF SelectTable
<1>2. TypeOK'
  BY <1>1 DEF SelectTable
<1>3. SessionInv' /\ ChoiceInv' /\ MoveInv'
  BY DEF SelectTable
<1>4. CountInv' /\ QueueInv'
  BY DEF SelectTable
<1> QED BY <1>2, <1>3, <1>4

\* IInv is kept by CreateTable: create_table.
LEMMA CreateTableStep == ASSUME DeallocateReliable, IInv, CreateTable PROVE IInv'
  BY SMTT(30) DEF CreateTable

\* IInv is kept by EnqueueTable: the insertion into the available queue.
LEMMA EnqueueTableStep == ASSUME DeallocateReliable, IInv, EnqueueTable PROVE IInv'
  BY SMTT(30) DEF EnqueueTable

\* IInv is kept by DropTable: drop_table.
LEMMA DropTableStep == ASSUME DeallocateReliable, IInv, DropTable PROVE IInv'
  BY SMTT(30) DEF DropTable

\* IInv is kept by BeginTable: the BEGIN of prepare_next_table.
LEMMA BeginTableStep == ASSUME DeallocateReliable, IInv, BeginTable PROVE IInv'
  BY SMTT(30) DEF BeginTable, BeginAccepted

\* IInv is kept by Prepare: init_prepared_statement.
LEMMA PrepareStep == ASSUME DeallocateReliable, IInv, Prepare PROVE IInv'
<1>1. connected' \in BOOLEAN /\ created' \in BOOLEAN
  BY Zenon DEF Prepare
<1>2. TypeOK'
  BY <1>1 DEF Prepare
<1>3. SessionInv' /\ ChoiceInv' /\ MoveInv'
  BY DEF Prepare
<1>4. CountInv' /\ QueueInv'
  BY DEF Prepare
<1> QED BY <1>2, <1>3, <1>4

\* IInv is kept by InsertOk: a successful insert.
LEMMA InsertOkStep == ASSUME DeallocateReliable, IInv, InsertOk PROVE IInv'
  BY SMTT(30) DEF InsertOk, RowInserted, CountRecord, MoveTable

\* IInv is kept by InsertFails: a failed, interrupted or timed-out insert.
LEMMA InsertFailsStep == ASSUME DeallocateReliable, IInv, InsertFails PROVE IInv'
  BY SMTT(30) DEF InsertFails, RowInserted

\* IInv is kept by FailEnd: the END after a failed insert.
LEMMA FailEndStep == ASSUME DeallocateReliable, IInv, FailEnd PROVE IInv'
  BY SMTT(30) DEF FailEnd, FailDone, EndAccepted, EndFails, Committed, Release

\* IInv is kept by FailBegin: the BEGIN after a failed insert.
LEMMA FailBeginStep == ASSUME DeallocateReliable, IInv, FailBegin PROVE IInv'
  BY SMTT(30) DEF FailBegin, FailDone, BeginAccepted, Release

\* IInv is kept by CommitEnd: the END of a full batch.
LEMMA CommitEndStep == ASSUME DeallocateReliable, IInv, CommitEnd PROVE IInv'
  BY SMTT(30) DEF CommitEnd, EndAccepted, EndFails, Committed, Release

\* IInv is kept by CommitBegin: the BEGIN after a full batch.
LEMMA CommitBeginStep == ASSUME DeallocateReliable, IInv, CommitBegin PROVE IInv'
  BY SMTT(30) DEF CommitBegin, CountRecord, MoveTable, BeginAccepted, Release

\* IInv is kept by MvEnd: the END of move_table_to_usedqueue.
LEMMA MvEndStep == ASSUME DeallocateReliable, IInv, MvEnd PROVE IInv'
  BY SMTT(30) DEF MvEnd, EndAccepted, EndFails, Committed

\* IInv is kept by MvDeallocate: deallocate_prepared_stmt, after which the flag is reset.
LEMMA MvDeallocateStep == ASSUME DeallocateReliable, IInv, MvDeallocate PROVE IInv'
<1>1. connected' \in BOOLEAN /\ created' \in BOOLEAN
  BY Zenon DEF MvDeallocate
<1>2. TypeOK'
  BY <1>1 DEF MvDeallocate
<1>3. SessionInv' /\ ChoiceInv' /\ MoveInv'
  BY DEF MvDeallocate
<1>4. CountInv' /\ QueueInv'
  BY DEF MvDeallocate
<1> QED BY <1>2, <1>3, <1>4

\* IInv is kept by MvMove: move_from_avail_to_used.
LEMMA MvMoveStep == ASSUME DeallocateReliable, IInv, MvMove PROVE IInv'
  BY SMTT(30) DEF MvMove, MovedToUsed

\* IInv is kept by Rotate: the second half of oppostgres_event.
LEMMA RotateStep == ASSUME DeallocateReliable, IInv, Rotate PROVE IInv'
  BY SMTT(30) DEF Rotate, Release

\* IInv is kept by RelEnd: the END of release_postgres_client.
LEMMA RelEndStep == ASSUME DeallocateReliable, IInv, RelEnd PROVE IInv'
  BY SMTT(30) DEF RelEnd, MoveTable, EndAccepted, EndFails, Committed

\* IInv is kept by RelDisconnect: the end of release_postgres_client.
LEMMA RelDisconnectStep == ASSUME DeallocateReliable, IInv, RelDisconnect PROVE IInv'
<1>1. connected' \in BOOLEAN /\ created' \in BOOLEAN
  BY Zenon DEF RelDisconnect
<1>2. TypeOK'
  BY <1>1 DEF RelDisconnect
<1>3. SessionInv' /\ ChoiceInv' /\ MoveInv'
  BY DEF RelDisconnect
<1>4. CountInv' /\ QueueInv'
  BY DEF RelDisconnect
<1> QED BY <1>2, <1>3, <1>4

\* IInv is kept by Output: an event that arrives.
LEMMA OutputStep == ASSUME DeallocateReliable, IInv, Output PROVE IInv'
  BY SMTT(30) DEF Output

\* IInv is kept by ClockEvent: a clock event.
LEMMA ClockEventStep == ASSUME DeallocateReliable, IInv, ClockEvent PROVE IInv'
  BY SMTT(30) DEF ClockEvent, MoveTable

\* IInv is kept by Close: oppostgres_close.
LEMMA CloseStep == ASSUME DeallocateReliable, IInv, Close PROVE IInv'
  BY SMTT(30) DEF Close, Release

\* IInv is kept by Crash: a crash of garner.
LEMMA CrashStep == ASSUME DeallocateReliable, IInv, Crash PROVE IInv'
<1>1. connected' \in BOOLEAN /\ created' \in BOOLEAN
  BY Zenon DEF Crash
<1>2. TypeOK'
  BY <1>1 DEF Crash
<1>3. SessionInv' /\ ChoiceInv' /\ MoveInv'
  BY DEF Crash
<1>4. CountInv' /\ QueueInv'
  BY DEF Crash
<1> QED BY <1>2, <1>3, <1>4

\* IInv is kept by ReaderConsume: a procedure drops a used table, which no
\* prepared statement refers to.
LEMMA ReaderStep ==
  ASSUME IInv, NEW t \in Tables, ReaderConsume(t) PROVE IInv'
  BY SMTT(30) DEF ReaderConsume

\* Steps that leave every variable alone.
LEMMA StutterStep == ASSUME IInv, UNCHANGED vars PROVE IInv'
  BY SMTT(30) DEF vars

\* The plugin starts disconnected, with empty queues.
LEMMA InitIInv == ASSUME Init PROVE IInv
<1>1. connected \in BOOLEAN /\ created \in BOOLEAN
  BY Zenon DEF Init
<1> QED BY <1>1 DEF Init

\* Every step of the specification keeps IInv.
LEMMA NextIInv == ASSUME DeallocateReliable, IInv, [Next]_vars PROVE IInv'
<1> HIDE DEF IInv, DeallocateReliable
<1> QED
  BY StartStep, CheckConnStep, SelectTableStep, CreateTableStep,
     EnqueueTableStep, DropTableStep, BeginTableStep, PrepareStep,
     InsertOkStep, InsertFailsStep, FailEndStep, FailBeginStep,
     CommitEndStep, CommitBeginStep, MvEndStep, MvDeallocateStep,
     MvMoveStep, RotateStep, RelEndStep, RelDisconnectStep,
     OutputStep, ClockEventStep, CloseStep, CrashStep,
     ReaderStep, StutterStep, Zenon
     DEF Next, Step

-----------------------------------------------------------------------------
(* Every step is a step of the table queue, or leaves its variables alone. *)

\* END commits the rows of the open transaction into the statement's table.
LEMMA CommitsBatch ==
  ASSUME IInv, EndAccepted \/ EndFails, UNCHANGED <<avail, used>>
  PROVE  [Queue!QNext]_Queue!qvars
<1>1. CASE rows' = rows
  BY <1>1 DEF Queue!qvars
<1>2. CASE rows' = Committed /\ rows' # rows
  <2>1. stmt \in Tables /\ stmt \in avail /\ pend \in 1..MaxUncommitted
    BY <1>2 DEF Committed
  <2>2. Queue!QCommit(stmt, pend)
    BY <1>2, <2>1 DEF Queue!QCommit, Committed
  <2> QED BY <2>1, <2>2 DEF Queue!QNext
<1> QED BY <1>1, <1>2 DEF EndAccepted, EndFails

\* The server runs the INSERT: outside a transaction that is a batch of one.
LEMMA InsertsRow ==
  ASSUME IInv, UNCHANGED <<avail, used>>,
         \/ rows' = rows
         \/ stmt \in tables /\ rows' = [rows EXCEPT ![stmt] = @ + 1]
  PROVE  [Queue!QNext]_Queue!qvars
<1>1. CASE rows' = rows
  BY <1>1 DEF Queue!qvars
<1>2. CASE stmt \in tables /\ rows' = [rows EXCEPT ![stmt] = @ + 1]
  <2>1. stmt \in Tables /\ stmt \in avail /\ 1 \in 1..MaxUncommitted
    BY <1>2
  <2>2. Queue!QCommit(stmt, 1)
    BY <1>2, <2>1 DEF Queue!QCommit
  <2> QED BY <2>1, <2>2 DEF Queue!QNext
<1> QED BY <1>1, <1>2

\* Every step of the plugin, its environment and the readers.
LEMMA QueueStep ==
  ASSUME DeallocateReliable, IInv, [Next]_vars
  PROVE  [Queue!QNext]_Queue!qvars
<1>1. CASE RelEnd \/ FailEnd \/ CommitEnd \/ MvEnd
  BY <1>1, CommitsBatch DEF RelEnd, FailEnd, CommitEnd, MvEnd
<1>2. CASE InsertOk \/ InsertFails
  <2>1. UNCHANGED <<avail, used>>
    BY <1>2 DEF InsertOk, InsertFails
  <2>2. \/ rows' = rows
        \/ stmt \in tables /\ rows' = [rows EXCEPT ![stmt] = @ + 1]
    BY <1>2 DEF InsertOk, InsertFails, RowInserted
  <2> QED BY <2>1, <2>2, InsertsRow
<1>3. CASE EnqueueTable
  <2>1. UNCHANGED <<used, rows>> /\ tname \in Tables
    BY <1>3 DEF EnqueueTable
  <2>2. CASE avail' = avail
    BY <2>1, <2>2 DEF Queue!qvars
  <2>3. CASE avail' = avail \cup {tname} /\ avail' # avail
    <3>1. Queue!QCreate(tname)
      BY <1>3, <2>1, <2>3 DEF Queue!QCreate, EnqueueTable
    <3> QED BY <2>1, <3>1 DEF Queue!QNext
  <2> QED BY <1>3, <2>2, <2>3 DEF EnqueueTable
<1>4. CASE MvMove
  <2>1. UNCHANGED rows
    BY <1>4 DEF MvMove
  <2>2. CASE tname \in avail /\ MovedToUsed
    <3>1. Queue!QMove(tname)
      BY <2>1, <2>2 DEF Queue!QMove, MovedToUsed
    <3> QED BY <2>2, <3>1 DEF Queue!QNext
  <2>3. CASE ~(tname \in avail /\ MovedToUsed)
    <3>1. CASE MovedToUsed
      <4>1. tname \notin avail /\ avail \ {tname} = avail
        BY <2>3, <3>1
      <4> QED BY <2>1, <3>1, <4>1 DEF MovedToUsed, Queue!qvars
    <3>2. CASE UNCHANGED <<avail, used>>
      BY <2>1, <3>2 DEF Queue!qvars
    <3> QED BY <1>4, <3>1, <3>2 DEF MvMove
  <2> QED BY <2>2, <2>3
<1>5. ASSUME NEW t \in Tables, ReaderConsume(t)
      PROVE  [Queue!QNext]_Queue!qvars
  <2>1. Queue!QConsume(t)
    BY <1>5 DEF ReaderConsume, Queue!QConsume
  <2> QED BY <2>1 DEF Queue!QNext
<1>6. CASE \/ Start \/ CheckConn \/ SelectTable \/ CreateTable \/ DropTable
           \/ BeginTable \/ Prepare \/ FailBegin \/ CommitBegin
           \/ MvDeallocate \/ Rotate \/ RelDisconnect
           \/ Output \/ ClockEvent \/ Close \/ Crash \/ UNCHANGED vars
  BY <1>6 DEF Queue!qvars, Start, CheckConn, SelectTable, CreateTable,
     DropTable, BeginTable, Prepare, FailBegin, CommitBegin, MvDeallocate,
     Rotate, RelDisconnect, Output, ClockEvent, Close, Crash, vars
<1> QED
  BY <1>1, <1>2, <1>3, <1>4, <1>5, <1>6 DEF Next, Step

-----------------------------------------------------------------------------
(* The theorems.                                                           *)

\* The inductive invariant, and with it the type invariant, hold for every
\* set of table names and all limits.
THEOREM Invariance ==
  ASSUME DeallocateReliable PROVE Spec => []IInv
<1> HIDE DEF IInv, DeallocateReliable
<1>1. Init => IInv
  BY InitIInv
<1>2. IInv /\ [Next]_vars => IInv'
  BY NextIInv
<1> QED BY <1>1, <1>2, PTL DEF Spec

\* A crash or broken connection costs fewer rows than one batch, and what the
\* open transaction holds goes to a table of the available queue.
THEOREM LossIsBounded ==
  ASSUME DeallocateReliable PROVE Spec => []LossBounded
<1>1. IInv => LossBounded
  BY DEF LossBounded
<1> HIDE DEF IInv, DeallocateReliable
<1> QED BY <1>1, Invariance, PTL

\* No failing command, broken link or crash strands a committed row outside
\* both queues.
THEOREM RowsAreReachable ==
  ASSUME DeallocateReliable PROVE Spec => []NoRowStranded
<1>1. IInv => NoRowStranded
  OBVIOUS
<1> HIDE DEF IInv, NoRowStranded, DeallocateReliable
<1> QED BY <1>1, Invariance, PTL

\* The available queue never holds two tables.
THEOREM AtMostOneAvailable ==
  ASSUME DeallocateReliable PROVE Spec => []OneAvailable
<1>1. IInv => OneAvailable
  OBVIOUS
<1> HIDE DEF IInv, OneAvailable, DeallocateReliable
<1> QED BY <1>1, Invariance, PTL

\* The created flag implies a connection and an available table.
THEOREM CreatedTableIsUsable ==
  ASSUME DeallocateReliable PROVE Spec => []CreatedIsUsable
<1>1. IInv => CreatedIsUsable
  BY DEF CreatedIsUsable
<1> HIDE DEF IInv, CreatedIsUsable, DeallocateReliable
<1> QED BY <1>1, Invariance, PTL

\* The plugin implements the table queue: a used table is never written.
THEOREM QueueRefinement ==
  ASSUME DeallocateReliable PROVE Spec => ImplementsQueue
<1>1. Init => Queue!QInit
  BY DEF Init, Queue!QInit
<1>2. IInv /\ [Next]_vars => [Queue!QNext]_Queue!qvars
  BY QueueStep
<1> HIDE DEF IInv, DeallocateReliable
<1> QED BY <1>1, <1>2, Invariance, PTL DEF Spec, ImplementsQueue, Queue!QSpec
=============================================================================
