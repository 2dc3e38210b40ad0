----------------------------- MODULE TableQueue -----------------------------
(***************************************************************************)
(* What the postgres output plugin of garner promises to the summarisation *)
(* procedures of the database: log rows are committed, a batch at a time,  *)
(* into tables of the "available" queue; a table is moved once to the      *)
(* "used" queue and is from then on never written again; the procedures    *)
(* read and drop used tables.                                              *)
(***************************************************************************)
EXTENDS Naturals

CONSTANTS Tables,    \* names a log table can have
          MaxBatch   \* most rows one transaction commits

VARIABLES avail,     \* tables of the available queue
          used,      \* tables of the used queue
          rows       \* committed rows of each table

qvars == <<avail, used, rows>>

QInit ==
  /\ avail = {}
  /\ used = {}
  /\ rows = [t \in Tables |-> 0]

\* A new empty table enters the available queue.
QCreate(t) ==
  /\ t \notin avail \cup used
  /\ rows[t] = 0
  /\ avail' = avail \cup {t}
  /\ UNCHANGED <<used, rows>>

\* A transaction's rows become visible in an available table.
QCommit(t, n) ==
  /\ t \in avail
  /\ rows' = [rows EXCEPT ![t] = @ + n]
  /\ UNCHANGED <<avail, used>>

\* The table is closed and handed to the readers.
QMove(t) ==
  /\ t \in avail
  /\ avail' = avail \ {t}
  /\ used' = used \cup {t}
  /\ UNCHANGED rows

\* A summarisation procedure has merged the table's rows and drops it.
QConsume(t) ==
  /\ t \in used
  /\ used' = used \ {t}
  /\ rows' = [rows EXCEPT ![t] = 0]
  /\ UNCHANGED avail

QNext ==
  \E t \in Tables :
    \/ QCreate(t)
    \/ \E n \in 1..MaxBatch : QCommit(t, n)
    \/ QMove(t)
    \/ QConsume(t)

QSpec == QInit /\ [][QNext]_qvars
=============================================================================
