------------------------------- MODULE FdPool -------------------------------
(***************************************************************************)
(* garner's table of connections: the records (struct _fd_data), the pool  *)
(* that owns them and the event loop that calls them back.  One model for  *)
(* both builds: epoll on Linux, select on Cygwin.                          *)
(*                                                                         *)
(* Descriptor 0 is the listener, descriptor 1 the read end of the clock    *)
(* pipe.  malloc may hand out an address again once it has been freed.     *)
(***************************************************************************)
EXTENDS GarnerBuild, Naturals, Sequences, FiniteSets, FiniteSetsExt

CONSTANTS
  MaxFd,       \* highest descriptor
  Addrs,       \* addresses of records for connections
  Null,        \* NULL in fd_list, no record, no descriptor
  MaxAccepts   \* bound: records created in one behaviour

ASSUME PoolAssumption ==
  /\ MaxFd \in Nat \ {0} /\ MaxAccepts \in Nat
  /\ Null \notin Addrs \cup 0..MaxFd

VARIABLES
  heap,    \* records allocated
  pool,    \* fd_pool.fd_list
  fdof,    \* fd_data->fd
  open,    \* open descriptors of connections
  reg,     \* record registered for a descriptor (epoll, or fd_arr)
  batch,   \* descriptors of the last wait not yet dispatched
  snap,    \* cev: the records that epoll_wait returned
  running,
  failed   \* libname_init of some input plugin has failed

poolVars ==
  <<Cygwin, failed, heap, pool, fdof, open, reg, batch, snap, running>>

Conns == 2..MaxFd
Loop  == {0, 1}

PoolInit ==
  /\ Cygwin \in Builds /\ failed = FALSE
  /\ heap = {} /\ pool = << >> /\ fdof = [a \in Addrs |-> Null]
  /\ open = {} /\ reg = [fd \in Conns |-> Null]
  /\ batch = {} /\ snap = reg
  /\ running = TRUE

\* epoll_wait or select: the listener, the clock and connections get ready.
Wait ==
  /\ running /\ batch = {}
  /\ batch' \in SUBSET (Loop \cup {fd \in Conns : reg[fd] # Null}) \ {{}}
  /\ snap' = reg
  /\ UNCHANGED <<Cygwin, failed, heap, pool, fdof, open, reg, running>>

\* Variant for mutation: select's loop trusts the set it got.
PointerCached(fd) == snap[fd]

\* The record the loop passes to the callback; the loop over select's result
\* looks again whether the descriptor is still valid (IF_FD_VALID).
Pointer(fd) == IF Cygwin THEN reg[fd] ELSE snap[fd]

\* Dispatch order: as epoll_wait returned them, or ascending for select.
NextFd(fd) == fd \in batch /\ (Cygwin => fd = Min(batch))

\* Variant for mutation: the record is not entered in the pool.
NewRecordUnlisted(a, fd) ==
  /\ pool' = pool
  /\ fdof' = [fdof EXCEPT ![a] = fd]

\* new_fd_data and assign_to_fdpool.
NewRecord(a, fd) ==
  /\ pool' = Append(pool, a)
  /\ fdof' = [fdof EXCEPT ![a] = fd]

\* handle_accept: accept or the handshake fails or the ident is unknown ...
AcceptRefused ==
  /\ NextFd(0)
  /\ batch' = batch \ {0}
  /\ UNCHANGED <<Cygwin, failed, heap, pool, fdof, open, reg, snap, running>>

\* ... or a record is created; when libname_init fails it is freed but stays
\* in the pool; when epoll_ctl fails that is only logged.
Accept ==
  /\ NextFd(0)
  /\ Len(pool) < MaxAccepts
  /\ Conns \ open # {} /\ Addrs \ heap # {}
  /\ LET fd == Min(Conns \ open) IN
     \E a \in Addrs \ heap :
       /\ NewRecord(a, fd)
       /\ \/ /\ heap' = heap \cup {a} /\ open' = open \cup {fd}
             /\ \/ reg' = [reg EXCEPT ![fd] = a]
                \/ ~Cygwin /\ UNCHANGED reg
             /\ UNCHANGED failed
          \/ /\ failed' = TRUE
             /\ UNCHANGED <<heap, open, reg>>
  /\ batch' = batch \ {0}
  /\ UNCHANGED <<Cygwin, snap, running>>

\* The first place of a record in the pool (remove_from_fdpool).
FirstIndex(a) == Min({i \in DOMAIN pool : pool[i] = a})

\* Variant for mutation: the record is freed but its place keeps the pointer.
FreeRecordsKeepsPlace(S) ==
  /\ open' = open \ {fdof[a] : a \in S}
  /\ reg' = [fd \in Conns |-> IF reg[fd] \in S THEN Null ELSE reg[fd]]
  /\ heap' = heap \ S
  /\ UNCHANGED pool

\* free_fd_data of every record in S.  On Linux the descriptor is closed
\* first, so EPOLL_CTL_DEL fails and the function returns before
\* remove_from_fdpool.
FreeRecords(S) ==
  /\ open' = open \ {fdof[a] : a \in S}
  /\ reg' = [fd \in Conns |-> IF reg[fd] \in S THEN Null ELSE reg[fd]]
  /\ IF Cygwin
     THEN /\ heap' = heap \ S
          /\ pool' = [i \in DOMAIN pool |->
                        IF pool[i] \in S /\ i = FirstIndex(pool[i])
                        THEN Null ELSE pool[i]]
     ELSE UNCHANGED <<heap, pool>>

\* handle_clockevent begins with flush_inactive_connections (Cygwin only).
ClockEvent ==
  /\ NextFd(1)
  /\ \E S \in SUBSET {reg[fd] : fd \in Conns} :
       /\ Null \notin S /\ (~Cygwin => S = {})
       /\ FreeRecords(S)
  /\ batch' = batch \ {1}
  /\ UNCHANGED <<Cygwin, failed, fdof, snap, running>>

\* handle_input: data goes to the plugin; at the end of the stream or after
\* an error the connection is freed.
Input(fd) ==
  /\ NextFd(fd)
  /\ \/ UNCHANGED <<heap, pool, open, reg>>
     \/ Pointer(fd) # Null /\ FreeRecords({Pointer(fd)})
  /\ batch' = batch \ {fd}
  /\ UNCHANGED <<Cygwin, failed, fdof, snap, running>>

\* garner_shutdown: release_fdpool frees what is in the pool.
ReleaseFdpool ==
  /\ running /\ batch = {}
  /\ running' = FALSE
  /\ heap' = heap \ {pool[i] : i \in DOMAIN pool}
  /\ UNCHANGED <<Cygwin, failed, pool, fdof, open, reg, batch, snap>>

Exited == ~running /\ UNCHANGED poolVars

PoolNext ==
  \/ Wait \/ AcceptRefused \/ Accept \/ ClockEvent \/ ReleaseFdpool \/ Exited
  \/ \E fd \in Conns : Input(fd)

PoolSpec == PoolInit /\ [][PoolNext]_poolVars

-----------------------------------------------------------------------------
(* Properties.                                                             *)

\* The ranges of the variables; a descriptor is registered only while open.
PoolTypeOK ==
  /\ heap \subseteq Addrs /\ pool \in Seq(Addrs \cup {Null})
  /\ fdof \in [Addrs -> Conns \cup {Null}]
  /\ open \subseteq Conns
  /\ \A fd \in Conns : reg[fd] \in Addrs \cup {Null}
                       /\ (reg[fd] # Null => fd \in open)
  /\ batch \subseteq 0..MaxFd
  /\ running \in BOOLEAN /\ failed \in BOOLEAN /\ Cygwin \in Builds

\* The question in do_epoll, "what should be done if event received from fd
\* which was detected as inactive and been flushed": a callback never gets a
\* record that has been freed or given to another descriptor, not even when
\* an earlier callback of the same batch closed it.
LiveCallback ==
  running => \A fd \in batch \ Loop :
    Pointer(fd) # Null => Pointer(fd) \in heap /\ fdof[Pointer(fd)] = fd

\* remove_from_fdpool asserts that the record is in the pool; the assertion
\* never fails, even with stale pointers and reused addresses in the pool.
FoundInPool ==
  \A fd \in Conns : reg[fd] # Null => \E i \in DOMAIN pool : pool[i] = reg[fd]

\* Unless a plugin failed to initialise, release_fdpool frees every record
\* exactly once: the pool holds live records only, each in one place.
FreedOnce ==
  running /\ ~failed => \A i, j \in DOMAIN pool :
    pool[i] # Null => pool[i] \in heap /\ (i # j => pool[i] # pool[j])

\* handle_input on a closed connection, "do the epoll del and free fd_data",
\* and the flush of inactive ones leave no record behind; with epoll the
\* deletion fails after the close, so this holds for select only.
ClosedIsFreed == Cygwin => \A a \in heap : fdof[a] \in open

\* What holds in every state of the table: types, remove_from_fdpool finds the
\* record it is asked for, and nothing that is closed stays allocated (select).
PoolInv == PoolTypeOK /\ FoundInPool /\ ClosedIsFreed
=============================================================================
