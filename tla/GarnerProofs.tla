---------------------------- MODULE GarnerProofs ----------------------------
(***************************************************************************)
(* Proofs about the processes of garner: its table of connections          *)
(* (FdPool), its main loop with signals and clock thread (GarnerLoop), and *)
(* its start, watcher and control commands (GarnerDaemon).                 *)
(***************************************************************************)
EXTENDS FdPool, GarnerLoop, GarnerDaemon, WellFoundedInduction, TLAPS

-----------------------------------------------------------------------------
(***************************************************************************)
(* FdPool.  For any number of descriptors, records and accepted            *)
(* connections, and for both builds: a callback never gets a freed record  *)
(* or that of another descriptor, remove_from_fdpool finds what it is      *)
(* asked for, and release_fdpool frees each record once unless a plugin    *)
(* failed to start.                                                        *)
(*                                                                         *)
(* The heart of the inductive invariant is OwnInv, the record registered   *)
(* for a descriptor is allocated and its own, with its converse for select *)
(* (ListedInv: every allocated record is registered).  BatchInv carries it *)
(* through a batch of events: with epoll what epoll_wait returned for a    *)
(* descriptor still to be dispatched is what is registered for it now.     *)
(***************************************************************************)

\* The record registered for a descriptor is allocated and belongs to it.
OwnInv ==
  running => \A fd \in Conns :
    reg[fd] # Null => reg[fd] \in heap /\ fdof[reg[fd]] = fd

\* With select every allocated record is registered for its descriptor.
ListedInv ==
  running /\ Cygwin => \A a \in heap : fdof[a] \in Conns /\ reg[fdof[a]] = a

\* With epoll the pointers of the events still to be dispatched are current;
\* after the shutdown none is dispatched.
BatchInv ==
  /\ ~running => batch = {}
  /\ ~Cygwin => \A fd \in batch \ Loop : snap[fd] = reg[fd] /\ reg[fd] # Null

IInv ==
  /\ PoolInv /\ FreedOnce
  /\ reg \in [Conns -> Addrs \cup {Null}]
  /\ OwnInv /\ ListedInv /\ BatchInv

USE BuildAssumption, PoolAssumption

-----------------------------------------------------------------------------
(* The lowest element of a set, as the kernel and the pool choose it.      *)

\* A set of descriptors or places that is not empty has a lowest one.
LEMMA LowestExists ==
  ASSUME NEW T, T \subseteq Nat, T # {}
  PROVE  Min(T) \in T
<1>1. IsWellFoundedOn({ss \in Nat \X Nat : ss[1] < ss[2]}, Nat)
  BY NatLessThanWellFounded DEF OpToRel
<1>2. PICK x \in T : \A y \in T : ~ (<<y, x>> \in {ss \in Nat \X Nat : ss[1] < ss[2]})
  BY <1>1, WFMin, Zenon
<1>3. ASSUME NEW y \in T PROVE x =< y
  <2>1. x \in Nat /\ y \in Nat /\ <<y, x>> \in Nat \X Nat
    OBVIOUS
  <2>2. ~ (<<y, x>> \in {ss \in Nat \X Nat : ss[1] < ss[2]})
    BY <1>2
  <2>3. ~ (y < x)
    BY <2>1, <2>2
  <2> QED BY <2>1, <2>3
<1> QED BY <1>3, Zenon DEF Min

\* A record that is in one place is found there.
LEMMA LonePlace ==
  ASSUME NEW i \in Nat
  PROVE  Min({i}) = i
<1>1. Min({i}) \in {i}
  BY LowestExists, {i} \subseteq Nat, {i} # {}
<1> QED BY <1>1

-----------------------------------------------------------------------------
\* The callback gets what is registered for the descriptor, if anything.
LEMMA PointerIsRegistered ==
  ASSUME IInv, NEW fd \in batch \ Loop
  PROVE  Pointer(fd) = reg[fd]
  BY DEF IInv, BatchInv, Pointer

\* Live callbacks follow from the inductive invariant.
LEMMA IInvImplies == IInv => PoolInv /\ LiveCallback /\ FreedOnce
<1> SUFFICES ASSUME IInv PROVE LiveCallback
  BY DEF IInv
<1> SUFFICES ASSUME running, NEW fd \in batch \ Loop, Pointer(fd) # Null
             PROVE  Pointer(fd) \in heap /\ fdof[Pointer(fd)] = fd
  BY DEF LiveCallback
<1>1. fd \in Conns
  BY DEF IInv, PoolInv, PoolTypeOK, Conns, Loop
<1> QED BY <1>1, PointerIsRegistered DEF IInv, OwnInv

-----------------------------------------------------------------------------
(* Accepting a connection.                                                 *)

\* What every new record does: its address was not allocated, its descriptor
\* not open, and the pool gets a new last place.
LEMMA NewRecordFacts ==
  ASSUME IInv, NEW a \in Addrs \ heap, NEW fd \in Conns \ open, NewRecord(a, fd)
  PROVE  /\ reg[fd] = Null
         /\ fdof' \in [Addrs -> Conns \cup {Null}] /\ fdof'[a] = fd
         /\ \A b \in Addrs \ {a} : fdof'[b] = fdof[b]
         /\ pool' \in Seq(Addrs \cup {Null}) /\ pool' = Append(pool, a)
         /\ \A i \in DOMAIN pool : i \in DOMAIN pool' /\ pool'[i] = pool[i]
         /\ Len(pool) + 1 \in DOMAIN pool' /\ pool'[Len(pool) + 1] = a
         /\ \A i \in DOMAIN pool' : i \in DOMAIN pool \/ i = Len(pool) + 1
<1>1. pool \in Seq(Addrs \cup {Null}) /\ a \in Addrs \cup {Null}
  BY DEF IInv, PoolInv, PoolTypeOK
<1>2. pool' = Append(pool, a) /\ fdof' = [fdof EXCEPT ![a] = fd]
  BY DEF NewRecord
<1>3. reg[fd] = Null
  BY DEF IInv, PoolInv, PoolTypeOK
<1> QED BY <1>1, <1>2, <1>3 DEF IInv, PoolInv, PoolTypeOK

\* handle_accept with a record, whether the plugin takes it or not.
LEMMA AcceptKeeps ==
  ASSUME IInv, Accept
  PROVE  IInv'
<1> DEFINE fd == Min(Conns \ open)
<1>1. 0 \in batch /\ Conns \ open # {}
  BY DEF Accept, NextFd
<1>2. running
  BY <1>1 DEF IInv, BatchInv
<1>3. fd \in Conns \ open
  BY <1>1, LowestExists, Conns \ open \subseteq Nat DEF Conns
<1>4. PICK a \in Addrs \ heap :
        /\ NewRecord(a, fd)
        /\ \/ /\ heap' = heap \cup {a} /\ open' = open \cup {fd}
              /\ \/ reg' = [reg EXCEPT ![fd] = a]
                 \/ ~Cygwin /\ UNCHANGED reg
              /\ UNCHANGED failed
           \/ failed' = TRUE /\ UNCHANGED <<heap, open, reg>>
  BY DEF Accept
<1>5. batch' = batch \ {0} /\ UNCHANGED <<Cygwin, snap, running>>
  BY DEF Accept
<1> HIDE DEF fd
<1>6. /\ reg[fd] = Null
      /\ fdof' \in [Addrs -> Conns \cup {Null}] /\ fdof'[a] = fd
      /\ \A b \in Addrs \ {a} : fdof'[b] = fdof[b]
      /\ pool' \in Seq(Addrs \cup {Null})
      /\ \A i \in DOMAIN pool : i \in DOMAIN pool' /\ pool'[i] = pool[i]
      /\ Len(pool) + 1 \in DOMAIN pool' /\ pool'[Len(pool) + 1] = a
      /\ \A i \in DOMAIN pool' : i \in DOMAIN pool \/ i = Len(pool) + 1
  BY <1>3, <1>4, NewRecordFacts
<1>7. reg' \in [Conns -> Addrs \cup {Null}] /\ heap \subseteq Addrs
  BY <1>3, <1>4 DEF IInv, PoolInv, PoolTypeOK
<1>8. \A g \in Conns \ {fd} : reg'[g] = reg[g]
  BY <1>3, <1>4 DEF IInv
<1>9. failed' \in BOOLEAN /\ running' \in BOOLEAN /\ Cygwin' \in Builds
  BY <1>4, <1>5, Zenon DEF IInv, PoolInv, PoolTypeOK
<1>10. \/ heap' = heap /\ open' = open /\ reg' = reg /\ failed'
       \/ /\ heap' = heap \cup {a} /\ open' = open \cup {fd} /\ failed' = failed
          /\ reg'[fd] = a \/ (~Cygwin /\ reg' = reg)
  BY <1>3, <1>4 DEF IInv
<1>11. PoolTypeOK'
  <2>1. heap' \subseteq Addrs /\ open' \subseteq Conns /\ batch' \subseteq 0..MaxFd
    BY <1>3, <1>5, <1>10 DEF IInv, PoolInv, PoolTypeOK
  <2>2. \A g \in Conns : reg'[g] # Null => g \in open'
    BY <1>3, <1>8, <1>10, <1>6 DEF IInv, PoolInv, PoolTypeOK
  <2> QED BY <1>6, <1>7, <1>9, <2>1, <2>2 DEF PoolTypeOK
<1>12. FoundInPool'
  <2>1. ASSUME NEW g \in Conns, reg'[g] # Null
        PROVE  \E i \in DOMAIN pool' : pool'[i] = reg'[g]
    <3>1. CASE reg'[g] = reg[g]
      BY <1>6, <2>1, <3>1 DEF IInv, PoolInv, FoundInPool
    <3>2. CASE reg'[g] # reg[g]
      <4>1. reg'[g] = a
        BY <1>8, <1>10, <3>2
      <4> QED BY <1>6, <4>1
    <3> QED BY <3>1, <3>2
  <2> QED BY <2>1 DEF FoundInPool
<1>13. OwnInv'
  <2>1. ASSUME NEW g \in Conns, reg'[g] # Null
        PROVE  reg'[g] \in heap' /\ fdof'[reg'[g]] = g
    <3>1. CASE reg'[g] = reg[g]
      <4>1. reg[g] \in heap /\ fdof[reg[g]] = g /\ reg[g] \in Addrs \ {a}
        BY <1>2, <1>4, <1>7, <2>1, <3>1 DEF IInv, OwnInv
      <4> QED BY <1>6, <1>10, <3>1, <4>1
    <3>2. CASE reg'[g] # reg[g]
      <4>1. g = fd /\ reg'[g] = a /\ heap' = heap \cup {a}
        BY <1>8, <1>10, <3>2
      <4> QED BY <1>6, <4>1
    <3> QED BY <3>1, <3>2
  <2> QED BY <2>1 DEF OwnInv
<1>14. \A b \in heap : b # a /\ b \in Addrs /\ fdof'[b] = fdof[b]
  BY <1>4, <1>6, <1>7
<1>15. ASSUME Cygwin
       PROVE  \A b \in heap' : /\ fdof'[b] \in open' /\ fdof'[b] \in Conns
                               /\ reg'[fdof'[b]] = b
  <2>1. \A b \in heap : fdof[b] \in open /\ fdof[b] \in Conns /\ reg[fdof[b]] = b
    BY <1>2, <1>15 DEF IInv, PoolInv, ClosedIsFreed, ListedInv
  <2> TAKE b \in heap'
  <2>2. CASE b \in heap
    <3>1. fdof'[b] # fd
      BY <1>3, <1>14, <2>1, <2>2
    <3> QED BY <1>8, <1>10, <1>14, <2>1, <2>2, <3>1
  <2>3. CASE b \notin heap
    BY <1>3, <1>6, <1>10, <1>15, <2>3
  <2> QED BY <2>2, <2>3
<1>16. ClosedIsFreed' /\ ListedInv'
  BY <1>5, <1>15 DEF ClosedIsFreed, ListedInv
<1>17. BatchInv'
  <2>1. ~running' => batch' = {}
    BY <1>2, <1>5
  <2>2. ASSUME ~Cygwin', NEW g \in batch' \ Loop
        PROVE  snap'[g] = reg'[g] /\ reg'[g] # Null
    <3>1. snap[g] = reg[g] /\ reg[g] # Null /\ g \in Conns
      BY <1>5, <2>2 DEF IInv, BatchInv, PoolInv, PoolTypeOK, Conns, Loop
    <3>2. reg'[g] = reg[g]
      BY <1>6, <1>8, <3>1
    <3> QED BY <1>5, <3>1, <3>2
  <2> QED BY <2>1, <2>2 DEF BatchInv
<1>18. FreedOnce'
  <2>1. SUFFICES ASSUME ~failed', NEW i \in DOMAIN pool', NEW j \in DOMAIN pool', pool'[i] # Null
                 PROVE  pool'[i] \in heap' /\ (i # j => pool'[i] # pool'[j])
    BY DEF FreedOnce
  <2>2. ~failed /\ heap' = heap \cup {a}
    BY <1>10, <2>1
  <2>3. \A k \in DOMAIN pool : pool[k] # Null => pool[k] \in heap
    BY <1>2, <2>2 DEF IInv, FreedOnce
  <2>4. \A k, m \in DOMAIN pool : pool[k] # Null /\ k # m => pool[k] # pool[m]
    BY <1>2, <2>2 DEF IInv, FreedOnce
  <2>5. \A k \in DOMAIN pool : pool[k] # a
    BY <1>4, <2>3
  <2> QED BY <1>6, <2>1, <2>2, <2>3, <2>4, <2>5
<1> QED BY <1>7, <1>11, <1>12, <1>13, <1>16, <1>17, <1>18 DEF IInv, PoolInv

-----------------------------------------------------------------------------
(* Freeing records.                                                        *)

\* free_fd_data of records that are registered keeps everything but the part
\* about the batch.
LEMMA FreeRecordsKeeps ==
  ASSUME IInv, running, NEW S, Null \notin S,
         \A a \in S : \E fd \in Conns : reg[fd] = a,
         FreeRecords(S), UNCHANGED <<Cygwin, failed, fdof, running>>,
         batch' \subseteq batch
  PROVE  /\ PoolInv' /\ FreedOnce' /\ OwnInv' /\ ListedInv'
         /\ reg' \in [Conns -> Addrs \cup {Null}]
<1>1. reg' = [fd \in Conns |-> IF reg[fd] \in S THEN Null ELSE reg[fd]]
  BY DEF FreeRecords
<1>2. reg' \in [Conns -> Addrs \cup {Null}]
  BY <1>1 DEF IInv
<1>3. \A fd \in Conns : reg'[fd] # Null => reg'[fd] = reg[fd] /\ reg[fd] \notin S
  BY <1>1
<1>4. \A fd \in Conns : reg[fd] \notin S => reg'[fd] = reg[fd]
  BY <1>1
<1>5. open' = open \ {fdof[a] : a \in S}
  BY DEF FreeRecords
<1>6. \A a \in S : reg[fdof[a]] = a /\ fdof[a] \in Conns
  BY DEF IInv, OwnInv
<1>7. \A fd \in Conns : reg[fd] \notin S /\ fd \in open => fd \in open'
  BY <1>5, <1>6
<1>8. heap' \subseteq heap /\ \A a \in heap : a \notin S => a \in heap'
  BY DEF FreeRecords
<1>9. Cygwin => heap' = heap \ S
  BY DEF FreeRecords
<1>10. /\ pool \in Seq(Addrs \cup {Null}) /\ DOMAIN pool' = DOMAIN pool
       /\ pool' \in Seq(Addrs \cup {Null})
       /\ \A i \in DOMAIN pool : pool'[i] = pool[i] \/ pool'[i] = Null
       /\ \A i \in DOMAIN pool : pool[i] \notin S => pool'[i] = pool[i]
  <2>1. pool \in Seq(Addrs \cup {Null})
    BY DEF IInv, PoolInv, PoolTypeOK
  <2>2. CASE Cygwin
    <3>1. pool' = [i \in DOMAIN pool |->
                     IF pool[i] \in S /\ i = FirstIndex(pool[i]) THEN Null ELSE pool[i]]
      BY <2>2 DEF FreeRecords
    <3>2. DOMAIN pool = 1..Len(pool) /\ Len(pool) \in Nat
      BY <2>1
    <3>3. \A i \in DOMAIN pool : pool'[i] = pool[i] \/ pool'[i] = Null
      BY <3>1
    <3>4. pool' \in [1..Len(pool) -> Addrs \cup {Null}]
      BY <2>1, <3>1, <3>2
    <3>5. pool' \in Seq(Addrs \cup {Null})
      BY <3>2, <3>4
    <3> QED BY <2>1, <3>1, <3>3, <3>5
  <2>3. CASE ~Cygwin
    BY <2>1, <2>3 DEF FreeRecords
  <2> QED BY <2>2, <2>3
<1>11. PoolTypeOK'
  <2>1. heap' \subseteq Addrs /\ open' \subseteq Conns /\ batch' \subseteq 0..MaxFd
    BY <1>5, <1>8 DEF IInv, PoolInv, PoolTypeOK
  <2>2. \A fd \in Conns : reg'[fd] # Null => fd \in open'
    BY <1>3, <1>7 DEF IInv, PoolInv, PoolTypeOK
  <2>3. failed' \in BOOLEAN /\ running' \in BOOLEAN /\ Cygwin' \in Builds
    BY Zenon DEF IInv, PoolInv, PoolTypeOK
  <2>4. fdof' \in [Addrs -> Conns \cup {Null}]
    BY DEF IInv, PoolInv, PoolTypeOK
  <2> QED BY <1>2, <1>10, <2>1, <2>2, <2>3, <2>4 DEF PoolTypeOK
<1>12. FoundInPool'
  BY <1>3, <1>10 DEF FoundInPool, IInv, PoolInv
<1>13. OwnInv'
  BY <1>3, <1>8 DEF OwnInv, IInv
<1>14. ASSUME Cygwin, NEW a \in heap'
       PROVE  fdof[a] \in open' /\ fdof[a] \in Conns /\ reg'[fdof[a]] = a
  <2>1. a \in heap /\ a \notin S
    BY <1>9, <1>14
  <2>2. fdof[a] \in Conns /\ reg[fdof[a]] = a /\ fdof[a] \in open
    BY <1>14, <2>1 DEF IInv, ListedInv, PoolInv, ClosedIsFreed
  <2> QED BY <1>4, <1>7, <2>1, <2>2
<1>15. ClosedIsFreed' /\ ListedInv'
  BY <1>14 DEF ClosedIsFreed, ListedInv
<1>16. FreedOnce'
  <2>1. SUFFICES ASSUME ~failed, NEW i \in DOMAIN pool, NEW j \in DOMAIN pool, pool'[i] # Null
                 PROVE  pool'[i] \in heap' /\ (i # j => pool'[i] # pool'[j])
    BY <1>10 DEF FreedOnce
  <2>2. pool'[i] = pool[i] /\ pool[i] # Null
    BY <1>10, <2>1
  <2>3. pool[i] \in heap /\ \A k \in DOMAIN pool : i # k => pool[i] # pool[k]
    BY <2>1, <2>2 DEF IInv, FreedOnce
  <2>4. i # j => pool'[i] # pool'[j]
    BY <1>10, <2>1, <2>2, <2>3
  <2>5. CASE ~Cygwin
    BY <2>2, <2>3, <2>4, <2>5 DEF FreeRecords
  <2>6. CASE Cygwin
    <3>1. {k \in DOMAIN pool : pool[k] = pool[i]} = {i}
      BY <2>3
    <3>2. i \in Nat
      BY <1>10
    <3>3. FirstIndex(pool[i]) = i
      BY <3>1, <3>2, LonePlace DEF FirstIndex
    <3>4. pool[i] \notin S
      BY <2>1, <2>6, <3>3 DEF FreeRecords
    <3> QED BY <1>8, <2>2, <2>3, <2>4, <3>4
  <2> QED BY <2>5, <2>6
<1> QED BY <1>2, <1>11, <1>12, <1>13, <1>15, <1>16 DEF PoolInv

\* flush_inactive_connections frees registered records, with select only.
LEMMA ClockEventKeeps ==
  ASSUME IInv, ClockEvent
  PROVE  IInv'
<1>1. 1 \in batch /\ running
  BY DEF ClockEvent, NextFd, IInv, BatchInv
<1>2. PICK S \in SUBSET {reg[fd] : fd \in Conns} :
        Null \notin S /\ (~Cygwin => S = {}) /\ FreeRecords(S)
  BY DEF ClockEvent
<1>3. batch' = batch \ {1} /\ UNCHANGED <<Cygwin, failed, fdof, snap, running>>
  BY DEF ClockEvent
<1>4. /\ PoolInv' /\ FreedOnce' /\ OwnInv' /\ ListedInv'
      /\ reg' \in [Conns -> Addrs \cup {Null}]
  BY <1>1, <1>2, <1>3, FreeRecordsKeeps
<1>5. ~Cygwin => \A fd \in Conns : reg'[fd] = reg[fd]
  BY <1>2 DEF FreeRecords
<1>6. batch \ Loop \subseteq Conns
  BY DEF IInv, PoolInv, PoolTypeOK, Conns, Loop
<1>7. BatchInv'
  BY <1>1, <1>3, <1>5, <1>6 DEF BatchInv, IInv
<1> QED BY <1>4, <1>7 DEF IInv

\* handle_input frees the record it was given, if it frees one.
LEMMA InputKeeps ==
  ASSUME IInv, NEW fd \in Conns, Input(fd)
  PROVE  IInv'
<1>1. fd \in batch \ Loop /\ running
  BY DEF Input, NextFd, IInv, BatchInv, Conns, Loop
<1>2. batch' = batch \ {fd} /\ UNCHANGED <<Cygwin, failed, fdof, snap, running>>
  BY DEF Input
<1>3. batch \ Loop \subseteq Conns
  BY DEF IInv, PoolInv, PoolTypeOK, Conns, Loop
<1>4. CASE UNCHANGED <<heap, pool, open, reg>>
  <2>1. PoolTypeOK'
    BY <1>2, <1>4 DEF IInv, PoolInv, PoolTypeOK
  <2> QED BY <1>1, <1>2, <1>4, <2>1
          DEF IInv, PoolInv, FoundInPool, ClosedIsFreed, FreedOnce, OwnInv,
              ListedInv, BatchInv
<1>5. CASE Pointer(fd) # Null /\ FreeRecords({Pointer(fd)})
  <2>1. Pointer(fd) = reg[fd]
    BY <1>1, PointerIsRegistered
  <2>2. /\ PoolInv' /\ FreedOnce' /\ OwnInv' /\ ListedInv'
        /\ reg' \in [Conns -> Addrs \cup {Null}]
    BY <1>1, <1>2, <1>5, <2>1, FreeRecordsKeeps
  <2>3. \A g \in Conns : reg[g] # Null /\ g # fd => reg[g] # reg[fd]
    BY <1>1 DEF IInv, OwnInv
  <2>4. \A g \in Conns : reg[g] # Null /\ g # fd => reg'[g] = reg[g]
    BY <1>5, <2>1, <2>3 DEF FreeRecords
  <2>5. BatchInv'
    BY <1>1, <1>2, <1>3, <2>4 DEF BatchInv, IInv
  <2> QED BY <2>2, <2>5 DEF IInv
<1> QED BY <1>4, <1>5 DEF Input

\* Waiting for events, a connection refused, and the shutdown.
LEMMA LoopKeeps ==
  ASSUME IInv, Wait \/ AcceptRefused \/ ReleaseFdpool
  PROVE  IInv'
<1> USE DEF PoolInv, FoundInPool, ClosedIsFreed, FreedOnce, OwnInv, ListedInv
<1>1. CASE Wait
  <2>1. batch' \subseteq Loop \cup {fd \in Conns : reg[fd] # Null}
    BY <1>1 DEF Wait
  <2>2. PoolTypeOK'
    BY <1>1, <2>1 DEF Wait, IInv, PoolTypeOK, Conns, Loop
  <2>3. BatchInv'
    BY <1>1, <2>1 DEF Wait, BatchInv
  <2> QED BY <1>1, <2>2, <2>3 DEF Wait, IInv
<1>2. CASE AcceptRefused
  <2>1. PoolTypeOK' /\ BatchInv'
    BY <1>2 DEF AcceptRefused, NextFd, IInv, PoolTypeOK, BatchInv
  <2> QED BY <1>2, <2>1 DEF AcceptRefused, IInv
<1>3. CASE ReleaseFdpool
  <2>1. running' = FALSE
    BY <1>3 DEF ReleaseFdpool
  <2>2. PoolTypeOK' /\ BatchInv'
    BY <1>3, <2>1 DEF ReleaseFdpool, IInv, PoolTypeOK, BatchInv
  <2> QED BY <1>3, <2>1, <2>2 DEF ReleaseFdpool, IInv
<1> QED BY <1>1, <1>2, <1>3

-----------------------------------------------------------------------------
\* The table starts empty.
LEMMA InitIInv == PoolInit => IInv
<1> SUFFICES ASSUME PoolInit PROVE IInv
  OBVIOUS
<1>1. PoolTypeOK
  <2>1. running \in BOOLEAN /\ failed \in BOOLEAN /\ Cygwin \in Builds
    BY Zenon DEF PoolInit
  <2> QED BY <2>1 DEF PoolInit, PoolTypeOK
<1> QED BY <1>1 DEF PoolInit, IInv, PoolInv, FoundInPool, ClosedIsFreed, FreedOnce, OwnInv,
                   ListedInv, BatchInv

\* Every step keeps the invariant.
LEMMA NextIInv == IInv /\ [PoolNext]_poolVars => IInv'
<1> SUFFICES ASSUME IInv, [PoolNext]_poolVars PROVE IInv'
  OBVIOUS
<1>1. CASE UNCHANGED poolVars
  BY <1>1 DEF poolVars, IInv, PoolInv, PoolTypeOK, FoundInPool, ClosedIsFreed, FreedOnce,
              OwnInv, ListedInv, BatchInv
<1>2. CASE PoolNext
  BY <1>1, <1>2, LoopKeeps, AcceptKeeps, ClockEventKeeps, InputKeeps DEF PoolNext, Exited
<1> QED BY <1>1, <1>2

\* remove_from_fdpool finds every registered record, descriptors are
\* registered only while open, and select leaves no closed record allocated.
THEOREM PoolIsSound == PoolSpec => []PoolInv
  BY InitIInv, NextIInv, IInvImplies, PTL DEF PoolSpec

\* The comment's question in do_epoll, answered for both builds: a callback
\* never gets a record that was freed or given to another descriptor.
THEOREM CallbacksAreLive == PoolSpec => []LiveCallback
  BY InitIInv, NextIInv, IInvImplies, PTL DEF PoolSpec

\* release_fdpool frees every record once, unless libname_init failed.
THEOREM RecordsFreedOnce == PoolSpec => []FreedOnce
  BY InitIInv, NextIInv, IInvImplies, PTL DEF PoolSpec

-----------------------------------------------------------------------------
(***************************************************************************)
(* GarnerLoop.  For any set of consumers, any intervals, any size of the   *)
(* pipe and of the buffer it is read into, and any number of signals: no   *)
(* tick of the clock thread is lost or counted twice by handle_clockevent. *)
(*                                                                         *)
(* LoopInv is inductive once the functions have their domains (Shape): a   *)
(* tick moves from the pipe to the counts of all the consumers, and what a *)
(* count drops is a multiple of its SkipCount.  The proof is arithmetic    *)
(* modulo SkipCount, collected in five lemmas.                             *)
(***************************************************************************)

\* What a handler that interrupted a thread remembers, if there is one.
Handlers == {<< >>} \cup (Signals \X SUBSET Signals)

\* The functions have their domains.
Shape ==
  /\ hand \in [Threads -> Handlers]
  /\ count \in [Consumers -> Nat]
  /\ phase \in [Consumers -> Nat]

LoopIInv == Shape /\ LoopInv

USE LoopAssumption

-----------------------------------------------------------------------------
(* Arithmetic.                                                             *)

\* A remainder is below the modulus and differs by a multiple of it.
LEMMA Division ==
  ASSUME NEW k \in Nat \ {0}, NEW x \in Nat
  PROVE  \E q \in Nat, r \in 0..(k - 1) : x % k = r /\ x = (k * q) + r
<1>1. /\ x % k \in 0..(k - 1) /\ x \div k \in Nat
      /\ x = (k * (x \div k)) + (x % k)
  OBVIOUS
<1> QED BY <1>1, Zenon

\* It is the only such number.
LEMMA RemainderUnique ==
  ASSUME NEW k \in Nat \ {0}, NEW q \in Nat, NEW r \in 0..(k - 1)
  PROVE  ((k * q) + r) % k = r
  OBVIOUS

\* A remainder may be taken early: the counts of handle_clockevent.
LEMMA EarlyRemainder ==
  ASSUME NEW k \in Nat \ {0}, NEW a \in Nat, NEW b \in Nat
  PROVE  /\ b % k \in 0..(k - 1)
         /\ (a + (b % k)) % k = (a + b) % k
<1>1. PICK q \in Nat, r \in 0..(k - 1) : b % k = r /\ b = (k * q) + r
  BY Division, Zenon
<1>2. a + r \in Nat /\ a + b \in Nat
  OBVIOUS
<1>3. PICK p \in Nat, s \in 0..(k - 1) : (a + r) % k = s /\ a + r = (k * p) + s
  BY <1>2, Division, Zenon
<1>4. PICK m \in Nat : m = q + p
  OBVIOUS
<1>5. k * q \in Nat /\ k * p \in Nat /\ k * m \in Nat /\ (k * q) + (k * p) = k * m
  BY <1>4
<1>6. a + b = (k * m) + s
  <2> DEFINE kq == k * q
             kp == k * p
             km == k * m
  <2>1. kq \in Nat /\ kp \in Nat /\ km \in Nat /\ kq + kp = km
    BY <1>5
  <2>2. b = kq + r /\ a + r = kp + s
    BY <1>1, <1>3
  <2> HIDE DEF kq, kp, km
  <2>3. a + b = km + s
    BY <2>1, <2>2
  <2> QED BY <2>3 DEF km
<1>7. ((k * m) + s) % k = s
  BY RemainderUnique, Zenon
<1>8. (a + b) % k = s
  BY <1>6, <1>7, Zenon
<1> QED BY <1>1, <1>3, <1>8, Zenon

\* One more tick moves the phase by one.
LEMMA NextRemainder ==
  ASSUME NEW k \in Nat \ {0}, NEW a \in Nat
  PROVE  (a + 1) % k = ((a % k) + 1) % k
<1>1. a % k \in 0..(k - 1) /\ (1 + (a % k)) % k = (1 + a) % k
  BY EarlyRemainder, 1 \in Nat, Zenon
<1>2. a % k \in Nat
  BY <1>1
<1>3. 1 + (a % k) = (a % k) + 1 /\ 1 + a = a + 1
  BY <1>2
<1> QED BY <1>1, <1>3, Zenon

\* An interval of at least one period has a positive skip count.
LEMMA SkipCountPositive ==
  \A e \in Consumers : SkipCount(e) \in Nat \ {0}
<1>1. ASSUME NEW k \in Nat \ {0}, NEW a \in Nat, a >= k
      PROVE  a \div k \in Nat \ {0}
  BY <1>1
<1>2. TAKE e \in Consumers
<1>3. Interval[e] \in Nat /\ Interval[e] >= Period /\ Period \in Nat \ {0}
  OBVIOUS
<1> QED BY <1>1, <1>3 DEF SkipCount

-----------------------------------------------------------------------------
(* The actions, grouped by the part of the invariant they disturb.         *)

\* A step that leaves the ticks alone keeps every count and the equation.
LEMMA TicksUntouched ==
  ASSUME LoopIInv, UNCHANGED <<pipe, count, phase>>, mpc = "stopped" => mpc' = "stopped"
  PROVE  /\ count' \in [Consumers -> Nat] /\ phase' \in [Consumers -> Nat]
         /\ pipe' \in 0..PipeCap
         /\ \A e \in Consumers : count'[e] \in 0..(SkipCount(e) - 1)
         /\ TicksConserved'
  BY DEF LoopIInv, LoopInv, Shape, LoopTypeOK, TicksConserved

\* Signals: the handler stores bits of signals only.
LEMMA SignalsKeep ==
  ASSUME LoopIInv, NEW th \in Threads,
         Handled(th) \/ \E s \in Signals : Deliver(th, s)
  PROVE  LoopIInv'
<1>1. UNCHANGED <<pipe, count, phase, ready, cpc>>
  BY DEF Handled, Deliver, clkVars, conVars
<1>2. mpc' \in Labels /\ (mpc = "stopped" => mpc' = "stopped")
  BY DEF Handled, Deliver, LoopIInv, LoopInv, LoopTypeOK, Labels
<1>3. hand' \in [Threads -> Handlers] /\ flags' \subseteq Signals
  <2>1. CASE Handled(th)
    <3>1. hand[th] \in Signals \X SUBSET Signals
      BY <2>1 DEF Handled, LoopIInv, Shape, Handlers
    <3> QED BY <2>1, <3>1 DEF Handled, LoopIInv, Shape, LoopInv, LoopTypeOK, Handlers
  <2>2. ASSUME NEW s \in Signals, Deliver(th, s)
        PROVE  hand' \in [Threads -> Handlers] /\ flags' \subseteq Signals
    <3>1. <<s, flags>> \in Handlers
      BY DEF LoopIInv, LoopInv, LoopTypeOK, Handlers
    <3> QED BY <2>2, <3>1 DEF Deliver, LoopIInv, Shape, LoopInv, LoopTypeOK
  <2> QED BY <2>1, <2>2
<1>4. LoopTypeOK'
  BY <1>1, <1>2, <1>3, TicksUntouched DEF LoopTypeOK, LoopIInv, LoopInv, Handlers
<1> QED BY <1>1, <1>2, <1>3, <1>4, TicksUntouched DEF LoopIInv, LoopInv, Shape

\* The steps of the main thread outside handle_clockevent, until it closes
\* the pipe; the clock thread sleeping and being cancelled.
LEMMA QuietStepsKeep ==
  ASSUME LoopIInv,
         \/ CheckSig \/ CheckQuit \/ CheckToggle \/ ClearSig \/ EpollWait
         \/ HandleNet \/ CancelClock \/ ClockSleep \/ ClockCancelled
  PROVE  LoopIInv'
<1> USE DEF MainAt, ClockAt, sigVars, clkVars, conVars
<1>1. UNCHANGED <<pipe, count, phase, hand>>
  BY DEF CheckSig, CheckQuit, CheckToggle, ClearSig, EpollWait, HandleNet,
         CancelClock, ClockSleep, ClockCancelled
<1>2. mpc' \in Labels /\ (mpc = "stopped" => mpc' = "stopped")
  BY DEF CheckSig, CheckQuit, CheckToggle, ClearSig, EpollWait, HandleNet,
         CancelClock, ClockSleep, ClockCancelled, Labels, LoopIInv, LoopInv, LoopTypeOK
<1>3. cpc' \in {"sleep", "write", "gone"}
  BY DEF CheckSig, CheckQuit, CheckToggle, ClearSig, EpollWait, HandleNet,
         CancelClock, ClockSleep, ClockCancelled, LoopIInv, LoopInv, LoopTypeOK
<1>4. flags' \subseteq Signals
  BY DEF CheckSig, CheckQuit, CheckToggle, ClearSig, EpollWait, HandleNet,
         CancelClock, ClockSleep, ClockCancelled, LoopIInv, LoopInv, LoopTypeOK
<1>5. ready' \subseteq {"net", "clock"}
  <2>1. CASE EpollWait
    BY <2>1 DEF EpollWait
  <2> QED BY <2>1 DEF CheckSig, CheckQuit, CheckToggle, ClearSig, HandleNet,
                  CancelClock, ClockSleep, ClockCancelled, LoopIInv, LoopInv, LoopTypeOK
<1>6. LoopTypeOK'
  BY <1>1, <1>2, <1>3, <1>4, <1>5, TicksUntouched DEF LoopTypeOK, LoopIInv, LoopInv
<1> QED BY <1>1, <1>2, <1>6, TicksUntouched DEF LoopIInv, LoopInv, Shape

\* handle_clockevent moves the bytes it reads from the pipe into the counts.
LEMMA HandleClockKeeps ==
  ASSUME LoopIInv, HandleClock
  PROVE  LoopIInv'
<1> DEFINE n == IF pipe < BufLen THEN pipe ELSE BufLen
<1>1. pipe \in 0..PipeCap /\ n \in Nat /\ n <= pipe
  BY DEF LoopIInv, LoopInv, LoopTypeOK
<1>2. pipe' = pipe - n /\ UNCHANGED <<phase, hand, flags, cpc>>
  BY DEF HandleClock, sigVars, clkVars
<1>3. count' = [e \in Consumers |-> (count[e] + n) % SkipCount(e)]
  BY DEF HandleClock, CountTicks
<1>4. mpc # "stopped" /\ mpc' \in Labels /\ ready' \subseteq {"net", "clock"}
  BY DEF HandleClock, MainAt, Labels, LoopIInv, LoopInv, LoopTypeOK
<1> HIDE DEF n
<1>5. ASSUME NEW e \in Consumers
      PROVE  /\ count'[e] \in 0..(SkipCount(e) - 1) /\ count'[e] \in Nat
             /\ (pipe' + count'[e]) % SkipCount(e) = phase'[e]
  <2>1. SkipCount(e) \in Nat \ {0} /\ count[e] \in Nat
    BY SkipCountPositive DEF LoopIInv, Shape
  <2>2. pipe - n \in Nat /\ count[e] + n \in Nat
    BY <1>1, <2>1
  <2>3. (pipe - n) + (count[e] + n) = pipe + count[e]
    BY <1>1, <2>1
  <2>4. (pipe + count[e]) % SkipCount(e) = phase[e]
    BY <1>4 DEF LoopIInv, LoopInv, TicksConserved
  <2>5. count'[e] = (count[e] + n) % SkipCount(e)
    BY <1>3
  <2>6. /\ (count[e] + n) % SkipCount(e) \in 0..(SkipCount(e) - 1)
        /\ ((pipe - n) + ((count[e] + n) % SkipCount(e))) % SkipCount(e)
             = ((pipe - n) + (count[e] + n)) % SkipCount(e)
    BY <2>1, <2>2, EarlyRemainder
  <2> QED BY <1>2, <2>1, <2>3, <2>4, <2>5, <2>6
<1>6. count' \in [Consumers -> Nat]
  BY <1>3, <1>5
<1>7. Shape'
  BY <1>2, <1>6 DEF LoopIInv, Shape
<1>8. pipe' \in 0..PipeCap
  BY <1>1, <1>2
<1>9. LoopTypeOK'
  BY <1>2, <1>4, <1>5, <1>8 DEF LoopTypeOK, LoopIInv, LoopInv
<1>10. TicksConserved'
  BY <1>5 DEF TicksConserved
<1> QED BY <1>7, <1>9, <1>10 DEF LoopIInv, LoopInv

\* The clock thread puts one byte into the pipe.
LEMMA ClockWriteKeeps ==
  ASSUME LoopIInv, ClockWrite
  PROVE  LoopIInv'
<1>1. /\ pipe \in 0..PipeCap /\ pipe' = pipe + 1 /\ pipe' \in 0..PipeCap
      /\ phase' = [e \in Consumers |-> (phase[e] + 1) % SkipCount(e)]
      /\ cpc' = "sleep" /\ UNCHANGED <<mpc, ready, flags, hand, count>>
  BY DEF ClockWrite, LoopIInv, LoopInv, LoopTypeOK, sigVars, conVars
<1>2. ASSUME NEW e \in Consumers
      PROVE  /\ phase'[e] \in Nat
             /\ mpc # "stopped" => (pipe' + count'[e]) % SkipCount(e) = phase'[e]
  <2>1. SkipCount(e) \in Nat \ {0} /\ count[e] \in Nat /\ phase[e] \in Nat
    BY SkipCountPositive DEF LoopIInv, Shape
  <2>2. phase'[e] = (phase[e] + 1) % SkipCount(e)
    BY <1>1
  <2>3. phase'[e] \in Nat
    BY <2>1, <2>2, EarlyRemainder
  <2>4. ASSUME mpc # "stopped" PROVE (pipe' + count'[e]) % SkipCount(e) = phase'[e]
    <3>1. (pipe + count[e]) % SkipCount(e) = phase[e]
      BY <2>4 DEF LoopIInv, LoopInv, TicksConserved
    <3>2. pipe + count[e] \in Nat /\ pipe' + count'[e] = (pipe + count[e]) + 1
      BY <1>1, <2>1
    <3>3. ((pipe + count[e]) + 1) % SkipCount(e)
             = (((pipe + count[e]) % SkipCount(e)) + 1) % SkipCount(e)
      BY <2>1, <3>2, NextRemainder
    <3> QED BY <2>2, <3>1, <3>2, <3>3
  <2> QED BY <2>3, <2>4
<1>3. phase' \in [Consumers -> Nat]
  BY <1>1, <1>2
<1>4. Shape' /\ LoopTypeOK'
  BY <1>1, <1>3 DEF Shape, LoopTypeOK, LoopIInv, LoopInv
<1>5. TicksConserved'
  BY <1>1, <1>2 DEF TicksConserved
<1> QED BY <1>4, <1>5 DEF LoopIInv, LoopInv

\* Closing the pipe drops what is left in it, and only then.
LEMMA ClosePipeKeeps ==
  ASSUME LoopIInv, ClosePipe
  PROVE  LoopIInv'
  BY DEF ClosePipe, MainAt, LoopIInv, LoopInv, Shape, LoopTypeOK, TicksConserved,
         sigVars, conVars, Labels

-----------------------------------------------------------------------------
\* The loop starts with an empty pipe and no tick counted.
LEMMA LoopInitIInv ==
  LoopInit => LoopIInv
<1> SUFFICES ASSUME LoopInit PROVE LoopIInv
  OBVIOUS
<1>1. ASSUME NEW e \in Consumers
      PROVE  SkipCount(e) \in Nat \ {0} /\ 0 % SkipCount(e) = 0
  <2>1. SkipCount(e) \in Nat \ {0}
    BY SkipCountPositive
  <2>2. ASSUME NEW k \in Nat \ {0} PROVE 0 % k = 0
    OBVIOUS
  <2> QED BY <2>1, <2>2
<1> QED BY <1>1 DEF LoopInit, LoopIInv, LoopInv, Shape, LoopTypeOK, TicksConserved,
                    Handlers, Labels

\* Every step keeps the invariant.
LEMMA LoopNextIInv ==
  LoopIInv /\ [LoopNext]_loopVars => LoopIInv'
<1> SUFFICES ASSUME LoopIInv, [LoopNext]_loopVars PROVE LoopIInv'
  OBVIOUS
<1>1. CASE UNCHANGED loopVars
  BY <1>1 DEF loopVars, sigVars, clkVars, conVars, LoopIInv, LoopInv, Shape, LoopTypeOK,
              TicksConserved
<1>2. CASE LoopExited
  BY <1>1, <1>2 DEF LoopExited
<1>3. CASE Main
  BY <1>3, QuietStepsKeep, HandleClockKeeps, ClosePipeKeeps DEF Main
<1>4. CASE Clock
  BY <1>4, QuietStepsKeep, ClockWriteKeeps DEF Clock
<1>5. CASE \E th \in Threads : Handled(th) \/ \E s \in Signals : Deliver(th, s)
  BY <1>5, SignalsKeep
<1> QED BY <1>1, <1>2, <1>3, <1>4, <1>5 DEF LoopNext

\* However threads, signal handlers and reads of the pipe interleave, every
\* tick the clock thread wrote is in the pipe or has been counted, once, for
\* every consumer, until the pipe is closed (handle_clockevent).
THEOREM TicksAreConserved ==
  LoopSpec => []LoopInv
<1>1. LoopIInv => LoopInv
  BY DEF LoopIInv
<1> QED BY <1>1, LoopInitIInv, LoopNextIInv, PTL DEF LoopSpec

-----------------------------------------------------------------------------
(***************************************************************************)
(* GarnerDaemon.  For any number of invocations of the command, of crashes *)
(* and of "garner -k", and for every limit of the watcher: the watcher     *)
(* never counts beyond its limit, and a garner that was started alone and  *)
(* serves is the one the pid file names, however often it crashed before.  *)
(*                                                                         *)
(* SoleServerIsNamed holds at one step of the child only and is not        *)
(* inductive.  NamedInv says when the file comes to exist and when the pid *)
(* comes into it; CountInv that a watcher that goes on is below its limit. *)
(***************************************************************************)

\* Nobody but l was ever started.
Sole(l) == \A k \in Launches \ {l} : w[k] = "off"

\* From create_file_safely on the file exists, and from pidfile_create on it
\* holds the pid of the child.
NamedInv ==
  \A l \in Launches : Sole(l) =>
    /\ c[l] = "write" => pidfile # NoFile
    /\ c[l] \in {"setup", "bind", "serve", "closing"} => pidfile = <<l, gen[l]>>

\* A watcher at its limit is gone.
CountInv == \A l \in Launches : failcount[l] < MaxFails \/ w[l] = "gone"

DaemonIInv ==
  /\ DaemonTypeOK
  /\ gen \in [Launches -> Nat]
  /\ CountInv
  /\ NamedInv

USE DaemonAssumption

-----------------------------------------------------------------------------
\* The named invariant is at least what the run checks.
LEMMA DaemonIInvImplies == DaemonIInv => DaemonInv
  BY DEF DaemonIInv, NamedInv, Sole, DaemonInv, SoleServerIsNamed, Names

\* A step of l that does not take l back to before its start has to keep the
\* pid file right for l alone: whoever else is started is not alone.
LEMMA OnlyItself ==
  ASSUME DaemonIInv, NEW l \in Launches, w'[l] # "off",
         \A k \in Launches \ {l} : w'[k] = w[k],
         Sole(l) =>
           /\ c'[l] = "write" => pidfile' # NoFile
           /\ c'[l] \in {"setup", "bind", "serve", "closing"} =>
                pidfile' = <<l, gen'[l]>>
  PROVE  NamedInv'
<1>1. SUFFICES ASSUME NEW m \in Launches, \A k \in Launches \ {m} : w'[k] = "off"
               PROVE  /\ c'[m] = "write" => pidfile' # NoFile
                      /\ c'[m] \in {"setup", "bind", "serve", "closing"} =>
                           pidfile' = <<m, gen'[m]>>
  BY DEF NamedInv, Sole
<1>2. m = l
  BY <1>1
<1>3. Sole(l)
  BY <1>1, <1>2 DEF Sole
<1> QED BY <1>2, <1>3

\* The command and the watcher.
LEMMA WatcherKeeps ==
  ASSUME DaemonIInv, NEW l \in Launches, Launch(l) \/ Watcher(l)
  PROVE  DaemonIInv'
<1> USE DEF chVars
<1>1. CASE Launch(l)
  <2>1. DaemonTypeOK' /\ gen' \in [Launches -> Nat] /\ CountInv'
    BY <1>1 DEF Launch, DaemonIInv, DaemonTypeOK, CountInv
  <2>2. NamedInv'
    BY <1>1, OnlyItself DEF Launch, DaemonIInv, DaemonTypeOK, NamedInv
  <2> QED BY <2>1, <2>2 DEF DaemonIInv
<1>2. CASE Check(l)
  <2>1. DaemonTypeOK' /\ gen' \in [Launches -> Nat] /\ CountInv'
    BY <1>2 DEF Check, DaemonIInv, DaemonTypeOK, CountInv
  <2>2. NamedInv'
    BY <1>2, OnlyItself DEF Check, DaemonIInv, DaemonTypeOK, NamedInv
  <2> QED BY <2>1, <2>2 DEF DaemonIInv
<1>3. CASE Fork(l)
  <2>1. DaemonTypeOK' /\ gen' \in [Launches -> Nat] /\ CountInv'
    BY <1>3 DEF Fork, DaemonIInv, DaemonTypeOK, CountInv, Alive
  <2>2. NamedInv'
    BY <1>3, OnlyItself DEF Fork, DaemonIInv, DaemonTypeOK, NamedInv
  <2> QED BY <2>1, <2>2 DEF DaemonIInv
<1>4. CASE Reap(l)
  <2>1. PICK quick \in BOOLEAN :
          failcount' = [failcount EXCEPT ![l] = IF quick THEN @ + 1 ELSE 0]
    BY <1>4 DEF Reap
  <2>2. failcount[l] \in Nat /\ failcount[l] < MaxFails
    BY <1>4 DEF Reap, DaemonIInv, DaemonTypeOK, CountInv
  <2>3. /\ failcount' \in [Launches -> 0..MaxFails]
        /\ \A k \in Launches \ {l} : failcount'[k] = failcount[k]
    BY <2>1, <2>2 DEF DaemonIInv, DaemonTypeOK
  <2>4. /\ w' = [w EXCEPT ![l] = IF EndsWatcher(l, failcount'[l]) THEN "gone" ELSE "sleep"]
        /\ c' = [c EXCEPT ![l] = "none"]
        /\ UNCHANGED <<Cygwin, gen, status, pidfile>>
    BY <1>4 DEF Reap
  <2>5. failcount'[l] = MaxFails => w'[l] = "gone"
    BY <2>4 DEF EndsWatcher, DaemonIInv, DaemonTypeOK
  <2>6. CountInv'
    <3>1. ASSUME NEW k \in Launches PROVE failcount'[k] < MaxFails \/ w'[k] = "gone"
      <4>1. CASE k = l
        BY <2>3, <2>5, <4>1
      <4>2. CASE k # l
        BY <2>3, <2>4, <4>2 DEF DaemonIInv, CountInv, DaemonTypeOK
      <4> QED BY <4>1, <4>2
    <3> QED BY <3>1 DEF CountInv
  <2>7. DaemonTypeOK' /\ gen' \in [Launches -> Nat]
    BY <2>3, <2>4 DEF DaemonIInv, DaemonTypeOK
  <2>8. NamedInv'
    BY <2>4, OnlyItself DEF DaemonIInv, DaemonTypeOK, NamedInv
  <2> QED BY <2>6, <2>7, <2>8 DEF DaemonIInv
<1>5. CASE Wake(l)
  <2>1. DaemonTypeOK' /\ gen' \in [Launches -> Nat] /\ CountInv'
    BY <1>5 DEF Wake, DaemonIInv, DaemonTypeOK, CountInv
  <2>2. NamedInv'
    BY <1>5, OnlyItself DEF Wake, DaemonIInv, DaemonTypeOK, NamedInv
  <2> QED BY <2>1, <2>2 DEF DaemonIInv
<1> QED BY <1>1, <1>2, <1>3, <1>4, <1>5 DEF Watcher

\* A step of a child: its watcher waits, and keeps its count.
LEMMA ChildStep ==
  ASSUME DaemonIInv, NEW l \in Launches, NEW step \in Alive \cup {"dead"},
         c[l] \in Alive, UNCHANGED <<Cygwin, w, failcount, gen>>,
         c' = [c EXCEPT ![l] = step],
         status' = status \/ \E how \in {"ok", "fail", "signal", "kill"} :
                               status' = [status EXCEPT ![l] = how],
         pidfile' \in {pidfile, NoFile, Empty, <<l, gen[l]>>},
         Sole(l) =>
           /\ step = "write" => pidfile' # NoFile
           /\ step \in {"setup", "bind", "serve", "closing"} =>
                pidfile' = <<l, gen[l]>>
  PROVE  DaemonIInv'
<1>1. w[l] = "wait" /\ c[l] # "none" /\ step # "none"
  BY DEF DaemonIInv, DaemonTypeOK, Alive
<1>2. c' \in [Launches -> Alive \cup {"none", "dead"}]
  BY DEF DaemonIInv, DaemonTypeOK
<1>3. status' \in [Launches -> {"ok", "fail", "signal", "kill"}]
  BY DEF DaemonIInv, DaemonTypeOK
<1>4. pidfile' \in {NoFile, Empty} \cup (Launches \X Nat)
  BY DEF DaemonIInv, DaemonTypeOK
<1>5. \A k \in Launches : w'[k] = "wait" <=> c'[k] # "none"
  BY <1>1 DEF DaemonIInv, DaemonTypeOK
<1>6. DaemonTypeOK' /\ gen' \in [Launches -> Nat] /\ CountInv'
  BY <1>2, <1>3, <1>4, <1>5 DEF DaemonIInv, DaemonTypeOK, CountInv
<1>7. c'[l] = step
  BY DEF DaemonIInv, DaemonTypeOK
<1>8. NamedInv'
  BY <1>1, <1>7, OnlyItself
<1> QED BY <1>6, <1>8 DEF DaemonIInv

\* What NamedInv says of l alone.
LEMMA NamedWhenSole ==
  ASSUME DaemonIInv, NEW l \in Launches, Sole(l)
  PROVE  /\ c[l] = "write" => pidfile # NoFile
         /\ c[l] \in {"setup", "bind", "serve", "closing"} => pidfile = <<l, gen[l]>>
  BY DEF DaemonIInv, NamedInv

\* The child up to its pid file, which it opens and then fills, and on to its
\* end.
LEMMA ChildKeeps ==
  ASSUME DaemonIInv, NEW l \in Launches, Child(l)
  PROVE  DaemonIInv'
<1> USE DEF Alive, Goto, Exit
<1>1. CASE ChildCheck(l)
  BY <1>1, ChildStep DEF ChildCheck
<1>2. CASE Stat(l)
  BY <1>2, ChildStep DEF Stat
<1>3. CASE Open(l)
  BY <1>3, ChildStep DEF Open
<1>4. CASE Write(l)
  BY <1>4, ChildStep, NamedWhenSole DEF Write, Written
<1>5. CASE Setup(l)
  BY <1>5, ChildStep, NamedWhenSole DEF Setup
<1>6. CASE Bind(l)
  BY <1>6, ChildStep, NamedWhenSole DEF Bind
<1>7. CASE Leave(l)
  BY <1>7, ChildStep, NamedWhenSole DEF Leave
<1>8. CASE Close(l)
  BY <1>8, ChildStep DEF Close
<1> QED BY <1>1, <1>2, <1>3, <1>4, <1>5, <1>6, <1>7, <1>8 DEF Child

\* Crashes and "garner -k".
LEMMA EndsKeep ==
  ASSUME DaemonIInv, NEW l \in Launches, Crash(l) \/ Shutdown(l) \/ Kill(l)
  PROVE  DaemonIInv'
<1> USE DEF Alive, Goto, Exit
<1>1. CASE Crash(l)
  BY <1>1, ChildStep DEF Crash
<1>2. CASE Shutdown(l)
  <2>1. CASE c[l] \in {"bind", "serve", "closing"}
    BY <1>2, <2>1 DEF Shutdown, DaemonIInv, DaemonTypeOK, CountInv, NamedInv, Sole
  <2>2. CASE c[l] \notin {"bind", "serve", "closing"}
    BY <1>2, <2>2, ChildStep DEF Shutdown
  <2> QED BY <2>1, <2>2
<1>3. CASE Kill(l)
  BY <1>3, ChildStep DEF Kill
<1> QED BY <1>1, <1>2, <1>3

-----------------------------------------------------------------------------
\* Nothing is started at first.
LEMMA DaemonInitIInv ==
  DaemonInit => DaemonIInv
  BY DEF DaemonInit, DaemonIInv, DaemonTypeOK, CountInv, NamedInv

\* Every step keeps the invariant.
LEMMA DaemonNextIInv ==
  DaemonIInv /\ [DaemonNext]_daemonVars => DaemonIInv'
<1> SUFFICES ASSUME DaemonIInv, [DaemonNext]_daemonVars PROVE DaemonIInv'
  OBVIOUS
<1>1. CASE UNCHANGED daemonVars
  BY <1>1 DEF daemonVars, chVars, DaemonIInv, DaemonTypeOK, CountInv, NamedInv, Sole
<1>2. CASE DaemonNext
  BY <1>2, WatcherKeeps, ChildKeeps, EndsKeep DEF DaemonNext
<1> QED BY <1>1, <1>2

\* Whatever starts, crashes and stops race, the watcher stays within its limit
\* and has a child exactly while it waits, and "garner -k" finds a garner that
\* was started alone and serves (pidfile_create, watch_child).
THEOREM ServerIsNamed ==
  DaemonSpec => []DaemonInv
  BY DaemonInitIInv, DaemonNextIInv, DaemonIInvImplies, PTL DEF DaemonSpec
=============================================================================
