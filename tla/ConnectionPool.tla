--------------------------- MODULE ConnectionPool ---------------------------
(***************************************************************************)
(* The web application's pool of database connections (ConnectionPool,     *)
(* ConnectionManager, Timer) and the SqlReader objects of concurrent       *)
(* requests that use it, all created with pool = false as everywhere in    *)
(* the application.  The methods of the pool are synchronized, so each of  *)
(* them is one step; between them requests, the timer thread and failures  *)
(* of the database interleave.  The driver is the PostgreSQL one.          *)
(***************************************************************************)
EXTENDS Naturals, Sequences, FiniteSets, FiniteSetsExt

CONSTANTS
  Readers,     \* SqlReader objects, one per request
  Objects,     \* number of connection objects, which are reused
  Null,
  Size, Limit, \* ConnectionPoolSize and ConnectionPoolMax
  UseCount,    \* ConnectionUseCount
  Attempts,    \* attempts of ConnectionManager.getConnection: 5
  MaxOutages   \* bound: outages of the database and broken connections

ASSUME ConnectionPoolAssumption ==
  /\ Size \in Nat \ {0} /\ Limit \in Nat /\ Size <= Limit
  /\ UseCount \in Nat \ {0} /\ Attempts \in Nat \ {0} /\ MaxOutages \in Nat
  \* enough for the pool and for what requests still refer to
  /\ IsFiniteSet(Readers)
  /\ Objects \in Nat /\ Objects > Limit + Cardinality(Readers)

Conns == 1..Objects

VARIABLES
  pool,        \* m_pool
  inUse,       \* ConnectionObject.inUse
  useCount,    \* ConnectionObject.useCount
  session,     \* "open", "dead" (nobody has noticed) or "closed"
  timer,       \* the timer thread has been started
  transaction, \* SqlReader.transaction
  rpc,         \* where a request is: "idle", "get" or "use"
  tries,       \* attempts made by ConnectionManager.getConnection
  db,          \* the database accepts connections
  outages

poolVars   == <<pool, inUse, useCount>>
readerVars == <<transaction, rpc, tries>>
vars == <<poolVars, session, timer, readerVars, db, outages>>

InPool(c) == \E i \in DOMAIN pool : pool[i] = c
Closed(c) == session[c] = "closed"

\* Connection objects that nobody refers to.
Fresh == {c \in Conns : ~InPool(c) /\ \A r \in Readers : transaction[r] # c}

\* New objects are interchangeable: the n smallest unused ones.
FirstFresh(n) == {c \in Fresh : Cardinality({d \in Fresh : d < c}) < n}

\* initialize: createPool fills the pool to its minimum.  If the database
\* refuses one of the connections, those before it stay, and the exception
\* keeps the timer from being started.
Init ==
  /\ \E n \in 0..Size :
       /\ pool = [i \in 1..n |-> i]
       /\ session = [c \in Conns |-> IF c <= n THEN "open" ELSE "closed"]
       /\ db = (n = Size)
  /\ timer = db
  /\ inUse = [c \in Conns |-> FALSE] /\ useCount = [c \in Conns |-> 0]
  /\ transaction = [r \in Readers |-> Null] /\ rpc = [r \in Readers |-> "idle"]
  /\ tries = [r \in Readers |-> 0]
  /\ outages = 0

-----------------------------------------------------------------------------
(* getConnection.                                                          *)

IsAvailable(c) == ~inUse[c] /\ ~Closed(c)

\* The positions the loop looks at.  Removing element i moves its successor
\* to i, and i++ then skips it: every other one of a run of closed connections,
\* and what follows the run if its length n is even.
Visited ==
  {i \in DOMAIN pool : \E n \in 0..(i - 1) :
     /\ n % 2 = 0
     /\ \A j \in (i - n)..(i - 1) : Closed(pool[j])
     /\ i - n = 1 \/ ~Closed(pool[i - n - 1])}

Found == {i \in Visited : IsAvailable(pool[i])}

\* Variant for mutation: closed connections stay.
SweptNothing == {}

\* The closed connections that the loop removes before it stops.
Swept == {pool[i] : i \in {j \in Visited :
                             Closed(pool[j]) /\ \A k \in Found : j < k}}

\* The numbers of K in increasing order.
Ranked(K) ==
  [k \in 1..Cardinality(K) |-> CHOOSE i \in K : Cardinality({j \in K : j <= i}) = k]

\* The pool without the connections of S.
Without(S) ==
  LET kept == Ranked({i \in DOMAIN pool : pool[i] \notin S})
  IN [k \in DOMAIN kept |-> pool[kept[k]]]

\* The ConnectionObjects of S are dropped with their fields.
Dropped(f, S, v) == [c \in Conns |-> IF c \in S THEN v ELSE f[c]]

MarkInUse(c) == inUse' = [Dropped(inUse, Swept, FALSE) EXCEPT ![c] = TRUE]

\* The connection c goes to the request.
HandOut(r, c) ==
  /\ transaction' = [transaction EXCEPT ![r] = c]
  /\ rpc' = [rpc EXCEPT ![r] = "use"]
  /\ UNCHANGED tries

\* getConnection finds an available connection ...
GetFound(r) ==
  /\ rpc[r] = "get" /\ Found # {}
  /\ LET c == pool[Min(Found)] IN
       /\ MarkInUse(c) /\ HandOut(r, c)
       /\ useCount' = [Dropped(useCount, Swept, 0) EXCEPT ![c] = @ + 1]
  /\ pool' = Without(Swept)
  /\ UNCHANGED <<session, timer, db, outages>>

\* ... or adds one ...
GetAdded(r) ==
  /\ rpc[r] = "get" /\ Found = {} /\ db
  /\ Len(Without(Swept)) < Limit
  /\ \E c \in FirstFresh(1) :
       /\ pool' = Append(Without(Swept), c)
       /\ MarkInUse(c) /\ HandOut(r, c)
       /\ session' = [session EXCEPT ![c] = "open"]
       /\ useCount' = [Dropped(useCount, Swept, 0) EXCEPT ![c] = 1]
  /\ UNCHANGED <<timer, db, outages>>

Retry(n) == n < Attempts

\* ... or returns null; ConnectionManager tries again at once, a few times.
GetNull(r) ==
  /\ rpc[r] = "get" /\ Found = {}
  /\ ~db \/ Len(Without(Swept)) >= Limit
  /\ pool' = Without(Swept)
  /\ tries' = [tries EXCEPT ![r] = @ + 1]
  /\ IF Retry(tries[r] + 1)
     THEN UNCHANGED <<rpc, transaction>>
     ELSE rpc' = [rpc EXCEPT ![r] = "idle"]
          /\ transaction' = [transaction EXCEPT ![r] = Null]
  /\ inUse' = Dropped(inUse, Swept, FALSE)
  /\ useCount' = Dropped(useCount, Swept, 0)
  /\ UNCHANGED <<session, timer, db, outages>>

-----------------------------------------------------------------------------
(* Requests.                                                               *)

\* executeUpdate, getInstanceResultSetWrapper ... : the connection is kept in
\* the reader; another one is taken when there is none or it was closed.
Execute(r) ==
  /\ rpc[r] = "idle"
  /\ rpc' = [rpc EXCEPT ![r] =
               IF transaction[r] = Null \/ Closed(transaction[r])
               THEN "get" ELSE "use"]
  /\ tries' = [tries EXCEPT ![r] = 0]
  /\ UNCHANGED <<poolVars, session, timer, transaction, db, outages>>

\* The statement is executed; the driver notices a dead session.
Use(r) ==
  /\ rpc[r] = "use"
  /\ rpc' = [rpc EXCEPT ![r] = "idle"]
  /\ LET c == transaction[r] IN
     session' = [session EXCEPT ![c] = IF @ = "dead" THEN "closed" ELSE @]
  /\ UNCHANGED <<poolVars, timer, transaction, tries, db, outages>>

WornOut(c) == useCount[c] >= UseCount

\* SqlReader.close and ConnectionPool.close: a connection that was used too
\* often is closed and removed, one that is not in the pool is ignored.
CloseReader(r) ==
  LET c == transaction[r] IN
  /\ rpc[r] = "idle" /\ c # Null
  /\ transaction' = [transaction EXCEPT ![r] = Null]
  /\ \/ /\ InPool(c) /\ WornOut(c)
        /\ pool' = Without({c})
        /\ session' = [session EXCEPT ![c] = "closed"]
        /\ inUse' = Dropped(inUse, {c}, FALSE)
        /\ useCount' = Dropped(useCount, {c}, 0)
     \/ /\ InPool(c) /\ ~WornOut(c)
        /\ inUse' = [inUse EXCEPT ![c] = FALSE]
        /\ UNCHANGED <<pool, session, useCount>>
     \/ /\ ~InPool(c)
        /\ UNCHANGED <<poolVars, session>>
  /\ UNCHANGED <<timer, rpc, tries, db, outages>>

-----------------------------------------------------------------------------
(* TimerEvent.                                                             *)

\* Variant for mutation: also connections in use are timed out.
ExpiredInUse(S) == \A c \in S : InPool(c)

\* Sets of connections that may have been unused for ConnectionTimeout.
Expired(S) == \A c \in S : InPool(c) /\ ~inUse[c]

\* The database goes away.
GoDown == db /\ outages < MaxOutages /\ db' = FALSE /\ outages' = outages + 1

\* Variant for mutation: the pool is not brought to its minimum again.
RefillNothing(n, k) == k = 0 /\ UNCHANGED <<db, outages>>

\* fillPool finds n connections and opens k: those that are missing, or the
\* first of them if the database goes away before the last one.
Refill(n, k) ==
  \/ /\ k = IF db /\ n < Size THEN Size - n ELSE 0
     /\ UNCHANGED <<db, outages>>
  \/ k < Size - n /\ GoDown

\* Variant for mutation: connections leave the pool without being closed.
RemoveFromPoolOpen(gone, new) ==
  session' = [c \in Conns |-> IF c \in new THEN "open" ELSE session[c]]

\* removeFromPool closes; the new ones are open.
RemoveFromPool(gone, new) ==
  session' = [c \in Conns |-> IF c \in new THEN "open"
                              ELSE IF c \in gone THEN "closed" ELSE session[c]]

\* Expired and closed connections are removed, the minimum is restored.
TimerEvent ==
  /\ timer
  /\ \E old \in SUBSET Conns :
       /\ Expired(old)
       /\ \E gone \in {old \cup {c \in Conns : InPool(c) /\ Closed(c)}} :
          \E rest \in {Without(gone)}, k \in 0..Size :
            /\ Refill(Len(rest), k)
            /\ pool' = rest \o Ranked(FirstFresh(k))
            /\ RemoveFromPool(gone, FirstFresh(k))
            /\ inUse' = Dropped(inUse, gone, FALSE)
            /\ useCount' = Dropped(useCount, gone, 0)
  /\ UNCHANGED <<timer, readerVars>>

-----------------------------------------------------------------------------
(* The database.                                                           *)

Outage ==
  /\ GoDown
  /\ UNCHANGED <<poolVars, session, timer, readerVars>>

Recovery ==
  /\ ~db
  /\ db' = TRUE
  /\ UNCHANGED <<poolVars, session, timer, readerVars, outages>>

\* A session dies; its client has not noticed.
Break(c) ==
  /\ session[c] = "open" /\ outages < MaxOutages
  /\ session' = [session EXCEPT ![c] = "dead"]
  /\ outages' = outages + 1
  /\ UNCHANGED <<poolVars, timer, readerVars, db>>

Next ==
  \/ \E r \in Readers : \/ GetFound(r) \/ GetAdded(r) \/ GetNull(r)
                        \/ Execute(r) \/ Use(r) \/ CloseReader(r)
  \/ TimerEvent \/ Outage \/ Recovery \/ \E c \in Conns : Break(c)

Spec == Init /\ [][Next]_vars

\* The timer thread runs.
FairSpec == Spec /\ WF_vars(TimerEvent)

-----------------------------------------------------------------------------
(* Properties.                                                             *)

\* Ranges; ConnectionManager.getConnection never tries more than Attempts times.
TypeOK ==
  /\ pool \in Seq(Conns)
  /\ inUse \in [Conns -> BOOLEAN] /\ useCount \in [Conns -> Nat]
  /\ session \in [Conns -> {"open", "dead", "closed"}]
  /\ transaction \in [Readers -> Conns \cup {Null}]
  /\ rpc \in [Readers -> {"idle", "get", "use"}]
  /\ tries \in [Readers -> 0..Attempts]
  /\ timer \in BOOLEAN /\ db \in BOOLEAN /\ outages \in 0..MaxOutages

\* Two requests never use the same connection, although connections die, are
\* swept out of the pool while in use, and closed late by their owner.
Exclusive ==
  \A r, s \in Readers : r # s /\ transaction[r] # Null =>
    transaction[r] # transaction[s]

\* Neither the timer nor another request closes a connection under a request
\* that holds it: it stays open until its owner gives it back or it dies.
NeverPulled ==
  [][\A r \in Readers :
       LET c == transaction[r] IN
       c # Null /\ transaction'[r] = c /\ session[c] = "open" =>
         session'[c] # "closed"]_vars

\* ConnectionPoolMax bounds the sessions with the database: each belongs to a
\* place of the pool, and the pool has no more than Limit places.
SessionsBounded ==
  /\ Len(pool) <= Limit
  /\ \A c \in Conns : session[c] \in {"open", "dead"} => InPool(c)

\* ConnectionUseCount is the "maximum usage count for one connection".
UseBounded == \A c \in Conns : useCount[c] <= UseCount

\* getConnection returns null only "if the maximum number of connections has
\* been exceeded" or the database refuses, although the loop over the pool
\* skips the neighbours of connections it removes.
RefusedOnlyWhenFull ==
  [][\A r \in Readers : tries'[r] > tries[r] =>
       ~db \/ (Len(pool) = Limit /\ \A i \in DOMAIN pool : inUse[pool[i]])]_vars

\* TimerEvent: "Now ensure that the pool is still at it's minimum size", again
\* and again once the database stays up.
MinimumRestored == timer /\ <>[]db => []<>(Len(pool) >= Size)

\* What holds of the connections at every step: none is lent twice, and neither
\* their number nor their uses exceed the limits.
ConnectionsInv == TypeOK /\ Exclusive /\ SessionsBounded /\ UseBounded
=============================================================================
