------------------------ MODULE ConnectionPoolProofs ------------------------
(***************************************************************************)
(* For any number of requests, any limits and any number of outages: no    *)
(* connection is lent twice, none is closed under the request that holds   *)
(* it, neither the sessions nor the uses of a connection exceed their      *)
(* limits, and none is refused while one is free.                          *)
(*                                                                         *)
(* The pool knows a connection by its place in m_pool and by inUse; a      *)
(* request knows it by a reference that it may keep after the connection   *)
(* was swept out of the pool.  The inductive invariant ties the two: a     *)
(* connection of the pool that a request refers to is in use, and one that *)
(* is not in the pool is closed and has no fields left.                    *)
(***************************************************************************)
EXTENDS ConnectionPool, FiniteSetTheorems, NaturalsInduction, TLAPS

\* No connection has two places in the pool.
Distinct == \A i, j \in DOMAIN pool : pool[i] = pool[j] => i = j

\* A connection of the pool that a request refers to is in use.
LentInv ==
  \A r \in Readers :
    transaction[r] # Null /\ InPool(transaction[r]) => inUse[transaction[r]]

\* What has left the pool is closed, and its ConnectionObject is gone.
OutInv == \A c \in Conns : ~InPool(c) => ~inUse[c] /\ useCount[c] = 0 /\ Closed(c)

\* A connection that can be lent has a use left.
WornInv ==
  \A c \in Conns :
    useCount[c] <= UseCount /\ (InPool(c) /\ ~inUse[c] => useCount[c] < UseCount)

\* A request that tries has an attempt left.
TryInv == \A r \in Readers : rpc[r] = "get" => tries[r] < Attempts

IInv ==
  /\ TypeOK /\ Distinct /\ LentInv /\ OutInv /\ WornInv /\ TryInv
  /\ Exclusive /\ Len(pool) <= Limit

USE ConnectionPoolAssumption

-----------------------------------------------------------------------------
(* Sets of numbers in increasing order.                                    *)

\* The number of members up to i is larger for a larger member.
LEMMA RankGrows ==
  ASSUME NEW K \in SUBSET Nat, IsFiniteSet(K), NEW a \in K, NEW b \in K, a < b
  PROVE  Cardinality({j \in K : j <= a}) < Cardinality({j \in K : j <= b})
<1> DEFINE A == {j \in K : j <= a}
           B == {j \in K : j <= b}
<1>1. IsFiniteSet(A) /\ IsFiniteSet(B)
  BY FS_Subset
<1>2. A \in SUBSET B /\ b \in B /\ b \notin A
  <2>1. a \in Nat /\ b \in Nat /\ \A j \in K : j \in Nat
    OBVIOUS
  <2>2. \A j \in K : j <= a => j <= b
    BY <2>1
  <2>3. ~(b <= a) /\ b <= b
    BY <2>1
  <2> QED BY <2>2, <2>3, Zenon
<1>3. Cardinality(A) <= Cardinality(B) /\ (Cardinality(B) = Cardinality(A) => B = A)
  BY <1>1, <1>2, FS_Subset
<1>4. Cardinality(A) \in Nat /\ Cardinality(B) \in Nat
  BY <1>1, FS_CardinalityType
<1> QED BY <1>2, <1>3, <1>4

\* So members have different ranks, from 1 to the size of the set.
LEMMA RankInjective ==
  ASSUME NEW K \in SUBSET Nat, IsFiniteSet(K)
  PROVE  LET f == [i \in K |-> Cardinality({j \in K : j <= i})]
         IN /\ Cardinality(K) \in Nat
            /\ f \in [K -> 1..Cardinality(K)]
            /\ \A a, b \in K : f[a] = f[b] => a = b
            /\ \A k \in 1..Cardinality(K) : \E i \in K : f[i] = k
<1> DEFINE f == [i \in K |-> Cardinality({j \in K : j <= i})]
           N == Cardinality(K)
<1>1. N \in Nat
  BY FS_CardinalityType
<1>2. ASSUME NEW i \in K PROVE f[i] \in 1..N
  <2> DEFINE A == {j \in K : j <= i}
  <2>1. IsFiniteSet(A) /\ Cardinality(A) <= N
    BY FS_Subset
  <2>2. Cardinality(A) \in Nat /\ i \in A
    BY <2>1, FS_CardinalityType
  <2>3. Cardinality(A) # 0
    BY <2>1, <2>2, FS_EmptySet
  <2> QED BY <1>1, <2>1, <2>2, <2>3
<1>3. f \in [K -> 1..N]
  BY <1>2
<1>4. ASSUME NEW a \in K, NEW b \in K, f[a] = f[b] PROVE a = b
  <2>1. f[a] \in Nat /\ f[b] \in Nat
    BY <1>1, <1>2
  <2>2. ~(a < b)
    BY <1>4, <2>1, RankGrows
  <2>3. ~(b < a)
    BY <1>4, <2>1, RankGrows
  <2> QED BY <2>2, <2>3
<1> HIDE DEF f
<1>5. f \in Injection(K, 1..N)
  BY <1>3, <1>4 DEF Injection, IsInjective
<1>6. IsFiniteSet(1..N) /\ Cardinality(1..N) = N
  BY <1>1, FS_Interval
<1>7. f \in Surjection(K, 1..N)
  BY <1>5, <1>6, FS_Injection
<1>8. \A k \in 1..N : \E i \in K : f[i] = k
  BY <1>7 DEF Surjection
<1> QED BY <1>1, <1>3, <1>4, <1>8 DEF f

\* Ranked lists every member of a set once.
LEMMA RankedLists ==
  ASSUME NEW K \in SUBSET Nat, IsFiniteSet(K)
  PROVE  /\ Cardinality(K) \in Nat /\ DOMAIN Ranked(K) = 1..Cardinality(K)
         /\ Ranked(K) \in [1..Cardinality(K) -> K]
         /\ \A k \in 1..Cardinality(K) : Ranked(K)[k] \in K
         /\ \A k, l \in 1..Cardinality(K) : Ranked(K)[k] = Ranked(K)[l] => k = l
         /\ \A i \in K : \E k \in 1..Cardinality(K) : Ranked(K)[k] = i
<1> DEFINE f == [i \in K |-> Cardinality({j \in K : j <= i})]
           N == Cardinality(K)
<1>1. /\ N \in Nat
      /\ f \in [K -> 1..N]
      /\ \A a, b \in K : f[a] = f[b] => a = b
      /\ \A k \in 1..N : \E i \in K : f[i] = k
  BY RankInjective
<1>2. DOMAIN Ranked(K) = 1..N
  BY DEF Ranked
<1>3. ASSUME NEW k \in 1..N PROVE Ranked(K)[k] \in K /\ f[Ranked(K)[k]] = k
  <2>1. \E i \in K : Cardinality({j \in K : j <= i}) = k
    BY <1>1
  <2>2. Ranked(K)[k] = CHOOSE i \in K : Cardinality({j \in K : j <= i}) = k
    BY Zenon DEF Ranked
  <2>3. Ranked(K)[k] \in K /\ Cardinality({j \in K : j <= Ranked(K)[k]}) = k
    BY <2>1, <2>2, Zenon
  <2> QED BY <2>3
<1> HIDE DEF f
<1>4. Ranked(K) \in [1..N -> K]
  <2>1. Ranked(K) = [k \in 1..N |-> CHOOSE i \in K : Cardinality({j \in K : j <= i}) = k]
    BY Zenon DEF Ranked
  <2>2. \A k \in 1..N : Ranked(K)[k] \in K
    BY <1>3
  <2> QED BY <2>1, <2>2, Zenon
<1>5. \A k, l \in 1..N : Ranked(K)[k] = Ranked(K)[l] => k = l
  BY <1>3
<1>6. ASSUME NEW i \in K PROVE \E k \in 1..N : Ranked(K)[k] = i
  <2>1. f[i] \in 1..N
    BY <1>1
  <2>2. Ranked(K)[f[i]] \in K /\ f[Ranked(K)[f[i]]] = f[i]
    BY <1>3, <2>1
  <2> QED BY <1>1, <2>1, <2>2
<1> QED BY <1>1, <1>2, <1>3, <1>4, <1>5, <1>6

\* At most n members have fewer than n members below them.
LEMMA FirstFreshBound ==
  ASSUME NEW n \in Nat
  PROVE  /\ FirstFresh(n) \subseteq Fresh /\ FirstFresh(n) \in SUBSET Nat
         /\ IsFiniteSet(FirstFresh(n)) /\ Cardinality(FirstFresh(n)) <= n
<1> DEFINE K == Fresh
           F == FirstFresh(n)
           Below(c) == {d \in K : d < c}
           g == [c \in F |-> Cardinality(Below(c))]
<1>1. K \subseteq Conns /\ Conns \subseteq Nat
  BY DEF Fresh, Conns
<1>2. IsFiniteSet(Conns)
  BY FS_Interval DEF Conns
<1>3. IsFiniteSet(K) /\ F \subseteq K /\ IsFiniteSet(F)
  <2>1. F \subseteq K
    BY DEF FirstFresh
  <2> QED BY <1>1, <1>2, <2>1, FS_Subset
<1>4. ASSUME NEW c \in F PROVE Cardinality(Below(c)) \in 0..(n - 1)
  <2>1. IsFiniteSet(Below(c))
    BY <1>3, FS_Subset
  <2>2. Cardinality(Below(c)) \in Nat
    BY <2>1, FS_CardinalityType
  <2>3. Cardinality(Below(c)) < n
    BY DEF FirstFresh
  <2> QED BY <2>2, <2>3
<1>5. ASSUME NEW a \in F, NEW b \in F, a < b PROVE Cardinality(Below(a)) < Cardinality(Below(b))
  <2>1. a \in K /\ \A d \in K \cup {a, b} : d \in Nat
    BY <1>1, <1>3
  <2>2. \A d \in K : d < a => d < b
    BY <1>5, <2>1
  <2>3. ~(a < a)
    BY <2>1
  <2>4. Below(a) \in SUBSET Below(b) /\ a \in Below(b) /\ a \notin Below(a)
    BY <1>5, <2>1, <2>2, <2>3, Zenon
  <2>5. IsFiniteSet(Below(b)) /\ IsFiniteSet(Below(a))
    BY <1>3, FS_Subset
  <2>6. /\ Cardinality(Below(a)) <= Cardinality(Below(b))
        /\ Cardinality(Below(b)) = Cardinality(Below(a)) => Below(b) = Below(a)
    BY <2>4, <2>5, FS_Subset
  <2>7. Cardinality(Below(a)) \in Nat /\ Cardinality(Below(b)) \in Nat
    BY <2>5, FS_CardinalityType
  <2> QED BY <2>4, <2>6, <2>7
<1>6. g \in [F -> 0..(n - 1)]
  BY <1>4
<1>7. ASSUME NEW a \in F, NEW b \in F, g[a] = g[b] PROVE a = b
  <2>1. a \in Nat /\ b \in Nat /\ g[a] \in Nat
    <3>1. Cardinality(Below(a)) \in 0..(n - 1)
      BY <1>4
    <3>2. Cardinality(Below(a)) \in Nat
      BY <3>1
    <3> QED BY <1>1, <1>3, <3>2
  <2>2. ~(a < b)
    BY <1>5, <1>7, <2>1
  <2>3. ~(b < a)
    BY <1>5, <1>7, <2>1
  <2> QED BY <2>1, <2>2, <2>3
<1> HIDE DEF g
<1>8. g \in Injection(F, 0..(n - 1))
  BY <1>6, <1>7 DEF Injection, IsInjective
<1>9. IsFiniteSet(0..(n - 1)) /\ Cardinality(0..(n - 1)) = n
  BY FS_Interval
<1>10. Cardinality(F) <= n
  BY <1>8, <1>9, FS_Injection
<1> QED BY <1>1, <1>3, <1>10

-----------------------------------------------------------------------------
(* What getConnection finds and removes.                                   *)

\* The pool without S: the same connections otherwise, each once.
LEMMA WithoutHas ==
  ASSUME IInv, NEW S
  PROVE  /\ Without(S) \in Seq(Conns) /\ Len(Without(S)) <= Len(pool)
         /\ \A i, j \in DOMAIN Without(S) : Without(S)[i] = Without(S)[j] => i = j
         /\ \A c : (\E i \in DOMAIN Without(S) : Without(S)[i] = c) <=> InPool(c) /\ c \notin S
<1> DEFINE K == {i \in DOMAIN pool : pool[i] \notin S}
           N == Cardinality(K)
           kept == Ranked(K)
<1>1. pool \in Seq(Conns) /\ DOMAIN pool = 1..Len(pool) /\ Len(pool) \in Nat
  BY DEF IInv, TypeOK
<1>2. IsFiniteSet(1..Len(pool)) /\ Cardinality(1..Len(pool)) = Len(pool)
  <2>1. PICK m \in Nat : m = Len(pool)
    BY <1>1
  <2>2. IsFiniteSet(1..m) /\ Cardinality(1..m) = m
    BY FS_Interval
  <2> QED BY <2>1, <2>2
<1>3. K \in SUBSET (1..Len(pool)) /\ K \in SUBSET Nat
  BY <1>1
<1>4. IsFiniteSet(K) /\ N <= Len(pool)
  BY <1>2, <1>3, FS_Subset
<1>5. /\ N \in Nat /\ DOMAIN kept = 1..N
      /\ \A k \in 1..N : kept[k] \in K
      /\ \A k, l \in 1..N : kept[k] = kept[l] => k = l
      /\ \A i \in K : \E k \in 1..N : kept[k] = i
  BY <1>3, <1>4, RankedLists
<1>6. Without(S) = [k \in 1..N |-> pool[kept[k]]]
  BY <1>5 DEF Without
<1> HIDE DEF N, kept
<1>7. \A k \in 1..N : pool[kept[k]] \in Conns /\ kept[k] \in DOMAIN pool /\ pool[kept[k]] \notin S
  BY <1>1, <1>5
<1>8. Without(S) \in Seq(Conns) /\ Len(Without(S)) = N /\ DOMAIN Without(S) = 1..N
  BY <1>5, <1>6, <1>7
<1>9. \A i, j \in 1..N : Without(S)[i] = Without(S)[j] => i = j
  BY <1>5, <1>6, <1>7 DEF IInv, Distinct
<1>10. ASSUME NEW c, NEW i \in 1..N, Without(S)[i] = c PROVE InPool(c) /\ c \notin S
  BY <1>6, <1>7, <1>10 DEF InPool
<1>11. ASSUME NEW c, InPool(c), c \notin S PROVE \E i \in 1..N : Without(S)[i] = c
  <2>1. PICK j \in DOMAIN pool : pool[j] = c
    BY <1>11 DEF InPool
  <2>2. j \in K
    BY <1>11, <2>1
  <2>3. PICK k \in 1..N : kept[k] = j
    BY <1>5, <2>2
  <2> QED BY <1>6, <2>1, <2>3
<1> QED BY <1>4, <1>8, <1>9, <1>10, <1>11 DEF N

\* The connection found is of the pool and available.
LEMMA FoundAvailable ==
  ASSUME IInv, Found # {}
  PROVE  LET c == pool[Min(Found)]
         IN c \in Conns /\ InPool(c) /\ ~inUse[c] /\ ~Closed(c)
<1>1. Found \subseteq DOMAIN pool /\ \A i \in Found : IsAvailable(pool[i])
  BY DEF Found, Visited
<1>2. pool \in Seq(Conns) /\ DOMAIN pool \subseteq Nat
  BY DEF IInv, TypeOK
<1>3. Found \in SUBSET Nat
  BY <1>1, <1>2
<1>4. \E x \in Found : \A y \in Found : x <= y
  <2>1. IsWellFoundedOn(OpToRel(<, Nat), Nat)
    BY NatLessThanWellFounded
  <2>2. PICK x \in Found : \A y \in Found : ~(<<y, x>> \in OpToRel(<, Nat))
    BY <1>3, <2>1, WFMin, Zenon
  <2>3. \A y \in Found : ~(y < x)
    BY <1>3, <2>2 DEF OpToRel
  <2>4. \A y \in Found : x <= y
    BY <1>3, <2>3
  <2> QED BY <2>4
<1>5. Min(Found) \in Found
  <2>1. Min(Found) = CHOOSE x \in Found : \A y \in Found : x <= y
    BY Zenon DEF Min
  <2> QED BY <1>4, <2>1, Zenon
<1> QED BY <1>1, <1>2, <1>5 DEF IsAvailable, InPool

\* What the loop removes is of the pool, and closed.
LEMMA SweptClosed ==
  ASSUME NEW c \in Swept
  PROVE  InPool(c) /\ Closed(c)
  BY DEF Swept, Visited, InPool

\* What the invariant says of the types.
LEMMA Types ==
  ASSUME IInv
  PROVE  /\ pool \in Seq(Conns)
         /\ inUse \in [Conns -> BOOLEAN] /\ useCount \in [Conns -> Nat]
         /\ session \in [Conns -> {"open", "dead", "closed"}]
         /\ transaction \in [Readers -> Conns \cup {Null}]
         /\ rpc \in [Readers -> {"idle", "get", "use"}]
         /\ tries \in [Readers -> 0..Attempts]
         /\ timer \in BOOLEAN /\ db \in BOOLEAN /\ outages \in 0..MaxOutages
         /\ \A c : InPool(c) => c \in Conns
<1>1. pool \in Seq(Conns)
  BY DEF IInv, TypeOK
<1>2. \A c : InPool(c) => c \in Conns
  BY <1>1 DEF InPool
<1> QED BY <1>2 DEF IInv, TypeOK

-----------------------------------------------------------------------------
(* getConnection.                                                          *)

\* An available connection is handed out.
LEMMA GetFoundKeeps ==
  ASSUME IInv, NEW r \in Readers, GetFound(r)
  PROVE  IInv'
<1>1. PICK c \in Conns : c = pool[Min(Found)] /\ InPool(c) /\ ~inUse[c] /\ ~Closed(c)
  BY FoundAvailable DEF GetFound
<1>2. /\ pool' = Without(Swept)
      /\ inUse' = [Dropped(inUse, Swept, FALSE) EXCEPT ![c] = TRUE]
      /\ useCount' = [Dropped(useCount, Swept, 0) EXCEPT ![c] = @ + 1]
      /\ transaction' = [transaction EXCEPT ![r] = c]
      /\ rpc' = [rpc EXCEPT ![r] = "use"]
      /\ UNCHANGED <<tries, session, timer, db, outages>>
  BY <1>1 DEF GetFound, MarkInUse, HandOut
<1>3. /\ pool' \in Seq(Conns) /\ Len(pool') <= Len(pool) /\ Distinct'
      /\ \A d : InPool(d)' <=> InPool(d) /\ d \notin Swept
  BY <1>2, WithoutHas DEF InPool, Distinct
<1>4. c \notin Swept /\ \A d \in Swept : InPool(d) /\ Closed(d)
  BY <1>1, SweptClosed
<1>5. /\ inUse \in [Conns -> BOOLEAN] /\ useCount \in [Conns -> Nat]
      /\ transaction \in [Readers -> Conns \cup {Null}]
      /\ rpc \in [Readers -> {"idle", "get", "use"}]
  BY Types
<1>6. /\ inUse' \in [Conns -> BOOLEAN] /\ inUse'[c]
      /\ \A d \in Conns : d # c => inUse'[d] = IF d \in Swept THEN FALSE ELSE inUse[d]
  BY <1>2, <1>5 DEF Dropped
<1>7. /\ useCount' \in [Conns -> Nat] /\ useCount'[c] = useCount[c] + 1
      /\ \A d \in Conns : d # c => useCount'[d] = IF d \in Swept THEN 0 ELSE useCount[d]
  BY <1>2, <1>4, <1>5 DEF Dropped
<1>8. TypeOK'
  BY <1>2, <1>3, <1>5, <1>6, <1>7 DEF IInv, TypeOK
<1>9. /\ transaction'[r] = c /\ rpc'[r] = "use"
      /\ \A s \in Readers : s # r => transaction'[s] = transaction[s] /\ rpc'[s] = rpc[s]
  BY <1>2, <1>5
<1>10. \A s \in Readers : transaction[s] # Null => transaction[s] # c
  BY <1>1 DEF IInv, LentInv
<1>11. LentInv'
  <2>1. ASSUME NEW s \in Readers, NEW d, d = transaction'[s], d # Null, InPool(d)'
        PROVE  inUse'[d]
    <3>1. CASE s = r
      BY <1>6, <1>9, <2>1, <3>1
    <3>2. CASE s # r
      <4>1. d = transaction[s]
        BY <1>9, <2>1, <3>2
      <4>3. InPool(d) /\ d \notin Swept /\ d \in Conns
        BY <1>3, <2>1, Types
      <4>4. inUse[d] /\ d # c
        BY <1>10, <2>1, <4>1, <4>3 DEF IInv, LentInv
      <4> QED BY <1>6, <4>3, <4>4
    <3> QED BY <3>1, <3>2
  <2> QED BY <2>1 DEF LentInv, InPool
<1>12. OutInv'
  <2>1. ASSUME NEW d \in Conns, ~InPool(d)' PROVE ~inUse'[d] /\ useCount'[d] = 0 /\ Closed(d)'
    BY <1>1, <1>2, <1>3, <1>4, <1>6, <1>7, <2>1 DEF IInv, OutInv, Closed
  <2> QED BY <2>1 DEF OutInv, Closed, InPool
<1>13. WornInv'
  <2>1. ASSUME NEW d \in Conns
        PROVE  useCount'[d] <= UseCount /\ (InPool(d)' /\ ~inUse'[d] => useCount'[d] < UseCount)
    <3>1. CASE d = c
      BY <1>1, <1>5, <1>6, <1>7, <3>1 DEF IInv, WornInv
    <3>2. CASE d # c /\ d \in Swept
      BY <1>3, <1>7, <3>2
    <3>3. CASE d # c /\ d \notin Swept
      BY <1>3, <1>6, <1>7, <3>3 DEF IInv, WornInv
    <3> QED BY <3>1, <3>2, <3>3
  <2> QED BY <2>1 DEF WornInv, InPool
<1>14. TryInv'
  BY <1>2, <1>9 DEF IInv, TryInv
<1>15. Exclusive'
  BY <1>9, <1>10 DEF IInv, Exclusive
<1>16. Len(pool') <= Limit
  BY <1>3, Types DEF IInv
<1> QED BY <1>3, <1>8, <1>11, <1>12, <1>13, <1>14, <1>15, <1>16 DEF IInv

\* A new connection is handed out.
LEMMA GetAddedKeeps ==
  ASSUME IInv, NEW r \in Readers, GetAdded(r)
  PROVE  IInv'
<1>1. PICK c \in FirstFresh(1) :
        /\ pool' = Append(Without(Swept), c)
        /\ inUse' = [Dropped(inUse, Swept, FALSE) EXCEPT ![c] = TRUE]
        /\ useCount' = [Dropped(useCount, Swept, 0) EXCEPT ![c] = 1]
        /\ transaction' = [transaction EXCEPT ![r] = c]
        /\ rpc' = [rpc EXCEPT ![r] = "use"]
        /\ session' = [session EXCEPT ![c] = "open"]
  BY DEF GetAdded, MarkInUse, HandOut
<1>2. Len(Without(Swept)) < Limit /\ UNCHANGED <<tries, timer, db, outages>>
  BY DEF GetAdded, HandOut
<1>3. c \in Conns /\ ~InPool(c) /\ \A s \in Readers : transaction[s] # c
  BY <1>1 DEF FirstFresh, Fresh
<1>4. \A d \in Swept : InPool(d) /\ Closed(d)
  BY SweptClosed
<1>5. /\ inUse \in [Conns -> BOOLEAN] /\ useCount \in [Conns -> Nat]
      /\ session \in [Conns -> {"open", "dead", "closed"}]
      /\ transaction \in [Readers -> Conns \cup {Null}]
      /\ rpc \in [Readers -> {"idle", "get", "use"}]
  BY Types
<1>6. /\ pool' \in Seq(Conns) /\ Len(pool') <= Limit /\ Distinct'
      /\ \A d : InPool(d)' <=> (InPool(d) /\ d \notin Swept) \/ d = c
  <2> DEFINE W == Without(Swept)
  <2>1. /\ W \in Seq(Conns)
        /\ \A i, j \in DOMAIN W : W[i] = W[j] => i = j
        /\ \A d : (\E i \in DOMAIN W : W[i] = d) <=> InPool(d) /\ d \notin Swept
    BY WithoutHas
  <2> HIDE DEF W
  <2>2. pool' = Append(W, c) /\ Len(W) < Limit
    BY <1>1, <1>2 DEF W
  <2>3. /\ pool' \in Seq(Conns) /\ Len(pool') = Len(W) + 1 /\ pool'[Len(W) + 1] = c
        /\ DOMAIN pool' = DOMAIN W \cup {Len(W) + 1}
        /\ \A i \in DOMAIN W : pool'[i] = W[i] /\ i # Len(W) + 1
    BY <1>3, <2>1, <2>2
  <2>4. \A i \in DOMAIN W : W[i] # c
    BY <1>3, <2>1
  <2>5. Distinct'
    BY <2>1, <2>3, <2>4 DEF Distinct
  <2>6. \A d : InPool(d)' <=> (InPool(d) /\ d \notin Swept) \/ d = c
    BY <2>1, <2>3 DEF InPool
  <2>7. Len(pool') <= Limit
    BY <2>1, <2>2, <2>3
  <2> QED BY <2>3, <2>5, <2>6, <2>7
<1>7. /\ inUse' \in [Conns -> BOOLEAN] /\ inUse'[c]
      /\ \A d \in Conns : d # c => inUse'[d] = IF d \in Swept THEN FALSE ELSE inUse[d]
  BY <1>1, <1>3, <1>5 DEF Dropped
<1>8. /\ useCount' \in [Conns -> Nat] /\ useCount'[c] = 1
      /\ \A d \in Conns : d # c => useCount'[d] = IF d \in Swept THEN 0 ELSE useCount[d]
  BY <1>1, <1>3, <1>5 DEF Dropped
<1>9. /\ session' \in [Conns -> {"open", "dead", "closed"}]
      /\ \A d \in Conns : d # c => session'[d] = session[d]
  BY <1>1, <1>3, <1>5
<1>10. /\ transaction' \in [Readers -> Conns \cup {Null}]
       /\ rpc' \in [Readers -> {"idle", "get", "use"}]
       /\ transaction'[r] = c /\ rpc'[r] = "use"
       /\ \A s \in Readers : s # r => transaction'[s] = transaction[s] /\ rpc'[s] = rpc[s]
  BY <1>1, <1>3, <1>5
<1>11. TypeOK'
  BY <1>2, <1>6, <1>7, <1>8, <1>9, <1>10 DEF IInv, TypeOK
<1>12. LentInv'
  <2>1. ASSUME NEW s \in Readers, NEW d, d = transaction'[s], d # Null, InPool(d)'
        PROVE  inUse'[d]
    <3>1. CASE s = r
      BY <1>7, <1>10, <2>1, <3>1
    <3>2. CASE s # r
      <4>1. d = transaction[s]
        BY <1>10, <2>1, <3>2
      <4>3. InPool(d) /\ d \notin Swept /\ d \in Conns /\ d # c
        BY <1>3, <1>6, <2>1, <4>1, Types
      <4>4. inUse[d]
        BY <2>1, <4>1, <4>3 DEF IInv, LentInv
      <4> QED BY <1>7, <4>3, <4>4
    <3> QED BY <3>1, <3>2
  <2> QED BY <2>1 DEF LentInv, InPool
<1>13. OutInv'
  <2>1. ASSUME NEW d \in Conns, ~InPool(d)' PROVE ~inUse'[d] /\ useCount'[d] = 0 /\ Closed(d)'
    BY <1>4, <1>6, <1>7, <1>8, <1>9, <2>1 DEF IInv, OutInv, Closed
  <2> QED BY <2>1 DEF OutInv, Closed, InPool
<1>14. WornInv'
  <2>1. ASSUME NEW d \in Conns
        PROVE  useCount'[d] <= UseCount /\ (InPool(d)' /\ ~inUse'[d] => useCount'[d] < UseCount)
    <3>1. CASE d = c
      BY <1>7, <1>8, <3>1
    <3>2. CASE d # c /\ d \in Swept
      BY <1>6, <1>8, <3>2
    <3>3. CASE d # c /\ d \notin Swept
      BY <1>6, <1>7, <1>8, <3>3 DEF IInv, WornInv
    <3> QED BY <3>1, <3>2, <3>3
  <2> QED BY <2>1 DEF WornInv, InPool
<1>15. TryInv'
  BY <1>2, <1>10 DEF IInv, TryInv
<1>16. Exclusive'
  BY <1>3, <1>10 DEF IInv, Exclusive
<1> QED BY <1>6, <1>11, <1>12, <1>13, <1>14, <1>15, <1>16 DEF IInv

\* No connection is handed out; closed ones are removed all the same.
LEMMA GetNullKeeps ==
  ASSUME IInv, NEW r \in Readers, GetNull(r)
  PROVE  IInv'
<1>1. /\ rpc[r] = "get" /\ pool' = Without(Swept)
      /\ tries' = [tries EXCEPT ![r] = @ + 1]
      /\ inUse' = Dropped(inUse, Swept, FALSE)
      /\ useCount' = Dropped(useCount, Swept, 0)
      /\ UNCHANGED <<session, timer, db, outages>>
  BY DEF GetNull
<1>2. IF Retry(tries[r] + 1) THEN UNCHANGED <<rpc, transaction>>
      ELSE /\ rpc' = [rpc EXCEPT ![r] = "idle"]
           /\ transaction' = [transaction EXCEPT ![r] = Null]
  BY DEF GetNull
<1>3. /\ pool' \in Seq(Conns) /\ Len(pool') <= Len(pool) /\ Distinct'
      /\ \A d : InPool(d)' <=> InPool(d) /\ d \notin Swept
  BY <1>1, WithoutHas DEF InPool, Distinct
<1>4. \A d \in Swept : InPool(d) /\ Closed(d)
  BY SweptClosed
<1>5. /\ inUse \in [Conns -> BOOLEAN] /\ useCount \in [Conns -> Nat]
      /\ transaction \in [Readers -> Conns \cup {Null}]
      /\ rpc \in [Readers -> {"idle", "get", "use"}]
      /\ tries \in [Readers -> 0..Attempts]
  BY Types
<1>6. tries[r] < Attempts
  BY <1>1 DEF IInv, TryInv
<1>7. /\ inUse' \in [Conns -> BOOLEAN]
      /\ \A d \in Conns : inUse'[d] = IF d \in Swept THEN FALSE ELSE inUse[d]
  BY <1>1, <1>5 DEF Dropped
<1>8. /\ useCount' \in [Conns -> Nat]
      /\ \A d \in Conns : useCount'[d] = IF d \in Swept THEN 0 ELSE useCount[d]
  BY <1>1, <1>5 DEF Dropped
<1>9. /\ tries' \in [Readers -> 0..Attempts] /\ tries'[r] = tries[r] + 1
      /\ \A s \in Readers : s # r => tries'[s] = tries[s]
  BY <1>1, <1>5, <1>6
<1>10. /\ transaction' \in [Readers -> Conns \cup {Null}]
       /\ rpc' \in [Readers -> {"idle", "get", "use"}]
       /\ \A s \in Readers : transaction'[s] \in {transaction[s], Null}
       /\ \A s \in Readers : s # r => rpc'[s] = rpc[s]
       /\ rpc'[r] = "get" => Retry(tries[r] + 1)
  BY <1>1, <1>2, <1>5
<1>11. TypeOK'
  BY <1>1, <1>3, <1>7, <1>8, <1>9, <1>10 DEF IInv, TypeOK
<1>12. LentInv'
  <2>1. ASSUME NEW s \in Readers, NEW d, d = transaction'[s], d # Null, InPool(d)'
        PROVE  inUse'[d]
    <3>1. d = transaction[s]
      BY <1>10, <2>1
    <3>3. InPool(d) /\ d \notin Swept /\ d \in Conns
      BY <1>3, <2>1, Types
    <3>4. inUse[d]
      BY <2>1, <3>1, <3>3 DEF IInv, LentInv
    <3> QED BY <1>7, <3>3, <3>4
  <2> QED BY <2>1 DEF LentInv, InPool
<1>13. OutInv'
  <2>1. ASSUME NEW d \in Conns, ~InPool(d)' PROVE ~inUse'[d] /\ useCount'[d] = 0 /\ Closed(d)'
    BY <1>1, <1>3, <1>4, <1>7, <1>8, <2>1 DEF IInv, OutInv, Closed
  <2> QED BY <2>1 DEF OutInv, Closed, InPool
<1>14. WornInv'
  <2>1. ASSUME NEW d \in Conns
        PROVE  useCount'[d] <= UseCount /\ (InPool(d)' /\ ~inUse'[d] => useCount'[d] < UseCount)
    <3>1. CASE d \in Swept
      BY <1>3, <1>8, <3>1
    <3>2. CASE d \notin Swept
      BY <1>3, <1>7, <1>8, <3>2 DEF IInv, WornInv
    <3> QED BY <3>1, <3>2
  <2> QED BY <2>1 DEF WornInv, InPool
<1>15. TryInv'
  BY <1>5, <1>9, <1>10 DEF IInv, TryInv, Retry
<1>16. Exclusive'
  BY <1>10 DEF IInv, Exclusive
<1>17. Len(pool') <= Limit
  BY <1>3, Types DEF IInv
<1> QED BY <1>3, <1>11, <1>12, <1>13, <1>14, <1>15, <1>16, <1>17 DEF IInv

-----------------------------------------------------------------------------
(* Requests, the timer and the database.                                   *)

\* What a step that leaves the pool and the references alone keeps.
LEMMA PoolAlone ==
  ASSUME IInv, UNCHANGED <<pool, inUse, useCount, transaction>>, TypeOK', TryInv',
         \A c \in Conns : Closed(c) => Closed(c)'
  PROVE  IInv'
<1>1. \A c : InPool(c)' <=> InPool(c)
  BY DEF InPool
<1>2. Distinct' /\ LentInv' /\ Exclusive' /\ Len(pool') <= Limit
  BY DEF IInv, Distinct, LentInv, Exclusive, InPool
<1>3. OutInv' /\ WornInv'
  <2>1. \A c \in Conns : ~InPool(c) => ~inUse[c] /\ useCount[c] = 0 /\ Closed(c)'
    BY DEF IInv, OutInv
  <2> QED BY <1>1, <2>1 DEF IInv, OutInv, WornInv, Closed, InPool
<1> QED BY <1>2, <1>3 DEF IInv

\* A request starts a statement or executes it, and the database goes, comes
\* or loses a session.
LEMMA RequestsKeep ==
  ASSUME IInv,
         \/ \E r \in Readers : Execute(r) \/ Use(r)
         \/ Outage \/ Recovery \/ \E c \in Conns : Break(c)
  PROVE  IInv'
<1>1. /\ session \in [Conns -> {"open", "dead", "closed"}]
      /\ rpc \in [Readers -> {"idle", "get", "use"}]
      /\ tries \in [Readers -> 0..Attempts] /\ outages \in 0..MaxOutages
  BY Types
<1>2. ASSUME NEW r \in Readers, Execute(r) PROVE IInv'
  <2>1. UNCHANGED <<pool, inUse, useCount, session, timer, transaction, db, outages>>
    BY <1>2 DEF Execute, poolVars
  <2>2. /\ rpc' \in [Readers -> {"idle", "get", "use"}]
        /\ tries' \in [Readers -> 0..Attempts] /\ tries'[r] = 0
        /\ \A s \in Readers : s # r => tries'[s] = tries[s] /\ rpc'[s] = rpc[s]
    BY <1>1, <1>2 DEF Execute
  <2>3. TypeOK' /\ TryInv'
    BY <2>1, <2>2 DEF IInv, TypeOK, TryInv
  <2> QED BY <2>1, <2>3, PoolAlone DEF Closed
<1>3. ASSUME NEW r \in Readers, Use(r) PROVE IInv'
  <2>1. UNCHANGED <<pool, inUse, useCount, timer, transaction, tries, db, outages>>
    BY <1>3 DEF Use, poolVars
  <2>2. /\ rpc' \in [Readers -> {"idle", "get", "use"}] /\ rpc'[r] = "idle"
        /\ \A s \in Readers : s # r => rpc'[s] = rpc[s]
    BY <1>1, <1>3 DEF Use
  <2>3. /\ session' \in [Conns -> {"open", "dead", "closed"}]
        /\ \A c \in Conns : session[c] = "closed" => session'[c] = "closed"
    BY <1>1, <1>3 DEF Use
  <2>4. TypeOK' /\ TryInv'
    BY <2>1, <2>2, <2>3 DEF IInv, TypeOK, TryInv
  <2> QED BY <2>1, <2>3, <2>4, PoolAlone DEF Closed
<1>4. ASSUME Outage \/ Recovery PROVE IInv'
  <2>1. UNCHANGED <<pool, inUse, useCount, session, timer, transaction, rpc, tries>>
    BY <1>4 DEF Outage, GoDown, Recovery, poolVars, readerVars
  <2>2. db' \in BOOLEAN /\ outages' \in 0..MaxOutages
    <3>1. CASE Outage
      <4>1. outages < MaxOutages /\ outages' = outages + 1
        BY <3>1 DEF Outage, GoDown
      <4>2. db' = FALSE
        BY <3>1 DEF Outage, GoDown
      <4>3. outages' \in 0..MaxOutages
        BY <1>1, <4>1
      <4> QED BY <4>2, <4>3
    <3>2. CASE Recovery
      BY <1>1, <3>2 DEF Recovery
    <3> QED BY <1>4, <3>1, <3>2
  <2>3. TypeOK' /\ TryInv'
    BY <2>1, <2>2 DEF IInv, TypeOK, TryInv
  <2> QED BY <2>1, <2>3, PoolAlone DEF Closed
<1>5. ASSUME NEW c \in Conns, Break(c) PROVE IInv'
  <2>1. UNCHANGED <<pool, inUse, useCount, timer, transaction, rpc, tries, db>>
    BY <1>5 DEF Break, poolVars, readerVars
  <2>2. /\ session' \in [Conns -> {"open", "dead", "closed"}] /\ outages' \in 0..MaxOutages
        /\ \A d \in Conns : session[d] = "closed" => session'[d] = "closed"
    BY <1>1, <1>5 DEF Break
  <2>3. TypeOK' /\ TryInv'
    BY <2>1, <2>2 DEF IInv, TypeOK, TryInv
  <2> QED BY <2>1, <2>2, <2>3, PoolAlone DEF Closed
<1> QED BY <1>2, <1>3, <1>4, <1>5

\* A request gives its connection back.
LEMMA CloseKeeps ==
  ASSUME IInv, NEW r \in Readers, CloseReader(r)
  PROVE  IInv'
<1>1. PICK c : c = transaction[r]
  OBVIOUS
<1>2. /\ c # Null /\ transaction' = [transaction EXCEPT ![r] = Null]
      /\ UNCHANGED <<timer, rpc, tries, db, outages>>
  BY <1>1 DEF CloseReader
<1>3. /\ pool \in Seq(Conns)
      /\ inUse \in [Conns -> BOOLEAN] /\ useCount \in [Conns -> Nat]
      /\ session \in [Conns -> {"open", "dead", "closed"}]
      /\ transaction \in [Readers -> Conns \cup {Null}]
      /\ \A d : InPool(d) => d \in Conns
  BY Types
<1>4. c \in Conns
  BY <1>1, <1>2, <1>3
<1>5. /\ transaction' \in [Readers -> Conns \cup {Null}] /\ transaction'[r] = Null
      /\ \A s \in Readers : s # r => transaction'[s] = transaction[s] /\ transaction[s] # c
  BY <1>1, <1>2, <1>3 DEF IInv, Exclusive
<1>6. TryInv' /\ Exclusive'
  BY <1>2, <1>5 DEF IInv, TryInv, Exclusive
<1>7. ASSUME NEW d, NEW s \in Readers, d = transaction'[s], d # Null
      PROVE  d = transaction[s] /\ d # c /\ (InPool(d) => d \in Conns /\ inUse[d])
  BY <1>3, <1>5, <1>7 DEF IInv, LentInv
<1>8. CASE /\ InPool(c) /\ WornOut(c)
           /\ pool' = Without({c})
           /\ session' = [session EXCEPT ![c] = "closed"]
           /\ inUse' = Dropped(inUse, {c}, FALSE)
           /\ useCount' = Dropped(useCount, {c}, 0)
  <2>1. /\ pool' \in Seq(Conns) /\ Len(pool') <= Len(pool) /\ Distinct'
        /\ \A d : InPool(d)' <=> InPool(d) /\ d # c
    <3>1. /\ pool' \in Seq(Conns) /\ Len(pool') <= Len(pool) /\ Distinct'
          /\ \A d : InPool(d)' <=> InPool(d) /\ d \notin {c}
      <4>1. PICK S, W : S = {c} /\ W = Without(S)
        OBVIOUS
      <4>2. /\ W \in Seq(Conns) /\ Len(W) <= Len(pool)
            /\ \A i, j \in DOMAIN W : W[i] = W[j] => i = j
            /\ \A d : (\E i \in DOMAIN W : W[i] = d) <=> InPool(d) /\ d \notin S
        <5>1. /\ Without(S) \in Seq(Conns) /\ Len(Without(S)) <= Len(pool)
              /\ \A i, j \in DOMAIN Without(S) : Without(S)[i] = Without(S)[j] => i = j
              /\ \A d : (\E i \in DOMAIN Without(S) : Without(S)[i] = d) <=> InPool(d) /\ d \notin S
          BY WithoutHas
        <5> QED BY <4>1, <5>1, Zenon
      <4>3. pool' = W
        BY <1>8, <4>1
      <4>4. \A d : InPool(d)' <=> InPool(d) /\ d \notin {c}
        <5>1. \A d : InPool(d)' <=> \E i \in DOMAIN W : W[i] = d
          BY <4>3 DEF InPool
        <5>2. \A d : d \notin S <=> d \notin {c}
          BY <4>1
        <5> QED BY <4>2, <5>1, <5>2, Zenon
      <4>5. Distinct'
        BY <4>2, <4>3, Zenon DEF Distinct
      <4> QED BY <4>2, <4>3, <4>4, <4>5
    <3> QED BY <3>1
  <2>2. /\ inUse' \in [Conns -> BOOLEAN] /\ ~inUse'[c]
        /\ \A d \in Conns : d # c => inUse'[d] = inUse[d]
    BY <1>3, <1>4, <1>8 DEF Dropped
  <2>3. /\ useCount' \in [Conns -> Nat] /\ useCount'[c] = 0
        /\ \A d \in Conns : d # c => useCount'[d] = useCount[d]
    BY <1>3, <1>4, <1>8 DEF Dropped
  <2>4. /\ session' \in [Conns -> {"open", "dead", "closed"}] /\ session'[c] = "closed"
        /\ \A d \in Conns : d # c => session'[d] = session[d]
    BY <1>3, <1>4, <1>8
  <2>5. TypeOK'
    BY <1>2, <1>5, <2>1, <2>2, <2>3, <2>4 DEF IInv, TypeOK
  <2>6. LentInv'
    <3>1. ASSUME NEW s \in Readers, NEW d, d = transaction'[s], d # Null, InPool(d)'
          PROVE  inUse'[d]
      BY <1>7, <2>1, <2>2, <3>1
    <3> QED BY <3>1 DEF LentInv, InPool
  <2>7. OutInv'
    <3>1. ASSUME NEW d \in Conns, ~InPool(d)' PROVE ~inUse'[d] /\ useCount'[d] = 0 /\ Closed(d)'
      BY <2>1, <2>2, <2>3, <2>4, <3>1 DEF IInv, OutInv, Closed
    <3> QED BY <3>1 DEF OutInv, Closed, InPool
  <2>8. WornInv'
    <3>1. ASSUME NEW d \in Conns
          PROVE  useCount'[d] <= UseCount /\ (InPool(d)' /\ ~inUse'[d] => useCount'[d] < UseCount)
      <4>1. CASE d = c
        BY <2>1, <2>3, <4>1
      <4>2. CASE d # c
        BY <2>1, <2>2, <2>3, <4>2 DEF IInv, WornInv
      <4> QED BY <4>1, <4>2
    <3> QED BY <3>1 DEF WornInv, InPool
  <2>9. Len(pool') <= Limit
    BY <1>3, <2>1 DEF IInv
  <2> QED BY <1>6, <2>1, <2>5, <2>6, <2>7, <2>8, <2>9 DEF IInv
<1>9. CASE /\ InPool(c) /\ ~WornOut(c)
           /\ inUse' = [inUse EXCEPT ![c] = FALSE]
           /\ UNCHANGED <<pool, session, useCount>>
  <2>1. \A d : InPool(d)' <=> InPool(d)
    BY <1>9 DEF InPool
  <2>2. /\ inUse' \in [Conns -> BOOLEAN] /\ ~inUse'[c]
        /\ \A d \in Conns : d # c => inUse'[d] = inUse[d]
    BY <1>3, <1>4, <1>9
  <2>3. TypeOK'
    BY <1>2, <1>5, <1>9, <2>2 DEF IInv, TypeOK
  <2>4. LentInv'
    <3>1. ASSUME NEW s \in Readers, NEW d, d = transaction'[s], d # Null, InPool(d)'
          PROVE  inUse'[d]
      BY <1>7, <2>1, <2>2, <3>1
    <3> QED BY <3>1 DEF LentInv, InPool
  <2>5. OutInv'
    <3>1. ASSUME NEW d \in Conns, ~InPool(d)' PROVE ~inUse'[d] /\ useCount'[d] = 0 /\ Closed(d)'
      BY <1>9, <2>1, <2>2, <3>1 DEF IInv, OutInv, Closed
    <3> QED BY <3>1 DEF OutInv, Closed, InPool
  <2>6. WornInv'
    <3>1. ASSUME NEW d \in Conns
          PROVE  useCount'[d] <= UseCount /\ (InPool(d)' /\ ~inUse'[d] => useCount'[d] < UseCount)
      <4>1. CASE d = c
        BY <1>3, <1>9, <4>1 DEF IInv, WornInv, WornOut
      <4>2. CASE d # c
        BY <1>9, <2>1, <2>2, <4>2 DEF IInv, WornInv
      <4> QED BY <4>1, <4>2
    <3> QED BY <3>1 DEF WornInv, InPool
  <2>7. Distinct' /\ Len(pool') <= Limit
    BY <1>9 DEF IInv, Distinct
  <2> QED BY <1>6, <2>3, <2>4, <2>5, <2>6, <2>7 DEF IInv
<1>10. CASE ~InPool(c) /\ UNCHANGED <<pool, inUse, useCount, session>>
  <2>1. TypeOK'
    BY <1>2, <1>5, <1>10 DEF IInv, TypeOK
  <2>2. LentInv'
    <3>1. ASSUME NEW s \in Readers, NEW d, d = transaction'[s], d # Null, InPool(d)'
          PROVE  inUse'[d]
      BY <1>7, <1>10, <3>1 DEF InPool
    <3> QED BY <3>1 DEF LentInv, InPool
  <2>3. OutInv' /\ WornInv' /\ Distinct' /\ Len(pool') <= Limit
    BY <1>10 DEF IInv, OutInv, WornInv, Distinct, Closed, InPool
  <2> QED BY <1>6, <2>1, <2>2, <2>3 DEF IInv
<1> QED BY <1>1, <1>8, <1>9, <1>10 DEF CloseReader, poolVars

\* A list after another.
LEMMA ConcatHas ==
  ASSUME NEW S, NEW a \in Seq(S), NEW b \in Seq(S)
  PROVE  /\ a \o b \in Seq(S) /\ Len(a \o b) = Len(a) + Len(b)
         /\ DOMAIN (a \o b) = 1..(Len(a) + Len(b)) /\ DOMAIN a = 1..Len(a)
         /\ \A i \in 1..(Len(a) + Len(b)) :
              (a \o b)[i] = IF i <= Len(a) THEN a[i] ELSE b[i - Len(a)]
  OBVIOUS

\* The timer removes and refills.
LEMMA TimerKeeps ==
  ASSUME IInv, TimerEvent
  PROVE  IInv'
<1>1. PICK old \in SUBSET Conns, made \in 0..Size :
        LET gone == old \cup {c \in Conns : InPool(c) /\ Closed(c)}
            rest == Without(gone) IN
        /\ Expired(old)
        /\ Refill(Len(rest), made)
        /\ pool' = rest \o Ranked(FirstFresh(made))
        /\ RemoveFromPool(gone, FirstFresh(made))
        /\ inUse' = Dropped(inUse, gone, FALSE)
        /\ useCount' = Dropped(useCount, gone, 0)
  BY Zenon DEF TimerEvent
<1> DEFINE gone == old \cup {c \in Conns : InPool(c) /\ Closed(c)}
           rest == Without(gone)
           new  == FirstFresh(made)
           more == Ranked(new)
<1>2. /\ Expired(old) /\ pool' = rest \o more /\ RemoveFromPool(gone, new)
      /\ inUse' = Dropped(inUse, gone, FALSE) /\ useCount' = Dropped(useCount, gone, 0)
      /\ UNCHANGED <<timer, transaction, rpc, tries>>
  BY <1>1 DEF TimerEvent, readerVars
<1>23. Refill(Len(rest), made)
  BY <1>1
<1>3. /\ pool \in Seq(Conns) /\ inUse \in [Conns -> BOOLEAN] /\ useCount \in [Conns -> Nat]
      /\ session \in [Conns -> {"open", "dead", "closed"}]
      /\ transaction \in [Readers -> Conns \cup {Null}]
      /\ \A d : InPool(d) => d \in Conns
  BY Types
<1>4. \A d \in gone : InPool(d) /\ (~inUse[d] \/ Closed(d))
  BY <1>2 DEF Expired
<1>5. /\ rest \in Seq(Conns) /\ Len(rest) <= Len(pool)
      /\ \A i, j \in DOMAIN rest : rest[i] = rest[j] => i = j
      /\ \A c : (\E i \in DOMAIN rest : rest[i] = c) <=> InPool(c) /\ c \notin gone
  BY WithoutHas
<1>6. Len(rest) \in Nat /\ Len(pool) \in Nat /\ Len(rest) <= Limit
  BY <1>3, <1>5 DEF IInv
<1> HIDE DEF gone, rest
<1>7. /\ new \subseteq Fresh /\ new \in SUBSET Nat /\ IsFiniteSet(new)
      /\ Len(rest) + Cardinality(new) <= Limit /\ Cardinality(new) \in Nat
  <2>1. made \in Nat /\ (made <= Size - Len(rest) \/ made = 0)
    BY <1>6, <1>23 DEF Refill
  <2>2. /\ new \subseteq Fresh /\ new \in SUBSET Nat /\ IsFiniteSet(new)
        /\ Cardinality(new) <= made
    BY <2>1, FirstFreshBound
  <2>3. Cardinality(new) \in Nat
    BY <2>2, FS_CardinalityType
  <2> QED BY <1>6, <2>1, <2>2, <2>3
<1>8. new \subseteq Conns /\ \A c \in new : ~InPool(c) /\ \A s \in Readers : transaction[s] # c
  BY <1>7 DEF Fresh
<1> DEFINE N == Cardinality(new)
<1>9. /\ N \in Nat /\ DOMAIN more = 1..N
      /\ \A k \in 1..N : more[k] \in new
      /\ \A k, l \in 1..N : more[k] = more[l] => k = l
      /\ \A i \in new : \E k \in 1..N : more[k] = i
  BY <1>7, RankedLists
<1>10. more \in Seq(Conns) /\ Len(more) = N
  <2>1. more \in [1..N -> new]
    BY <1>7, RankedLists
  <2> HIDE DEF more, N, new
  <2> QED BY <1>8, <1>9, <2>1
<1> HIDE DEF more, N, new
<1>11. /\ pool' \in Seq(Conns) /\ Len(pool') = Len(rest) + N
       /\ DOMAIN pool' = 1..(Len(rest) + N) /\ DOMAIN rest = 1..Len(rest)
       /\ \A i \in 1..(Len(rest) + N) :
            pool'[i] = IF i <= Len(rest) THEN rest[i] ELSE more[i - Len(rest)]
  <2>1. pool' = rest \o more
    BY <1>2
  <2>2. rest \in Seq(Conns) /\ more \in Seq(Conns) /\ Len(more) = N
    BY <1>5, <1>10
  <2>3. /\ rest \o more \in Seq(Conns) /\ Len(rest \o more) = Len(rest) + N
        /\ DOMAIN (rest \o more) = 1..(Len(rest) + N) /\ DOMAIN rest = 1..Len(rest)
        /\ \A i \in 1..(Len(rest) + N) :
             (rest \o more)[i] = IF i <= Len(rest) THEN rest[i] ELSE more[i - Len(rest)]
    BY <2>2, ConcatHas
  <2> QED BY <2>1, <2>3
<1>12. \A d : InPool(d)' <=> (InPool(d) /\ d \notin gone) \/ d \in new
  <2>1. ASSUME NEW i \in DOMAIN pool', NEW d, d = pool'[i]
        PROVE  (InPool(d) /\ d \notin gone) \/ d \in new
    <3>1. CASE i <= Len(rest)
      BY <1>5, <1>6, <1>11, <2>1, <3>1
    <3>2. CASE ~(i <= Len(rest))
      <4>1. i - Len(rest) \in 1..N
        BY <1>6, <1>9, <1>11, <2>1, <3>2
      <4> QED BY <1>9, <1>11, <2>1, <3>2, <4>1
    <3> QED BY <3>1, <3>2
  <2>2. ASSUME NEW d, InPool(d), d \notin gone PROVE \E i \in DOMAIN pool' : pool'[i] = d
    <3>1. PICK i \in DOMAIN rest : rest[i] = d
      BY <1>5, <2>2
    <3>2. i \in DOMAIN pool' /\ i <= Len(rest)
      BY <1>6, <1>9, <1>11
    <3> QED BY <1>11, <3>1, <3>2
  <2>3. ASSUME NEW d \in new PROVE \E i \in DOMAIN pool' : pool'[i] = d
    <3>1. PICK k \in 1..N : more[k] = d
      BY <1>9
    <3>2. Len(rest) + k \in DOMAIN pool' /\ ~(Len(rest) + k <= Len(rest)) /\ (Len(rest) + k) - Len(rest) = k
      BY <1>6, <1>9, <1>11
    <3> QED BY <1>11, <3>1, <3>2
  <2> QED BY <2>1, <2>2, <2>3 DEF InPool
<1>13. Distinct'
  <2>1. ASSUME NEW i \in DOMAIN pool', NEW j \in DOMAIN pool', pool'[i] = pool'[j]
        PROVE  i = j
    <3>1. i \in 1..(Len(rest) + N) /\ j \in 1..(Len(rest) + N)
      BY <1>11
    <3>2. \A k \in 1..(Len(rest) + N) : k <= Len(rest) => k \in DOMAIN rest /\ pool'[k] = rest[k]
      BY <1>6, <1>9, <1>11
    <3>3. \A k \in 1..(Len(rest) + N) :
            ~(k <= Len(rest)) => k - Len(rest) \in 1..N /\ pool'[k] = more[k - Len(rest)]
      BY <1>6, <1>9, <1>11
    <3>4. \A k \in 1..(Len(rest) + N) : (k <= Len(rest)) <=> InPool(pool'[k])
      BY <1>5, <1>8, <1>9, <3>2, <3>3
    <3>5. CASE i <= Len(rest) /\ j <= Len(rest)
      BY <1>5, <2>1, <3>1, <3>2, <3>5
    <3>6. CASE ~(i <= Len(rest)) /\ ~(j <= Len(rest))
      <4>1. i - Len(rest) = j - Len(rest)
        BY <1>9, <2>1, <3>1, <3>3, <3>6
      <4> QED BY <1>6, <1>9, <3>1, <4>1
    <3> QED BY <2>1, <3>1, <3>4, <3>5, <3>6
  <2> QED BY <2>1 DEF Distinct
<1>14. Len(pool') <= Limit
  BY <1>7, <1>11 DEF N
<1>15. /\ inUse' \in [Conns -> BOOLEAN]
       /\ \A d \in Conns : d \in gone => ~inUse'[d]
       /\ \A d \in Conns : d \notin gone => inUse'[d] = inUse[d]
  BY <1>2, <1>3 DEF Dropped
<1>16. /\ useCount' \in [Conns -> Nat]
       /\ \A d \in Conns : d \in gone => useCount'[d] = 0
       /\ \A d \in Conns : d \notin gone => useCount'[d] = useCount[d]
  BY <1>2, <1>3 DEF Dropped
<1>17. /\ session' \in [Conns -> {"open", "dead", "closed"}]
       /\ \A d \in Conns : d \notin new =>
            session'[d] = IF d \in gone THEN "closed" ELSE session[d]
  BY <1>2, <1>3 DEF RemoveFromPool
<1>18. TypeOK'
  <2>1. db' \in BOOLEAN /\ outages' \in 0..MaxOutages
    <3>1. db \in BOOLEAN /\ outages \in 0..MaxOutages
      BY DEF IInv, TypeOK
    <3>2. UNCHANGED <<db, outages>> \/ GoDown
      BY <1>23 DEF Refill
    <3>3. CASE GoDown
      <4>1. db' = FALSE
        BY <3>3 DEF GoDown
      <4>2. outages' \in 0..MaxOutages
        BY <3>1, <3>3 DEF GoDown
      <4> QED BY <4>1, <4>2
    <3> QED BY <3>1, <3>2, <3>3
  <2> QED BY <1>2, <1>11, <1>15, <1>16, <1>17, <2>1 DEF IInv, TypeOK
<1>19. TryInv' /\ Exclusive'
  BY <1>2 DEF IInv, TryInv, Exclusive
<1>20. LentInv'
  <2>1. ASSUME NEW s \in Readers, NEW d, d = transaction[s], d # Null, InPool(d)'
        PROVE  inUse'[d]
    <3>1. InPool(d) /\ d \notin gone /\ d \in Conns
      BY <1>3, <1>8, <1>12, <2>1
    <3> QED BY <1>15, <2>1, <3>1 DEF IInv, LentInv
  <2> QED BY <1>2, <2>1 DEF LentInv, InPool
<1>21. OutInv'
  <2>1. ASSUME NEW d \in Conns, ~InPool(d)' PROVE ~inUse'[d] /\ useCount'[d] = 0 /\ Closed(d)'
    <3>1. d \notin new /\ (d \in gone \/ ~InPool(d))
      BY <1>12, <2>1
    <3>2. CASE d \in gone
      BY <1>15, <1>16, <1>17, <3>1, <3>2 DEF Closed
    <3>3. CASE d \notin gone
      BY <1>15, <1>16, <1>17, <3>1, <3>3 DEF Closed, IInv, OutInv
    <3> QED BY <3>2, <3>3
  <2> QED BY <2>1 DEF OutInv, Closed, InPool
<1>22. WornInv'
  <2>1. ASSUME NEW d \in Conns
        PROVE  useCount'[d] <= UseCount /\ (InPool(d)' /\ ~inUse'[d] => useCount'[d] < UseCount)
    <3>1. CASE d \in gone
      BY <1>16, <3>1
    <3>2. CASE d \notin gone /\ InPool(d)
      BY <1>15, <1>16, <3>2 DEF IInv, WornInv
    <3>3. CASE d \notin gone /\ ~InPool(d)
      BY <1>16, <3>3 DEF IInv, OutInv
    <3> QED BY <3>1, <3>2, <3>3
  <2> QED BY <2>1 DEF WornInv, InPool
<1> QED BY <1>13, <1>14, <1>18, <1>19, <1>20, <1>21, <1>22 DEF IInv
-----------------------------------------------------------------------------
(* The theorems.                                                           *)

\* The pool as createPool leaves it, filled or not.
LEMMA InitIInv == Init => IInv
<1> SUFFICES ASSUME Init PROVE IInv
  OBVIOUS
<1>1. Size \in Conns /\ 1..Size \subseteq Conns
  <2>1. Cardinality(Readers) \in Nat
    BY FS_CardinalityType
  <2>2. Size <= Objects
    BY <2>1
  <2> QED BY <2>2 DEF Conns
<1>2. PICK n \in 0..Size :
        /\ pool = [i \in 1..n |-> i]
        /\ session = [c \in Conns |-> IF c <= n THEN "open" ELSE "closed"]
        /\ db = (n = Size)
  BY DEF Init
<1>3. /\ inUse = [c \in Conns |-> FALSE] /\ useCount = [c \in Conns |-> 0]
      /\ transaction = [r \in Readers |-> Null] /\ rpc = [r \in Readers |-> "idle"]
      /\ tries = [r \in Readers |-> 0]
  BY DEF Init
<1>4. db \in BOOLEAN /\ timer \in BOOLEAN /\ outages \in 0..MaxOutages
  BY <1>2 DEF Init
<1>5. session \in [Conns -> {"open", "dead", "closed"}]
  BY <1>2
<1>6. /\ pool \in Seq(Conns) /\ Distinct /\ Len(pool) <= Limit
      /\ \A c \in Conns : ~InPool(c) => session[c] = "closed"
  <2>1. n \in Nat /\ n <= Limit /\ 1..n \subseteq Conns
    BY <1>1, <1>2
  <2>2. pool \in Seq(Conns) /\ Len(pool) = n /\ DOMAIN pool = 1..n
    BY <1>2, <2>1
  <2>3. \A i \in 1..n : pool[i] = i
    BY <1>2
  <2>4. Distinct
    BY <2>2, <2>3 DEF Distinct
  <2>5. \A c \in Conns : c <= n => InPool(c)
    BY <2>1, <2>2, <2>3 DEF Conns, InPool
  <2> QED BY <1>2, <2>1, <2>2, <2>4, <2>5
<1>7. TypeOK
  BY <1>3, <1>4, <1>5, <1>6 DEF TypeOK
<1>8. LentInv /\ TryInv /\ Exclusive
  BY <1>3 DEF LentInv, TryInv, Exclusive
<1>9. OutInv /\ WornInv
  BY <1>3, <1>6 DEF OutInv, WornInv, Closed
<1> QED BY <1>6, <1>7, <1>8, <1>9 DEF IInv

\* Every step keeps the invariant.
LEMMA NextIInv == IInv /\ [Next]_vars => IInv'
<1> SUFFICES ASSUME IInv, [Next]_vars PROVE IInv'
  OBVIOUS
<1>1. ASSUME NEW r \in Readers,
             GetFound(r) \/ GetAdded(r) \/ GetNull(r)
             \/ Execute(r) \/ Use(r) \/ CloseReader(r)
      PROVE  IInv'
  BY <1>1, GetFoundKeeps, GetAddedKeeps, GetNullKeeps, RequestsKeep, CloseKeeps
<1>2. CASE TimerEvent
  BY <1>2, TimerKeeps
<1>3. CASE Outage \/ Recovery \/ \E c \in Conns : Break(c)
  BY <1>3, RequestsKeep
<1>4. CASE UNCHANGED vars
  <2>1. /\ UNCHANGED <<pool, inUse, useCount, session, timer>>
        /\ UNCHANGED <<transaction, rpc, tries, db, outages>>
    BY <1>4 DEF vars, poolVars, readerVars
  <2>2. TypeOK' /\ TryInv'
    BY <2>1 DEF IInv, TypeOK, TryInv
  <2> QED BY <2>1, <2>2, PoolAlone DEF Closed
<1> QED BY <1>1, <1>2, <1>3, <1>4 DEF Next

\* The invariant holds in every reachable state.
THEOREM PoolInvariant == Spec => []IInv
  BY InitIInv, NextIInv, PTL DEF Spec

\* No connection is lent to two requests, ConnectionPoolMax bounds the sessions
\* with the database and ConnectionUseCount the uses of each of them.
THEOREM ConnectionsAreSound == Spec => []ConnectionsInv
<1>1. IInv => ConnectionsInv
  <2> SUFFICES ASSUME IInv PROVE ConnectionsInv
    OBVIOUS
  <2>1. \A c \in Conns : session[c] \in {"open", "dead"} => InPool(c)
    BY DEF IInv, OutInv, Closed
  <2>2. UseBounded
    BY DEF IInv, WornInv, UseBounded
  <2> QED BY <2>1, <2>2 DEF ConnectionsInv, SessionsBounded, IInv
<1> QED BY <1>1, PoolInvariant, PTL

\* What one step does to the session of a connection that its holder keeps.
Pulls(r) ==
  LET c == transaction[r] IN
  c # Null /\ transaction'[r] = c /\ session[c] = "open" /\ session'[c] = "closed"

\* No step closes it: what the timer removes is not in use or closed already,
\* and another request that gives a connection back gives back another one.
LEMMA StepNeverPulls ==
  ASSUME IInv, [Next]_vars, NEW r \in Readers
  PROVE  ~Pulls(r)
<1> SUFFICES ASSUME NEW c, c = transaction[r], c # Null, transaction'[r] = c,
                    session[c] = "open", session'[c] = "closed"
             PROVE  FALSE
  BY DEF Pulls
<1>1. /\ transaction \in [Readers -> Conns \cup {Null}] /\ c \in Conns
      /\ session \in [Conns -> {"open", "dead", "closed"}]
  BY Types
<1>2. InPool(c) /\ inUse[c]
  BY <1>1 DEF IInv, OutInv, LentInv, Closed
<1>3. session' # session
  BY <1>1
<1>4. ASSUME NEW s \in Readers, GetAdded(s) PROVE FALSE
  <2>1. PICK d : session' = [session EXCEPT ![d] = "open"]
    BY <1>4 DEF GetAdded
  <2> QED BY <1>1, <2>1
<1>5. ASSUME NEW s \in Readers, Use(s) PROVE FALSE
  <2>1. PICK d : d = transaction[s]
    OBVIOUS
  <2>2. session' = [session EXCEPT ![d] = IF @ = "dead" THEN "closed" ELSE @]
    BY <1>5, <2>1 DEF Use
  <2> QED BY <1>1, <2>2
<1>6. ASSUME NEW s \in Readers, CloseReader(s) PROVE FALSE
  <2>1. PICK d : d = transaction[s]
    OBVIOUS
  <2>2. /\ d # Null /\ transaction' = [transaction EXCEPT ![s] = Null]
        /\ session' = [session EXCEPT ![d] = "closed"] \/ session' = session
    BY <1>6, <2>1 DEF CloseReader, poolVars
  <2>3. s # r
    BY <1>1, <2>2
  <2>4. d # c
    BY <2>1, <2>3 DEF IInv, Exclusive
  <2> QED BY <1>1, <1>3, <2>2, <2>4
<1>7. CASE TimerEvent
  <2>1. PICK old \in SUBSET Conns, k \in 0..Size :
          LET gone == old \cup {d \in Conns : InPool(d) /\ Closed(d)} IN
          Expired(old) /\ RemoveFromPool(gone, FirstFresh(k))
    BY <1>7, Zenon DEF TimerEvent
  <2>2. c \notin old
    BY <1>2, <2>1 DEF Expired
  <2>3. PICK new, gone : /\ gone = old \cup {d \in Conns : InPool(d) /\ Closed(d)}
                         /\ RemoveFromPool(gone, new)
    BY <2>1
  <2>4. c \notin gone
    BY <2>2, <2>3 DEF Closed
  <2>5. session'[c] = IF c \in new THEN "open" ELSE session[c]
    BY <1>1, <2>3, <2>4 DEF RemoveFromPool
  <2> QED BY <2>5
<1>8. ASSUME NEW d, Break(d) PROVE FALSE
  BY <1>1, <1>8 DEF Break
<1>9. ASSUME NEW s \in Readers, GetFound(s) \/ GetNull(s) \/ Execute(s) PROVE FALSE
  BY <1>3, <1>9 DEF GetFound, GetNull, Execute
<1>10. CASE Outage \/ Recovery \/ UNCHANGED vars
  BY <1>3, <1>10 DEF Outage, Recovery, vars
<1> QED BY <1>4, <1>5, <1>6, <1>7, <1>8, <1>9, <1>10 DEF Next

\* Neither the timer nor another request closes a connection under the request
\* that holds it.
THEOREM NobodyPulls == Spec => NeverPulled
<1>1. IInv /\ [Next]_vars =>
        [\A r \in Readers :
           LET c == transaction[r] IN
           c # Null /\ transaction'[r] = c /\ session[c] = "open" =>
             session'[c] # "closed"]_vars
  BY StepNeverPulls DEF Pulls
<1> QED BY <1>1, PoolInvariant, PTL DEF Spec, NeverPulled

\* A loop that removes nothing has looked at every connection of the pool: the
\* first closed one is looked at, for the one before it is not closed.
LEMMA NothingSkipped ==
  ASSUME IInv, Found = {}, Swept = {}, NEW i \in DOMAIN pool
  PROVE  inUse[pool[i]]
<1> DEFINE Z == {j \in DOMAIN pool : Closed(pool[j])}
<1>1. DOMAIN pool = 1..Len(pool) /\ Len(pool) \in Nat /\ pool[i] \in Conns
  BY DEF IInv, TypeOK
<1>2. ASSUME NEW j \in DOMAIN pool, \A k \in Z : ~(k < j) PROVE j \in Visited
  <2>1. j \in 1..Len(pool)
    BY <1>1
  <2>2. j = 1 \/ ~Closed(pool[j - 1])
    <3>1. CASE j # 1
      <4>1. j - 1 \in 1..Len(pool) /\ j - 1 < j
        BY <1>1, <2>1, <3>1
      <4> QED BY <1>1, <1>2, <4>1
    <3> QED BY <3>1
  <2>3. 0 \in 0..(j - 1) /\ 0 % 2 = 0 /\ j - 0 = j /\ (j - 0)..(j - 1) = {}
    BY <1>1, <2>1
  <2>4. \A k \in (j - 0)..(j - 1) : Closed(pool[k])
    BY <2>3
  <2>5. j - 0 = 1 \/ ~Closed(pool[j - 0 - 1])
    BY <2>2, <2>3
  <2>6. \E n \in 0..(j - 1) : /\ n % 2 = 0
                              /\ \A k \in (j - n)..(j - 1) : Closed(pool[k])
                              /\ j - n = 1 \/ ~Closed(pool[j - n - 1])
    BY <2>3, <2>4, <2>5, Zenon
  <2> QED BY <2>6, Zenon DEF Visited
<1>3. Z = {}
  <2> SUFFICES ASSUME Z # {} PROVE FALSE
    OBVIOUS
  <2>1. Z \in SUBSET Nat
    BY <1>1
  <2>2. IsWellFoundedOn(OpToRel(<, Nat), Nat)
    BY NatLessThanWellFounded
  <2>3. PICK x \in Z : \A y \in Z : ~(<<y, x>> \in OpToRel(<, Nat))
    BY <2>1, <2>2, WFMin, Zenon
  <2>4. \A y \in Z : ~(y < x)
    BY <2>1, <2>3 DEF OpToRel
  <2>5. x \in Visited /\ Closed(pool[x])
    BY <1>2, <2>4
  <2>6. pool[x] \in Swept
    BY <2>5 DEF Swept
  <2> QED BY <2>6
<1>4. i \in Visited
  BY <1>2, <1>3
<1>5. ~IsAvailable(pool[i]) /\ ~Closed(pool[i])
  BY <1>3, <1>4 DEF Found
<1> QED BY <1>5 DEF IsAvailable

\* A pool from which a connection was removed is shorter.
LEMMA SweptShortens ==
  ASSUME IInv, Swept # {}
  PROVE  Len(Without(Swept)) < Len(pool)
<1> DEFINE K == {i \in DOMAIN pool : pool[i] \notin Swept}
           N == Cardinality(K)
<1>1. DOMAIN pool = 1..Len(pool) /\ Len(pool) \in Nat
  BY DEF IInv, TypeOK
<1>2. PICK m \in Nat : m = Len(pool)
  BY <1>1
<1>3. IsFiniteSet(1..m) /\ Cardinality(1..m) = m
  BY FS_Interval
<1>4. K \in SUBSET (1..m) /\ K \in SUBSET Nat
  BY <1>1, <1>2
<1>5. IsFiniteSet(K) /\ N <= m /\ (m = N => 1..m = K)
  BY <1>3, <1>4, FS_Subset
<1>6. PICK c \in Swept : TRUE
  OBVIOUS
<1>7. PICK j \in DOMAIN pool : pool[j] = c
  BY <1>6, SweptClosed DEF InPool
<1>8. j \in 1..m /\ j \notin K
  BY <1>1, <1>2, <1>6, <1>7
<1>9. N \in Nat /\ DOMAIN Ranked(K) = 1..N
  BY <1>4, <1>5, RankedLists
<1>10. Without(Swept) = [k \in 1..N |-> pool[Ranked(K)[k]]]
  BY <1>9 DEF Without
<1> HIDE DEF N
<1>11. Without(Swept) \in Seq(Conns) /\ DOMAIN Without(Swept) = 1..N
  BY <1>10, WithoutHas
<1>12. Len(Without(Swept)) = N
  BY <1>9, <1>11
<1> HIDE DEF K
<1>13. N # m
  BY <1>5, <1>8
<1> QED BY <1>2, <1>5, <1>9, <1>12, <1>13

\* getConnection returns null only if the database refuses or the pool is at
\* its limit and every connection of it is lent, although the loop that looks
\* for one skips the neighbours of those it removes.
THEOREM RefusalsHaveCause == Spec => RefusedOnlyWhenFull
<1>1. ASSUME IInv, NEW r \in Readers, GetNull(r), db
      PROVE  Len(pool) = Limit /\ \A i \in DOMAIN pool : inUse[pool[i]]
  <2>1. Found = {} /\ Len(Without(Swept)) >= Limit
    BY <1>1 DEF GetNull
  <2>2. Len(pool) \in Nat /\ Len(pool) <= Limit
    BY <1>1 DEF IInv, TypeOK
  <2>3. Len(Without(Swept)) \in Nat /\ Len(Without(Swept)) <= Len(pool)
    BY <1>1, WithoutHas
  <2>4. Swept = {}
    BY <1>1, <2>1, <2>2, <2>3, SweptShortens
  <2>5. \A i \in DOMAIN pool : inUse[pool[i]]
    BY <1>1, <2>1, <2>4, NothingSkipped
  <2> QED BY <2>1, <2>2, <2>3, <2>5
<1>2. ASSUME IInv, [Next]_vars, NEW r \in Readers, tries'[r] > tries[r]
      PROVE  \E s \in Readers : GetNull(s)
  <2>1. tries \in [Readers -> 0..Attempts] /\ tries[r] \in Nat
    BY <1>2, Types
  <2>2. tries' # tries
    BY <1>2, <2>1
  <2>3. ASSUME NEW s \in Readers, Execute(s) PROVE FALSE
    <3>1. tries' = [tries EXCEPT ![s] = 0]
      BY <2>3 DEF Execute
    <3> QED BY <1>2, <2>1, <3>1
  <2>4. ASSUME NEW s \in Readers,
               GetFound(s) \/ GetAdded(s) \/ Use(s) \/ CloseReader(s)
        PROVE  FALSE
    BY <2>2, <2>4 DEF GetFound, GetAdded, HandOut, Use, CloseReader
  <2>5. ~(TimerEvent \/ Outage \/ Recovery \/ (\E c \in Conns : Break(c)))
    BY <2>2 DEF TimerEvent, Outage, Recovery, Break, readerVars
  <2>6. ~(UNCHANGED vars)
    BY <2>2 DEF vars, readerVars
  <2> QED BY <1>2, <2>3, <2>4, <2>5, <2>6 DEF Next
<1>3. ASSUME IInv, [Next]_vars
      PROVE  [\A r \in Readers : tries'[r] > tries[r] =>
                ~db \/ (Len(pool) = Limit /\ \A i \in DOMAIN pool : inUse[pool[i]])]_vars
  <2>1. ASSUME NEW r \in Readers, tries'[r] > tries[r], db
        PROVE  Len(pool) = Limit /\ \A i \in DOMAIN pool : inUse[pool[i]]
    <3>1. PICK s \in Readers : GetNull(s)
      BY <1>2, <1>3, <2>1
    <3> QED BY <1>1, <1>3, <2>1, <3>1
  <2> QED BY <2>1
<1> QED BY <1>3, PoolInvariant, PTL DEF Spec, RefusedOnlyWhenFull
=============================================================================
