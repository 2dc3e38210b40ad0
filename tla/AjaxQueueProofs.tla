--------------------------- MODULE AjaxQueueProofs ---------------------------
(***************************************************************************)
(* For any number of calls and any phases: unless the queue is restarted   *)
(* over a request in progress, every callback made by ajax.js is the one   *)
(* given for the request it is called with, and responses are reported in  *)
(* the order of the requests; and calls do not wait behind an idle request *)
(* object without one of the two known causes.                             *)
(*                                                                         *)
(* IInv is inductive.  Its heart is OwnerInv: the single set of callback   *)
(* fields belongs to the single request that can be in progress.  QueueInv *)
(* carries it through the start of a call (a call that waits has had no    *)
(* request), ObjectInv through the callback.                               *)
(***************************************************************************)
EXTENDS AjaxQueue, TLAPS

-----------------------------------------------------------------------------
\* Calls that wait have identifiers of their own and no request yet.
Fresh(q, k, r) ==
  /\ \A i \in DOMAIN q : q[i].id \in 1..k /\ r[q[i].id] = 0
  /\ \A i, j \in DOMAIN q : q[i].id = q[j].id => i = j

\* So has every call that is still to be made.
QueueInv ==
  /\ Fresh(queue, n, rs)
  /\ \A c \in Ids : c > n => rs[c] = 0

\* The fields are set once there is a request object, and a callback runs only
\* while there is one.
ObjectInv == (obj # 0 => cur \in Call) /\ (incb => obj # 0)

\* Unless a request was overrun, only that of the request object can be in
\* progress; while it is, or its callback runs, the fields are its own.
OwnerInv ==
  ~overrun =>
    /\ \A c \in Ids : Outstanding(c) => c = obj
    /\ (obj # 0 /\ (Outstanding(obj) \/ incb)) => cur.id = obj
    /\ incb => rs[obj] = 4

\* Unless a request was overrun, the requests sent are those reported and, at
\* the end, the one in progress.
OrderInv ==
  ~overrun =>
    /\ obj # 0 /\ Outstanding(obj) => /\ Len(started) = Len(log) + 1
                                      /\ started[Len(log) + 1] = obj
    /\ ~(obj # 0 /\ Outstanding(obj)) => Len(started) = Len(log)
    /\ \A i \in DOMAIN log : log[i].resp = started[i]

IInv ==
  /\ TypeOK /\ QueueInv /\ ObjectInv /\ OwnerInv /\ OrderInv
  /\ RightCaller /\ BacklogHasCause

USE CallsAssumption, PhasesAssumption

-----------------------------------------------------------------------------
\* What every operation on the queue leaves alone: the history of callbacks;
\* it makes at most one new call and does not begin a callback.
QueueOp ==
  /\ n' \in 0..MaxCalls /\ n <= n'
  /\ on' \in BOOLEAN
  /\ incb' \in BOOLEAN /\ (incb' => incb)
  /\ log' = log /\ partial' = partial

\* The request object given to Dequeue: the one there is, or none, and then
\* none is in progress and no callback runs any longer.
ObjectGiven(o) ==
  /\ o \in {obj, 0}
  /\ o = 0 => ~incb' /\ (~overrun => \A d \in Ids : ~Outstanding(d))

\* A call that is started has no request, and neither have those left waiting.
Startable(c, rest) ==
  /\ c \in Call /\ rest \in Seq(Call)
  /\ c.id \in 1..n' /\ rs[c.id] = 0
  /\ Fresh(rest, n', rs)
  /\ \A i \in DOMAIN rest : rest[i].id # c.id

\* _CallXMLHTTPObject keeps the invariant.
LEMMA StartCallKeeps ==
  ASSUME IInv, NEW c, NEW rest, NEW o, NEW com \in BOOLEAN,
         QueueOp, ObjectGiven(o), Startable(c, rest), StartCall(c, rest, o, com)
  PROVE  IInv'
<1>1. committed' \in BOOLEAN /\ overrun' \in BOOLEAN
  BY Zenon DEF StartCall
<1>2. c \in Call /\ c.id \in Ids /\ c.id # 0 /\ c.form \in Forms /\ o \in Ids \cup {0}
  BY DEF Startable, Call, Ids, IInv, TypeOK, ObjectGiven
<1>3. obj' = IF c.form = "bad" THEN o ELSE c.id
  BY DEF StartCall, GetNewRequestObject
<1>4. rs' = IF c.form = "good" THEN [rs EXCEPT ![c.id] = 1] ELSE rs
  BY DEF StartCall
<1>5. rs \in [Ids -> 0..4] /\ rs' \in [Ids -> 0..4]
  BY <1>2, <1>4 DEF IInv, TypeOK
<1>6. TypeOK'
  <2>1. started' \in Seq(Ids)
    BY <1>2 DEF StartCall, IInv, TypeOK
  <2>2. queue' \in Seq(Call) /\ cur' \in Call /\ obj' \in Ids \cup {0}
    BY <1>2, <1>3 DEF StartCall, Startable
  <2>3. log' \in Seq(Callback) /\ partial' \in Seq(Callback) /\ n' \in 0..MaxCalls /\ on' \in BOOLEAN /\ incb' \in BOOLEAN
    BY DEF QueueOp, IInv, TypeOK
  <2> QED BY <1>1, <1>5, <2>1, <2>2, <2>3 DEF TypeOK
<1>7. QueueInv'
  <2>1. \A i \in DOMAIN rest : rest[i].id \in 1..n' /\ rs'[rest[i].id] = 0
    BY <1>2, <1>4, <1>5 DEF Startable, Fresh, QueueOp, Ids
  <2>2. \A i, j \in DOMAIN rest : rest[i].id = rest[j].id => i = j
    BY DEF Startable, Fresh
  <2>3. \A d \in Ids : d > n' => rs'[d] = 0
    <3>1. TAKE d \in Ids
    <3>2. HAVE d > n'
    <3>3. d > n /\ d # c.id
      BY <3>2 DEF Startable, QueueOp, IInv, TypeOK, Ids
    <3>4. rs[d] = 0
      BY <3>3 DEF IInv, QueueInv
    <3> QED BY <1>2, <1>4, <1>5, <3>3, <3>4
  <2>4. queue' = rest
    BY DEF StartCall
  <2> QED BY <2>1, <2>2, <2>3, <2>4 DEF QueueInv, Fresh
<1>8. ObjectInv'
  BY <1>2, <1>3 DEF ObjectInv, IInv, StartCall, ObjectGiven, QueueOp
<1>9. OwnerInv'
  <2>1. SUFFICES ASSUME ~overrun'
                 PROVE  /\ \A d \in Ids : rs'[d] \in 1..3 => d = obj'
                        /\ (obj' # 0 /\ (rs'[obj'] \in 1..3 \/ incb')) => cur'.id = obj'
                        /\ incb' => rs'[obj'] = 4
    BY DEF OwnerInv, Outstanding
  <2>2. ~overrun /\ ~(o # 0 /\ (incb \/ rs[o] \in 1..3))
    BY <2>1, Zenon DEF StartCall
  <2>3. ~incb'
    BY <2>2 DEF QueueOp, ObjectGiven
  <2>4. \A d \in Ids : rs[d] \notin 1..3
    BY <2>2 DEF ObjectGiven, IInv, OwnerInv, Outstanding
  <2>5. cur' = c
    BY DEF StartCall
  <2> QED BY <1>2, <1>3, <1>4, <1>5, <2>3, <2>4, <2>5
<1>10. RightCaller'
  <2>1. overrun => overrun'
    BY Zenon DEF StartCall
  <2> QED BY <2>1 DEF RightCaller, IInv, QueueOp
<1>11. BacklogHasCause'
  BY <1>2, <1>3 DEF BacklogHasCause, StartCall
<1>12. OrderInv'
  <2>1. SUFFICES ASSUME ~overrun' PROVE OrderInv'
    BY DEF OrderInv
  <2>2. ~overrun /\ ~(o # 0 /\ (incb \/ rs[o] \in 1..3))
    BY <2>1, Zenon DEF StartCall
  <2>3. \A d \in Ids : rs[d] \notin 1..3
    BY <2>2 DEF ObjectGiven, IInv, OwnerInv, Outstanding
  <2>4. /\ Len(started) = Len(log) /\ log' = log
        /\ \A i \in DOMAIN log : log[i].resp = started[i]
        /\ log \in Seq(Callback) /\ started \in Seq(Ids)
    BY <2>2, <2>3 DEF IInv, OrderInv, Outstanding, TypeOK, QueueOp
  <2>5. CASE c.form = "good"
    <3>1. started' = Append(started, c.id) /\ obj' = c.id /\ rs'[c.id] = 1
      BY <1>2, <1>3, <1>4, <1>5, <2>5 DEF StartCall
    <3>2. /\ Len(started') = Len(log) + 1 /\ started'[Len(log) + 1] = c.id
          /\ \A i \in DOMAIN log : started'[i] = started[i]
      BY <1>2, <2>4, <3>1
    <3> QED BY <1>2, <2>4, <3>1, <3>2 DEF OrderInv, Outstanding
  <2>6. CASE c.form # "good"
    <3>1. started' = started /\ rs' = rs /\ obj' \in Ids \cup {0}
      BY <1>2, <1>3, <1>4, <2>6 DEF StartCall
    <3> QED BY <2>3, <2>4, <3>1 DEF OrderInv, Outstanding
  <2> QED BY <2>5, <2>6
<1> QED BY <1>6, <1>7, <1>8, <1>9, <1>10, <1>11, <1>12 DEF IInv

\* The head of a queue of calls that have no request can be started.
LEMMA HeadStartable ==
  ASSUME NEW q \in Seq(Call), q # <<>>, Fresh(q, n', rs)
  PROVE  Startable(Head(q), Tail(q))
<1>1. Head(q) = q[1] /\ 1 \in DOMAIN q /\ Head(q) \in Call /\ Tail(q) \in Seq(Call)
  OBVIOUS
<1>2. \A i \in DOMAIN Tail(q) : i + 1 \in DOMAIN q /\ Tail(q)[i] = q[i + 1] /\ i + 1 # 1
  OBVIOUS
<1>3. \A i \in DOMAIN Tail(q) : i \in Nat
  OBVIOUS
<1>4. Fresh(Tail(q), n', rs)
  BY <1>2, <1>3 DEF Fresh
<1> QED BY <1>1, <1>2, <1>4 DEF Startable, Fresh

\* Dequeue keeps the invariant.
LEMMA DequeueKeeps ==
  ASSUME IInv, NEW q \in Seq(Call), NEW state, NEW o, NEW com \in BOOLEAN,
         QueueOp, ObjectGiven(o), Fresh(q, n', rs), on' => state,
         Dequeue(q, state, o, com)
  PROVE  IInv'
<1>1. CASE q # <<>> /\ state
  <2>1. StartCall(Head(q), Tail(q), o, com)
    BY <1>1, Zenon DEF Dequeue
  <2> QED BY <1>1, <2>1, HeadStartable, StartCallKeeps
<1>2. CASE ~(q # <<>> /\ state)
  <2>1. /\ queue' = q /\ obj' = o /\ committed' = com
        /\ UNCHANGED <<cur, rs, started, overrun>>
    BY <1>2, Zenon DEF Dequeue
  <2>2. TypeOK'
    BY <2>1 DEF IInv, TypeOK, QueueOp, ObjectGiven
  <2>3. QueueInv'
    BY <2>1 DEF IInv, QueueInv, QueueOp, TypeOK, Ids
  <2>4. ObjectInv'
    BY <2>1 DEF IInv, ObjectInv, QueueOp, ObjectGiven
  <2>5. OwnerInv'
    BY <2>1 DEF IInv, OwnerInv, Outstanding, QueueOp, ObjectGiven
  <2>6. RightCaller'
    BY <2>1 DEF IInv, RightCaller, QueueOp
  <2>7. BacklogHasCause'
    BY <1>2, <2>1 DEF BacklogHasCause
  <2>8. OrderInv'
    BY <2>1 DEF IInv, OrderInv, Outstanding, QueueOp, ObjectGiven, TypeOK
  <2> QED BY <2>2, <2>3, <2>4, <2>5, <2>6, <2>7, <2>8 DEF IInv
<1> QED BY <1>1, <1>2

-----------------------------------------------------------------------------
(* Each operation keeps the invariant.                                     *)

\* A call that is new can be started, and can be put at either end of the queue.
LEMMA NewCallFresh ==
  ASSUME IInv, NEW c \in Call, c.id = n + 1, n' = n + 1
  PROVE  /\ n' \in 0..MaxCalls
         /\ Startable(c, queue)
         /\ Append(queue, c) \in Seq(Call) /\ Fresh(Append(queue, c), n', rs)
         /\ <<c>> \o queue \in Seq(Call) /\ Fresh(<<c>> \o queue, n', rs)
<1>1. n \in Nat /\ c.id \in Ids /\ queue \in Seq(Call)
  BY DEF IInv, TypeOK, Call
<1>2. n' \in 0..MaxCalls /\ c.id \in 1..n'
  BY <1>1 DEF Ids
<1>3. rs[c.id] = 0
  BY <1>1 DEF IInv, QueueInv
<1>4. \A i \in DOMAIN queue : queue[i].id \in 1..n' /\ queue[i].id # c.id /\ rs[queue[i].id] = 0
  BY <1>1 DEF IInv, QueueInv, Fresh
<1>5. \A i, j \in DOMAIN queue : queue[i].id = queue[j].id => i = j
  BY DEF IInv, QueueInv, Fresh
<1>6. Startable(c, queue)
  BY <1>1, <1>2, <1>3, <1>4, <1>5 DEF Startable, Fresh
<1>7. Append(queue, c) \in Seq(Call) /\ Fresh(Append(queue, c), n', rs)
  <2> DEFINE q == Append(queue, c)
  <2>1. q \in Seq(Call)
    BY <1>1
  <2>2. \A i \in DOMAIN q : \/ i \in DOMAIN queue /\ q[i] = queue[i]
                            \/ i = Len(queue) + 1 /\ q[i] = c
    BY <1>1
  <2> HIDE DEF q
  <2>3. Fresh(q, n', rs)
    BY <1>2, <1>3, <1>4, <1>5, <2>2 DEF Fresh
  <2> QED BY <2>1, <2>3 DEF q
<1>8. <<c>> \o queue \in Seq(Call) /\ Fresh(<<c>> \o queue, n', rs)
  <2> DEFINE q == <<c>> \o queue
  <2>1. q \in Seq(Call)
    BY <1>1
  <2>2. \A i \in DOMAIN q : \/ i = 1 /\ q[i] = c
                            \/ i \in Nat /\ i - 1 \in DOMAIN queue /\ q[i] = queue[i - 1]
    BY <1>1
  <2> HIDE DEF q
  <2>3. Fresh(q, n', rs)
    BY <1>2, <1>3, <1>4, <1>5, <2>2 DEF Fresh
  <2> QED BY <2>1, <2>3 DEF q
<1> QED BY <1>2, <1>6, <1>7, <1>8

\* A new call is a call, with its phase as given or clamped.
LEMMA NewCallTyped ==
  ASSUME NEW c \in NewCalls
  PROVE  /\ c \in Call /\ c.id = n + 1
         /\ [c EXCEPT !.phase = ClampPhase(@)] \in Call
         /\ [c EXCEPT !.phase = ClampPhase(@)].id = n + 1
         /\ [c EXCEPT !.injected = TRUE] \in Call
         /\ [c EXCEPT !.injected = TRUE].id = n + 1
         /\ [c EXCEPT !.injected = TRUE].injected
<1>1. c \in Call /\ c.id = n + 1
  BY DEF NewCalls, Call
<1>2. ClampPhase(c.phase) \in Phases \cup {0, 20}
  BY <1>1 DEF ClampPhase, Call
<1> QED BY <1>1, <1>2 DEF Call

\* Enqueue keeps the invariant.
LEMMA EnqueueKeeps ==
  ASSUME IInv, NEW c \in Call, c.id = n + 1, n' = n + 1,
         Enqueue(c), UNCHANGED <<on, incb, log, partial>>
  PROVE  IInv'
<1> DEFINE q == Append(queue, c)
<1>1. q \in Seq(Call) /\ Fresh(q, n', rs) /\ n' \in 0..MaxCalls
  BY NewCallFresh
<1>2. QueueOp /\ committed \in BOOLEAN
  BY <1>1 DEF QueueOp, IInv, TypeOK
<1> HIDE DEF q
<1>3. CASE obj = 0
  <2>1. Dequeue(q, on, obj, committed)
    BY <1>3, Zenon DEF Enqueue, q
  <2>2. ObjectGiven(obj)
    BY <1>3 DEF ObjectGiven, IInv, ObjectInv, OwnerInv, TypeOK, Ids
  <2>3. on' => on
    OBVIOUS
  <2> QED BY <1>1, <1>2, <2>1, <2>2, <2>3, DequeueKeeps
<1>4. CASE obj # 0
  <2>1. queue' = q /\ UNCHANGED <<obj, cur, committed, rs, started, overrun>>
    BY <1>4, Zenon DEF Enqueue, q
  <2>2. TypeOK'
    BY <1>1, <2>1 DEF IInv, TypeOK
  <2>3. QueueInv'
    BY <1>1, <2>1 DEF IInv, QueueInv, TypeOK, Ids
  <2>4. ObjectInv' /\ OwnerInv' /\ OrderInv' /\ RightCaller'
    BY <2>1 DEF IInv, ObjectInv, OwnerInv, OrderInv, Outstanding, RightCaller
  <2>5. BacklogHasCause'
    BY <1>4, <2>1 DEF BacklogHasCause
  <2> QED BY <2>2, <2>3, <2>4, <2>5 DEF IInv
<1> QED BY <1>3, <1>4

\* IInv is kept by the calls without a partial callback.
LEMMA SimpleAJAXCallStep == ASSUME IInv, NEW c \in NewCalls, SimpleAJAXCall(c) PROVE IInv'
  BY NewCallTyped, EnqueueKeeps DEF SimpleAJAXCall

\* IInv is kept by the calls with a partial callback.
LEMMA CallXMLHTTPObjectStep == ASSUME IInv, NEW c \in NewCalls, CallXMLHTTPObject(c) PROVE IInv'
  BY NewCallTyped, EnqueueKeeps DEF CallXMLHTTPObject

\* IInv is kept by QueueInject.
LEMMA QueueInjectStep == ASSUME IInv, NEW c \in NewCalls, QueueInject(c) PROVE IInv'
<1> DEFINE d == [c EXCEPT !.injected = TRUE]
           q == <<d>> \o queue
<1>1. d \in Call /\ d.id = n + 1 /\ d.injected
  BY NewCallTyped
<1>2. n' = n + 1 /\ queue' = q /\ on' = TRUE
  BY DEF QueueInject
<1>3. UNCHANGED <<obj, cur, committed, rs, incb, log, partial, started, overrun>>
  BY DEF QueueInject
<1> HIDE DEF d
<1>4. q \in Seq(Call) /\ Fresh(q, n', rs) /\ n' \in 0..MaxCalls
  BY <1>1, <1>2, NewCallFresh
<1>5. Head(q) = d
  BY <1>1 DEF IInv, TypeOK
<1> HIDE DEF q
<1>6. TypeOK'
  BY <1>2, <1>3, <1>4 DEF IInv, TypeOK
<1>7. QueueInv'
  BY <1>2, <1>3, <1>4 DEF IInv, QueueInv, TypeOK, Ids
<1>8. ObjectInv' /\ OwnerInv' /\ OrderInv' /\ RightCaller'
  BY <1>3 DEF IInv, ObjectInv, OwnerInv, OrderInv, Outstanding, RightCaller
<1>9. BacklogHasCause'
  BY <1>1, <1>2, <1>5 DEF BacklogHasCause
<1> QED BY <1>6, <1>7, <1>8, <1>9 DEF IInv

\* IInv is kept by QueueInterrupt.
LEMMA QueueInterruptStep == ASSUME IInv, NEW c \in NewCalls, QueueInterrupt(c) PROVE IInv'
<1>1. c \in Call /\ c.id = n + 1
  BY NewCallTyped
<1>2. n' = n + 1 /\ StartCall(c, queue, obj, committed) /\ UNCHANGED <<on, incb, log, partial>>
  BY DEF QueueInterrupt
<1>3. Startable(c, queue) /\ n' \in 0..MaxCalls
  BY <1>1, <1>2, NewCallFresh
<1>4. QueueOp /\ committed \in BOOLEAN
  BY <1>2, <1>3 DEF QueueOp, IInv, TypeOK
<1>5. ObjectGiven(obj)
  BY <1>2 DEF ObjectGiven, IInv, ObjectInv, OwnerInv, TypeOK, Ids
<1> QED BY <1>2, <1>3, <1>4, <1>5, StartCallKeeps

\* IInv is kept by QueuePause.
LEMMA QueuePauseStep == ASSUME IInv, QueuePause PROVE IInv'
<1>1. on' = FALSE /\ UNCHANGED <<queue, obj, cur, committed, rs, incb, n, log, partial, started, overrun>>
  BY DEF QueuePause
<1>2. TypeOK' /\ QueueInv' /\ ObjectInv' /\ OwnerInv' /\ OrderInv' /\ RightCaller'
  BY <1>1 DEF IInv, TypeOK, QueueInv, Fresh, ObjectInv, OwnerInv, OrderInv, Outstanding, RightCaller
<1>3. BacklogHasCause'
  BY <1>1 DEF BacklogHasCause
<1> QED BY <1>2, <1>3 DEF IInv

\* IInv is kept by QueueResume and QueueFlush.
LEMMA QueueRestartStep == ASSUME IInv, QueueResume \/ QueueFlush PROVE IInv'
<1>1. on' = TRUE /\ UNCHANGED <<incb, n, log, partial>>
  BY DEF QueueResume, QueueFlush
<1>2. QueueOp /\ committed \in BOOLEAN
  BY <1>1 DEF QueueOp, IInv, TypeOK
<1>3. ObjectGiven(obj)
  BY <1>1 DEF ObjectGiven, IInv, ObjectInv, OwnerInv, TypeOK, Ids
<1>4. PICK q \in {queue, <<>>} : Dequeue(q, TRUE, obj, committed)
  BY Zenon DEF QueueResume, QueueFlush
<1>5. q \in Seq(Call) /\ Fresh(q, n', rs)
  <2>1. CASE q = queue
    BY <1>1, <2>1 DEF IInv, TypeOK, QueueInv
  <2>2. CASE q = <<>>
    BY <2>2 DEF Fresh
  <2> QED BY <2>1, <2>2
<1> QED BY <1>2, <1>3, <1>4, <1>5, DequeueKeeps

\* IInv is kept by Handle_HTTP_Response: while nothing was overrun the request
\* that changes its state is that of the request object, and the fields its own.
LEMMA Handle_HTTP_ResponseStep ==
  ASSUME IInv, NEW c \in Ids, NEW s \in 2..4, Handle_HTTP_Response(c, s)
  PROVE  IInv'
<1> DEFINE r == IF obj = 0 THEN 0 ELSE rs'[obj]
<1>1. /\ ~incb /\ Outstanding(c) /\ rs' = [rs EXCEPT ![c] = s]
      /\ incb' = (r = 4) /\ log' = log \o Calls(r)
      /\ partial' = partial \o PartialCalls(r)
      /\ UNCHANGED <<queue, on, obj, cur, n, started, overrun>>
  BY DEF Handle_HTTP_Response
<1>2. committed' \in BOOLEAN /\ incb' \in BOOLEAN
  BY Zenon DEF Handle_HTTP_Response
<1>3. rs \in [Ids -> 0..4] /\ rs' \in [Ids -> 0..4] /\ obj \in Ids \cup {0}
  BY <1>1 DEF IInv, TypeOK
<1>4. r # 0 => obj # 0 /\ r = rs'[obj] /\ obj \in Ids /\ Made \in Callback
  BY <1>3 DEF IInv, ObjectInv, Call, Callback, Made
<1> HIDE DEF r
<1>5. \A q \in {Calls(r), PartialCalls(r)} :
        q = <<>> \/ (q = <<Made>> /\ Made \in Callback)
  <2>1. r = 4 => Made \in Callback
    BY <1>4
  <2>2. r \notin {0, 4} => Made \in Callback
    BY <1>4
  <2>3. Calls(r) = <<>> \/ (Calls(r) = <<Made>> /\ Made \in Callback)
    BY <2>1 DEF Calls
  <2>4. PartialCalls(r) = <<>> \/ (PartialCalls(r) = <<Made>> /\ Made \in Callback)
    BY <2>2 DEF PartialCalls
  <2> QED BY <2>3, <2>4
<1>6. \A q \in {Calls(r), PartialCalls(r)} :
         q \in Seq(Callback) /\ \A i \in DOMAIN q : q[i] = Made
  <2>1. TAKE q \in {Calls(r), PartialCalls(r)}
  <2>2. CASE q = <<>>
    BY <2>2
  <2>3. CASE q = <<Made>> /\ Made \in Callback
    BY <2>3
  <2> QED BY <1>5, <2>2, <2>3
<1>7. TypeOK'
  <2>1. log' \in Seq(Callback) /\ partial' \in Seq(Callback)
    BY <1>1, <1>6 DEF IInv, TypeOK
  <2> QED BY <1>1, <1>2, <1>3, <2>1 DEF IInv, TypeOK
<1>8. rs[c] # 0 /\ c <= n
  BY <1>1 DEF Outstanding, IInv, QueueInv, TypeOK, Ids
<1>9. QueueInv'
  <2>1. Fresh(queue, n, rs')
    BY <1>1, <1>3, <1>8 DEF IInv, QueueInv, Fresh, TypeOK, Ids
  <2>2. \A d \in Ids : d > n => rs'[d] = 0
    BY <1>1, <1>3, <1>8 DEF IInv, QueueInv, TypeOK, Ids
  <2> QED BY <1>1, <2>1, <2>2 DEF QueueInv
<1>10. incb' => obj # 0 /\ rs'[obj] = 4
  <2>1. incb' => r = 4
    BY <1>1, Zenon
  <2>2. r = 4 => obj # 0 /\ rs'[obj] = 4
    BY DEF r
  <2> QED BY <2>1, <2>2
<1>11. ObjectInv'
  BY <1>1, <1>10 DEF ObjectInv, IInv
<1>12. OwnerInv'
  <2>1. SUFFICES ASSUME ~overrun'
                 PROVE  /\ \A d \in Ids : rs'[d] \in 1..3 => d = obj
                        /\ cur.id = obj
                        /\ incb' => rs'[obj] = 4
    BY <1>1 DEF OwnerInv, Outstanding
  <2>2. ~overrun /\ c = obj /\ cur.id = obj
    BY <1>1, <2>1 DEF IInv, OwnerInv, Ids
  <2>3. \A d \in Ids : rs[d] \in 1..3 => d = obj
    BY <2>2 DEF IInv, OwnerInv, Outstanding
  <2> QED BY <1>1, <1>3, <1>10, <2>2, <2>3
<1>13. RightCaller'
  <2>1. SUFFICES ASSUME ~overrun' PROVE RightCaller'
    BY DEF RightCaller
  <2>2. ~overrun /\ Made.call = Made.resp
    BY <1>1, <2>1 DEF IInv, OwnerInv, Ids, Made
  <2>3. ASSUME NEW h \in Seq(Callback), NEW q \in {Calls(r), PartialCalls(r)},
               \A i \in DOMAIN h : h[i].call = h[i].resp
        PROVE  \A i \in DOMAIN (h \o q) : (h \o q)[i].call = (h \o q)[i].resp
    <3>1. TAKE i \in DOMAIN (h \o q)
    <3>2. CASE i \in DOMAIN h
      BY <1>6, <2>3, <3>2
    <3>3. CASE i \notin DOMAIN h
      <4>1. i - Len(h) \in DOMAIN q /\ (h \o q)[i] = q[i - Len(h)]
        BY <1>6, <3>1, <3>3
      <4> QED BY <1>6, <2>2, <4>1
    <3> QED BY <3>2, <3>3
  <2>4. log \in Seq(Callback) /\ partial \in Seq(Callback)
    BY DEF IInv, TypeOK
  <2>5. /\ \A i \in DOMAIN log : log[i].call = log[i].resp
        /\ \A i \in DOMAIN partial : partial[i].call = partial[i].resp
    BY <2>2 DEF IInv, RightCaller
  <2>6. \A i \in DOMAIN (log \o Calls(r)) :
          (log \o Calls(r))[i].call = (log \o Calls(r))[i].resp
    BY <2>3, <2>4, <2>5
  <2>7. \A i \in DOMAIN (partial \o PartialCalls(r)) :
          (partial \o PartialCalls(r))[i].call = (partial \o PartialCalls(r))[i].resp
    BY <2>3, <2>4, <2>5
  <2> QED BY <1>1, <2>6, <2>7 DEF RightCaller
<1>14. BacklogHasCause'
  BY <1>1 DEF BacklogHasCause, IInv
<1>15. OrderInv'
  <2>1. SUFFICES ASSUME ~overrun' PROVE OrderInv'
    BY DEF OrderInv
  <2>2. ~overrun /\ c = obj /\ obj \in Ids /\ obj # 0 /\ rs'[obj] = s
    BY <1>1, <1>3, <2>1 DEF IInv, OwnerInv, Ids
  <2>3. /\ Len(started) = Len(log) + 1 /\ started[Len(log) + 1] = obj
        /\ \A i \in DOMAIN log : log[i].resp = started[i]
        /\ log \in Seq(Callback)
    BY <1>1, <2>2 DEF IInv, OrderInv, TypeOK
  <2>4. r = s
    BY <2>2 DEF r
  <2>5. CASE s = 4
    <3>1. Calls(r) = <<Made>> /\ Made.resp = obj /\ Made \in Callback
      BY <1>4, <2>4, <2>5 DEF Calls, Made
    <3>2. log' = Append(log, Made)
      BY <1>1, <2>3, <3>1
    <3>3. /\ Len(log') = Len(log) + 1
          /\ \A i \in DOMAIN log' : \/ i \in DOMAIN log /\ log'[i] = log[i]
                                    \/ i = Len(log) + 1 /\ log'[i] = Made
      BY <2>3, <3>1, <3>2
    <3>4. \A i \in DOMAIN log' : log'[i].resp = started[i]
      BY <2>3, <3>1, <3>3
    <3> QED BY <1>1, <2>2, <2>3, <2>5, <3>3, <3>4 DEF OrderInv, Outstanding
  <2>6. CASE s # 4
    <3>1. Calls(r) = <<>>
      BY <2>4, <2>6 DEF Calls
    <3>2. log' = log
      BY <1>1, <2>3, <3>1
    <3> QED BY <1>1, <2>2, <2>3, <2>6, <3>2 DEF OrderInv, Outstanding
  <2> QED BY <2>5, <2>6
<1> QED BY <1>7, <1>9, <1>11, <1>12, <1>13, <1>14, <1>15 DEF IInv

\* IInv is kept by the end of a callback: its request has completed, so none
\* is in progress when the next call is started.
LEMMA CallbackReturnsStep == ASSUME IInv, CallbackReturns PROVE IInv'
<1>1. incb /\ incb' = FALSE /\ Dequeue(queue, on, 0, FALSE) /\ UNCHANGED <<on, n, log, partial>>
  BY DEF CallbackReturns
<1>2. QueueOp
  <2>1. incb' \in BOOLEAN /\ (incb' => incb)
    BY <1>1, Zenon
  <2> QED BY <1>1, <2>1 DEF QueueOp, IInv, TypeOK
<1>3. ObjectGiven(0)
  BY <1>1 DEF ObjectGiven, IInv, OwnerInv, Outstanding
<1>4. queue \in Seq(Call) /\ Fresh(queue, n', rs) /\ (on' => on)
  BY <1>1 DEF IInv, TypeOK, QueueInv
<1> QED BY <1>1, <1>2, <1>3, <1>4, DequeueKeeps

\* IInv is kept when a callback throws: the request object stays.
LEMMA CallbackThrowsStep == ASSUME IInv, CallbackThrows PROVE IInv'
<1>1. /\ incb /\ incb' = FALSE
      /\ UNCHANGED <<queue, on, obj, cur, committed, rs, n, log, partial, started, overrun>>
  BY DEF CallbackThrows
<1>2. TypeOK' /\ QueueInv' /\ ObjectInv' /\ OwnerInv' /\ OrderInv' /\ RightCaller'
  BY <1>1 DEF IInv, TypeOK, QueueInv, Fresh, ObjectInv, OwnerInv, OrderInv, Outstanding, RightCaller
<1>3. BacklogHasCause'
  BY <1>1 DEF BacklogHasCause, IInv, ObjectInv
<1> QED BY <1>2, <1>3 DEF IInv

-----------------------------------------------------------------------------
\* The invariant holds initially.
LEMMA InitIInv == Init => IInv
<1> SUFFICES ASSUME Init PROVE IInv
  OBVIOUS
<1>1. TypeOK
  <2>1. on \in BOOLEAN /\ committed \in BOOLEAN /\ incb \in BOOLEAN /\ overrun \in BOOLEAN
    BY Zenon DEF Init
  <2>2. cur \in Call \cup {NoCall}
    BY Zenon DEF Init
  <2>3. /\ queue \in Seq(Call) /\ started \in Seq(Ids)
        /\ log \in Seq(Callback) /\ partial \in Seq(Callback)
    BY DEF Init
  <2>4. obj \in Ids \cup {0} /\ rs \in [Ids -> 0..4] /\ n \in 0..MaxCalls
    BY DEF Init
  <2> QED BY <2>1, <2>2, <2>3, <2>4 DEF TypeOK
<1>2. QueueInv /\ ObjectInv
  BY DEF Init, QueueInv, Fresh, ObjectInv
<1>3. OwnerInv /\ OrderInv /\ RightCaller /\ BacklogHasCause
  BY DEF Init, OwnerInv, OrderInv, Outstanding, RightCaller, BacklogHasCause
<1> QED BY <1>1, <1>2, <1>3 DEF IInv

\* Every step keeps it.
LEMMA NextIInv == IInv /\ [Next]_vars => IInv'
<1> SUFFICES ASSUME IInv, [Next]_vars PROVE IInv'
  OBVIOUS
<1>1. CASE UNCHANGED vars
  BY <1>1 DEF vars, IInv, TypeOK, QueueInv, Fresh, ObjectInv, OwnerInv, OrderInv, Outstanding,
              RightCaller, BacklogHasCause
<1>2. ASSUME NEW c \in NewCalls,
             SimpleAJAXCall(c) \/ CallXMLHTTPObject(c) \/ QueueInject(c) \/ QueueInterrupt(c)
      PROVE  IInv'
  BY <1>2, SimpleAJAXCallStep, CallXMLHTTPObjectStep, QueueInjectStep, QueueInterruptStep
<1>3. CASE QueuePause \/ QueueResume \/ QueueFlush
  BY <1>3, QueuePauseStep, QueueRestartStep
<1>4. ASSUME NEW c \in Ids, NEW s \in 2..4, Handle_HTTP_Response(c, s)
      PROVE  IInv'
  BY <1>4, Handle_HTTP_ResponseStep
<1>5. CASE CallbackReturns \/ CallbackThrows
  BY <1>5, CallbackReturnsStep, CallbackThrowsStep
<1> QED BY <1>1, <1>2, <1>3, <1>4, <1>5 DEF Next

\* The inductive invariant of the request queue of ajax.js.
THEOREM Invariance == Spec => []IInv
  BY InitIInv, NextIInv, PTL DEF Spec

\* State and histories of the request queue keep their types.
THEOREM QueueTypes == Spec => []TypeOK
<1>1. IInv => TypeOK
  BY DEF IInv
<1> QED BY <1>1, Invariance, PTL

\* As long as QueueResume, QueueFlush and QueueInterrupt find no request in
\* progress, Handle_HTTP_Response never gives a response to another call's
\* callback.
THEOREM CallersAreRight == Spec => []RightCaller
<1>1. IInv => RightCaller
  BY DEF IInv
<1> QED BY <1>1, Invariance, PTL

\* As long as nothing is overrun, complete responses are reported in the order
\* in which the requests were sent, each once, and none is passed over.
THEOREM ResponsesInOrder == Spec => []InOrder
<1>1. IInv => InOrder
  BY DEF IInv, OrderInv, InOrder, TypeOK
<1> QED BY <1>1, Invariance, PTL

\* Calls wait behind an idle request object only where Dequeue dropped a call
\* that could not be sent, or behind a call that QueueInject did not start.
THEOREM BacklogsHaveCauses == Spec => []BacklogHasCause
<1>1. IInv => BacklogHasCause
  BY DEF IInv
<1> QED BY <1>1, Invariance, PTL
=============================================================================
