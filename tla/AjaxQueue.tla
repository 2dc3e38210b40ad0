----------------------------- MODULE AjaxQueue -----------------------------
(***************************************************************************)
(* The request queue of the report pages (javascript/ajax.js): one global  *)
(* object, g_ajax_obj, with one request object, one set of callback fields *)
(* and a queue of calls.  JavaScript runs one handler at a time; a         *)
(* callback, however, may use the queue before it returns, so the time     *)
(* inside a callback is a state of its own (incb).                         *)
(***************************************************************************)
EXTENDS Naturals, Sequences, FiniteSets

CONSTANTS
  MaxCalls,   \* bound on the number of calls made
  Phases      \* phases given for partial callbacks

ASSUME CallsAssumption == MaxCalls \in Nat
ASSUME PhasesAssumption == Phases \subseteq Nat

VARIABLES
  queue,      \* _dm_queue
  on,         \* _dm_queue_state
  obj,        \* _dm_xmlhttprequestobject: the call it was made for, 0 = null
  cur,        \* _dm_callback_function, _dm_param, _dm_phase: whose they are
  committed,  \* _dm_committed
  rs,         \* readyState of the request made for each call, 0 = none
  incb,       \* the callback of a completed request is running
  n,          \* number of calls made so far
  log,        \* history: the callbacks made for complete responses, in order
  partial,    \* history: the partial callbacks made, in order
  started,    \* history: the calls for which a request was sent, in order
  overrun     \* history: a call was started while a request was in progress

vars == <<queue, on, obj, cur, committed, rs, incb, n, log, partial, started, overrun>>

Ids == 1..MaxCalls

\* What can become of a call when it is started.  "good": the request is sent.
\* "bad": there is no request object, because the call has no URL or is a POST
\* whose URL has no query (the match is null and the exception is swallowed).
\* "refused": open or send throws, with the request object already assigned.
Forms == {"good", "bad", "refused"}

\* An entry of the queue.  Phase 0 is never reached; it stands for undefined.
Call == [id : Ids, form : Forms, phase : Phases \cup {0, 20}, injected : BOOLEAN]

\* The callback fields before the first call.
NoCall == [id |-> 0, form |-> "good", phase |-> 0, injected |-> FALSE]

\* A callback: the call it was given for, and that whose response it gets.
Callback == [call : Ids, resp : Ids]

Outstanding(c) == rs[c] \in 1..3

Init ==
  /\ queue = <<>>
  /\ on = TRUE
  /\ obj = 0
  /\ cur = NoCall
  /\ committed = FALSE
  /\ rs = [c \in Ids |-> 0]
  /\ incb = FALSE
  /\ n = 0
  /\ log = <<>>
  /\ partial = <<>>
  /\ started = <<>>
  /\ overrun = FALSE

-----------------------------------------------------------------------------
\* The request object after _CallXMLHTTPObject was called for c with object o:
\* GetNewRequestObject makes a new one, unless an exception comes first.
GetNewRequestObject(c, o) == IF c.form = "bad" THEN o ELSE c.id

\* _CallXMLHTTPObject for call c, with rest left in the queue and o the
\* request object at that moment: a new object replaces it whether or not o is
\* still in use.  Phase is read only while there is a request object.
StartCall(c, rest, o, com) ==
  /\ queue' = rest
  /\ cur' = c
  /\ obj' = GetNewRequestObject(c, o)
  /\ committed' = IF c.form = "bad" THEN com ELSE FALSE
  /\ rs' = IF c.form = "good" THEN [rs EXCEPT ![c.id] = 1] ELSE rs
  /\ started' = IF c.form = "good" THEN Append(started, c.id) ELSE started
  /\ overrun' = (overrun \/ (o # 0 /\ (incb \/ rs[o] \in 1..3)))

\* Dequeue on queue q with request object o: its result is ignored, so a call
\* that cannot be sent is gone.
Dequeue(q, state, o, com) ==
  IF q # <<>> /\ state
  THEN StartCall(Head(q), Tail(q), o, com)
  ELSE /\ queue' = q
       /\ obj' = o
       /\ committed' = com
       /\ UNCHANGED <<cur, rs, started, overrun>>

\* CallXMLHTTPObject: a phase outside 1..20 becomes 20.
ClampPhase(p) == IF p < 1 \/ p > 20 THEN 20 ELSE p

\* The calls that can be made next.
NewCalls == [id : {n + 1} \cap Ids, form : Forms, phase : Phases \cup {0}, injected : {FALSE}]

\* Enqueue: Dequeue is called only if there is no request object.
Enqueue(c) ==
  LET q == Append(queue, c)
  IN IF obj = 0
     THEN Dequeue(q, on, obj, committed)
     ELSE /\ queue' = q
          /\ UNCHANGED <<obj, cur, committed, rs, started, overrun>>

\* SimpleAJAXCall and the calls without a partial callback: no phase.
SimpleAJAXCall(c) ==
  /\ c.phase = 0
  /\ n' = n + 1
  /\ Enqueue(c)
  /\ UNCHANGED <<on, incb, log, partial>>

\* The CallXMLHTTPObject...Partial calls give a phase, 0 for the default.
CallXMLHTTPObject(c) ==
  /\ n' = n + 1
  /\ Enqueue([c EXCEPT !.phase = ClampPhase(@)])
  /\ UNCHANGED <<on, incb, log, partial>>

\* Faulty variant: the callback fields are set when the call is injected.
QueueInjectFields(c) ==
  /\ n' = n + 1
  /\ queue' = <<[c EXCEPT !.injected = TRUE]>> \o queue
  /\ on' = TRUE
  /\ cur' = c
  /\ UNCHANGED <<obj, committed, rs, incb, log, partial, started, overrun>>

\* The call becomes the next one; the queue is not started.
QueueInject(c) ==
  /\ n' = n + 1
  /\ queue' = <<[c EXCEPT !.injected = TRUE]>> \o queue
  /\ on' = TRUE
  /\ UNCHANGED <<obj, cur, committed, rs, incb, log, partial, started, overrun>>

QueueInterrupt(c) ==
  /\ n' = n + 1
  /\ StartCall(c, queue, obj, committed)
  /\ UNCHANGED <<on, incb, log, partial>>

QueuePause ==
  /\ on' = FALSE
  /\ UNCHANGED <<queue, obj, cur, committed, rs, incb, n, log, partial, started, overrun>>

\* QueueResume does not look at the request object.
QueueResume ==
  /\ on' = TRUE
  /\ Dequeue(queue, TRUE, obj, committed)
  /\ UNCHANGED <<incb, n, log, partial>>

QueueFlush ==
  /\ on' = TRUE
  /\ Dequeue(<<>>, TRUE, obj, committed)
  /\ UNCHANGED <<incb, n, log, partial>>

-----------------------------------------------------------------------------
\* The callback the fields name, with the response of the request object.
Made == [call |-> cur.id, resp |-> obj]

\* Faulty variant: the callback is made as soon as there is a partial response.
CallsEarly(r) == IF r >= 3 THEN <<Made>> ELSE <<>>

\* The handler makes the callback in state 4 of the current request object ...
Calls(r) == IF r = 4 THEN <<Made>> ELSE <<>>

\* ... and before that the partial callback in the state asked for.
PartialCalls(r) == IF r \notin {0, 4} /\ r = cur.phase THEN <<Made>> ELSE <<>>

\* Handle_HTTP_Response, run when the request of call c changes its state: the
\* handler looks at the current request object, whichever request it is for.
\* A failed connection goes to state 4 at once.
Handle_HTTP_Response(c, s) ==
  /\ ~incb
  /\ Outstanding(c)
  /\ s \in {rs[c] + 1, 4}
  /\ rs' = [rs EXCEPT ![c] = s]
  /\ LET r == IF obj = 0 THEN 0 ELSE rs'[obj]
     IN /\ committed' = (committed \/ r = 3)
        /\ incb' = (r = 4)
        /\ log' = log \o Calls(r)
        /\ partial' = partial \o PartialCalls(r)
  /\ UNCHANGED <<queue, on, obj, cur, n, started, overrun>>

\* Faulty variant: the next call is not made.
CallbackReturnsIdle ==
  /\ incb
  /\ incb' = FALSE
  /\ obj' = 0
  /\ committed' = FALSE
  /\ UNCHANGED <<queue, on, cur, rs, n, log, partial, started, overrun>>

\* The callback returns: the request object is dropped and the next call made.
CallbackReturns ==
  /\ incb
  /\ incb' = FALSE
  /\ Dequeue(queue, on, 0, FALSE)
  /\ UNCHANGED <<on, n, log, partial>>

\* The callback throws: the rest of the handler is skipped.
CallbackThrows ==
  /\ incb
  /\ incb' = FALSE
  /\ UNCHANGED <<queue, on, obj, cur, committed, rs, n, log, partial, started, overrun>>

Next ==
  \/ \E c \in NewCalls : SimpleAJAXCall(c) \/ CallXMLHTTPObject(c) \/ QueueInject(c) \/ QueueInterrupt(c)
  \/ QueuePause \/ QueueResume \/ QueueFlush
  \/ \E c \in Ids, s \in 2..4 : Handle_HTTP_Response(c, s)
  \/ CallbackReturns \/ CallbackThrows

Spec == Init /\ [][Next]_vars

\* Every request reaches state 4 (the browser gives up at its own time-out) and
\* a handler that has begun ends.
FairSpec ==
  /\ Spec
  /\ \A c \in Ids : WF_vars(\E s \in 2..4 : Handle_HTTP_Response(c, s))
  /\ WF_vars(CallbackReturns \/ CallbackThrows)

-----------------------------------------------------------------------------
\* State and histories keep their types.
TypeOK ==
  /\ queue \in Seq(Call)
  /\ on \in BOOLEAN
  /\ obj \in Ids \cup {0}
  /\ cur \in Call \cup {NoCall}
  /\ committed \in BOOLEAN
  /\ rs \in [Ids -> 0..4]
  /\ incb \in BOOLEAN
  /\ n \in 0..MaxCalls
  /\ log \in Seq(Callback) /\ partial \in Seq(Callback)
  /\ started \in Seq(Ids)
  /\ overrun \in BOOLEAN

\* Unless the queue was restarted over a request in progress (QueueResume,
\* QueueFlush or QueueInterrupt), every callback is the one given for the
\* request it is called with: the single set of callback fields of ajax.js has
\* not been replaced between a request and its response.
RightCaller ==
  ~overrun =>
    /\ \A i \in DOMAIN log : log[i].call = log[i].resp
    /\ \A i \in DOMAIN partial : partial[i].call = partial[i].resp

\* Unless the queue was so restarted, completed requests are reported in the
\* order in which they were sent, each once, and none is passed over.
InOrder ==
  ~overrun => /\ Len(log) <= Len(started)
              /\ \A i \in DOMAIN log : log[i].resp = started[i]

\* A queue that may run does not idle with calls waiting, except behind a call
\* that could not be sent (Dequeue drops it and stops) or behind an injected
\* call (QueueInject does not start the queue).
BacklogHasCause ==
  (obj = 0 /\ on /\ ~incb /\ queue # <<>>) => (cur.form = "bad" \/ Head(queue).injected)

\* What stops the queue: a refused request, a callback that threw, a call that
\* could not be sent, an injected call that was not started.
Blocked ==
  \/ obj # 0 /\ ~incb /\ ~Outstanding(obj)
  \/ obj = 0 /\ cur.form = "bad"
  \/ obj = 0 /\ queue # <<>> /\ Head(queue).injected

Waiting(c) == \E i \in DOMAIN queue : queue[i].id = c

\* A waiting call is eventually started or flushed, unless the queue is paused
\* or blocked on the way: each response starts the next call.
Drains == \A c \in Ids : Waiting(c) ~> (~Waiting(c) \/ ~on \/ Blocked)

=============================================================================
