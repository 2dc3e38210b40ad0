----------------------------- MODULE GarnerLoop -----------------------------
(***************************************************************************)
(* garner's main loop (do_epoll), its signal handlers, the clock thread    *)
(* and the pipe between them, up to the shutdown in parent_main.           *)
(*                                                                         *)
(* A signal may be handled by any thread that does not block it.  The      *)
(* flags are bits of one byte that both threads update without a lock, so  *)
(* a handler loads the byte in one step and stores it in another.          *)
(***************************************************************************)
EXTENDS Naturals, FiniteSets

CONSTANTS
  Consumers,   \* plugins in event_consumer_list that have libname_event
  Interval,    \* event interval of each consumer, seconds
  Period,      \* config.event.clock_period, seconds
  BufLen,      \* bytes one read of the pipe takes: sizeof(buf)
  PipeCap,     \* bytes the pipe holds
  Signals,     \* signals operators send: "term", "hup", "alrm", "quit"
  MaxSignals   \* bound: how often each of them is sent

ASSUME LoopAssumption ==
  /\ Period \in Nat \ {0}
  /\ BufLen \in Nat \ {0} /\ PipeCap \in Nat \ {0} /\ MaxSignals \in Nat
  /\ Interval \in [Consumers -> Nat]
  \* a shorter interval would make SkipCount 0 and handle_clockevent
  \* divide by zero; the shipped configurations have none
  /\ \A c \in Consumers : Interval[c] >= Period
  /\ Signals \subseteq {"term", "hup", "alrm", "quit"}

\* The configuration parser: "rounded DOWN" to a multiple of the period.
SkipCount(c) == Interval[c] \div Period

VARIABLES
  \* main thread
  mpc,      \* position in do_epoll and parent_main
  ready,    \* events of the last epoll_wait still to be dispatched
  \* config.daemon.sig and the handlers that are updating it
  flags,
  hand,     \* per thread: << >> or <<signal, byte it has loaded>>
  \* clock thread
  cpc,      \* "sleep", "write", or "gone"
  pipe,     \* bytes in the pipe
  \* consumers
  count,    \* ev_con->event_count
  calls,    \* calls of libname_event in the last handle_clockevent
  phase,    \* ticks ever written, modulo SkipCount
  \* operators
  sent,     \* signals sent
  debug     \* the log level is LG_MAX

sigVars == <<flags, hand, sent>>
clkVars == <<cpc, phase>>
conVars == <<count, calls>>
loopVars == <<mpc, ready, sigVars, clkVars, pipe, conVars, debug>>

Threads == {"main", "clock"}

LoopInit ==
  /\ mpc = "check" /\ ready = {}
  /\ flags = {} /\ hand = [th \in Threads |-> << >>]
  /\ cpc = "sleep"
  /\ pipe = 0
  /\ count = [c \in Consumers |-> 0]
  /\ calls = [c \in Consumers |-> 0]
  /\ phase = [c \in Consumers |-> 0]
  /\ sent = [s \in Signals |-> 0] /\ debug = FALSE

-----------------------------------------------------------------------------
(* Signals.                                                                *)

\* The clock thread blocks SIGHUP and SIGALRM.
Unblocked(th, s) == th = "main" \/ s \notin {"hup", "alrm"}

\* A signal arrives and its handler loads the byte of flags.
Deliver(th, s) ==
  /\ sent[s] < MaxSignals
  /\ mpc # "stopped" /\ (th = "clock" => cpc # "gone")
  /\ Unblocked(th, s)
  /\ hand[th] = << >>
  /\ sent' = [sent EXCEPT ![s] = @ + 1]
  /\ hand' = [hand EXCEPT ![th] = <<s, flags>>]
  /\ UNCHANGED <<mpc, ready, flags, clkVars, pipe, conVars, debug>>

\* Variant for mutation: a signal that interrupts nanosleep ends the clock.
HandledEndsClock(th) ==
  /\ hand[th] # << >>
  /\ flags' = hand[th][2] \cup {hand[th][1]}
  /\ hand' = [hand EXCEPT ![th] = << >>]
  /\ IF th = "main" /\ mpc = "wait" THEN mpc' \in {"wait", "check"}
                                    ELSE UNCHANGED mpc
  /\ cpc' = IF th = "clock" /\ cpc = "sleep" THEN "gone" ELSE cpc
  /\ UNCHANGED <<ready, sent, phase, pipe, conVars, debug>>

\* The handler stores the byte with its bit set and returns.  epoll_wait ends
\* with EINTR, unless the signal came just before the loop entered it
\* (nanosleep ends too, but the clock thread sleeps on).
Handled(th) ==
  /\ hand[th] # << >>
  /\ flags' = hand[th][2] \cup {hand[th][1]}
  /\ hand' = [hand EXCEPT ![th] = << >>]
  /\ IF th = "main" /\ mpc = "wait" THEN mpc' \in {"wait", "check"}
                                    ELSE UNCHANGED mpc
  /\ UNCHANGED <<ready, sent, clkVars, pipe, conVars, debug>>

-----------------------------------------------------------------------------
(* The main thread runs while no handler has interrupted it.               *)

MainAt(l) == mpc = l /\ hand["main"] = << >>

\* CHECK_SIG with its test of alarm (do_household_work) and of quit.
CheckSig ==
  /\ MainAt("check")
  /\ mpc' = IF flags = {} THEN "wait" ELSE "quit"
  /\ UNCHANGED <<ready, sigVars, clkVars, pipe, conVars, debug>>

CheckQuit ==
  /\ MainAt("quit")
  /\ mpc' = IF "term" \in flags THEN "cancel" ELSE "toggle"
  /\ UNCHANGED <<ready, sigVars, clkVars, pipe, conVars, debug>>

CheckToggle ==
  /\ MainAt("toggle")
  /\ debug' = IF "hup" \in flags THEN ~debug ELSE debug
  /\ mpc' = "clear"
  /\ UNCHANGED <<ready, sigVars, clkVars, pipe, conVars>>

\* config.daemon.sig = 0, whatever arrived since the tests.
ClearSig ==
  /\ MainAt("clear")
  /\ flags' = {}
  /\ mpc' = "wait"
  /\ UNCHANGED <<ready, hand, sent, clkVars, pipe, conVars, debug>>

\* epoll_wait returns the ready descriptors: the pipe when a tick is in it,
\* sockets whenever clients please.
EpollWait ==
  /\ MainAt("wait")
  /\ \E net \in SUBSET {"net"} :
       ready' = net \cup (IF pipe > 0 THEN {"clock"} ELSE {})
  /\ ready' # {}
  /\ mpc' = "dispatch"
  /\ UNCHANGED <<sigVars, clkVars, pipe, conVars, debug>>

\* handle_accept, handle_accept_udp or handle_input for a socket.
HandleNet ==
  /\ MainAt("dispatch") /\ "net" \in ready
  /\ ready' = ready \ {"net"}
  /\ mpc' = IF ready' = {} THEN "check" ELSE "dispatch"
  /\ UNCHANGED <<sigVars, clkVars, pipe, conVars, debug>>

\* Variant for mutation: the count is reset instead of keeping the rest.
CountTicksResets(n) ==
  /\ calls' = [c \in Consumers |->
                 IF count[c] + n >= SkipCount(c) THEN 1 ELSE 0]
  /\ count' = [c \in Consumers |-> 0]

\* The loop of handle_clockevent over the consumers: libname_event is called
\* at most once for each of them, however many events are due.
CountTicks(n) ==
  /\ calls' = [c \in Consumers |->
                 IF count[c] + n >= SkipCount(c) THEN 1 ELSE 0]
  /\ count' = [c \in Consumers |-> (count[c] + n) % SkipCount(c)]

\* Variant for mutation: ticks beyond the buffer are thrown away.
HandleClockDrains ==
  /\ MainAt("dispatch") /\ "clock" \in ready
  /\ CountTicks(IF pipe < BufLen THEN pipe ELSE BufLen)
  /\ pipe' = 0
  /\ ready' = ready \ {"clock"}
  /\ mpc' = IF ready' = {} THEN "check" ELSE "dispatch"
  /\ UNCHANGED <<sigVars, clkVars, debug>>

\* handle_clockevent: one read of the pipe, then the consumers.
HandleClock ==
  LET n == IF pipe < BufLen THEN pipe ELSE BufLen IN
  /\ MainAt("dispatch") /\ "clock" \in ready
  /\ CountTicks(n)
  /\ pipe' = pipe - n
  /\ ready' = ready \ {"clock"}
  /\ mpc' = IF ready' = {} THEN "check" ELSE "dispatch"
  /\ UNCHANGED <<sigVars, clkVars, debug>>

\* parent_main: pthread_cancel; the thread ends some time later.
CancelClock ==
  /\ MainAt("cancel")
  /\ mpc' = "close"
  /\ UNCHANGED <<ready, sigVars, clkVars, pipe, conVars, debug>>

\* close both ends of the pipe, then garner_shutdown and exit.
ClosePipe ==
  /\ MainAt("close")
  /\ mpc' = "stopped" /\ cpc' = "gone" /\ pipe' = 0
  /\ UNCHANGED <<ready, sigVars, phase, conVars, debug>>

Main ==
  \/ CheckSig \/ CheckQuit \/ CheckToggle \/ ClearSig
  \/ EpollWait \/ HandleNet \/ HandleClock \/ CancelClock \/ ClosePipe

-----------------------------------------------------------------------------
(* The clock thread.                                                       *)

ClockAt(l) == cpc = l /\ hand["clock"] = << >>

\* nanosleep is over.
ClockSleep ==
  /\ ClockAt("sleep")
  /\ cpc' = "write"
  /\ UNCHANGED <<mpc, ready, sigVars, phase, pipe, conVars, debug>>

\* The write blocks while the pipe is full.
ClockWrite ==
  /\ ClockAt("write")
  /\ pipe < PipeCap
  /\ pipe' = pipe + 1
  /\ phase' = [c \in Consumers |-> (phase[c] + 1) % SkipCount(c)]
  /\ cpc' = "sleep"
  /\ UNCHANGED <<mpc, ready, sigVars, conVars, debug>>

\* pthread_cancel takes effect.
ClockCancelled ==
  /\ cpc # "gone" /\ mpc = "close"
  /\ cpc' = "gone"
  /\ UNCHANGED <<mpc, ready, sigVars, phase, pipe, conVars, debug>>

Clock == ClockSleep \/ ClockWrite \/ ClockCancelled

LoopExited ==
  /\ mpc = "stopped"
  /\ UNCHANGED loopVars

LoopNext ==
  \/ Main \/ Clock \/ LoopExited
  \/ \E th \in Threads : Handled(th) \/ \E s \in Signals : Deliver(th, s)

LoopSpec == LoopInit /\ [][LoopNext]_loopVars

\* What the main thread does once it is scheduled.  epoll_wait has no time-out:
\* it is sure to return only while a tick is in the pipe.  That a client sends
\* something, or that a signal interrupts it, is never taken for granted.
MainRuns == Main /\ (mpc = "wait" => pipe > 0)

\* Both threads are scheduled and handlers return.
Fairness ==
  /\ WF_loopVars(MainRuns) /\ WF_loopVars(Clock)
  /\ \A th \in Threads : WF_loopVars(Handled(th))

FairLoopSpec == LoopSpec /\ Fairness

-----------------------------------------------------------------------------
(* Properties.                                                             *)

Labels == {"check", "quit", "toggle", "clear", "wait", "dispatch", "cancel",
           "close", "stopped"}

\* The ranges of the variables; the pipe never holds more than its capacity.
LoopTypeOK ==
  /\ mpc \in Labels /\ ready \subseteq {"net", "clock"}
  /\ flags \subseteq Signals
  /\ \A th \in Threads :
       hand[th] = << >> \/ hand[th] \in Signals \X SUBSET Signals
  /\ cpc \in {"sleep", "write", "gone"}
  /\ pipe \in 0..PipeCap
  /\ \A c \in Consumers : count[c] \in 0..(SkipCount(c) - 1)

\* No tick is lost or counted twice between the clock thread and the
\* consumers, however the reads of handle_clockevent split the pipe's bytes
\* (until the pipe is closed).
TicksConserved ==
  mpc # "stopped" =>
    \A c \in Consumers :
      (pipe + count[c]) % SkipCount(c) = phase[c]

\* A shutdown request that is in the flags while the loop waits or dispatches
\* is honoured, also when the handler ran in the clock thread and nothing
\* interrupted epoll_wait: the next tick wakes the loop.  Fairness
\* grants no other return of epoll_wait, so a clock that stops breaks this.
QuitHonoured ==
  /\ "term" \in flags
  /\ mpc \in {"wait", "dispatch"}
  /\ \A th \in Threads : hand[th] = << >>
  ~> mpc = "stopped"

\* As long as garner runs every consumer gets its events again and again.
ConsumersServed ==
  \A c \in Consumers :
    \/ <>(mpc = "stopped")
    \/ []<><<HandleClock /\ calls'[c] = 1>>_loopVars

\* What holds in every state, however threads and handlers interleave: types,
\* and ticks that handle_clockevent neither loses nor counts twice.
LoopInv == LoopTypeOK /\ TicksConserved
=============================================================================
