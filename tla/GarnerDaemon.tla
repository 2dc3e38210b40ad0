---------------------------- MODULE GarnerDaemon ----------------------------
(***************************************************************************)
(* Starting, watching and stopping garner: the command that checks the pid *)
(* file, the watcher it leaves behind (watch_child), the child that the    *)
(* watcher starts again after a crash, the pid file and the listener.      *)
(*                                                                         *)
(* Several commands may be started, and "garner -k" sent, at any time.     *)
(***************************************************************************)
EXTENDS GarnerBuild, Naturals

CONSTANTS
  Launches,    \* invocations of the garner command
  Transport,   \* the configured listener: "tcp", "udp" or "unix"
  NoFile, Empty, \* there is no pid file, nothing is in it yet
  MaxFails,    \* quick failures after which the watcher gives up: 5
  MaxFaults,   \* bound: crashes
  MaxStops     \* bound: garner -k shutdown, garner -k kill

ASSUME DaemonAssumption ==
  /\ Transport \in {"tcp", "udp", "unix"}
  /\ MaxFails \in Nat \ {0} /\ MaxFaults \in Nat /\ MaxStops \in Nat
  /\ NoFile # Empty

VARIABLES
  w,        \* the command and its watcher: "off", "check", "fork", "wait",
            \* "sleep" or "gone"
  failcount,
  c,        \* the child, by its next step; "dead" until the watcher waits
  gen,      \* number of children; the pid is <<launch, number>>
  status,   \* how the child ended: "ok", "fail", "signal" or "kill"
  ran,      \* the child has been serving
  seen,     \* lstat found a pid file
  quit,     \* SIGTERM has reached the child's handler
  pidfile,  \* a pid, Empty or NoFile
  faults, stops

chVars == <<c, gen, status, ran, seen, quit>>
daemonVars == <<Cygwin, w, failcount, chVars, pidfile, faults, stops>>

Alive == {"check", "stat", "open", "write", "setup", "bind", "serve", "closing"}

DaemonInit ==
  /\ Cygwin \in Builds
  /\ w = [l \in Launches |-> "off"] /\ failcount = [l \in Launches |-> 0]
  /\ c = [l \in Launches |-> "none"] /\ gen = [l \in Launches |-> 0]
  /\ status = [l \in Launches |-> "ok"] /\ ran = [l \in Launches |-> FALSE]
  /\ seen = [l \in Launches |-> FALSE] /\ quit = [l \in Launches |-> FALSE]
  /\ pidfile = NoFile /\ faults = 0 /\ stops = 0

-----------------------------------------------------------------------------
(* The pid file.                                                           *)

\* The pid file names the child of l; kill(pid, 0) also finds a zombie.
Names(l) == pidfile = <<l, gen[l]>> /\ c[l] # "none"

\* checkRunningPid in the command: the name in /proc is its own name.
Running == \E l \in Launches : Names(l)

\* checkRunningPid in a child: on Linux its appname, taken from argv[0], is
\* "(garner)", which no process has.
RunningForChild == Cygwin /\ Running

-----------------------------------------------------------------------------
(* The command and the watcher.                                            *)

\* garner is called.
Launch(l) ==
  /\ w[l] = "off"
  /\ w' = [w EXCEPT ![l] = "check"]
  /\ UNCHANGED <<Cygwin, failcount, chVars, pidfile, faults, stops>>

\* The command ends, or leaves a watcher behind.
Check(l) ==
  /\ w[l] = "check"
  /\ w' = [w EXCEPT ![l] = IF Running THEN "gone" ELSE "fork"]
  /\ UNCHANGED <<Cygwin, failcount, chVars, pidfile, faults, stops>>

Fork(l) ==
  /\ w[l] = "fork"
  /\ w' = [w EXCEPT ![l] = "wait"]
  /\ c' = [c EXCEPT ![l] = "check"] /\ gen' = [gen EXCEPT ![l] = @ + 1]
  /\ ran' = [ran EXCEPT ![l] = FALSE] /\ quit' = [quit EXCEPT ![l] = FALSE]
  /\ UNCHANGED <<Cygwin, failcount, status, seen, pidfile, faults, stops>>

\* Variant for mutation: any signal ends the watcher.
EndsWatcherSignal(l, n) ==
  n = MaxFails \/ status[l] \in {"ok", "kill", "signal"}

\* Variant for mutation: a clean exit is taken for a failure.
EndsWatcherNever(l, n) == n = MaxFails \/ status[l] = "kill"

\* The watcher ends after too many quick failures, a clean exit or SIGKILL.
EndsWatcher(l, n) == n = MaxFails \/ status[l] \in {"ok", "kill"}

\* waitpid returns; a child that ran for ten seconds resets the count.
Reap(l) ==
  /\ w[l] = "wait" /\ c[l] = "dead"
  /\ \E quick \in BOOLEAN :
       /\ ran[l] \/ quick
       /\ failcount' = [failcount EXCEPT ![l] = IF quick THEN @ + 1 ELSE 0]
  /\ w' = [w EXCEPT ![l] = IF EndsWatcher(l, failcount'[l]) THEN "gone"
                                                            ELSE "sleep"]
  /\ c' = [c EXCEPT ![l] = "none"]
  /\ UNCHANGED <<Cygwin, gen, status, ran, seen, quit, pidfile, faults, stops>>

\* Three seconds later.
Wake(l) ==
  /\ w[l] = "sleep"
  /\ w' = [w EXCEPT ![l] = "fork"]
  /\ UNCHANGED <<Cygwin, failcount, chVars, pidfile, faults, stops>>

-----------------------------------------------------------------------------
(* The child runs garner_main again.                                       *)

Goto(l, step) == c' = [c EXCEPT ![l] = step]

Exit(l, how) == Goto(l, "dead") /\ status' = [status EXCEPT ![l] = how]

ChildCheck(l) ==
  /\ c[l] = "check"
  /\ IF RunningForChild THEN Exit(l, "ok")
                        ELSE Goto(l, "stat") /\ UNCHANGED status
  /\ UNCHANGED <<Cygwin, w, failcount, gen, ran, seen, quit, pidfile, faults,
                 stops>>

\* create_file_safely: lstat ...
Stat(l) ==
  /\ c[l] = "stat"
  /\ seen' = [seen EXCEPT ![l] = pidfile # NoFile]
  /\ Goto(l, "open")
  /\ UNCHANGED <<Cygwin, w, failcount, gen, status, ran, quit, pidfile, faults,
                 stops>>

\* ... then open with O_EXCL, or open and truncate what lstat saw; fatal if
\* the file came or went in between.  (It is never unlinked and made again
\* between the two calls, or before Write, by two launches alone: the one that
\* unlinks it ends.)
Open(l) ==
  /\ c[l] = "open"
  /\ IF seen[l] = (pidfile # NoFile)
     THEN pidfile' = Empty /\ Goto(l, "write") /\ UNCHANGED status
     ELSE Exit(l, "fail") /\ UNCHANGED pidfile
  /\ UNCHANGED <<Cygwin, w, failcount, gen, ran, seen, quit, faults, stops>>

\* Variant for mutation: a pid file that was there is left alone.
WrittenFirst(l) == IF seen[l] THEN pidfile ELSE <<l, gen[l]>>

Written(l) == <<l, gen[l]>>

\* pidfile_create writes the pid through the descriptor; if the file was
\* unlinked meanwhile, nobody sees it.
Write(l) ==
  /\ c[l] = "write"
  /\ pidfile' = IF pidfile = NoFile THEN NoFile ELSE Written(l)
  /\ Goto(l, "setup")
  /\ UNCHANGED <<Cygwin, w, failcount, gen, status, ran, seen, quit, faults,
                 stops>>

\* User and group are changed and the signal handlers set.
Setup(l) ==
  /\ c[l] = "setup"
  /\ Goto(l, "bind")
  /\ UNCHANGED <<Cygwin, w, failcount, gen, status, ran, seen, quit, pidfile,
                 faults, stops>>

Serving(l) == c[l] \in {"serve", "closing"}

\* Two UDP sockets with SO_REUSEADDR may have one port, and the path of a
\* UNIX socket is unlinked before bind: only a TCP listener is exclusive.
CanBind(l) == Transport = "tcp" => \A k \in Launches : ~Serving(k)

\* init_network; when it fails the pid file stays.
Bind(l) ==
  /\ c[l] = "bind"
  /\ IF CanBind(l) THEN /\ Goto(l, "serve") /\ UNCHANGED status
                        /\ ran' = [ran EXCEPT ![l] = TRUE]
                   ELSE Exit(l, "fail") /\ UNCHANGED ran
  /\ UNCHANGED <<Cygwin, w, failcount, gen, seen, quit, pidfile, faults, stops>>

\* do_epoll ends because of the quit flag, which is taken to be seen: how
\* CHECK_SIG can lose it is in GarnerLoop.
Leave(l) ==
  /\ c[l] = "serve" /\ quit[l]
  /\ Goto(l, "closing")
  /\ UNCHANGED <<Cygwin, w, failcount, gen, status, ran, seen, quit, pidfile,
                 faults, stops>>

\* garner_shutdown removes the pid file, whatever is in it.
Close(l) ==
  /\ c[l] = "closing"
  /\ pidfile' = NoFile
  /\ Exit(l, "ok")
  /\ UNCHANGED <<Cygwin, w, failcount, gen, ran, seen, quit, faults, stops>>

Crash(l) ==
  /\ c[l] \in Alive
  /\ faults < MaxFaults /\ faults' = faults + 1
  /\ Exit(l, "signal")
  /\ UNCHANGED <<Cygwin, w, failcount, gen, ran, seen, quit, pidfile, stops>>

-----------------------------------------------------------------------------
(* garner -k: sendSignal to the process that the pid file names.           *)

\* SIGTERM sets a flag once the handlers are set and is deadly before.
Shutdown(l) ==
  /\ stops < MaxStops /\ Names(l) /\ c[l] \in Alive
  /\ stops' = stops + 1
  /\ IF c[l] \in {"bind", "serve", "closing"}
     THEN quit' = [quit EXCEPT ![l] = TRUE] /\ UNCHANGED <<c, status>>
     ELSE Exit(l, "signal") /\ UNCHANGED quit
  /\ UNCHANGED <<Cygwin, w, failcount, gen, ran, seen, pidfile, faults>>

Kill(l) ==
  /\ stops < MaxStops /\ Names(l) /\ c[l] \in Alive
  /\ stops' = stops + 1
  /\ Exit(l, "kill")
  /\ UNCHANGED <<Cygwin, w, failcount, gen, ran, seen, quit, pidfile, faults>>

Watcher(l) == Check(l) \/ Fork(l) \/ Reap(l) \/ Wake(l)

Child(l) ==
  \/ ChildCheck(l) \/ Stat(l) \/ Open(l) \/ Write(l) \/ Setup(l) \/ Bind(l)
  \/ Leave(l) \/ Close(l)

DaemonNext == \E l \in Launches :
  \/ Launch(l) \/ Watcher(l) \/ Child(l) \/ Crash(l) \/ Shutdown(l) \/ Kill(l)

DaemonSpec == DaemonInit /\ [][DaemonNext]_daemonVars

\* Processes are scheduled.
FairDaemonSpec ==
  DaemonSpec /\ \A l \in Launches : WF_daemonVars(Watcher(l)) /\ WF_daemonVars(Child(l))

-----------------------------------------------------------------------------
(* Properties.                                                             *)

\* Ranges; the watcher never counts beyond the limit and has a child exactly
\* while it waits.
DaemonTypeOK ==
  /\ Cygwin \in Builds
  /\ w \in [Launches -> {"off", "check", "fork", "wait", "sleep", "gone"}]
  /\ failcount \in [Launches -> 0..MaxFails]
  /\ c \in [Launches -> Alive \cup {"none", "dead"}]
  /\ status \in [Launches -> {"ok", "fail", "signal", "kill"}]
  /\ pidfile \in {NoFile, Empty} \cup (Launches \X Nat)
  /\ \A l \in Launches : w[l] = "wait" <=> c[l] # "none"

\* As long as only one garner was ever started, the pid file names its child
\* whenever that child serves, through crashes, restarts and stale pid files:
\* "garner -k" works.
SoleServerIsNamed ==
  \A l \in Launches :
    c[l] = "serve" /\ (\A k \in Launches \ {l} : w[k] = "off") => Names(l)

\* watch_child: after a crash garner serves again, unless it was stopped or
\* a watcher has given up after MaxFails quick failures.  (The other watcher's
\* too: a child that finds the pid of a failed one, not yet waited for, in the
\* pid file leaves the field to it.)
RestartedAfterCrash ==
  \A l \in Launches :
    c[l] = "dead" /\ status[l] = "signal" ~>
      \/ \E k \in Launches : c[k] = "serve"
      \/ stops > 0 \/ \E k \in Launches : failcount[k] = MaxFails

\* "shutdown - Shutdown Garner.": a serving garner that got the signal ends,
\* and its watcher ends with it instead of starting it again, unless the child
\* crashes on its way out.
ShutdownSticks ==
  \A l \in Launches :
    c[l] = "serve" /\ quit[l] ~>
      (w[l] = "gone" /\ c[l] = "none") \/ faults > 0

\* What holds at every step of racing starts, crashes and stops: the pid file
\* names a garner that was started alone and serves.
DaemonInv == DaemonTypeOK /\ SoleServerIsNamed
=============================================================================
