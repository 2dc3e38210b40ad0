------------------------------ MODULE Archiver ------------------------------
(***************************************************************************)
(* The archiving output plugin (libarchiever) with one logger: events are  *)
(* appended to a file in base_dir ("hot"), and the file is moved to        *)
(* base_dir/rotated by size, by the clock event, at shutdown, or at the    *)
(* next start.  Every event gets the name of its file and its offset there *)
(* (gr_data), which the index archiver writes down.                        *)
(*                                                                         *)
(* write, open, rename and md5sum may fail, write may be short, and garner *)
(* may die between any two system calls.                                   *)
(***************************************************************************)
EXTENDS Naturals, Sequences, Functions

CONSTANTS
  MaxSize,     \* logger->max_filesize
  Lengths,     \* lengths of formatted events
  Stamps,      \* timestamps of events, the last part of a file name
  Null,        \* no file name, no event
  MaxTime,     \* bound: seconds that pass
  MaxEvents,   \* bound: events
  MaxFaults    \* bound: failing calls, short writes and crashes

ASSUME ArchiverAssumption ==
  /\ MaxSize \in Nat \ {0}
  /\ Lengths \subseteq Nat \ {0} /\ Lengths # {}
  /\ MaxTime \in Nat /\ MaxEvents \in Nat /\ MaxFaults \in Nat

\* name_<time(NULL)>_<timestamp>.log
Names == (0..MaxTime) \X Stamps

VARIABLES
  \* the process
  up,       \* "running", "crashed" or "closed"
  pc,       \* "idle", "write", "account", "rotate" or "sum"
  todo,     \* events of the current archiever_output still to be archived
  opened,   \* logger->fd >= 0
  logfile, file_size, fp_offset,   \* struct _logger
  ev, wlen, wtry,                  \* write_to_file: the event, bytes, tries
  \* the disk: contents of base_dir and rotated, and the .md5 files
  hot, rotated, sums,
  \* what the index was told, and the environment
  index,    \* [ev, name, offset] of every archived event
  created,  \* how often create_archievefile chose a name
  stuck,    \* a rename has failed since the start
  clocked,  \* archiever_event is called: the plugin is an EventConsumer
  time, events, faults

logger  == <<opened, logfile, file_size, fp_offset>>
writing == <<ev, wlen, wtry>>
disk    == <<hot, rotated, sums>>
env     == <<index, created, stuck, clocked, time, events>>
vars    == <<up, pc, todo, logger, writing, disk, env, faults>>

Init ==
  /\ up = "closed" /\ pc = "idle" /\ todo = 0
  /\ opened = FALSE /\ logfile = Null /\ file_size = 0 /\ fp_offset = 0
  /\ ev = Null /\ wlen = 0 /\ wtry = 0
  /\ hot = << >> /\ rotated = << >> /\ sums = << >>
  /\ index = {} /\ created = [n \in Names |-> 0] /\ stuck = FALSE
  /\ clocked \in BOOLEAN
  /\ time = 0 /\ events = 0 /\ faults = 0

Fault == faults < MaxFaults /\ faults' = faults + 1

\* A call of the operating system goes well or costs a fault.
Call(ok) == IF ok THEN UNCHANGED faults ELSE Fault

At(l) == up = "running" /\ pc = l

-----------------------------------------------------------------------------
(* Moving files.                                                           *)

\* The files of f, and those of g that none of them replaces.
Over(f, g) == [n \in DOMAIN f \cup DOMAIN g |-> IF n \in DOMAIN f THEN f[n] ELSE g[n]]

\* rename replaces a rotated file that has the same name.
Move(S) ==
  /\ rotated' = Over(Restrict(hot, S), rotated)
  /\ hot' = Restrict(hot, DOMAIN hot \ S)

\* Variant for mutation: files that other processes left are not looked for.
SweepNothing(bad) ==
  /\ bad = {} /\ UNCHANGED <<hot, rotated, sums>>

\* rotate_unrotated_archievefiles: whatever is in base_dir is moved, except
\* the files whose rename fails, and summed, unless md5sum fails.
Sweep(bad) ==
  LET moved == DOMAIN hot \ bad IN
  /\ Move(moved)
  /\ \E S \in SUBSET moved : sums' = Over(Restrict(hot, S), sums)

\* archiever_init of the first instance parses the configuration and sweeps.
Start ==
  /\ up # "running"
  /\ up' = "running"
  /\ \E bad \in SUBSET DOMAIN hot :
       Sweep(bad) /\ stuck' = (bad # {}) /\ Call(bad = {})
  /\ UNCHANGED <<pc, todo, logger, writing, index, created, clocked, time, events>>

\* The memory of a process that has ended.
Gone ==
  /\ pc' = "idle" /\ todo' = 0
  /\ opened' = FALSE /\ logfile' = Null /\ file_size' = 0 /\ fp_offset' = 0
  /\ ev' = Null /\ wlen' = 0 /\ wtry' = 0

\* archiever_close of the last instance: reset_logger closes the file, then
\* archiever_cleanup_parsed_state sweeps.
Close ==
  /\ At("idle") /\ todo = 0
  /\ up' = "closed" /\ Gone
  /\ \E bad \in SUBSET DOMAIN hot :
       Sweep(bad) /\ stuck' = (stuck \/ bad # {}) /\ Call(bad = {})
  /\ UNCHANGED <<index, created, clocked, time, events>>

Crash ==
  /\ up = "running"
  /\ Fault
  /\ up' = "crashed" /\ Gone
  /\ UNCHANGED <<disk, env>>

-----------------------------------------------------------------------------
(* archiever_output and do_archieve.                                       *)

\* A batch of n events.
Output(n) ==
  /\ At("idle") /\ todo = 0
  /\ events + n <= MaxEvents
  /\ todo' = n
  /\ UNCHANGED <<up, pc, logger, writing, disk, env, faults>>

\* create_archievefile: the file is opened for appending, and may exist.
Create ==
  /\ At("idle") /\ todo > 0 /\ ~opened
  /\ \E ts \in Stamps :
       LET n == <<time, ts>> IN
       \/ /\ opened' = TRUE /\ logfile' = n
          /\ hot' = Over(hot, [m \in {n} |-> << >>])
          /\ file_size' = 0 /\ fp_offset' = 0
          /\ created' = [created EXCEPT ![n] = @ + 1]
          /\ UNCHANGED <<todo, faults>>
       \/ /\ Fault
          /\ logfile' = Null /\ todo' = 0
          /\ UNCHANGED <<opened, hot, file_size, fp_offset, created>>
  /\ UNCHANGED <<up, pc, writing, rotated, sums, index, stuck, clocked, time, events>>

\* archiever_prepare_logmsg formats the event.
Prepare ==
  /\ At("idle") /\ todo > 0 /\ opened
  /\ \E len \in Lengths : wlen' = len
  /\ ev' = [id |-> events, len |-> wlen'] /\ wtry' = 3
  /\ events' = events + 1
  /\ pc' = "write"
  /\ UNCHANGED <<up, todo, logger, disk, index, created, stuck, clocked, time, faults>>

\* Byte i of event e.
Byte(e, i) == <<e.id, i>>

\* One write: the first k of the remaining bytes reach the file.  After a
\* short write the next try starts at the first byte of buf again.  The
\* descriptor follows the file, should it have been moved.
Write(k) ==
  /\ At("write") /\ k <= wlen
  /\ LET bytes == [i \in 1..k |-> Byte(ev, i)] IN
     IF logfile \in DOMAIN hot
     THEN hot' = [hot EXCEPT ![logfile] = @ \o bytes] /\ UNCHANGED rotated
     ELSE rotated' = [rotated EXCEPT ![logfile] = @ \o bytes] /\ UNCHANGED hot
  /\ wlen' = wlen - k /\ wtry' = wtry - 1
  /\ pc' = IF wlen' = 0 \/ wtry' = 0 THEN "account" ELSE "write"
  /\ Call(k = wlen)
  /\ UNCHANGED <<up, todo, logger, ev, sums, env>>

\* write returns -1: "current entry couldnt be written".
WriteError ==
  /\ At("write")
  /\ Fault
  /\ pc' = "account"
  /\ UNCHANGED <<up, todo, logger, writing, disk, env>>

\* Variant for mutation: the offset is taken after the event was added.
OffsetAfter(ret) == file_size + ret

\* The offset that the event is given: where the file ended before it.
OffsetOf(ret) == fp_offset

Full(size) == size >= MaxSize

\* Back to archiever_output, which goes on unless the event failed.
Archived(ok) == todo' = IF ok THEN todo - 1 ELSE 0

\* The rest of do_archieve.
Account ==
  LET ret == ev.len - wlen IN
  /\ At("account")
  /\ IF ret = 0
     THEN /\ Archived(FALSE) /\ pc' = "idle"
          /\ UNCHANGED <<logger, index>>
     ELSE /\ file_size' = file_size + ret
          /\ index' = index \cup
               {[id |-> ev.id, name |-> logfile, offset |-> OffsetOf(ret)]}
          /\ fp_offset' = file_size'
          /\ Archived(TRUE)
          /\ pc' = IF Full(file_size') THEN "rotate" ELSE "idle"
          /\ UNCHANGED <<opened, logfile>>
  /\ ev' = Null /\ wlen' = 0 /\ wtry' = 0
  /\ UNCHANGED <<up, disk, created, stuck, clocked, time, events, faults>>

-----------------------------------------------------------------------------
(* Rotation.                                                               *)

\* archiever_event, called by garner's clock when the configuration makes the
\* plugin an EventConsumer.  The shipped ones leave that commented out, and
\* nothing reads the rotation_period of archiever.conf.
ClockEvent ==
  /\ clocked
  /\ At("idle") /\ todo = 0 /\ opened
  /\ pc' = "rotate"
  /\ UNCHANGED <<up, todo, logger, writing, disk, env, faults>>

\* close(logger->fd); logger->fd = -1
CloseFd == opened' = FALSE

\* Variant for mutation: the file is closed and not moved.
RotateOnlyCloses ==
  /\ At("rotate")
  /\ CloseFd
  /\ pc' = "idle"
  /\ UNCHANGED <<up, todo, logfile, file_size, fp_offset, writing, disk, env,
                 faults>>

\* rotate_archievefile: close, then rename; a failure is only logged.
Rotate ==
  /\ At("rotate")
  /\ CloseFd
  /\ \E ok \in BOOLEAN :
       /\ (ok => logfile \in DOMAIN hot) /\ Call(ok)
       /\ IF ok THEN Move({logfile}) /\ pc' = "sum" /\ UNCHANGED stuck
                ELSE UNCHANGED <<hot, rotated>> /\ pc' = "idle" /\ stuck' = TRUE
  /\ UNCHANGED <<up, todo, logfile, file_size, fp_offset, writing, sums,
                 index, created, clocked, time, events>>

\* make_archievefile_md5sum; its result is ignored.
Sum ==
  /\ At("sum")
  /\ pc' = "idle"
  /\ \E ok \in BOOLEAN :
       /\ Call(ok)
       /\ IF ok THEN sums' = Over(Restrict(rotated, {logfile}), sums)
                ELSE UNCHANGED sums
  /\ UNCHANGED <<up, todo, logger, writing, hot, rotated, env>>

Tick ==
  /\ time < MaxTime
  /\ time' = time + 1
  /\ UNCHANGED <<up, pc, todo, logger, writing, disk, index, created, stuck,
                 clocked, events, faults>>

Step == Create \/ Prepare \/ WriteError \/ Account \/ Rotate \/ Sum
        \/ \E k \in 0..wlen : Write(k)

\* Where the bounds end a behaviour: every event was sent, garner is shut down.
Finished == up = "closed" /\ events = MaxEvents /\ UNCHANGED vars

Next == \/ Start \/ Close \/ Crash \/ Step \/ ClockEvent \/ Tick \/ Finished
        \/ \E n \in 1..MaxEvents : Output(n)

Spec == Init /\ [][Next]_vars

\* The main loop runs, the watcher restarts garner after a crash, and the
\* clock's pipe is served however many events arrive (which calls this plugin
\* only if it is clocked: ClockEvent is not enabled otherwise).
Fairness ==
  WF_vars(Step) /\ WF_vars(up = "crashed" /\ Start) /\ SF_vars(ClockEvent)

FairSpec == Spec /\ Fairness

-----------------------------------------------------------------------------
(* Properties.                                                             *)

\* Ranges; the open file is in base_dir under the name of logfile.
TypeOK ==
  /\ up \in {"running", "crashed", "closed"}
  /\ pc \in {"idle", "write", "account", "rotate", "sum"}
  /\ DOMAIN hot \subseteq Names /\ DOMAIN rotated \subseteq Names
  /\ DOMAIN sums \subseteq DOMAIN rotated
  /\ todo \in 0..MaxEvents /\ wtry \in 0..3
  /\ file_size \in Nat /\ fp_offset \in Nat
  /\ opened => logfile \in DOMAIN hot
  /\ pc \in {"write", "account"} => ev.len >= wlen

\* The file of a name, wherever it is now.
FileOf(n) == IF n \in DOMAIN hot THEN hot[n]
             ELSE IF n \in DOMAIN rotated THEN rotated[n] ELSE << >>

Points(r) ==
  LET f == FileOf(r.name) IN
  r.offset < Len(f) /\ f[r.offset + 1] = <<r.id, 1>>

\* do_archieve: if no other file got the same name, the file name and offset
\* that an event was given lead to its first byte for ever, through rotation,
\* short writes, failed renames and crashes.
IndexExact == \A r \in index : created[r.name] = 1 => Points(r)

\* A file exceeds max_filesize by less than one event, also when renames fail
\* and short writes are repeated.
SizeBounded ==
  \A n \in Names : created[n] = 1 =>
    \E len \in Lengths : Len(FileOf(n)) < MaxSize + len

\* While garner runs, only the open file is in base_dir, unless a rename has
\* failed since the start; files of a crashed process are moved at the start.
HotIsOpen ==
  up = "running" /\ ~stuck =>
    DOMAIN hot \subseteq (IF opened THEN {logfile} ELSE {})

\* An .md5 file is the sum of the rotated file next to it: nothing is written
\* to a file after it was summed.
SumsCurrent ==
  \A n \in DOMAIN sums : created[n] = 1 => sums[n] = rotated[n]

\* A file that has reached max_filesize, and with an EventConsumer every file
\* however small, comes to rotated, where the web application collects it, if no
\* rename fails and garner is not shut down before.  Without an EventConsumer a
\* file below max_filesize waits in base_dir for more events, a shutdown or a
\* restart, for ever if none comes: that is how garner ships.
EventuallyRotated ==
  \A n \in Names :
    n \in DOMAIN hot /\ (clocked \/ Full(Len(hot[n])))
    ~> (n \in DOMAIN rotated \/ stuck \/ up = "closed")

\* What holds of the files at every step, short writes, failed calls and
\* crashes included: sizes within their limit, no file of base_dir that nobody
\* will rotate, sums that match.
FilesInv == TypeOK /\ SizeBounded /\ HotIsOpen /\ SumsCurrent
=============================================================================
