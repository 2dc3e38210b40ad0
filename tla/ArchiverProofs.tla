---------------------------- MODULE ArchiverProofs ----------------------------
(***************************************************************************)
(* For any sizes, numbers of events and failures, and any clock: the name  *)
(* and the offset that do_archieve gives to an event lead to its first     *)
(* byte for ever, files keep their limit, sums match the rotated files,    *)
(* and base_dir holds no file that nobody will rotate.                     *)
(*                                                                         *)
(* The plugin never asks the disk where a file ends: it keeps file_size    *)
(* beside the file.  The heart of the inductive invariant is WrittenInv,   *)
(* the two agree while the file is open, up to the bytes of the event that *)
(* is being written; OnceInv says why a file keeps its contents when it is *)
(* moved, if its name was given once.                                      *)
(***************************************************************************)
EXTENDS Archiver, TLAPS

Bytes == Seq(Nat \X Nat)

\* What the variables range over.
Typed ==
  /\ up \in {"running", "crashed", "closed"}
  /\ pc \in {"idle", "write", "account", "rotate", "sum"}
  /\ todo \in 0..MaxEvents /\ wlen \in Nat /\ wtry \in 0..3
  /\ opened \in BOOLEAN /\ stuck \in BOOLEAN
  /\ file_size \in Nat /\ fp_offset \in Nat
  /\ created \in [Names -> Nat] /\ time \in 0..MaxTime /\ events \in Nat
  /\ index \subseteq [id : Nat, name : Names, offset : Nat]

\* The files, and a sum only for a rotated one.
DiskTyped ==
  /\ DOMAIN hot \subseteq Names /\ DOMAIN rotated \subseteq Names
  /\ DOMAIN sums \subseteq DOMAIN rotated
  /\ \A n \in DOMAIN hot : hot[n] \in Bytes
  /\ \A n \in DOMAIN rotated : rotated[n] \in Bytes

\* Which file the process is at, and that it has room for an event.
OpenInv ==
  /\ up # "running" => pc = "idle" /\ ~opened /\ todo = 0
  /\ opened => logfile \in DOMAIN hot /\ fp_offset = file_size
  /\ pc \in {"write", "account", "rotate"} => opened
  /\ pc = "sum" => ~opened /\ logfile \in DOMAIN rotated
  /\ opened /\ pc # "rotate" => file_size < MaxSize

\* The event that is being written.
EventInv ==
  /\ pc \in {"write", "account"} =>
       todo > 0 /\ ev.id \in Nat /\ ev.len \in Lengths /\ wlen <= ev.len
  /\ pc = "write" => wtry > 0

\* Files have names that were chosen, and a name that was chosen once is that
\* of one file.
OnceInv ==
  /\ \A n \in DOMAIN hot \cup DOMAIN rotated : created[n] # 0
  /\ \A n \in DOMAIN hot \cap DOMAIN rotated : created[n] # 1
  /\ \A r \in index : created[r.name] # 0

\* file_size is where the event being written starts in the open file.
WrittenInv ==
  opened /\ created[logfile] = 1 =>
    /\ pc \in {"idle", "rotate"} => Len(hot[logfile]) = file_size
    /\ pc \in {"write", "account"} =>
         /\ Len(hot[logfile]) = file_size + (ev.len - wlen)
         /\ wlen < ev.len => hot[logfile][file_size + 1] = <<ev.id, 1>>

IInv ==
  /\ Typed /\ DiskTyped /\ OpenInv /\ EventInv /\ OnceInv /\ WrittenInv
  /\ SizeBounded /\ HotIsOpen /\ SumsCurrent /\ IndexExact

USE ArchiverAssumption

-----------------------------------------------------------------------------
(* Files.                                                                  *)

\* What Over makes of two sets of files.
LEMMA OverHas ==
  ASSUME NEW f, NEW g
  PROVE  /\ DOMAIN Over(f, g) = DOMAIN f \cup DOMAIN g
         /\ \A n \in DOMAIN f : Over(f, g)[n] = f[n]
         /\ \A n \in DOMAIN g : n \notin DOMAIN f => Over(f, g)[n] = g[n]
  BY DEF Over

\* What rename makes of the two directories.
LEMMA MoveHas ==
  ASSUME NEW S, S \subseteq DOMAIN hot, Move(S)
  PROVE  /\ DOMAIN hot' = DOMAIN hot \ S /\ DOMAIN rotated' = S \cup DOMAIN rotated
         /\ \A n \in DOMAIN hot' : hot'[n] = hot[n]
         /\ \A n \in S : rotated'[n] = hot[n]
         /\ \A n \in DOMAIN rotated : n \notin S => rotated'[n] = rotated[n]
<1>1. rotated' = Over(Restrict(hot, S), rotated) /\ hot' = Restrict(hot, DOMAIN hot \ S)
  BY DEF Move
<1>2. DOMAIN Restrict(hot, S) = S /\ \A n \in S : Restrict(hot, S)[n] = hot[n]
  BY DEF Restrict
<1>3. DOMAIN hot' = DOMAIN hot \ S /\ \A n \in DOMAIN hot' : hot'[n] = hot[n]
  BY <1>1 DEF Restrict
<1>4. PICK f : f = Restrict(hot, S)
  OBVIOUS
<1>5. /\ DOMAIN Over(f, rotated) = DOMAIN f \cup DOMAIN rotated
      /\ \A n \in DOMAIN f : Over(f, rotated)[n] = f[n]
      /\ \A n \in DOMAIN rotated : n \notin DOMAIN f => Over(f, rotated)[n] = rotated[n]
  BY OverHas
<1>6. rotated' = Over(f, rotated) /\ DOMAIN f = S /\ \A n \in S : f[n] = hot[n]
  BY <1>1, <1>2, <1>4
<1>7. PICK g : g = Over(f, rotated)
  OBVIOUS
<1>8. rotated' = g /\ DOMAIN g = S \cup DOMAIN rotated /\ (\A n \in S : g[n] = hot[n])
      /\ \A n \in DOMAIN rotated : n \notin S => g[n] = rotated[n]
  BY <1>5, <1>6, <1>7, Zenon
<1> QED BY <1>3, <1>8

\* Bytes that are appended leave the others where they are.
LEMMA Appended ==
  ASSUME NEW f \in Bytes, NEW b \in Bytes
  PROVE  /\ f \o b \in Bytes /\ Len(f \o b) = Len(f) + Len(b)
         /\ \A i \in 1..Len(f) : (f \o b)[i] = f[i]
         /\ \A i \in 1..Len(b) : (f \o b)[Len(f) + i] = b[i]
  BY DEF Bytes

\* The properties of contents hold on as long as files whose names were given
\* once keep their contents.
LEMMA ContentsAlone ==
  ASSUME IInv, UNCHANGED <<created, index>>,
         \A n \in Names : created[n] = 1 => FileOf(n)' = FileOf(n)
  PROVE  SizeBounded' /\ IndexExact'
<1>1. SizeBounded'
  <2>1. \A n \in Names : created[n] = 1 => \E len \in Lengths : Len(FileOf(n)) < MaxSize + len
    BY DEF IInv, SizeBounded
  <2>2. \A n \in Names : created'[n] = 1 => \E len \in Lengths : Len(FileOf(n)') < MaxSize + len
    BY <2>1
  <2> QED BY <2>2 DEF SizeBounded
<1>2. IndexExact'
  <2>1. ASSUME NEW r \in index', created'[r.name] = 1 PROVE Points(r)'
    <3>1. r \in index /\ created[r.name] = 1 /\ r.name \in Names
      BY <2>1 DEF IInv, Typed
    <3>2. Points(r)
      BY <3>1 DEF IInv, IndexExact
    <3>3. FileOf(r.name)' = FileOf(r.name)
      BY <3>1
    <3> QED BY <3>2, <3>3 DEF Points
  <2> QED BY <2>1 DEF IndexExact
<1> QED BY <1>1, <1>2

\* A step that touches no file.
LEMMA DiskAlone ==
  ASSUME IInv, UNCHANGED <<hot, rotated, sums, created, index>>
  PROVE  DiskTyped' /\ OnceInv' /\ SizeBounded' /\ SumsCurrent' /\ IndexExact'
<1>1. \A n \in Names : FileOf(n)' = FileOf(n)
  BY DEF FileOf
<1>2. SizeBounded' /\ IndexExact'
  BY <1>1, ContentsAlone
<1>3. DiskTyped' /\ OnceInv' /\ SumsCurrent'
  BY DEF IInv, DiskTyped, OnceInv, SumsCurrent
<1> QED BY <1>2, <1>3

\* Files are moved, and some of them are summed.
LEMMA MoveKeeps ==
  ASSUME IInv, NEW S, S \subseteq DOMAIN hot, Move(S), UNCHANGED <<created, index>>,
         \A n \in DOMAIN sums' : \/ n \in S /\ sums'[n] = hot[n]
                                 \/ n \in DOMAIN sums /\ sums'[n] = sums[n]
  PROVE  DiskTyped' /\ OnceInv' /\ SizeBounded' /\ SumsCurrent' /\ IndexExact'
<1>1. /\ DOMAIN hot' = DOMAIN hot \ S /\ DOMAIN rotated' = S \cup DOMAIN rotated
      /\ \A n \in DOMAIN hot' : hot'[n] = hot[n]
      /\ \A n \in S : rotated'[n] = hot[n]
      /\ \A n \in DOMAIN rotated : n \notin S => rotated'[n] = rotated[n]
  BY MoveHas
<1>2. DiskTyped /\ OnceInv
  BY DEF IInv
<1>3. DiskTyped'
  <2>1. DOMAIN hot' \subseteq Names /\ DOMAIN rotated' \subseteq Names
    BY <1>1, <1>2 DEF DiskTyped
  <2>2. DOMAIN sums' \subseteq DOMAIN rotated'
    BY <1>1, <1>2 DEF DiskTyped
  <2>3. \A n \in DOMAIN hot' : hot'[n] \in Bytes
    BY <1>1, <1>2 DEF DiskTyped
  <2>4. ASSUME NEW n \in DOMAIN rotated' PROVE rotated'[n] \in Bytes
    <3>1. CASE n \in S
      BY <1>1, <1>2, <3>1 DEF DiskTyped
    <3>2. CASE n \notin S
      BY <1>1, <1>2, <3>2 DEF DiskTyped
    <3> QED BY <3>1, <3>2
  <2> QED BY <2>1, <2>2, <2>3, <2>4 DEF DiskTyped
<1>4. OnceInv'
  BY <1>1, <1>2 DEF OnceInv
<1>5. ASSUME NEW n \in Names, created[n] = 1 PROVE FileOf(n)' = FileOf(n)
  <2>1. ~(n \in DOMAIN hot /\ n \in DOMAIN rotated)
    BY <1>2, <1>5 DEF OnceInv
  <2>2. CASE n \in S
    <3>1. n \in DOMAIN hot /\ n \notin DOMAIN hot' /\ n \in DOMAIN rotated' /\ rotated'[n] = hot[n]
      BY <1>1, <2>2
    <3> QED BY <3>1 DEF FileOf
  <2>3. CASE n \notin S /\ n \in DOMAIN hot
    <3>1. n \in DOMAIN hot' /\ hot'[n] = hot[n]
      BY <1>1, <2>3
    <3> QED BY <2>3, <3>1 DEF FileOf
  <2>4. CASE n \notin DOMAIN hot
    <3>1. n \notin S /\ n \notin DOMAIN hot' /\ (n \in DOMAIN rotated' <=> n \in DOMAIN rotated)
      BY <1>1, <2>4
    <3>2. n \in DOMAIN rotated => rotated'[n] = rotated[n]
      BY <1>1, <3>1
    <3> QED BY <2>4, <3>1, <3>2 DEF FileOf
  <2> QED BY <2>2, <2>3, <2>4
<1>6. SizeBounded' /\ IndexExact'
  BY <1>5, ContentsAlone
<1>7. SumsCurrent'
  <2>1. ASSUME NEW n \in DOMAIN sums', created'[n] = 1 PROVE sums'[n] = rotated'[n]
    <3>1. CASE n \in S /\ sums'[n] = hot[n]
      BY <1>1, <3>1
    <3>2. CASE n \in DOMAIN sums /\ sums'[n] = sums[n]
      <4>1. n \in DOMAIN rotated /\ n \notin S
        BY <1>2, <2>1, <3>2 DEF DiskTyped, OnceInv
      <4>2. sums[n] = rotated[n]
        BY <2>1, <3>2 DEF IInv, SumsCurrent
      <4> QED BY <1>1, <3>2, <4>1, <4>2
    <3> QED BY <3>1, <3>2
  <2> QED BY <2>1 DEF SumsCurrent
<1> QED BY <1>3, <1>4, <1>6, <1>7

\* The sweep of the whole directory.
LEMMA SweepKeeps ==
  ASSUME IInv, NEW bad, bad \subseteq DOMAIN hot, Sweep(bad), UNCHANGED <<created, index>>
  PROVE  /\ DiskTyped' /\ OnceInv' /\ SizeBounded' /\ SumsCurrent' /\ IndexExact'
         /\ DOMAIN hot' = bad
<1> DEFINE M == DOMAIN hot \ bad
<1>1. PICK S \in SUBSET M : sums' = Over(Restrict(hot, S), sums)
  BY DEF Sweep
<1>2. Move(M)
  BY DEF Sweep
<1>3. \A n \in DOMAIN sums' : \/ n \in M /\ sums'[n] = hot[n]
                              \/ n \in DOMAIN sums /\ sums'[n] = sums[n]
  <2>1. DOMAIN Restrict(hot, S) = S /\ \A n \in S : Restrict(hot, S)[n] = hot[n]
    BY DEF Restrict
  <2>2. PICK f : f = Restrict(hot, S)
    OBVIOUS
  <2>3. /\ DOMAIN Over(f, sums) = DOMAIN f \cup DOMAIN sums
        /\ \A n \in DOMAIN f : Over(f, sums)[n] = f[n]
        /\ \A n \in DOMAIN sums : n \notin DOMAIN f => Over(f, sums)[n] = sums[n]
    BY OverHas
  <2>4. DOMAIN f = S /\ (\A n \in S : f[n] = hot[n]) /\ sums' = Over(f, sums)
    BY <1>1, <2>1, <2>2
  <2> QED BY <1>1, <2>3, <2>4
<1>4. DOMAIN hot' = bad
  <2>1. DOMAIN hot' = DOMAIN hot \ M
    BY <1>2, MoveHas
  <2> QED BY <2>1
<1> HIDE DEF M
<1>5. M \subseteq DOMAIN hot
  BY DEF M
<1> QED BY <1>2, <1>3, <1>4, <1>5, MoveKeeps

-----------------------------------------------------------------------------
(* Start, shutdown and crash.                                              *)

\* Where nothing is open, only types and files matter.
LEMMA NothingOpen ==
  ASSUME Typed', DiskTyped', OnceInv', SizeBounded', SumsCurrent', IndexExact', HotIsOpen',
         pc' = "idle", ~opened', up' = "running" \/ todo' = 0
  PROVE  IInv'
<1>1. OpenInv' /\ EventInv'
  BY DEF OpenInv, EventInv
<1>2. WrittenInv'
  BY DEF WrittenInv
<1> QED BY <1>1, <1>2 DEF IInv

\* The process starts and sweeps what its predecessors left.
LEMMA StartKeeps ==
  ASSUME IInv, Start
  PROVE  IInv'
<1>1. PICK bad \in SUBSET DOMAIN hot : Sweep(bad) /\ stuck' = (bad # {})
  BY DEF Start
<1>2. /\ up # "running" /\ up' = "running"
      /\ UNCHANGED <<pc, todo, opened, logfile, file_size, fp_offset, ev, wlen, wtry>>
      /\ UNCHANGED <<index, created, time, events>>
  BY DEF Start, logger, writing
<1>3. /\ DiskTyped' /\ OnceInv' /\ SizeBounded' /\ SumsCurrent' /\ IndexExact'
      /\ DOMAIN hot' = bad
  BY <1>1, <1>2, SweepKeeps
<1>4. pc = "idle" /\ ~opened
  BY <1>2 DEF IInv, OpenInv
<1>5. Typed'
  <2>1. stuck' \in BOOLEAN
    BY <1>1
  <2> QED BY <1>2, <2>1 DEF IInv, Typed
<1>6. HotIsOpen'
  <2>1. ~stuck' => DOMAIN hot' = {}
    BY <1>1, <1>3
  <2> QED BY <2>1 DEF HotIsOpen
<1> QED BY <1>2, <1>3, <1>4, <1>5, <1>6, NothingOpen

\* The process ends, in order or not.
LEMMA EndKeeps ==
  ASSUME IInv, Close \/ Crash
  PROVE  IInv'
<1>1. /\ pc' = "idle" /\ todo' = 0 /\ opened' = FALSE /\ file_size' = 0 /\ fp_offset' = 0
      /\ wlen' = 0 /\ wtry' = 0 /\ up' \in {"closed", "crashed"}
      /\ UNCHANGED <<index, created, time, events>>
  BY DEF Close, Crash, Gone, env
<1>2. /\ DiskTyped' /\ OnceInv' /\ SizeBounded' /\ SumsCurrent' /\ IndexExact'
      /\ stuck' \in BOOLEAN
  <2>1. CASE Close
    <3>1. PICK bad \in SUBSET DOMAIN hot : Sweep(bad) /\ stuck' = (stuck \/ bad # {})
      BY <2>1 DEF Close
    <3>2. stuck' \in BOOLEAN
      BY <3>1
    <3> QED BY <1>1, <3>1, <3>2, SweepKeeps
  <2>2. CASE Crash
    <3>1. UNCHANGED <<hot, rotated, sums, stuck>>
      BY <2>2 DEF Crash, disk, env
    <3>2. stuck' \in BOOLEAN
      BY <3>1 DEF IInv, Typed
    <3> QED BY <1>1, <3>1, <3>2, DiskAlone
  <2> QED BY <2>1, <2>2
<1>3. Typed'
  <2>1. opened' \in BOOLEAN
    BY <1>1
  <2> QED BY <1>1, <1>2, <2>1 DEF IInv, Typed
<1>4. HotIsOpen'
  BY <1>1 DEF HotIsOpen
<1> QED BY <1>1, <1>2, <1>3, <1>4, NothingOpen

-----------------------------------------------------------------------------
(* Events.                                                                 *)

\* A batch arrives, the clock ticks, or nothing happens.
LEMMA EnvKeeps ==
  ASSUME IInv, (\E n \in 1..MaxEvents : Output(n)) \/ Tick \/ UNCHANGED vars
  PROVE  IInv'
<1>1. /\ UNCHANGED <<up, pc, opened, logfile, file_size, fp_offset, ev, wlen, wtry>>
      /\ UNCHANGED <<hot, rotated, sums, index, created, stuck>>
  BY DEF Output, Tick, vars, logger, writing, disk, env
<1>2. /\ time' \in 0..MaxTime /\ events' \in Nat /\ todo' \in 0..MaxEvents
      /\ todo' = todo \/ (up = "running" /\ pc = "idle")
  <2>1. CASE \E n \in 1..MaxEvents : Output(n)
    BY <2>1 DEF Output, At, env, IInv, Typed
  <2>2. CASE Tick
    BY <2>2 DEF Tick, IInv, Typed
  <2>3. CASE UNCHANGED vars
    BY <2>3 DEF vars, env, IInv, Typed
  <2> QED BY <2>1, <2>2, <2>3
<1>3. DiskTyped' /\ OnceInv' /\ SizeBounded' /\ SumsCurrent' /\ IndexExact'
  BY <1>1, DiskAlone
<1>4. Typed'
  BY <1>1, <1>2 DEF IInv, Typed
<1>5. OpenInv' /\ EventInv'
  BY <1>1, <1>2 DEF IInv, OpenInv, EventInv
<1>6. WrittenInv' /\ HotIsOpen'
  BY <1>1 DEF IInv, WrittenInv, HotIsOpen
<1> QED BY <1>3, <1>4, <1>5, <1>6 DEF IInv

\* A file is opened: a new one if its name was never chosen.
LEMMA CreateKeeps ==
  ASSUME IInv, Create
  PROVE  IInv'
<1>1. /\ up = "running" /\ pc = "idle" /\ ~opened
      /\ UNCHANGED <<up, pc, ev, wlen, wtry, rotated, sums, index, stuck, time, events>>
  BY DEF Create, At, writing
<1>2. Typed /\ DiskTyped /\ OnceInv /\ HotIsOpen
  BY DEF IInv
<1>3. PICK n \in Names :
        \/ /\ opened' = TRUE /\ logfile' = n
           /\ hot' = Over(hot, [m \in {n} |-> << >>])
           /\ file_size' = 0 /\ fp_offset' = 0
           /\ created' = [created EXCEPT ![n] = @ + 1]
           /\ UNCHANGED todo
        \/ /\ todo' = 0
           /\ UNCHANGED <<opened, hot, file_size, fp_offset, created>>
  <2>1. PICK ts \in Stamps :
        \/ /\ opened' = TRUE /\ logfile' = <<time, ts>>
           /\ hot' = Over(hot, [m \in {<<time, ts>>} |-> << >>])
           /\ file_size' = 0 /\ fp_offset' = 0
           /\ created' = [created EXCEPT ![<<time, ts>>] = @ + 1]
           /\ UNCHANGED todo
        \/ /\ todo' = 0
           /\ UNCHANGED <<opened, hot, file_size, fp_offset, created>>
    BY Zenon DEF Create
  <2>2. <<time, ts>> \in Names
    BY <1>2 DEF Names, Typed
  <2> QED BY <2>1, <2>2, Zenon
<1>4. CASE todo' = 0 /\ UNCHANGED <<opened, hot, file_size, fp_offset, created>>
  <2>1. DiskTyped' /\ OnceInv' /\ SizeBounded' /\ SumsCurrent' /\ IndexExact'
    BY <1>1, <1>4, DiskAlone
  <2>2. Typed'
    BY <1>1, <1>2, <1>4 DEF Typed
  <2>3. HotIsOpen'
    BY <1>1, <1>2, <1>4 DEF HotIsOpen
  <2> QED BY <1>1, <1>4, <2>1, <2>2, <2>3, NothingOpen
<1>5. CASE /\ opened' = TRUE /\ logfile' = n
           /\ hot' = Over(hot, [m \in {n} |-> << >>])
           /\ file_size' = 0 /\ fp_offset' = 0
           /\ created' = [created EXCEPT ![n] = @ + 1]
           /\ UNCHANGED todo
  <2>1. /\ DOMAIN hot' = DOMAIN hot \cup {n}
        /\ \A m \in DOMAIN hot : hot'[m] = hot[m]
        /\ n \notin DOMAIN hot => hot'[n] = << >>
    <3>1. PICK g : g = [m \in {n} |-> << >>]
      OBVIOUS
    <3>2. DOMAIN g = {n} /\ g[n] = << >> /\ hot' = Over(hot, g)
      BY <1>5, <3>1
    <3>3. /\ DOMAIN Over(hot, g) = DOMAIN hot \cup DOMAIN g
          /\ \A m \in DOMAIN hot : Over(hot, g)[m] = hot[m]
          /\ \A m \in DOMAIN g : m \notin DOMAIN hot => Over(hot, g)[m] = g[m]
      BY OverHas
    <3> QED BY <3>2, <3>3
  <2>2. /\ created' \in [Names -> Nat] /\ created'[n] = created[n] + 1 /\ created[n] \in Nat
        /\ \A m \in Names : m # n => created'[m] = created[m]
    BY <1>2, <1>5 DEF Typed
  <2>3. created'[n] # 0 /\ (created'[n] = 1 => created[n] = 0)
    BY <2>2
  <2>4. created[n] = 0 => n \notin DOMAIN hot /\ n \notin DOMAIN rotated /\ \A r \in index : r.name # n
    BY <1>2 DEF OnceInv
  <2>5. Typed'
    <3>1. opened' \in BOOLEAN
      BY <1>5
    <3> QED BY <1>1, <1>2, <1>5, <2>2, <3>1 DEF Typed
  <2>6. DiskTyped'
    <3>1. << >> \in Bytes
      BY DEF Bytes
    <3>2. \A m \in DOMAIN hot' : hot'[m] \in Bytes
      BY <1>2, <2>1, <3>1 DEF DiskTyped
    <3> QED BY <1>1, <1>2, <2>1, <3>2 DEF DiskTyped
  <2>7. OpenInv' /\ EventInv'
    BY <1>1, <1>5, <2>1 DEF OpenInv, EventInv
  <2>8. OnceInv'
    <3>1. DOMAIN hot \subseteq Names /\ DOMAIN rotated \subseteq Names /\ \A r \in index : r.name \in Names
      BY <1>2 DEF DiskTyped, Typed
    <3>2. \A m \in DOMAIN hot' \cup DOMAIN rotated' : created'[m] # 0
      BY <1>1, <1>2, <2>1, <2>2, <2>3, <3>1 DEF OnceInv
    <3>3. \A m \in DOMAIN hot' \cap DOMAIN rotated' : created'[m] # 1
      BY <1>1, <1>2, <2>1, <2>2, <2>3, <2>4, <3>1 DEF OnceInv
    <3>4. \A r \in index' : created'[r.name] # 0
      BY <1>1, <1>2, <2>2, <2>3, <3>1 DEF OnceInv
    <3> QED BY <3>2, <3>3, <3>4 DEF OnceInv
  <2>9. created'[n] = 1 => hot'[n] = << >>
    BY <2>1, <2>3, <2>4
  <2>10. WrittenInv'
    <3>1. created'[n] = 1 => Len(hot'[n]) = 0
      BY <2>9
    <3> QED BY <1>1, <1>5, <3>1 DEF WrittenInv
  <2>11. \A m \in Names : m # n => FileOf(m)' = FileOf(m)
    BY <1>1, <2>1 DEF FileOf
  <2>12. SizeBounded'
    <3>1. ASSUME NEW m \in Names, created'[m] = 1
          PROVE  \E len \in Lengths : Len(FileOf(m)') < MaxSize + len
      <4>1. CASE m = n
        <5>1. FileOf(m)' = << >>
          BY <2>1, <2>9, <3>1, <4>1 DEF FileOf
        <5>2. PICK len \in Lengths : len \in Nat
          OBVIOUS
        <5>3. Len(<< >>) < MaxSize + len
          BY <5>2
        <5> QED BY <5>1, <5>3
      <4>2. CASE m # n
        BY <2>2, <2>11, <3>1, <4>2 DEF IInv, SizeBounded
      <4> QED BY <4>1, <4>2
    <3> QED BY <3>1 DEF SizeBounded
  <2>13. SumsCurrent'
    <3>1. ASSUME NEW m \in DOMAIN sums', created'[m] = 1 PROVE sums'[m] = rotated'[m]
      <4>1. m \in DOMAIN sums /\ m \in DOMAIN rotated /\ m \in Names
        BY <1>1, <1>2 DEF DiskTyped
      <4>2. m # n
        BY <2>3, <2>4, <3>1, <4>1
      <4>3. created[m] = 1
        BY <2>2, <3>1, <4>1, <4>2
      <4> QED BY <1>1, <4>1, <4>3 DEF IInv, SumsCurrent
    <3> QED BY <3>1 DEF SumsCurrent
  <2>14. IndexExact'
    <3>1. ASSUME NEW r \in index', created'[r.name] = 1 PROVE Points(r)'
      <4>1. r \in index /\ r.name \in Names
        BY <1>1, <1>2 DEF Typed
      <4>2. r.name # n
        BY <2>3, <2>4, <3>1, <4>1
      <4>3. created[r.name] = 1 /\ FileOf(r.name)' = FileOf(r.name)
        BY <2>2, <2>11, <3>1, <4>1, <4>2
      <4>4. Points(r)
        BY <4>1, <4>3 DEF IInv, IndexExact
      <4> QED BY <4>3, <4>4 DEF Points
    <3> QED BY <3>1 DEF IndexExact
  <2>15. HotIsOpen'
    <3>1. ~stuck => DOMAIN hot = {}
      BY <1>1, <1>2 DEF HotIsOpen
    <3>2. ~stuck' => DOMAIN hot' \subseteq {logfile'}
      BY <1>1, <1>5, <2>1, <3>1
    <3> QED BY <1>5, <3>2 DEF HotIsOpen
  <2> QED BY <2>5, <2>6, <2>7, <2>8, <2>10, <2>12, <2>13, <2>14, <2>15 DEF IInv
<1> QED BY <1>3, <1>4, <1>5

\* An event is formatted, a write fails, or the clock asks for the rotation.
LEMMA StepsKeep ==
  ASSUME IInv, Prepare \/ WriteError \/ ClockEvent
  PROVE  IInv'
<1>1. /\ UNCHANGED <<up, todo, opened, logfile, file_size, fp_offset>>
      /\ UNCHANGED <<hot, rotated, sums, index, created, stuck, time>>
      /\ up = "running"
  BY DEF Prepare, WriteError, ClockEvent, At, logger, disk, env
<1>2. DiskTyped' /\ OnceInv' /\ SizeBounded' /\ SumsCurrent' /\ IndexExact'
  BY <1>1, DiskAlone
<1>3. HotIsOpen'
  BY <1>1 DEF IInv, HotIsOpen
<1>4. Typed /\ OpenInv /\ EventInv /\ WrittenInv
  BY DEF IInv
<1>5. CASE Prepare
  <2>1. PICK len \in Lengths : wlen' = len
    BY <1>5 DEF Prepare
  <2>2. /\ pc = "idle" /\ todo > 0 /\ opened /\ wtry' = 3 /\ pc' = "write" /\ events' = events + 1
        /\ ev' = [id |-> events, len |-> wlen']
    BY <1>5 DEF Prepare, At
  <2>3. len \in Nat /\ ev'.id = events /\ ev'.len = len
    BY <2>1, <2>2
  <2>4. Typed'
    BY <1>1, <1>4, <2>1, <2>2, <2>3 DEF Typed
  <2>5. OpenInv'
    BY <1>1, <1>4, <2>2 DEF OpenInv
  <2>6. EventInv'
    BY <1>1, <1>4, <2>1, <2>2, <2>3 DEF EventInv, Typed
  <2>7. WrittenInv'
    <3>1. created[logfile] = 1 => Len(hot[logfile]) = file_size
      BY <1>4, <2>2 DEF WrittenInv
    <3>2. file_size + (ev'.len - wlen') = file_size /\ ~(wlen' < ev'.len)
      BY <1>4, <2>1, <2>3 DEF Typed
    <3> QED BY <1>1, <2>2, <3>1, <3>2 DEF WrittenInv
  <2> QED BY <1>2, <1>3, <2>4, <2>5, <2>6, <2>7 DEF IInv
<1>6. CASE WriteError
  <2>1. pc = "write" /\ pc' = "account" /\ UNCHANGED <<ev, wlen, wtry, events>>
    BY <1>6 DEF WriteError, At, writing, env
  <2>2. Typed' /\ OpenInv' /\ EventInv'
    BY <1>1, <1>4, <2>1 DEF Typed, OpenInv, EventInv
  <2>3. WrittenInv'
    BY <1>1, <1>4, <2>1 DEF WrittenInv
  <2> QED BY <1>2, <1>3, <2>2, <2>3 DEF IInv
<1>7. CASE ClockEvent
  <2>1. pc = "idle" /\ opened /\ pc' = "rotate" /\ UNCHANGED <<ev, wlen, wtry, events>>
    BY <1>7 DEF ClockEvent, At, writing, env
  <2>2. Typed' /\ OpenInv' /\ EventInv'
    BY <1>1, <1>4, <2>1 DEF Typed, OpenInv, EventInv
  <2>3. WrittenInv'
    BY <1>1, <1>4, <2>1 DEF WrittenInv
  <2> QED BY <1>2, <1>3, <2>2, <2>3 DEF IInv
<1> QED BY <1>5, <1>6, <1>7

\* One write: the file ends where file_size and the bytes written say.
LEMMA WriteKeeps ==
  ASSUME IInv, NEW k \in 0..wlen, Write(k)
  PROVE  IInv'
<1>1. /\ up = "running" /\ pc = "write" /\ k <= wlen
      /\ UNCHANGED <<up, todo, opened, logfile, file_size, fp_offset, ev, sums>>
      /\ UNCHANGED <<index, created, stuck, time, events>>
      /\ wlen' = wlen - k /\ wtry' = wtry - 1
      /\ pc' = IF wlen' = 0 \/ wtry' = 0 THEN "account" ELSE "write"
  BY DEF Write, At, logger, env
<1>2. Typed /\ DiskTyped /\ OpenInv /\ EventInv /\ OnceInv /\ WrittenInv
  BY DEF IInv
<1>3. PICK n : n = logfile
  OBVIOUS
<1>4. opened /\ n \in DOMAIN hot /\ n \in Names /\ hot[n] \in Bytes
  BY <1>1, <1>2, <1>3 DEF OpenInv, DiskTyped
<1>5. PICK b : b = [i \in 1..k |-> Byte(ev, i)]
  OBVIOUS
<1>6. /\ wlen \in Nat /\ k \in Nat /\ ev.id \in Nat /\ ev.len \in Lengths /\ ev.len \in Nat
      /\ wlen <= ev.len /\ file_size \in Nat /\ file_size < MaxSize /\ wtry \in 1..3
  <2>1. /\ wlen \in Nat /\ file_size \in Nat /\ wtry \in 0..3
    BY <1>2 DEF Typed
  <2>2. ev.id \in Nat /\ ev.len \in Lengths /\ wlen <= ev.len /\ wtry > 0
    BY <1>1, <1>2 DEF EventInv
  <2>3. file_size < MaxSize
    BY <1>1, <1>2, <1>4 DEF OpenInv
  <2>4. ev.len \in Nat
    BY <2>2
  <2>5. k \in Nat
    BY <2>1
  <2>6. wtry \in 1..3
    BY <2>1, <2>2
  <2> QED BY <2>1, <2>2, <2>3, <2>4, <2>5, <2>6
<1>7. b \in Bytes /\ Len(b) = k /\ \A i \in 1..k : b[i] = <<ev.id, i>>
  <2>1. \A i \in 1..k : Byte(ev, i) = <<ev.id, i>> /\ Byte(ev, i) \in Nat \X Nat
    BY <1>6 DEF Byte
  <2> QED BY <1>5, <1>6, <2>1 DEF Bytes
<1>8. hot' = [hot EXCEPT ![n] = hot[n] \o b] /\ rotated' = rotated
  BY <1>3, <1>4, <1>5 DEF Write
<1>9. /\ hot[n] \o b \in Bytes /\ Len(hot[n] \o b) = Len(hot[n]) + k
      /\ \A i \in 1..Len(hot[n]) : (hot[n] \o b)[i] = hot[n][i]
      /\ \A i \in 1..k : (hot[n] \o b)[Len(hot[n]) + i] = b[i]
  BY <1>4, <1>7, Appended
<1>10. /\ DOMAIN hot' = DOMAIN hot /\ hot'[n] = hot[n] \o b
       /\ \A m \in DOMAIN hot : m # n => hot'[m] = hot[m]
  BY <1>4, <1>8
<1>11. Len(hot[n]) \in Nat
  BY <1>4 DEF Bytes
<1>12. Typed'
  BY <1>1, <1>2, <1>6 DEF Typed
<1>13. DiskTyped'
  BY <1>1, <1>2, <1>8, <1>9, <1>10 DEF DiskTyped
<1>14. OpenInv'
  BY <1>1, <1>2, <1>8, <1>10 DEF OpenInv
<1>15. EventInv'
  BY <1>1, <1>2, <1>6 DEF EventInv
<1>16. OnceInv'
  BY <1>1, <1>2, <1>8, <1>10 DEF OnceInv
<1>17. ASSUME created[n] = 1
       PROVE  /\ Len(hot'[n]) = file_size + (ev.len - wlen')
              /\ wlen' < ev.len => hot'[n][file_size + 1] = <<ev.id, 1>>
  <2>1. /\ Len(hot[n]) = file_size + (ev.len - wlen)
        /\ wlen < ev.len => hot[n][file_size + 1] = <<ev.id, 1>>
    BY <1>1, <1>2, <1>3, <1>4, <1>17 DEF WrittenInv
  <2>2. Len(hot'[n]) = file_size + (ev.len - wlen')
    BY <1>1, <1>6, <1>9, <1>10, <2>1
  <2>3. CASE wlen < ev.len
    <3>1. file_size + 1 \in 1..Len(hot[n])
      BY <1>6, <2>1, <2>3
    <3> QED BY <1>9, <1>10, <2>1, <2>2, <2>3, <3>1
  <2>4. CASE wlen = ev.len /\ k > 0
    <3>1. Len(hot[n]) = file_size /\ 1 \in 1..k
      BY <1>6, <2>1, <2>4
    <3>2. hot'[n][Len(hot[n]) + 1] = b[1]
      BY <1>9, <1>10, <3>1
    <3> QED BY <1>7, <2>2, <3>1, <3>2
  <2>5. CASE wlen = ev.len /\ k = 0
    BY <1>1, <1>6, <2>2, <2>5
  <2> QED BY <1>6, <2>3, <2>4, <2>5
<1>18. WrittenInv'
  <2>1. pc' \in {"write", "account"} /\ logfile' = n /\ created' = created /\ ev' = ev /\ file_size' = file_size
    BY <1>1, <1>3
  <2> QED BY <1>17, <2>1 DEF WrittenInv
<1>19. \A m \in Names : m # n => FileOf(m)' = FileOf(m)
  BY <1>8, <1>10 DEF FileOf
<1>20. FileOf(n) = hot[n] /\ FileOf(n)' = hot'[n]
  BY <1>4, <1>10 DEF FileOf
<1>21. SizeBounded'
  <2>1. ASSUME NEW m \in Names, created'[m] = 1
        PROVE  \E len \in Lengths : Len(FileOf(m)') < MaxSize + len
    <3>1. CASE m = n
      <4>1. Len(hot'[n]) = file_size + (ev.len - wlen')
        BY <1>1, <1>17, <2>1, <3>1
      <4>2. Len(hot'[n]) < MaxSize + ev.len
        BY <1>1, <1>6, <4>1
      <4> QED BY <1>6, <1>20, <3>1, <4>2
    <3>2. CASE m # n
      BY <1>1, <1>19, <2>1, <3>2 DEF IInv, SizeBounded
    <3> QED BY <3>1, <3>2
  <2> QED BY <2>1 DEF SizeBounded
<1>22. IndexExact'
  <2>1. ASSUME NEW r \in index', created'[r.name] = 1 PROVE Points(r)'
    <3>1. r \in index /\ r.name \in Names /\ r.offset \in Nat
      BY <1>1, <1>2 DEF Typed
    <3>2. r.offset < Len(FileOf(r.name)) /\ FileOf(r.name)[r.offset + 1] = <<r.id, 1>>
      BY <1>1, <2>1, <3>1 DEF IInv, IndexExact, Points
    <3>3. CASE r.name = n
      <4>1. r.offset + 1 \in 1..Len(hot[n])
        BY <1>11, <1>20, <3>1, <3>2, <3>3
      <4>2. hot'[n][r.offset + 1] = hot[n][r.offset + 1] /\ Len(hot'[n]) >= Len(hot[n])
        BY <1>6, <1>9, <1>10, <1>11, <4>1
      <4>3. r.offset < Len(hot'[n]) /\ hot'[n][r.offset + 1] = <<r.id, 1>>
        BY <1>6, <1>9, <1>10, <1>11, <1>20, <3>1, <3>2, <3>3, <4>2
      <4> QED BY <1>20, <3>3, <4>3 DEF Points
    <3>4. CASE r.name # n
      BY <1>19, <3>1, <3>2, <3>4 DEF Points
    <3> QED BY <3>3, <3>4
  <2> QED BY <2>1 DEF IndexExact
<1>23. SumsCurrent' /\ HotIsOpen'
  BY <1>1, <1>8, <1>10 DEF IInv, SumsCurrent, HotIsOpen
<1> QED BY <1>12, <1>13, <1>14, <1>15, <1>16, <1>18, <1>21, <1>22, <1>23 DEF IInv

\* The rest of do_archieve: the event is given the place where it starts.
LEMMA AccountKeeps ==
  ASSUME IInv, Account
  PROVE  IInv'
<1>1. /\ up = "running" /\ pc = "account"
      /\ UNCHANGED <<up, opened, logfile, hot, rotated, sums, created, stuck, time, events>>
      /\ wlen' = 0 /\ wtry' = 0
  BY DEF Account, At, disk, logger
<1>2. Typed /\ DiskTyped /\ OpenInv /\ EventInv /\ OnceInv /\ WrittenInv
  BY DEF IInv
<1>3. PICK n, ret : n = logfile /\ ret = ev.len - wlen
  OBVIOUS
<1>4. opened /\ n \in DOMAIN hot /\ n \in Names /\ fp_offset = file_size /\ file_size < MaxSize
  BY <1>1, <1>2, <1>3 DEF OpenInv, DiskTyped
<1>5. /\ ev.id \in Nat /\ ev.len \in Nat /\ wlen \in Nat /\ wlen <= ev.len
      /\ file_size \in Nat /\ todo \in 1..MaxEvents /\ ret \in Nat
  <2>1. wlen \in Nat /\ file_size \in Nat /\ todo \in 0..MaxEvents
    BY <1>2 DEF Typed
  <2>2. ev.id \in Nat /\ ev.len \in Lengths /\ wlen <= ev.len /\ todo > 0
    BY <1>1, <1>2 DEF EventInv
  <2>3. ev.len \in Nat
    BY <2>2
  <2>4. ret \in Nat
    BY <1>3, <2>1, <2>2, <2>3
  <2>5. todo \in 1..MaxEvents
    BY <2>1, <2>2
  <2> QED BY <2>1, <2>2, <2>3, <2>4, <2>5
<1>6. HotIsOpen'
  BY <1>1 DEF IInv, HotIsOpen
<1>7. created[n] = 1 => /\ Len(hot[n]) = file_size + ret
                        /\ ret # 0 => hot[n][file_size + 1] = <<ev.id, 1>>
  BY <1>1, <1>2, <1>3, <1>4, <1>5 DEF WrittenInv
<1>8. CASE ret = 0
  <2>1. todo' = 0 /\ pc' = "idle" /\ UNCHANGED <<file_size, fp_offset, index>>
    BY <1>3, <1>8 DEF Account, Archived, logger
  <2>2. DiskTyped' /\ OnceInv' /\ SizeBounded' /\ SumsCurrent' /\ IndexExact'
    BY <1>1, <2>1, DiskAlone
  <2>3. Typed' /\ OpenInv' /\ EventInv'
    BY <1>1, <1>2, <1>4, <2>1 DEF Typed, OpenInv, EventInv
  <2>4. WrittenInv'
    <3>1. created'[logfile'] = 1 => Len(hot'[logfile']) = file_size'
      BY <1>1, <1>3, <1>5, <1>7, <1>8, <2>1
    <3> QED BY <2>1, <3>1 DEF WrittenInv
  <2> QED BY <1>6, <2>2, <2>3, <2>4 DEF IInv
<1>9. CASE ret # 0
  <2>1. PICK r : r = [id |-> ev.id, name |-> n, offset |-> file_size]
    OBVIOUS
  <2>2. /\ file_size' = file_size + ret /\ fp_offset' = file_size'
        /\ todo' = todo - 1
        /\ pc' = IF Full(file_size') THEN "rotate" ELSE "idle"
        /\ index' = index \cup {r}
    BY <1>3, <1>4, <1>9, <2>1 DEF Account, Archived, OffsetOf
  <2>3. r.id = ev.id /\ r.name = n /\ r.offset = file_size /\ r \in [id : Nat, name : Names, offset : Nat]
    BY <1>4, <1>5, <2>1
  <2>4. file_size' \in Nat /\ pc' \in {"idle", "rotate"} /\ (pc' = "idle" => file_size' < MaxSize)
    BY <1>5, <2>2 DEF Full
  <2>5. Typed'
    BY <1>1, <1>2, <1>5, <2>2, <2>3, <2>4 DEF Typed
  <2>6. OpenInv' /\ EventInv'
    BY <1>1, <1>2, <1>4, <2>2, <2>4 DEF OpenInv, EventInv
  <2>7. DiskTyped' /\ SumsCurrent'
    BY <1>1 DEF IInv, DiskTyped, SumsCurrent
  <2>8. OnceInv'
    BY <1>1, <1>2, <1>4, <2>2, <2>3 DEF OnceInv
  <2>9. \A m \in Names : FileOf(m)' = FileOf(m)
    BY <1>1 DEF FileOf
  <2>10. SizeBounded'
    <3>1. \A m \in Names : created'[m] = 1 => \E len \in Lengths : Len(FileOf(m)') < MaxSize + len
      BY <1>1, <2>9 DEF IInv, SizeBounded
    <3> QED BY <3>1 DEF SizeBounded
  <2>11. WrittenInv'
    <3>1. created'[logfile'] = 1 => Len(hot'[logfile']) = file_size'
      BY <1>1, <1>3, <1>7, <2>2
    <3> QED BY <2>4, <3>1 DEF WrittenInv
  <2>12. IndexExact'
    <3>1. ASSUME NEW q \in index', created'[q.name] = 1 PROVE Points(q)'
      <4>1. CASE q \in index
        <5>1. Points(q) /\ q.name \in Names
          BY <1>1, <1>2, <3>1, <4>1 DEF IInv, IndexExact, Typed
        <5>2. FileOf(q.name)' = FileOf(q.name)
          BY <2>9, <5>1
        <5> QED BY <5>1, <5>2 DEF Points
      <4>2. CASE q = r
        <5>1. Len(hot[n]) = file_size + ret /\ hot[n][file_size + 1] = <<ev.id, 1>>
          BY <1>1, <1>7, <1>9, <2>3, <3>1, <4>2
        <5>2. file_size < Len(hot[n])
          BY <1>5, <1>9, <5>1
        <5>3. FileOf(n)' = hot[n]
          BY <1>1, <1>4 DEF FileOf
        <5> QED BY <2>3, <4>2, <5>1, <5>2, <5>3 DEF Points
      <4> QED BY <2>2, <3>1, <4>1, <4>2
    <3> QED BY <3>1 DEF IndexExact
  <2> QED BY <1>6, <2>5, <2>6, <2>7, <2>8, <2>10, <2>11, <2>12 DEF IInv
<1> QED BY <1>8, <1>9

-----------------------------------------------------------------------------
(* Rotation.                                                               *)

\* The open file is closed and moved, or stays where it is.
LEMMA RotateKeeps ==
  ASSUME IInv, Rotate
  PROVE  IInv'
<1>1. /\ up = "running" /\ pc = "rotate" /\ opened' = FALSE
      /\ UNCHANGED <<up, todo, logfile, file_size, fp_offset, ev, wlen, wtry, sums>>
      /\ UNCHANGED <<index, created, time, events>>
  BY DEF Rotate, At, CloseFd, writing
<1>2. Typed /\ DiskTyped /\ OpenInv /\ OnceInv /\ HotIsOpen
  BY DEF IInv
<1>3. opened /\ logfile \in DOMAIN hot
  BY <1>1, <1>2 DEF OpenInv
<1>4. opened' \in BOOLEAN
  BY <1>1
<1>5. CASE Move({logfile}) /\ pc' = "sum" /\ UNCHANGED stuck
  <2>1. PICK S : S = {logfile}
    OBVIOUS
  <2>2. S \subseteq DOMAIN hot /\ Move(S) /\ S = {logfile}
    BY <1>3, <1>5, <2>1
  <2>3. \A n \in DOMAIN sums' : \/ n \in S /\ sums'[n] = hot[n]
                                \/ n \in DOMAIN sums /\ sums'[n] = sums[n]
    BY <1>1
  <2>4. DiskTyped' /\ OnceInv' /\ SizeBounded' /\ SumsCurrent' /\ IndexExact'
    BY <1>1, <2>2, <2>3, MoveKeeps
  <2>5. DOMAIN hot' = DOMAIN hot \ S /\ DOMAIN rotated' = S \cup DOMAIN rotated
    BY <2>2, MoveHas
  <2>6. Typed'
    BY <1>1, <1>2, <1>4, <1>5 DEF Typed
  <2>7. OpenInv' /\ EventInv'
    BY <1>1, <1>5, <2>2, <2>5 DEF OpenInv, EventInv
  <2>8. WrittenInv'
    BY <1>1 DEF WrittenInv
  <2>9. HotIsOpen'
    <3>1. ~stuck => DOMAIN hot \subseteq {logfile}
      BY <1>1, <1>2, <1>3 DEF HotIsOpen
    <3>2. ~stuck => DOMAIN hot' = {}
      BY <2>2, <2>5, <3>1
    <3> QED BY <1>1, <1>5, <3>2 DEF HotIsOpen
  <2> QED BY <2>4, <2>6, <2>7, <2>8, <2>9 DEF IInv
<1>6. CASE UNCHANGED <<hot, rotated>> /\ pc' = "idle" /\ stuck' = TRUE
  <2>1. DiskTyped' /\ OnceInv' /\ SizeBounded' /\ SumsCurrent' /\ IndexExact'
    BY <1>1, <1>6, DiskAlone
  <2>2. Typed'
    <3>1. stuck' \in BOOLEAN
      BY <1>6
    <3> QED BY <1>1, <1>2, <1>4, <1>6, <3>1 DEF Typed
  <2>3. HotIsOpen'
    BY <1>6 DEF HotIsOpen
  <2> QED BY <1>1, <1>6, <2>1, <2>2, <2>3, NothingOpen
<1>7. \/ Move({logfile}) /\ pc' = "sum" /\ UNCHANGED stuck
      \/ UNCHANGED <<hot, rotated>> /\ pc' = "idle" /\ stuck' = TRUE
  BY DEF Rotate
<1> QED BY <1>5, <1>6, <1>7

\* The file that was moved is summed, unless md5sum fails.
LEMMA SumKeeps ==
  ASSUME IInv, Sum
  PROVE  IInv'
<1>1. /\ up = "running" /\ pc = "sum" /\ pc' = "idle"
      /\ UNCHANGED <<up, todo, opened, logfile, file_size, fp_offset, ev, wlen, wtry>>
      /\ UNCHANGED <<hot, rotated, index, created, stuck, time, events>>
  BY DEF Sum, At, logger, writing, env
<1>2. Typed /\ DiskTyped /\ OpenInv /\ OnceInv /\ HotIsOpen
  BY DEF IInv
<1>3. ~opened /\ logfile \in DOMAIN rotated
  BY <1>1, <1>2 DEF OpenInv
<1>4. \A n \in Names : FileOf(n)' = FileOf(n)
  BY <1>1 DEF FileOf
<1>5. SizeBounded' /\ IndexExact'
  BY <1>1, <1>4, ContentsAlone
<1>6. Typed' /\ OnceInv' /\ HotIsOpen'
  BY <1>1, <1>2 DEF Typed, OnceInv, HotIsOpen
<1>7. DOMAIN sums' \subseteq DOMAIN rotated /\ \A n \in DOMAIN sums' : created[n] = 1 => sums'[n] = rotated[n]
  <2>1. CASE sums' = sums
    BY <1>2, <2>1 DEF IInv, DiskTyped, SumsCurrent
  <2>2. CASE sums' = Over(Restrict(rotated, {logfile}), sums)
    <3>1. PICK f : f = Restrict(rotated, {logfile})
      OBVIOUS
    <3>2. DOMAIN f = {logfile} /\ f[logfile] = rotated[logfile] /\ sums' = Over(f, sums)
      BY <2>2, <3>1 DEF Restrict
    <3>3. /\ DOMAIN Over(f, sums) = DOMAIN f \cup DOMAIN sums
          /\ \A n \in DOMAIN f : Over(f, sums)[n] = f[n]
          /\ \A n \in DOMAIN sums : n \notin DOMAIN f => Over(f, sums)[n] = sums[n]
      BY OverHas
    <3> QED BY <1>2, <1>3, <3>2, <3>3 DEF IInv, DiskTyped, SumsCurrent
  <2> QED BY <2>1, <2>2 DEF Sum
<1>8. DiskTyped' /\ SumsCurrent'
  BY <1>1, <1>2, <1>7 DEF DiskTyped, SumsCurrent
<1> QED BY <1>1, <1>3, <1>5, <1>6, <1>8, NothingOpen

-----------------------------------------------------------------------------
(* The theorems.                                                           *)

\* Nothing is on the disk and nothing runs.
LEMMA InitIInv == Init => IInv
<1> SUFFICES ASSUME Init PROVE IInv
  OBVIOUS
<1>1. /\ up = "closed" /\ pc = "idle" /\ todo = 0 /\ opened = FALSE
      /\ file_size = 0 /\ fp_offset = 0 /\ wlen = 0 /\ wtry = 0
      /\ hot = << >> /\ rotated = << >> /\ sums = << >> /\ index = {}
      /\ created = [n \in Names |-> 0] /\ stuck = FALSE /\ time = 0 /\ events = 0
  BY DEF Init
<1>2. DOMAIN hot = {} /\ DOMAIN rotated = {} /\ DOMAIN sums = {}
  BY <1>1
<1>3. Typed
  <2>1. opened \in BOOLEAN /\ stuck \in BOOLEAN
    BY <1>1
  <2> QED BY <1>1, <2>1 DEF Typed
<1>4. DiskTyped /\ OnceInv /\ SumsCurrent
  BY <1>1, <1>2 DEF DiskTyped, OnceInv, SumsCurrent
<1>5. OpenInv /\ EventInv /\ WrittenInv /\ HotIsOpen
  BY <1>1 DEF OpenInv, EventInv, WrittenInv, HotIsOpen
<1>6. SizeBounded /\ IndexExact
  BY <1>1 DEF SizeBounded, IndexExact
<1> QED BY <1>3, <1>4, <1>5, <1>6 DEF IInv

\* Every step keeps the invariant.
LEMMA NextIInv == IInv /\ [Next]_vars => IInv'
<1> SUFFICES ASSUME IInv, [Next]_vars PROVE IInv'
  OBVIOUS
<1>1. CASE Start \/ Close \/ Crash
  BY <1>1, StartKeeps, EndKeeps
<1>2. CASE Step
  BY <1>2, CreateKeeps, StepsKeep, WriteKeeps, AccountKeeps, RotateKeeps, SumKeeps DEF Step
<1>3. CASE ClockEvent
  BY <1>3, StepsKeep
<1>4. CASE Tick \/ Finished \/ (\E n \in 1..MaxEvents : Output(n)) \/ UNCHANGED vars
  BY <1>4, EnvKeeps DEF Finished
<1> QED BY <1>1, <1>2, <1>3, <1>4 DEF Next

\* The invariant holds in every reachable state.
THEOREM Invariance == Spec => []IInv
  BY InitIInv, NextIInv, PTL DEF Spec

\* The file name and offset that do_archieve gives to an event lead to its
\* first byte for ever, if no other file got the same name.
THEOREM IndexIsExact == Spec => []IndexExact
<1>1. IInv => IndexExact
  BY DEF IInv
<1> QED BY <1>1, Invariance, PTL

\* Files keep their limit, base_dir holds nothing that nobody will rotate, and
\* an .md5 file is the sum of the rotated file next to it.
THEOREM FilesAreSound == Spec => []FilesInv
<1>1. IInv => FilesInv
  <2> SUFFICES ASSUME IInv PROVE FilesInv
    OBVIOUS
  <2>1. Typed /\ DiskTyped /\ OpenInv /\ EventInv
    BY DEF IInv
  <2>2. pc \in {"write", "account"} => ev.len >= wlen
    <3>1. ASSUME pc \in {"write", "account"} PROVE ev.len >= wlen
      <4>1. ev.len \in Nat /\ wlen \in Nat /\ wlen <= ev.len
        BY <2>1, <3>1 DEF Typed, EventInv
      <4> QED BY <4>1
    <3> QED BY <3>1
  <2>3. TypeOK
    BY <2>1, <2>2 DEF TypeOK, Typed, DiskTyped, OpenInv
  <2> QED BY <2>3 DEF IInv, FilesInv
<1> QED BY <1>1, Invariance, PTL
=============================================================================
