---------------------------- MODULE ServerProofs -----------------------------
(* Theorems about the commands of the server, and about what the one that *)
(* serves admits, at each moment and in every window of time.             *)
EXTENDS Server, FiniteSetTheorems, WellFoundedInduction, TLAPS

-----------------------------------------------------------------------------
(* Locks and foreign databases (ServerStart) *)

\* Outside of these a process has its locks.
Unlocked == {"off", "lock", "ended"}

Initializing == {"schema", "commit", "sync", "clean_main", "clean_wal", "clean_journal"}

ProcessTypes ==
    /\ DOMAIN pc = Process /\ DOMAIN held = Process /\ DOMAIN made = Process
    /\ DOMAIN pool = Process /\ DOMAIN outcome = Process
    /\ rounds \in [Process -> Nat]
    /\ writes \in Nat

\* What one process has on the way to its work.
Entitled(p) ==
    /\ pc[p] \notin Unlocked => LocksOf[p] \subseteq held[p]
    /\ pc[p] \in Initializing => made[p]
    /\ pc[p] = "open" \/ pool[p] => made[p] \/ rounds[p] > 0
    /\ pc[p] \in {"build", "close"} => pool[p]
    /\ pc[p] = "probe_write" => rounds[p] > 0

LocksApart == \A p, q \in Process : p # q => held[p] \cap held[q] = {}

StartInv == ProcessTypes /\ LocksApart /\ \A p \in Process : Entitled(p)

\* A step of p is about p.
LEMMA OwnStep ==
    ASSUME ProcessTypes, NEW p \in Process, StartStep(p)
    PROVE  /\ ProcessTypes'
           /\ writes' = writes
           /\ \A q \in Process \ {p} :
                 /\ pc'[q] = pc[q] /\ held'[q] = held[q] /\ made'[q] = made[q]
                 /\ pool'[q] = pool[q] /\ rounds'[q] = rounds[q] /\ outcome'[q] = outcome[q]
<1> USE DEF ProcessTypes, Goto, SameBut, Fail, Stop
<1>1. CASE Launch(p) \/ TakeLock(p) \/ Locked(p) \/ Probe(p) \/ Reserve(p)
  BY <1>1 DEF Launch, TakeLock, Locked, Probe, Reserve
<1>2. CASE WriteSchema(p) \/ CommitSchema(p) \/ SyncSchema(p) \/ InitError(p) \/ Clean(p)
  BY <1>2 DEF WriteSchema, CommitSchema, SyncSchema, InitError, Clean
<1>3. CASE Validate(p) \/ Copy(p) \/ Compare(p)
  BY <1>3 DEF Validate, Copy, Compare, Begin
<1>4. CASE Judge(p)
  <2>1. \/ rounds' = rounds
        \/ rounds' = [rounds EXCEPT ![p] = @ + 1]
    BY <1>4 DEF Judge
  <2>2. /\ \E label : pc' = [pc EXCEPT ![p] = label]
        /\ held' = held \/ held' = [held EXCEPT ![p] = {}]
        /\ outcome' = outcome \/ \E why : outcome' = [outcome EXCEPT ![p] = why]
        /\ UNCHANGED <<made, pool, writes>>
    BY <1>4 DEF Judge
  <2> QED
    BY <2>1, <2>2
<1>5. CASE Open(p) \/ Close(p) \/ Build(p) \/ ProbeWrite(p) \/ Exit(p) \/ Kill(p)
  BY <1>5 DEF Open, Close, Build, ProbeWrite, Exit, Kill
<1> QED
  BY <1>1, <1>2, <1>3, <1>4, <1>5 DEF StartStep

\* It takes a lock only if nobody else has it.
LEMMA LockStep ==
    ASSUME ProcessTypes, NEW p \in Process, StartStep(p), Entitled(p)
    PROVE  /\ Entitled(p)'
           /\ held'[p] \subseteq held[p] \/ \E l : /\ held'[p] = held[p] \cup {l}
                                                  /\ \A q \in Process \ {p} : l \notin held[q]
<1> USE DEF ProcessTypes, Goto, SameBut, Fail, Stop, Entitled, Unlocked, Initializing
<1>1. CASE Launch(p) \/ Locked(p) \/ Probe(p) \/ Reserve(p)
  BY <1>1 DEF Launch, Locked, Wanted, Probe, Reserve
<1>2. CASE TakeLock(p)
  <2>1. CASE \E q \in Process \ {p} : NextLock(p) \in held[q]
    BY <1>2, <2>1 DEF TakeLock
  <2>2. CASE ~\E q \in Process \ {p} : NextLock(p) \in held[q]
    <3>1. held'[p] = held[p] \cup {NextLock(p)} /\ pc' = pc /\ made' = made /\ pool' = pool
          /\ rounds' = rounds
      BY <1>2, <2>2 DEF TakeLock
    <3> QED
      BY <1>2, <2>2, <3>1 DEF TakeLock
  <2> QED
    BY <2>1, <2>2
<1>3. CASE WriteSchema(p) \/ CommitSchema(p) \/ SyncSchema(p) \/ InitError(p) \/ Clean(p)
  BY <1>3 DEF WriteSchema, CommitSchema, SyncSchema, InitError, Clean
<1>4. CASE Validate(p) \/ Copy(p) \/ Compare(p)
  BY <1>4 DEF Validate, Copy, Compare, Begin
<1>5. CASE Judge(p)
  BY <1>5 DEF Judge, Begin
<1>6. CASE Open(p) \/ Close(p) \/ Build(p)
  <2>1. CASE Open(p)
    BY <2>1 DEF Open
  <2>2. CASE Close(p)
    BY <2>2 DEF Close
  <2>3. CASE Build(p)
    BY <2>3 DEF Build
  <2> QED
    BY <1>6, <2>1, <2>2, <2>3
<1>7. CASE ProbeWrite(p) \/ Exit(p) \/ Kill(p)
  BY <1>7 DEF ProbeWrite, Exit, Kill
<1> QED
  BY <1>1, <1>2, <1>3, <1>4, <1>5, <1>6, <1>7 DEF StartStep

LEMMA StartInvStep == StartInv /\ [StartNext]_startVars => StartInv'
<1> SUFFICES ASSUME StartInv, [StartNext]_startVars PROVE StartInv'
  OBVIOUS
<1>1. ASSUME NEW p \in Process, StartStep(p) PROVE StartInv'
  <2>1. /\ ProcessTypes' /\ Entitled(p)'
        /\ \A q \in Process \ {p} :
              /\ pc'[q] = pc[q] /\ held'[q] = held[q] /\ made'[q] = made[q]
              /\ pool'[q] = pool[q] /\ rounds'[q] = rounds[q]
    BY <1>1, OwnStep, LockStep DEF StartInv
  <2>2. \A q \in Process \ {p} : Entitled(q)'
    BY <2>1 DEF StartInv, Entitled
  <2>3. \A q \in Process \ {p} : held'[p] \cap held'[q] = {}
    BY <1>1, <2>1, LockStep DEF StartInv, LocksApart
  <2>4. LocksApart'
    BY <2>1, <2>3 DEF StartInv, LocksApart
  <2> QED
    BY <2>1, <2>2, <2>4 DEF StartInv
<1>2. CASE Outsider \/ UNCHANGED startVars
  <2>1. UNCHANGED processVars /\ writes' \in Nat
    BY <1>2 DEF Outsider, startVars, StartInv, ProcessTypes
  <2> QED
    BY <2>1 DEF processVars, StartInv, ProcessTypes, Entitled, LocksApart
<1> QED
  BY <1>1, <1>2 DEF StartNext

LEMMA StartInvAlways == ServerSpec => []StartInv
<1>1. ServerInit => StartInv
  BY DEF ServerInit, StartInit, StartInv, ProcessTypes, Entitled, LocksApart, Unlocked, Initializing
<1>2. [ServerNext]_serverVars => [StartNext]_startVars
  BY DEF ServerNext, serverVars, ProcessStep, LoginStep, AccountStep
<1> QED
  BY <1>1, <1>2, StartInvStep, PTL DEF ServerSpec

\* While a command works nobody else touches the database but programs that
\* take no lock (RuntimeLock), for any number of commands and of locks of which
\* any two commands share one.
THEOREM WorkUndisturbed == ServerSpec => UndisturbedWork
<1>1. ASSUME StartInv, [StartNext]_startVars
      PROVE  \A p \in Process :
                 /\ pc[p] = "work"
                 /\ pc'[p] = "work"
                 /\ <<file, admin>>' # <<file, admin>>
                 => writes' # writes
  <2> SUFFICES ASSUME NEW p \in Process, pc[p] = "work", pc'[p] = "work",
                      <<file, admin>>' # <<file, admin>>
               PROVE  writes' # writes
    OBVIOUS
  <2>1. CASE Outsider
    BY <1>1, <2>1 DEF Outsider, StartInv, ProcessTypes
  <2>2. CASE \E q \in Process : StartStep(q)
    <3>1. PICK q \in Process : StartStep(q)
      BY <2>2
    <3>2. q # p
      <4> SUFFICES ASSUME StartStep(p) PROVE FALSE
        BY <3>1
      <4>1. Exit(p) \/ Kill(p)
        BY DEF StartStep, Launch, TakeLock, Locked, Probe, Reserve, WriteSchema, CommitSchema,
               SyncSchema, InitError, Clean, Validate, Copy, Compare, Judge, Open, Close, Build,
               ProbeWrite
      <4> QED
        BY <1>1, <4>1 DEF Exit, Kill, Fail, Goto, StartInv, ProcessTypes
    <3>3. pc[q] \in Unlocked
      BY <1>1, <3>2, DatabaseAssumption DEF StartInv, Entitled, LocksApart, Unlocked
    <3>4. Launch(q) \/ TakeLock(q) \/ Locked(q) \/ Kill(q)
      BY <3>1, <3>3 DEF StartStep, Unlocked, Probe, Reserve, WriteSchema, CommitSchema,
               SyncSchema, InitError, Clean, Validate, Copy, Compare, Judge, Open, Close, Build,
               ProbeWrite, Exit
    <3>5. UNCHANGED <<file, admin>>
      BY <3>4 DEF Launch, TakeLock, Locked, Kill, SameBut
    <3> QED
      BY <3>5
  <2> QED
    BY <1>1, <2>1, <2>2 DEF StartNext, startVars
<1>2. [ServerNext]_serverVars => [StartNext]_startVars
  BY DEF ServerNext, serverVars, ProcessStep, LoginStep, AccountStep
<1>3. StartInv /\ [StartNext]_startVars =>
        [\A p \in Process :
                 /\ pc[p] = "work"
                 /\ pc'[p] = "work"
                 /\ <<file, admin>>' # <<file, admin>>
                 => writes' # writes]_startVars
  BY <1>1
<1> QED
  BY <1>2, <1>3, StartInvAlways, PTL DEF ServerSpec, UndisturbedWork

\* A command changes a database of another program only if it has made the file
\* itself or seen it in the current schema (database.rs), whatever the commands
\* and their locks are.
THEOREM ForeignSafe == ServerSpec => ForeignUntouched
<1>1. ASSUME StartInv, [StartNext]_startVars
      PROVE  \A p \in Process :
                 /\ pc'[p] # pc[p]
                 /\ file' # file
                 /\ Effective(file) = "foreign"
                 => made[p] \/ rounds[p] > 0
  <2> SUFFICES ASSUME NEW p \in Process, pc'[p] # pc[p], file' # file,
                      Effective(file) = "foreign"
               PROVE  made[p] \/ rounds[p] > 0
    OBVIOUS
  <2>1. StartStep(p)
    <3>1. \A q \in Process : StartStep(q) => q = p
      BY <1>1, OwnStep DEF StartInv
    <3>2. Outsider => pc' = pc
      BY DEF Outsider, processVars
    <3> QED
      BY <1>1, <3>1, <3>2 DEF StartNext, startVars, processVars
  <2>2. CommitSchema(p) \/ Clean(p) \/ Open(p) \/ Close(p) \/ ProbeWrite(p)
    <3>1. ~Reserve(p) /\ ~WriteSchema(p)
      <4>1. Effective(file) = "foreign" => ~Absent("main")
        BY DEF Effective, Absent
      <4> QED
        BY <4>1 DEF Reserve, WriteSchema, Fail, Goto
    <3> QED
      BY <2>1, <3>1 DEF StartStep, Launch, TakeLock, Locked, Probe, SyncSchema, InitError, Validate,
               Copy, Compare, Judge, Build, Exit, Kill, SameBut
  <2>3. Entitled(p)
    BY <1>1 DEF StartInv
  <2> QED
    BY <2>2, <2>3 DEF CommitSchema, Clean, Open, Close, ProbeWrite, Entitled, Initializing
<1>2. [ServerNext]_serverVars => [StartNext]_startVars
  BY DEF ServerNext, serverVars, ProcessStep, LoginStep, AccountStep
<1>3. StartInv /\ [StartNext]_startVars =>
        [\A p \in Process :
                 /\ pc'[p] # pc[p]
                 /\ file' # file
                 /\ Effective(file) = "foreign"
                 => made[p] \/ rounds[p] > 0]_startVars
  BY <1>1
<1> QED
  BY <1>2, <1>3, StartInvAlways, PTL DEF ServerSpec, ForeignUntouched

-----------------------------------------------------------------------------
(* The snapshot that is validated (snapshot_generation_once) *)

Snapshotting == {"copy", "compare", "judge"}

StampedFile == [holds : Holds, stamp : Nat]

\* A copied file that has been removed or written since.
Overwritten(p, f) ==
    /\ copy[p][f].holds # "none"
    /\ file[f].holds = "none" \/ file[f].stamp # copy[p][f].stamp

Stale(p) == \E f \in DOMAIN copy[p] \ checked[p] : Overwritten(p, f)

Faithful(p) == \A f \in DOMAIN copy[p] : SameFile(copy[p][f], file[f])

\* The database was not there when its main file was copied.
Nothing(p) == "main" \in DOMAIN copy[p] /\ copy[p]["main"].holds = "none" /\ "none" \in seen[p]

\* What is copied is what the database has been, or a comparison to come fails.
Snapshot(p) ==
    /\ Effective(file) \in seen[p]
    /\ \A f \in DOMAIN copy[p] :
          f \in File /\ copy[p][f] \in StampedFile /\ copy[p][f].stamp <= file[f].stamp
    /\ pc[p] = "copy" =>
         /\ checked[p] = {}
         /\ DOMAIN copy[p] \in {{}, {"main"}, {"main", "wal"}}
         /\ Nothing(p) \/ Stale(p) \/ Faithful(p)
    /\ pc[p] = "compare" =>
         /\ DOMAIN copy[p] = File
         /\ checked[p] \in {{}, {"main"}, {"main", "wal"}}
         /\ Effective(copy[p]) \in seen[p] \/ Stale(p)
    /\ pc[p] = "judge" => Effective(copy[p]) \in seen[p]

SnapTypes ==
    /\ file \in [File -> StampedFile]
    /\ DOMAIN copy = Process /\ DOMAIN checked = Process /\ DOMAIN seen = Process

SnapInv == SnapTypes /\ \A p \in Process : pc[p] \in Snapshotting => Snapshot(p)

\* A file is written with a new stamp or removed, and a log or a journal appears
\* only together with a write to the main file.
FileMoves ==
    /\ file' \in [File -> StampedFile]
    /\ \A f \in File :
          \/ file'[f] = file[f]
          \/ file'[f].holds = "none" /\ file'[f].stamp = file[f].stamp
          \/ file'[f].stamp = file[f].stamp + 1
    /\ \A f \in {"wal", "journal"} :
          file[f].holds = "none" /\ file'[f].holds # "none"
              => file'["main"].stamp = file["main"].stamp + 1

LEMMA EffectiveHolds ==
    ASSUME file \in [File -> StampedFile]
    PROVE  Effective(file) \in Holds
BY DEF Effective, File, StampedFile, Holds

LEMMA OpenedMoves ==
    ASSUME file \in [File -> StampedFile]
    PROVE  /\ file' = Opened => FileMoves
           /\ \A h \in Holds : file' = [Opened EXCEPT !["wal"] = Written("wal", h)] => FileMoves
<1>1. Effective(file) \in Holds
  BY EffectiveHolds
<1> QED
  BY <1>1 DEF Opened, FileMoves, Written, Unlinked, Absent, File, StampedFile, Holds

LEMMA ClosedMoves ==
    ASSUME file \in [File -> StampedFile]
    PROVE  file' = Closed => FileMoves
BY DEF Closed, FileMoves, Written, Unlinked, Absent, File, StampedFile, Holds

LEMMA FileStep ==
    ASSUME file \in [File -> StampedFile], StartNext
    PROVE  FileMoves
<1>0. UNCHANGED file => FileMoves
  BY DEF FileMoves
<1>1. ASSUME NEW p \in Process, StartStep(p) PROVE FileMoves
  <2>1. CASE Reserve(p) \/ WriteSchema(p)
    BY <1>0, <2>1 DEF Reserve, WriteSchema, FileMoves, Written, File, StampedFile, Holds
  <2>2. CASE CommitSchema(p)
    BY <2>2 DEF CommitSchema, FileMoves, Written, Unlinked, File, StampedFile, Holds
  <2>3. CASE Clean(p)
    <3>1. \E f \in File : file' = [file EXCEPT ![f] = Unlinked(f)]
      BY <2>3 DEF Clean, File
    <3> QED
      BY <3>1 DEF FileMoves, Unlinked, File, StampedFile, Holds
  <2>4. CASE Open(p) \/ Close(p) \/ ProbeWrite(p)
    BY <1>0, <2>4, OpenedMoves, ClosedMoves DEF Open, Close, ProbeWrite
  <2>5. CASE ~(\/ Reserve(p) \/ WriteSchema(p) \/ CommitSchema(p) \/ Clean(p) \/ Open(p)
               \/ Close(p) \/ ProbeWrite(p))
    <3>1. UNCHANGED file
      BY <1>1, <2>5 DEF StartStep, Launch, TakeLock, Locked, Probe, SyncSchema, InitError, Validate,
             Copy, Compare, Judge, Build, Exit, Kill, SameBut
    <3> QED
      BY <1>0, <3>1
  <2> QED
    BY <2>1, <2>2, <2>3, <2>4, <2>5
<1>2. ASSUME Outsider PROVE FileMoves
  <2>1. \/ \E h \in {"current", "foreign"} : file' = [file EXCEPT !["main"] = Written("main", h)]
        \/ \E h \in {"current", "foreign"} : file' = [Opened EXCEPT !["wal"] = Written("wal", h)]
        \/ file' = [file EXCEPT !["main"] = Written("main", file["wal"].holds)]
        \/ file' = Closed
    BY <1>2 DEF Outsider
  <2>2. \A h \in Holds : file' = [file EXCEPT !["main"] = Written("main", h)] => FileMoves
    BY DEF FileMoves, Written, File, StampedFile, Holds
  <2>3. {"current", "foreign"} \subseteq Holds /\ file["wal"].holds \in Holds
    BY DEF Holds, File, StampedFile
  <2> QED
    BY <2>1, <2>2, <2>3, OpenedMoves, ClosedMoves
<1> QED
  BY <1>1, <1>2 DEF StartNext

\* A step of another process, or of a program that takes no lock, leaves what p
\* has copied, and what the database becomes is recorded for p.
LEMMA SeenStep ==
    ASSUME ProcessTypes, SnapTypes, StartNext,
           NEW p \in Process, pc[p] \in Snapshotting, Effective(file) \in seen[p],
           \A q \in Process : StartStep(q) => q # p
    PROVE  /\ copy'[p] = copy[p] /\ checked'[p] = checked[p] /\ pc'[p] = pc[p]
           /\ seen[p] \subseteq seen'[p] /\ Effective(file)' \in seen'[p]
<1>0. /\ Watch(file') => seen'[p] = seen[p] \cup {Effective(file)'}
      /\ UNCHANGED <<file, seen>> => seen[p] \subseteq seen'[p] /\ Effective(file)' \in seen'[p]
      /\ Effective(file') = Effective(file)'
  BY DEF Watch, Snapshotting, Effective
<1>1. ASSUME NEW q \in Process, StartStep(q), q # p
      PROVE  /\ copy'[p] = copy[p] /\ checked'[p] = checked[p]
             /\ seen[p] \subseteq seen'[p] /\ Effective(file)' \in seen'[p]
  <2>1. CASE Validate(q) \/ Copy(q) \/ Compare(q) \/ Judge(q)
    <3>1. /\ UNCHANGED file
          /\ copy'[p] = copy[p] /\ checked'[p] = checked[p] /\ seen'[p] = seen[p]
      BY <1>1, <2>1 DEF Validate, Copy, Compare, Judge, Begin, SameBut, SnapTypes
    <3> QED
      BY <1>0, <3>1 DEF Effective
  <2>2. CASE ~(Validate(q) \/ Copy(q) \/ Compare(q) \/ Judge(q))
    <3>1. UNCHANGED <<copy, checked>> /\ (Watch(file') \/ UNCHANGED <<file, seen>>)
      BY <1>1, <2>2 DEF StartStep, Launch, TakeLock, Locked, Probe, Reserve, WriteSchema,
             CommitSchema, SyncSchema, InitError, Clean, Open, Close, Build, ProbeWrite, Exit, Kill,
             SameBut
    <3> QED
      BY <1>0, <3>1
  <2> QED
    BY <2>1, <2>2
<1>2. CASE Outsider
  BY <1>0, <1>2 DEF Outsider, processVars
<1>3. pc'[p] = pc[p]
  <2>1. Outsider => pc' = pc
    BY DEF Outsider, processVars
  <2> QED
    BY <2>1, OwnStep DEF StartNext
<1> QED
  BY <1>1, <1>2, <1>3 DEF StartNext

\* What others do to the files makes a snapshot stale at worst.
LEMMA SnapshotKept ==
    ASSUME SnapTypes, FileMoves, NEW p \in Process, pc[p] \in Snapshotting, Snapshot(p),
           copy'[p] = copy[p], checked'[p] = checked[p], pc'[p] = pc[p],
           seen[p] \subseteq seen'[p], Effective(file)' \in seen'[p]
    PROVE  Snapshot(p)'
<1>1. \A f \in DOMAIN copy[p] :
         /\ f \in File
         /\ copy[p][f].stamp \in Nat /\ file[f].stamp \in Nat /\ file'[f].stamp \in Nat
         /\ copy[p][f].stamp <= file[f].stamp /\ file[f].stamp <= file'[f].stamp
  <2> TAKE f \in DOMAIN copy[p]
  <2>1. f \in File /\ copy[p][f].stamp \in Nat /\ copy[p][f].stamp <= file[f].stamp
    BY DEF Snapshot, StampedFile
  <2>2. file[f].stamp \in Nat /\ file'[f].stamp \in Nat
    BY <2>1 DEF SnapTypes, FileMoves, StampedFile
  <2>3. \/ file'[f].stamp = file[f].stamp
        \/ file'[f].stamp = file[f].stamp + 1
    BY <2>1 DEF FileMoves
  <2> QED
    BY <2>1, <2>2, <2>3
<1>2. \A f \in DOMAIN copy[p] : Overwritten(p, f) => Overwritten(p, f)'
  BY <1>1 DEF Overwritten, FileMoves
<1>3. Stale(p) => Stale(p)'
  BY <1>2 DEF Stale
<1>4. Effective(copy[p])' = Effective(copy[p])
  BY DEF Effective
<1>5. CASE pc[p] = "copy"
  <2>1. checked[p] = {} /\ DOMAIN copy[p] \in {{}, {"main"}, {"main", "wal"}}
    BY <1>5 DEF Snapshot
  <2>2. Nothing(p) => Nothing(p)'
    BY DEF Nothing
  <2>3. ASSUME Faithful(p), ~Stale(p)' PROVE Nothing(p)' \/ Faithful(p)'
    <3>1. CASE "main" \in DOMAIN copy[p] /\ copy[p]["main"].holds = "none"
      <4>1. file["main"].holds = "none"
        BY <2>3, <3>1 DEF Faithful, SameFile
      <4>2. "none" \in seen[p]
        BY <4>1 DEF Snapshot, Effective
      <4> QED
        BY <3>1, <4>2 DEF Nothing
    <3>2. CASE "main" \in DOMAIN copy[p] => copy[p]["main"].holds # "none"
      <4>1. \A f \in DOMAIN copy[p] : ~Overwritten(p, f)'
        BY <2>1, <2>3 DEF Stale
      <4>2. \A f \in DOMAIN copy[p] : copy[p][f].holds # "none"
               => file'[f] = file[f]
        BY <1>1, <2>3, <4>1 DEF Overwritten, Faithful, SameFile, FileMoves
      <4>3. ASSUME NEW f \in DOMAIN copy[p], copy[p][f].holds = "none"
            PROVE  file'[f].holds = "none"
        <5>1. f = "wal" /\ "main" \in DOMAIN copy[p]
          BY <2>1, <3>2, <4>3
        <5>2. file'["main"] = file["main"]
          BY <3>2, <4>2, <5>1
        <5>3. file["wal"].holds = "none"
          BY <2>3, <4>3, <5>1 DEF Faithful, SameFile
        <5>4. file["main"].stamp \in Nat
          BY DEF SnapTypes, File, StampedFile
        <5> QED
          BY <5>1, <5>2, <5>3, <5>4 DEF FileMoves
      <4>4. Faithful(p)'
        BY <2>3, <4>2, <4>3 DEF Faithful, SameFile
      <4> QED
        BY <4>4
    <3> QED
      BY <3>1, <3>2
  <2>4. (Nothing(p) \/ Stale(p) \/ Faithful(p))'
    BY <1>3, <1>5, <2>2, <2>3 DEF Snapshot
  <2> QED
    BY <1>1, <1>5, <2>1, <2>4 DEF Snapshot
<1>6. CASE pc[p] # "copy"
  BY <1>1, <1>3, <1>4, <1>6 DEF Snapshot
<1> QED
  BY <1>5, <1>6

\* A process copies, compares and judges its own snapshot.
LEMMA OwnSnapshot ==
    ASSUME ProcessTypes, SnapTypes, NEW p \in Process, StartStep(p),
           pc[p] \in Snapshotting => Snapshot(p), pc'[p] \in Snapshotting
    PROVE  Snapshot(p)'
<1>0. Effective(file)' = Effective(file') /\ Effective(copy[p])' = Effective(copy'[p])
  BY DEF Effective
<1>1. CASE Validate(p)
  <2>1. /\ pc'[p] = "copy" /\ copy'[p] = <<>> /\ checked'[p] = {} /\ UNCHANGED file
        /\ seen'[p] = {Effective(file)}
    BY <1>1 DEF Validate, Stop, Fail, Goto, Begin, ProcessTypes, SnapTypes, Snapshotting
  <2> QED
    BY <1>0, <2>1 DEF Snapshot, Faithful, Snapshotting
<1>2. CASE Copy(p)
  <2> DEFINE f == NextFile(DOMAIN copy[p])
  <2>1. /\ Snapshot(p) /\ pc[p] = "copy" /\ UNCHANGED <<file, seen, checked>>
        /\ f \in File \ DOMAIN copy[p]
    BY <1>2 DEF Copy, Snapshotting, SameBut, Snapshot, NextFile, File
  <2>2. copy'[p] = [g \in DOMAIN copy[p] \cup {f} |-> IF g = f THEN file[f] ELSE copy[p][g]]
    BY <1>2 DEF Copy, SnapTypes
  <2>3. pc'[p] = IF DOMAIN copy[p] \cup {f} = File THEN "compare" ELSE "copy"
    BY <1>2, <2>2 DEF Copy, Goto, ProcessTypes, SnapTypes
  <2>4. /\ DOMAIN copy'[p] = DOMAIN copy[p] \cup {f}
        /\ copy'[p][f] = file[f]
        /\ \A g \in DOMAIN copy[p] : copy'[p][g] = copy[p][g]
    BY <2>1, <2>2
  <2>5. DOMAIN copy'[p] \in {{"main"}, {"main", "wal"}, File}
    BY <2>1, <2>4 DEF Snapshot, NextFile, File
  <2>6. \A g \in DOMAIN copy'[p] :
          g \in File /\ copy'[p][g] \in StampedFile /\ copy'[p][g].stamp <= file[g].stamp
    BY <2>1, <2>4 DEF Snapshot, SnapTypes, StampedFile
  <2> HIDE DEF f
  <2>7. Nothing(p) => Nothing(p)'
    BY <2>1, <2>4 DEF Nothing
  <2>8. Stale(p) => Stale(p)'
    BY <2>1, <2>4 DEF Stale, Overwritten
  <2>9. Faithful(p) => Faithful(p)'
    BY <2>1, <2>4 DEF Faithful, SameFile
  <2>10. (Nothing(p) \/ Stale(p) \/ Faithful(p))'
    BY <2>1, <2>7, <2>8, <2>9 DEF Snapshot
  <2>11. ASSUME DOMAIN copy'[p] = File PROVE Effective(copy'[p]) \in seen'[p] \/ Stale(p)'
    <3>1. Nothing(p)' => Effective(copy'[p]) \in seen'[p]
      BY DEF Nothing, Effective
    <3>2. Faithful(p)' => Effective(copy'[p]) = Effective(file')
      BY <2>1, <2>11 DEF Faithful, SameFile, Effective, File, SnapTypes
    <3>3. Effective(file') \in seen'[p]
      BY <1>0, <2>1 DEF Snapshot
    <3> QED
      BY <2>10, <3>1, <3>2, <3>3
  <2>12. /\ Effective(file)' \in seen'[p]
         /\ pc'[p] # "judge" /\ checked'[p] = {}
    BY <1>0, <2>1, <2>3 DEF Snapshot
  <2>13. pc'[p] = "compare" => DOMAIN copy'[p] = File
    BY <2>3, <2>4
  <2>14. pc'[p] = "copy" => DOMAIN copy'[p] # File
    BY <2>3, <2>4
  <2> QED
    BY <1>0, <2>1, <2>5, <2>6, <2>10, <2>11, <2>12, <2>13, <2>14 DEF Snapshot
<1>3. CASE Compare(p)
  <2> DEFINE f == NextFile(checked[p])
  <2>1. /\ Snapshot(p) /\ pc[p] = "compare" /\ UNCHANGED file /\ f \in File \ checked[p]
    BY <1>3 DEF Compare, Snapshotting, Snapshot, NextFile, File
  <2>2. CASE Unchanged(p, f)
    <3>1. /\ checked'[p] = checked[p] \cup {f} /\ UNCHANGED <<copy, seen>>
          /\ pc'[p] = IF checked[p] \cup {f} = File THEN "judge" ELSE "compare"
      BY <1>3, <2>2 DEF Compare, Goto, ProcessTypes, SnapTypes
    <3>2. checked'[p] \in {{"main"}, {"main", "wal"}, File}
      BY <2>1, <3>1 DEF Snapshot, NextFile, File
    <3>3. ~Overwritten(p, f)
      BY <2>2 DEF Unchanged, SameFile, Overwritten
    <3>4. Stale(p) => Stale(p)'
      BY <2>1, <3>1, <3>3 DEF Stale, Overwritten
    <3>5. Effective(copy[p])' \in seen'[p] \/ Stale(p)'
      BY <1>0, <2>1, <3>1, <3>4 DEF Snapshot
    <3>6. checked'[p] = File => ~Stale(p)'
      BY <2>1, <3>1 DEF Stale, Snapshot
    <3>7. Effective(file)' \in seen'[p]
      BY <1>0, <2>1, <3>1 DEF Snapshot
    <3> HIDE DEF f
    <3>8. \/ pc'[p] = "judge" /\ checked'[p] = File
          \/ pc'[p] = "compare" /\ checked'[p] # File
      BY <3>1
    <3> QED
      BY <2>1, <3>1, <3>2, <3>5, <3>6, <3>7, <3>8 DEF Snapshot
  <2>3. CASE ~Unchanged(p, f)
    <3>1. /\ pc'[p] = "copy" /\ copy'[p] = <<>> /\ checked'[p] = {}
          /\ seen'[p] = {Effective(file)}
      BY <1>3, <2>3 DEF Compare, Stop, Fail, Goto, Begin, ProcessTypes, SnapTypes, Snapshotting
    <3> QED
      BY <1>0, <2>1, <3>1 DEF Snapshot, Faithful, Snapshotting
  <2> QED
    BY <2>2, <2>3
<1>4. Validate(p) \/ Copy(p) \/ Compare(p)
  <2>1. ~Judge(p)
    BY DEF Judge, Stop, Fail, Goto, ProcessTypes, Snapshotting
  <2>2. ~(Launch(p) \/ TakeLock(p) \/ Locked(p) \/ Probe(p) \/ Reserve(p))
    BY DEF Launch, TakeLock, Locked, Probe, Reserve, Fail, Goto, ProcessTypes, Snapshotting
  <2>3. ~(WriteSchema(p) \/ CommitSchema(p) \/ SyncSchema(p) \/ InitError(p) \/ Clean(p))
    BY DEF WriteSchema, CommitSchema, SyncSchema, InitError, Clean, Fail, Goto, ProcessTypes,
           Snapshotting
  <2>4. ~(Open(p) \/ Close(p) \/ Build(p) \/ ProbeWrite(p) \/ Exit(p) \/ Kill(p))
    BY DEF Open, Close, Build, ProbeWrite, Exit, Kill, Fail, Goto, ProcessTypes, Snapshotting
  <2> QED
    BY <2>1, <2>2, <2>3, <2>4 DEF StartStep
<1> QED
  BY <1>1, <1>2, <1>3, <1>4

LEMMA SnapTypesStep ==
    ASSUME SnapTypes, StartNext
    PROVE  SnapTypes'
<1>1. file' \in [File -> StampedFile]
  BY FileStep DEF SnapTypes, FileMoves
<1>2. ASSUME NEW p \in Process, StartStep(p)
      PROVE  DOMAIN copy' = Process /\ DOMAIN checked' = Process /\ DOMAIN seen' = Process
  <2>1. CASE Validate(p) \/ Copy(p) \/ Compare(p) \/ Judge(p)
    BY <2>1 DEF Validate, Copy, Compare, Judge, Begin, SameBut, SnapTypes
  <2>2. CASE ~(Validate(p) \/ Copy(p) \/ Compare(p) \/ Judge(p))
    <3>1. UNCHANGED <<copy, checked>> /\ (Watch(file') \/ UNCHANGED <<file, seen>>)
      BY <1>2, <2>2 DEF StartStep, Launch, TakeLock, Locked, Probe, Reserve, WriteSchema,
             CommitSchema, SyncSchema, InitError, Clean, Open, Close, Build, ProbeWrite, Exit, Kill,
             SameBut
    <3> QED
      BY <3>1 DEF SnapTypes, Watch
  <2> QED
    BY <2>1, <2>2
<1>3. Outsider => DOMAIN copy' = Process /\ DOMAIN checked' = Process /\ DOMAIN seen' = Process
  BY DEF Outsider, processVars, Watch, SnapTypes
<1> QED
  BY <1>1, <1>2, <1>3 DEF StartNext, SnapTypes

LEMMA SnapInvStep == StartInv /\ SnapInv /\ [StartNext]_startVars => SnapInv'
<1> SUFFICES ASSUME StartInv, SnapInv, [StartNext]_startVars PROVE SnapInv'
  OBVIOUS
<1>0. ProcessTypes /\ SnapTypes
  BY DEF StartInv, SnapInv
<1>1. ASSUME StartNext, NEW p \in Process, pc'[p] \in Snapshotting PROVE Snapshot(p)'
  <2>1. CASE StartStep(p)
    BY <1>0, <1>1, <2>1, OwnSnapshot DEF SnapInv
  <2>2. CASE ~StartStep(p)
    <3>1. pc'[p] = pc[p]
      <4>1. Outsider => pc' = pc
        BY DEF Outsider, processVars
      <4> QED
        BY <1>0, <1>1, <2>2, <4>1, OwnStep DEF StartNext
    <3>2. Snapshot(p) /\ Effective(file) \in seen[p]
      BY <1>1, <3>1 DEF SnapInv, Snapshot
    <3>3. FileMoves
      BY <1>0, <1>1, FileStep DEF SnapTypes
    <3>4. \A q \in Process : StartStep(q) => q # p
      BY <2>2
    <3>5. /\ copy'[p] = copy[p] /\ checked'[p] = checked[p]
          /\ seen[p] \subseteq seen'[p] /\ Effective(file)' \in seen'[p]
      BY <1>0, <1>1, <3>1, <3>2, <3>4, SeenStep
    <3> QED
      BY <1>0, <1>1, <3>1, <3>2, <3>3, <3>5, SnapshotKept
  <2> QED
    BY <2>1, <2>2
<1>2. CASE StartNext
  BY <1>0, <1>1, <1>2, SnapTypesStep DEF SnapInv
<1>3. CASE UNCHANGED startVars
  BY <1>3 DEF startVars, processVars, SnapInv, SnapTypes, Snapshot, Effective, Nothing, Stale,
         Overwritten, Faithful
<1> QED
  BY <1>2, <1>3

LEMMA SnapInvAlways == ServerSpec => []SnapInv
<1>1. ServerInit => SnapInv
  <2> SUFFICES ASSUME StartInit PROVE SnapInv
    BY DEF ServerInit
  <2>1. file \in [File -> StampedFile]
    BY DEF StartInit, Generations, Generation, StampedFile, Holds
  <2> QED
    BY <2>1 DEF StartInit, SnapInv, SnapTypes, Snapshotting
<1>2. [ServerNext]_serverVars => [StartNext]_startVars
  BY DEF ServerNext, serverVars, ProcessStep, LoginStep, AccountStep
<1> QED
  BY <1>1, <1>2, SnapInvStep, StartInvAlways, PTL DEF ServerSpec

\* The copies that are opened in place of a database that others write are a
\* content that the database has had since the snapshot began, however many
\* commands there are and however often it is written.
THEOREM SnapshotSafe == ServerSpec => []SnapshotReal
<1>1. SnapInv => SnapshotReal
  BY DEF SnapInv, SnapshotReal, Snapshotting, Snapshot
<1> QED
  BY <1>1, SnapInvAlways, PTL

-----------------------------------------------------------------------------
(* Starts that nobody disturbs (prepare_current_database) *)

Undisturbed == writes = 0 /\ origin \in {"none", "current"} /\ ~halfMade

NotThere == \A f \in File : Absent(f)

IsCurrent == ~Absent("main") /\ Absent("journal") /\ Effective(file) = "current"

\* Where the files are half made or half removed.
HalfMaking == {"schema", "commit", "clean_main", "clean_wal", "clean_journal"}

\* The database as a process finds and leaves it on its way.
Place(p) ==
    /\ pc[p] = "reserve" => NotThere
    /\ pc[p] = "schema" => Absent("wal") /\ Absent("journal") /\ file["main"].holds = "empty"
    /\ pc[p] = "commit" => Absent("wal")
    /\ pc[p] \in {"clean_wal", "clean_journal"} => Absent("main")
    /\ pc[p] = "clean_journal" => Absent("wal")
    /\ pc[p] \in {"sync", "open", "build", "work", "close", "probe_write"} \cup Snapshotting
          => IsCurrent
    /\ pc[p] = "validate" /\ (Kind[p] # "doctor" \/ pool[p]) => IsCurrent
    /\ pc[p] \in Snapshotting => seen[p] \subseteq {"current"}
    /\ pc[p] \in {"off", "lock"} => ~pool[p]
    /\ outcome[p] = "refused" => Kind[p] = "doctor"

Settled == (\A p \in Process : pc[p] \notin HalfMaking) => NotThere \/ IsCurrent

GenInv == Undisturbed => Settled /\ \A p \in Process : Place(p)

\* Whoever has its locks is alone with the database.
LEMMA Alone ==
    ASSUME StartInv, NEW p \in Process, NEW q \in Process, p # q, pc[p] \notin Unlocked
    PROVE  pc[q] \in Unlocked
BY DatabaseAssumption DEF StartInv, Entitled, LocksApart

\* At any time one command is at work on the database or on its way from its locks
\* to its exit (RuntimeLock), however many are started and killed.
THEOREM OneCommand ==
    ServerSpec => [](\A p, q \in Process : p # q /\ pc[p] \notin Unlocked => pc[q] \in Unlocked)
<1>1. StartInv => \A p, q \in Process : p # q /\ pc[p] \notin Unlocked => pc[q] \in Unlocked
  BY Alone
<1> QED
  BY <1>1, StartInvAlways, PTL

\* Before it has them it changes nothing but its own state.
LEMMA Waiting ==
    ASSUME ProcessTypes, NEW p \in Process, StartStep(p), pc[p] \in Unlocked
    PROVE  UNCHANGED <<file, seen>>
<1>1. Launch(p) \/ TakeLock(p) \/ Locked(p) \/ Kill(p)
  BY DEF StartStep, Unlocked, Probe, Reserve, WriteSchema, CommitSchema,
     SyncSchema, InitError, Clean, Validate, Copy, Compare, Judge, Open, Close, Build,
     ProbeWrite, Exit
<1> QED
  BY <1>1 DEF Launch, TakeLock, Locked, Kill, SameBut

LEMMA OtherPlace ==
    ASSUME StartInv, NEW p \in Process, StartStep(p), NEW q \in Process, p # q, Place(q)
    PROVE  Place(q)'
<1>1. pc'[q] = pc[q] /\ pool'[q] = pool[q] /\ outcome'[q] = outcome[q]
  BY OwnStep DEF StartInv
<1>2. CASE pc[p] \in Unlocked
  <2>1. UNCHANGED <<file, seen>>
    BY <1>2, Waiting DEF StartInv
  <2> QED
    BY <1>1, <2>1 DEF Place, NotThere, IsCurrent, Absent, Effective
<1>3. CASE pc[p] \notin Unlocked
  <2>1. pc[q] \in Unlocked
    BY <1>3, Alone
  <2> QED
    BY <1>1, <2>1 DEF Place, Unlocked, Snapshotting
<1> QED
  BY <1>2, <1>3

\* Nobody wrote before if nobody has written after.
LEMMA StillUndisturbed ==
    ASSUME NEW p \in Process, StartStep(p), Undisturbed'
    PROVE  Undisturbed /\ (Kill(p) => pc[p] \notin HalfMaking)
<1>1. CASE Kill(p) \/ InitError(p)
  <2>1. UNCHANGED <<writes, origin>>
    BY <1>1 DEF Kill, InitError, SameBut
  <2>2. (halfMade => halfMade') /\ (Kill(p) /\ pc[p] \in HalfMaking => halfMade')
    <3>1. Kill(p) => halfMade' = (halfMade \/ pc[p] \in HalfMaking)
      BY DEF Kill, HalfMaking
    <3>2. Kill(p) => (halfMade => halfMade') /\ (pc[p] \in HalfMaking => halfMade')
      BY <3>1
    <3>3. InitError(p) => (halfMade => halfMade')
      BY DEF InitError
    <3> QED
      BY <1>1, <3>2, <3>3
  <2> QED
    BY <2>1, <2>2 DEF Undisturbed
<1>2. CASE ~(Kill(p) \/ InitError(p))
  <2>1. UNCHANGED <<writes, origin, kills, halfMade>>
    BY <1>2 DEF StartStep, Launch, TakeLock, Locked, Probe, Reserve, WriteSchema, CommitSchema,
       SyncSchema, Clean, Validate, Copy, Compare, Judge, Open, Close, Build, ProbeWrite, Exit,
       SameBut
  <2> QED
    BY <1>2, <2>1 DEF Undisturbed
<1> QED
  BY <1>1, <1>2

\* SQLite keeps the content that it opens and that it checkpoints.
LEMMA OpenedCurrent ==
    ASSUME file \in [File -> StampedFile], IsCurrent
    PROVE  file' = Opened \/ file' = Closed => IsCurrent'
BY DEF IsCurrent, Opened, Closed, Written, Unlinked, Absent, Effective, File, StampedFile

LEMMA SameIsCurrent ==
    ASSUME UNCHANGED file
    PROVE  (NotThere' <=> NotThere) /\ (IsCurrent' <=> IsCurrent) /\ Effective(file)' = Effective(file)
BY DEF NotThere, IsCurrent, Absent, Effective

\* Between steps, with nobody half way, the next one finds all or nothing.
LEMMA OwnPlace ==
    ASSUME StartInv, SnapInv, NEW p \in Process, StartStep(p), Place(p), Settled,
           Kill(p) => pc[p] \notin HalfMaking
    PROVE  Place(p)' /\ Settled'
<1>0. /\ file \in [File -> StampedFile] /\ DOMAIN seen = Process
      /\ DOMAIN pc = Process /\ DOMAIN pool = Process /\ DOMAIN outcome = Process
      /\ \A q \in Process \ {p} : pc'[q] = pc[q]
  BY OwnStep DEF SnapInv, SnapTypes, StartInv, ProcessTypes
<1>1. pc[p] \notin Unlocked \cup HalfMaking => NotThere \/ IsCurrent
  BY Alone DEF Settled, HalfMaking, Initializing, Unlocked
<1>2. UNCHANGED file /\ (pc[p] \in HalfMaking => pc'[p] \in HalfMaking) => Settled'
  BY <1>0, SameIsCurrent DEF Settled
<1>3. (pc'[p] \in HalfMaking \/ NotThere' \/ IsCurrent') => Settled'
  BY DEF Settled
<1> USE DEF Goto, SameBut, Fail, Stop, Unlocked, HalfMaking, Initializing, Snapshotting
<1>4. CASE Launch(p) \/ TakeLock(p) \/ Locked(p)
  BY <1>0, <1>2, <1>4 DEF Launch, TakeLock, Locked, Place
<1>5. CASE Probe(p)
  <2>1. UNCHANGED file /\ (NotThere \/ IsCurrent) /\ pc[p] = "probe"
    BY <1>1, <1>5 DEF Probe
  <2>2. /\ outcome' = outcome
        /\ \/ pc'[p] = "reserve" /\ NotThere
           \/ pc'[p] = "validate" /\ IsCurrent
    BY <1>0, <1>5, <2>1 DEF Probe, NotThere, IsCurrent, Sidecar, File
  <2> QED
    BY <1>2, <2>1, <2>2, SameIsCurrent DEF Place
<1>6. CASE Reserve(p)
  <2>1. Absent("main") /\ Absent("wal") /\ Absent("journal")
    BY <1>6 DEF Reserve, Place, NotThere, File
  <2>2. /\ pc'[p] = "schema" /\ outcome' = outcome
        /\ file' = [file EXCEPT !["main"] = Written("main", "empty")]
    BY <1>0, <1>6, <2>1 DEF Reserve
  <2> QED
    BY <1>0, <1>3, <2>1, <2>2 DEF Place, Absent, Written, File, StampedFile
<1>7. CASE WriteSchema(p)
  <2>1. pc[p] = "schema" /\ Absent("wal")
    BY <1>7 DEF WriteSchema, Place
  <2>2. /\ pc'[p] \in {"commit", "clean_main"} /\ outcome' = outcome
        /\ file'["wal"] = file["wal"]
    BY <1>0, <1>7 DEF WriteSchema, File
  <2> QED
    BY <1>3, <2>1, <2>2 DEF Place, Absent
<1>8. CASE CommitSchema(p)
  <2>1. Absent("wal")
    BY <1>8 DEF CommitSchema, Place
  <2>2. /\ pc'[p] = "sync" /\ outcome' = outcome
        /\ file' = [file EXCEPT !["main"] = Written("main", "current"),
                                !["journal"] = Unlinked("journal")]
    BY <1>0, <1>8 DEF CommitSchema
  <2>3. IsCurrent'
    BY <1>0, <2>1, <2>2 DEF IsCurrent, Absent, Written, Unlinked, Effective, File
  <2> QED
    BY <1>3, <1>8, <2>2, <2>3 DEF Place, CommitSchema
<1>9. CASE SyncSchema(p) \/ InitError(p)
  <2>1. /\ UNCHANGED <<file, outcome, pool>>
        /\ \/ pc'[p] = "open" /\ pc[p] = "sync"
           \/ pc'[p] = "clean_main" /\ pc[p] \in Initializing
    BY <1>0, <1>9 DEF SyncSchema, InitError
  <2> QED
    BY <1>2, <2>1, SameIsCurrent DEF Place
<1>10. CASE Clean(p)
  <2>1. CASE pc[p] = "clean_main"
    <3>1. /\ file' = [file EXCEPT !["main"] = Unlinked("main")]
          /\ pc'[p] = "clean_wal" /\ outcome' = outcome
      BY <1>0, <1>10, <2>1 DEF Clean
    <3> QED
      BY <1>0, <1>3, <3>1 DEF Place, Absent, Unlinked, File
  <2>2. CASE pc[p] = "clean_wal"
    <3>1. /\ file' = [file EXCEPT !["wal"] = Unlinked("wal")]
          /\ pc'[p] = "clean_journal" /\ outcome' = outcome
      BY <1>0, <1>10, <2>2 DEF Clean
    <3> QED
      BY <1>0, <1>3, <2>2, <3>1 DEF Place, Absent, Unlinked, File
  <2>3. CASE pc[p] = "clean_journal"
    <3>1. /\ file' = [file EXCEPT !["journal"] = Unlinked("journal")]
          /\ pc'[p] = "ended" /\ outcome'[p] = "error"
      BY <1>0, <1>10, <2>3 DEF Clean
    <3>2. NotThere'
      BY <1>0, <2>3, <3>1 DEF Place, Absent, Unlinked, File, NotThere
    <3> QED
      BY <1>3, <3>1, <3>2 DEF Place
  <2> QED
    BY <1>10, <2>1, <2>2, <2>3 DEF Clean
<1>11. CASE Validate(p)
  <2>1. UNCHANGED <<file, pool>> /\ pc[p] = "validate" /\ (NotThere \/ IsCurrent)
    BY <1>1, <1>11 DEF Validate
  <2>2. CASE Absent("main")
    <3>1. Kind[p] = "doctor" /\ ~pool[p]
      BY <2>1, <2>2 DEF Place, IsCurrent
    <3>2. pc'[p] = "ended"
      BY <1>0, <1>11, <2>2, <3>1 DEF Validate
    <3> QED
      BY <1>2, <2>1, <3>1, <3>2 DEF Place
  <2>3. CASE ~Absent("main")
    <3>1. IsCurrent
      BY <2>1, <2>3 DEF NotThere, File
    <3>2. pc'[p] = "copy" /\ outcome' = outcome /\ seen'[p] = {Effective(file)}
      BY <1>0, <1>11, <2>3 DEF Validate
    <3> QED
      BY <1>2, <2>1, <3>1, <3>2, SameIsCurrent DEF Place, IsCurrent
  <2> QED
    BY <2>2, <2>3
<1>12. CASE Copy(p)
  <2>1. /\ UNCHANGED <<file, seen, outcome, pool>> /\ pc[p] = "copy"
        /\ pc'[p] \in {"copy", "compare"}
    BY <1>0, <1>12 DEF Copy
  <2> QED
    BY <1>2, <2>1, SameIsCurrent DEF Place
<1>13. CASE Compare(p)
  <2>1. UNCHANGED <<file, pool>> /\ pc[p] = "compare" /\ IsCurrent /\ seen[p] \subseteq {"current"}
    BY <1>13 DEF Compare, Place
  <2>2. /\ pc'[p] \in {"judge", "compare", "copy", "close", "ended"}
        /\ outcome'[p] = outcome[p] \/ outcome'[p] = "changed"
        /\ seen'[p] = seen[p] \/ seen'[p] = {Effective(file)}
    <3>1. CASE Unchanged(p, NextFile(checked[p]))
      BY <1>0, <1>13, <3>1 DEF Compare
    <3>2. CASE ~Unchanged(p, NextFile(checked[p]))
      BY <1>0, <1>13, <3>2 DEF Compare, Begin
    <3> QED
      BY <3>1, <3>2
  <2> QED
    BY <1>2, <2>1, <2>2, SameIsCurrent DEF Place, IsCurrent
<1>14. CASE Judge(p)
  <2>1. UNCHANGED <<file, pool>> /\ pc[p] = "judge" /\ IsCurrent
    BY <1>14 DEF Judge, Place
  <2>2. Effective(copy[p]) = "current"
    BY <2>1 DEF SnapInv, Snapshot, Place
  <2>3. outcome' = outcome /\ pc'[p] \in {"build", "open", "validate", "probe_write"}
    BY <1>0, <1>14, <2>2 DEF Judge
  <2> QED
    BY <1>2, <2>1, <2>3, SameIsCurrent DEF Place
<1>15. CASE Open(p)
  <2>1. IsCurrent /\ pc[p] = "open"
    BY <1>15 DEF Open, Place
  <2>2. file' = Opened /\ pc'[p] = "validate" /\ outcome' = outcome
    BY <1>0, <1>15, <2>1 DEF Open, IsCurrent
  <2> QED
    BY <1>0, <1>3, <2>1, <2>2, OpenedCurrent DEF Place
<1>16. CASE Close(p)
  <2>1. IsCurrent /\ pc[p] = "close"
    BY <1>16 DEF Close, Place
  <2>2. file' = Closed /\ pc'[p] = "ended" /\ outcome' = outcome
    BY <1>0, <1>16, <2>1 DEF Close, IsCurrent
  <2> QED
    BY <1>0, <1>3, <2>1, <2>2, OpenedCurrent DEF Place
<1>17. CASE Build(p) \/ Exit(p)
  <2>1. /\ UNCHANGED <<file, pool>> /\ IsCurrent /\ pc[p] \in {"build", "work"}
        /\ pc'[p] \in {"work", "close", "ended"}
        /\ outcome'[p] \in {outcome[p], "error", "done"}
    BY <1>0, <1>17 DEF Build, Exit, Place
  <2> QED
    BY <1>2, <2>1, SameIsCurrent DEF Place
<1>18. CASE ProbeWrite(p)
  <2>1. IsCurrent /\ pc[p] = "probe_write"
    BY <1>18 DEF ProbeWrite, Place
  <2>2. file' = Closed /\ pc'[p] = "work" /\ outcome' = outcome
    BY <1>0, <1>18, <2>1 DEF ProbeWrite, IsCurrent
  <2> QED
    BY <1>0, <1>3, <2>1, <2>2, OpenedCurrent DEF Place
<1>19. CASE Kill(p)
  <2>1. UNCHANGED file /\ pc'[p] = "ended" /\ outcome'[p] = "killed" /\ pc[p] \notin HalfMaking
    BY <1>0, <1>19 DEF Kill
  <2> QED
    BY <1>2, <2>1 DEF Place
<1> QED
  BY <1>4, <1>5, <1>6, <1>7, <1>8, <1>9, <1>10, <1>11, <1>12, <1>13, <1>14, <1>15, <1>16,
     <1>17, <1>18, <1>19 DEF StartStep

LEMMA GenInvStep == StartInv /\ SnapInv /\ GenInv /\ [StartNext]_startVars => GenInv'
<1> SUFFICES ASSUME StartInv, SnapInv, GenInv, [StartNext]_startVars, Undisturbed'
             PROVE  Settled' /\ \A q \in Process : Place(q)'
  BY DEF GenInv
<1>1. ASSUME NEW p \in Process, StartStep(p)
      PROVE  Settled' /\ \A q \in Process : Place(q)'
  <2>1. Settled /\ (Kill(p) => pc[p] \notin HalfMaking) /\ \A q \in Process : Place(q)
    BY <1>1, StillUndisturbed DEF GenInv
  <2>2. Place(p)' /\ Settled'
    BY <1>1, <2>1, OwnPlace
  <2>3. \A q \in Process \ {p} : Place(q)'
    BY <1>1, <2>1, OtherPlace
  <2> QED
    BY <2>2, <2>3
<1>2. ~Outsider
  BY DEF Outsider, Undisturbed, StartInv, ProcessTypes
<1>3. ASSUME UNCHANGED startVars PROVE Settled' /\ \A q \in Process : Place(q)'
  BY <1>3 DEF startVars, processVars, GenInv, Undisturbed, Settled, Place, NotThere, IsCurrent,
         Absent, Effective
<1> QED
  BY <1>1, <1>2, <1>3 DEF StartNext

\* A database that only these commands write, and whose initialization no kill
\* cut off, keeps no command out (prepare_current_database), however many there
\* are, however they are interleaved and killed at work.
THEOREM StartsAgainSafe == ServerSpec => []StartsAgain
<1>1. ServerInit => GenInv
  <2> SUFFICES ASSUME StartInit, Undisturbed PROVE Settled /\ \A p \in Process : Place(p)
    BY DEF ServerInit, GenInv
  <2>1. /\ file \in Generations
        /\ origin = IF ~Absent("main") THEN Effective(file)
                    ELSE IF Absent("wal") THEN "none" ELSE "log"
    BY DEF StartInit
  <2>2. NotThere \/ IsCurrent
    BY <2>1 DEF Undisturbed, Generations, Generation, NotThere, IsCurrent, Absent, Effective, File
  <2>3. \A p \in Process : Place(p)
    BY DEF StartInit, Place, Snapshotting
  <2> QED
    BY <2>2, <2>3 DEF Settled
<1>2. [ServerNext]_serverVars => [StartNext]_startVars
  BY DEF ServerNext, serverVars, ProcessStep, LoginStep, AccountStep
<1>3. GenInv => StartsAgain
  BY DEF GenInv, Undisturbed, Place, StartsAgain
<1> QED
  BY <1>1, <1>2, <1>3, GenInvStep, StartInvAlways, SnapInvAlways, PTL DEF ServerSpec

-----------------------------------------------------------------------------
(* Logins (LoginAdmission) *)

SlotsInv ==
    /\ permits \in Nat /\ running \in Nat /\ detached \in Nat
    /\ permits + running + detached = Slots

\* The verifications at work never outnumber the slots (run_argon2), whatever is
\* abandoned and whatever the tables are.
THEOREM WorkersSafe == ServerSpec => []WorkersBounded
<1>1. ServerInit => SlotsInv
  BY AdmissionAssumption DEF ServerInit, LoginInit, SlotsInv
<1>2. SlotsInv /\ [ServerNext]_serverVars => SlotsInv'
  <2> SUFFICES ASSUME SlotsInv, [ServerNext]_serverVars PROVE SlotsInv'
    OBVIOUS
  <2>1. CASE LoginNext
    BY <2>1 DEF LoginNext, SlotsInv, Arrive, AcquireSlot, GiveUp, Verified, Abandon, DetachedEnds, Tick
  <2>2. CASE LoginReset
    BY <2>2, AdmissionAssumption DEF LoginReset, SlotsInv
  <2>3. CASE UNCHANGED loginVars
    BY <2>3 DEF loginVars, SlotsInv
  <2> QED
    BY <2>1, <2>2, <2>3 DEF ServerNext, ProcessStep, LoginStep, AccountStep, serverVars
<1>3. SlotsInv => WorkersBounded
  BY DEF SlotsInv, WorkersBounded
<1> QED
  BY <1>1, <1>2, <1>3, PTL DEF ServerSpec

\* A set of natural numbers has a least element.
LEMMA LeastNatural ==
    ASSUME NEW T, T \subseteq Nat, T # {}
    PROVE  \E x \in T : \A y \in T : x <= y
<1> DEFINE R == OpToRel(<, Nat)
<1>1. \A x, y \in Nat : y < x => <<y, x>> \in R
  BY DEF OpToRel
<1>2. IsWellFoundedOn(R, Nat)
  BY NatLessThanWellFounded
<1> HIDE DEF R
<1>3. PICK x \in T : \A y \in T : ~(<<y, x>> \in R)
  BY <1>2, WFMin
<1>4. \A y \in T : x <= y
  <2> TAKE y \in T
  <2>1. ~(y < x)
    BY <1>1, <1>3
  <2> QED
    BY <2>1
<1> QED
  BY <1>4

LEMMA MinOfTwo ==
    ASSUME NEW a \in Int, NEW b \in Int
    PROVE  /\ Min({a, b}) = IF a <= b THEN a ELSE b
           /\ Max({a, b}) = IF a <= b THEN b ELSE a
BY DEF Min, Max

LEMMA FullFacts ==
    ASSUME NEW k \in Table
    PROVE  /\ Full(k) \in Nat /\ Ttl \in Nat /\ Capacity[k] \in Nat \ {0}
           /\ Refill[k] \in Nat \ {0} /\ Refill[k] <= Full(k) /\ Full(k) <= Ttl
<1>1. /\ Burst[k] \in Nat \ {0} /\ Refill[k] \in Nat \ {0}
      /\ Ttl \in Nat /\ Capacity[k] \in Nat \ {0} /\ Ttl >= Full(k)
  BY AdmissionAssumption
<1>2. \A b, r \in Nat \ {0} : b * r \in Nat /\ r <= b * r
  OBVIOUS
<1> QED
  BY <1>1, <1>2 DEF Full

Entry(k) == [tokens : 0 .. Full(k), age : 0 .. Ttl]

LEMMA TokensAre ==
    ASSUME NEW k \in Table, NEW e \in Entry(k)
    PROVE  TokensAt(k, e) = IF Full(k) <= e.tokens + e.age THEN Full(k) ELSE e.tokens + e.age
BY FullFacts, MinOfTwo DEF Entry, TokensAt

\* The entries t of table k stand for the buckets i of all keys.
Bucket(k, t, i) ==
    /\ DOMAIN t \subseteq Key[k] /\ IsFiniteSet(DOMAIN t) /\ Cardinality(DOMAIN t) <= Capacity[k]
    /\ \A x \in DOMAIN t : t[x] \in Entry(k)
    /\ i \in [Key[k] -> 0 .. Full(k)]
    /\ \A x \in Key[k] : i[x] = IF x \in DOMAIN t THEN TokensAt(k, t[x]) ELSE Full(k)

\* After the time h.left its key finds a token, or an entry to take the place of.
Waits(k, t, h) ==
    /\ h \in [key : Key[k] \cup {"none"}, left : Int]
    /\ h # NoHint =>
          \/ /\ h.key \in DOMAIN t
             /\ Refill[k] <= t[h.key].tokens + t[h.key].age + h.left
          \/ /\ h.key \notin DOMAIN t
             /\ \E x \in DOMAIN t : Full(k) <= t[x].tokens + t[x].age + h.left

\* What expires or makes room is full.
LEMMA RoomsKeep ==
    ASSUME NEW k \in Table, Bucket(k, table[k], ideal[k]), NEW key, NEW kept \in Rooms(k, key)
    PROVE  /\ kept \subseteq DOMAIN table[k]
           /\ \A x \in DOMAIN table[k] \ kept : TokensAt(k, table[k][x]) = Full(k)
           /\ IsFiniteSet(kept \cup {key}) /\ Cardinality(kept \cup {key}) <= Capacity[k]
           /\ key \in Live(k) => kept = Live(k)
<1> DEFINE d == DOMAIN table[k]
<1>0. /\ \A x \in d : table[k][x] \in Entry(k)
      /\ IsFiniteSet(d) /\ Cardinality(d) <= Capacity[k]
  BY DEF Bucket
<1>1. \A x \in d \ Live(k) : TokensAt(k, table[k][x]) = Full(k)
  <2> TAKE x \in d \ Live(k)
  <2>1. table[k][x] \in Entry(k) /\ ~(table[k][x].age < Ttl)
    BY <1>0 DEF Live
  <2> QED
    BY <2>1, FullFacts, TokensAre DEF Entry
<1>2. Live(k) \subseteq d
  BY DEF Live
<1>3. IsFiniteSet(Live(k)) /\ Cardinality(Live(k)) <= Capacity[k]
  BY <1>0, <1>2, FS_Subset, FS_CardinalityType, FullFacts
<1>4. Cardinality(Live(k)) \in Nat /\ Capacity[k] \in Nat
  BY <1>3, FS_CardinalityType, FullFacts
<1> HIDE DEF d
<1>5. CASE key \in Live(k) \/ Cardinality(Live(k)) < Capacity[k]
  <2>1. kept = Live(k)
    BY <1>5 DEF Rooms
  <2>2. /\ IsFiniteSet(kept \cup {key})
        /\ Cardinality(kept \cup {key})
             = IF key \in kept THEN Cardinality(kept) ELSE Cardinality(kept) + 1
    BY <1>3, <2>1, FS_AddElement
  <2> QED
    BY <1>1, <1>2, <1>3, <1>4, <1>5, <2>1, <2>2 DEF d
<1>6. CASE ~(key \in Live(k) \/ Cardinality(Live(k)) < Capacity[k])
  <2>1. PICK x \in Evictable(k) : kept = Live(k) \ {x}
    BY <1>6 DEF Rooms
  <2>2. x \in Live(k) /\ TokensAt(k, table[k][x]) = Full(k)
    BY DEF Evictable
  <2>3. IsFiniteSet(kept) /\ Cardinality(kept) = Cardinality(Live(k)) - 1
    BY <1>3, <2>1, <2>2, FS_RemoveElement
  <2>4. IsFiniteSet(kept \cup {key}) /\ Cardinality(kept \cup {key}) = Cardinality(kept) + 1
    BY <1>6, <2>1, <2>3, FS_AddElement
  <2>5. Cardinality(kept \cup {key}) <= Capacity[k]
    BY <1>3, <1>4, <2>3, <2>4
  <2>6. \A y \in d \ kept : TokensAt(k, table[k][y]) = Full(k)
    BY <1>1, <2>1, <2>2
  <2> QED
    BY <1>2, <1>6, <2>1, <2>4, <2>5, <2>6 DEF d
<1> QED
  BY <1>5, <1>6

LEMMA AnswerKeeps ==
    ASSUME NEW k \in Table, Bucket(k, table[k], ideal[k]), NEW key \in Key[k],
           NEW answer \in Answers(k, key)
    PROVE  /\ Bucket(k, answer.entries, Spent(k, key, answer))
           /\ answer.ok \in BOOLEAN
<1> DEFINE d == DOMAIN table[k]
<1>0. /\ \A x \in d : table[k][x] \in Entry(k) /\ TokensAt(k, table[k][x]) \in 0 .. Full(k)
      /\ d \subseteq Key[k] /\ IsFiniteSet(d) /\ Cardinality(d) <= Capacity[k]
      /\ ideal[k] \in [Key[k] -> 0 .. Full(k)]
      /\ \A x \in Key[k] : ideal[k][x] = IF x \in d THEN TokensAt(k, table[k][x]) ELSE Full(k)
  BY DEF Bucket
<1> HIDE DEF d
<1>1. CASE Rooms(k, key) = {}
  <2>1. answer = [ok |-> FALSE, retry |-> UntilRoom(k), entries |-> Restrict(table[k], Live(k))]
    BY <1>1 DEF Answers
  <2>2. /\ DOMAIN answer.entries = Live(k)
        /\ \A x \in Live(k) : answer.entries[x] = table[k][x]
        /\ answer.ok = FALSE /\ Spent(k, key, answer) = ideal[k]
    BY <2>1 DEF Restrict, Spent
  <2>3. Live(k) \subseteq d
    BY DEF Live, d
  <2>4. \A x \in d \ Live(k) : TokensAt(k, table[k][x]) = Full(k)
    <3> TAKE x \in d \ Live(k)
    <3>1. table[k][x] \in Entry(k) /\ ~(table[k][x].age < Ttl)
      BY <1>0 DEF Live, d
    <3> QED
      BY <3>1, FullFacts, TokensAre DEF Entry
  <2>5. IsFiniteSet(Live(k)) /\ Cardinality(Live(k)) <= Capacity[k]
    BY <1>0, <2>3, FS_Subset, FS_CardinalityType, FullFacts
  <2> QED
    BY <1>0, <2>2, <2>3, <2>4, <2>5 DEF Bucket
<1>2. CASE Rooms(k, key) # {}
  <2>1. PICK kept \in Rooms(k, key) : answer = Charge(k, key, kept)
    BY <1>2 DEF Answers
  <2>2. /\ kept \subseteq d
        /\ \A x \in d \ kept : TokensAt(k, table[k][x]) = Full(k)
        /\ IsFiniteSet(kept \cup {key}) /\ Cardinality(kept \cup {key}) <= Capacity[k]
    BY RoomsKeep DEF d
  <2> DEFINE tokens == IF key \in kept THEN TokensAt(k, table[k][key]) ELSE Full(k)
             left == IF tokens >= Refill[k] THEN tokens - Refill[k] ELSE tokens
  <2>3. /\ tokens \in 0 .. Full(k) /\ ideal[k][key] = tokens
        /\ left \in 0 .. Full(k)
    <3>1. tokens \in 0 .. Full(k) /\ ideal[k][key] = tokens
      BY <1>0, <2>2, FullFacts
    <3> QED
      BY <3>1, FullFacts
  <2>4. /\ answer.ok = (tokens >= Refill[k])
        /\ answer.entries = [x \in kept \cup {key} |->
                               IF x = key THEN [tokens |-> left, age |-> 0] ELSE table[k][x]]
    BY <2>1 DEF Charge
  <2>5. /\ Spent(k, key, answer) \in [Key[k] -> 0 .. Full(k)]
        /\ Spent(k, key, answer)[key] = left
        /\ \A x \in Key[k] \ {key} : Spent(k, key, answer)[x] = ideal[k][x]
    BY <1>0, <2>3, <2>4 DEF Spent
  <2> HIDE DEF tokens, left
  <2>6. /\ DOMAIN answer.entries = kept \cup {key}
        /\ answer.entries[key] = [tokens |-> left, age |-> 0]
        /\ \A x \in kept \ {key} : answer.entries[x] = table[k][x]
    BY <2>4
  <2>7. [tokens |-> left, age |-> 0] \in Entry(k) /\ TokensAt(k, [tokens |-> left, age |-> 0]) = left
    <3>1. [tokens |-> left, age |-> 0] \in Entry(k)
      BY <2>3, FullFacts DEF Entry
    <3> QED
      BY <2>3, <3>1, FullFacts, TokensAre
  <2>8. \A x \in DOMAIN answer.entries : answer.entries[x] \in Entry(k)
    BY <1>0, <2>2, <2>6, <2>7
  <2>9. \A x \in Key[k] : Spent(k, key, answer)[x] =
            IF x \in DOMAIN answer.entries THEN TokensAt(k, answer.entries[x]) ELSE Full(k)
    <3> TAKE x \in Key[k]
    <3>1. CASE x = key
      BY <2>5, <2>6, <2>7, <3>1
    <3>2. CASE x # key
      BY <1>0, <2>2, <2>5, <2>6, <3>2
    <3> QED
      BY <3>1, <3>2
  <2>10. /\ DOMAIN answer.entries \subseteq Key[k]
         /\ IsFiniteSet(DOMAIN answer.entries)
         /\ Cardinality(DOMAIN answer.entries) <= Capacity[k]
    BY <1>0, <2>2, <2>6
  <2>11. answer.ok \in BOOLEAN
    BY <2>4
  <2> QED
    BY <2>5, <2>8, <2>9, <2>10, <2>11 DEF Bucket
<1> QED
  BY <1>1, <1>2

\* A table has room once one of its entries has expired or is full.
LEMMA RoomAgain ==
    ASSUME NEW k \in Table, Bucket(k, table[k], ideal[k]), NEW key,
           \/ key \in DOMAIN table[k]
           \/ \E x \in DOMAIN table[k] : Full(k) <= table[k][x].tokens + table[k][x].age
    PROVE  Rooms(k, key) # {}
<1> DEFINE d == DOMAIN table[k]
<1>0. /\ \A x \in d : table[k][x] \in Entry(k)
      /\ IsFiniteSet(d) /\ Cardinality(d) \in Nat /\ Cardinality(d) <= Capacity[k]
      /\ Live(k) \subseteq d
  BY FS_CardinalityType DEF Bucket, Live
<1> SUFFICES ASSUME key \notin Live(k), ~(Cardinality(Live(k)) < Capacity[k]) PROVE Rooms(k, key) # {}
  BY DEF Rooms
<1> HIDE DEF d
<1>1. Live(k) = d
  <2> SUFFICES ASSUME NEW x \in d \ Live(k) PROVE FALSE
    BY <1>0
  <2>1. IsFiniteSet(d \ {x}) /\ Cardinality(d \ {x}) = Cardinality(d) - 1
    BY <1>0, FS_RemoveElement
  <2>2. Live(k) \subseteq d \ {x}
    BY <1>0
  <2>3. Cardinality(Live(k)) \in Nat /\ Cardinality(Live(k)) <= Cardinality(d \ {x})
    BY <2>1, <2>2, FS_Subset, FS_CardinalityType
  <2> QED
    BY <1>0, <2>1, <2>3, FullFacts
<1>2. PICK x \in Live(k) : Full(k) <= table[k][x].tokens + table[k][x].age
  BY <1>1 DEF d
<1>3. x \in Evictable(k)
  BY <1>0, <1>1, <1>2, TokensAre DEF Evictable
<1> DEFINE T == {Ttl - table[k][y].age : y \in Evictable(k)}
<1>4. T \subseteq Nat /\ T # {}
  <2>1. \A y \in Evictable(k) : table[k][y] \in Entry(k)
    BY <1>0 DEF Evictable
  <2> QED
    BY <1>3, <2>1, FullFacts DEF Entry
<1>5. PICK m \in T : \A n \in T : m <= n
  BY <1>4, LeastNatural
<1>6. PICK y \in Evictable(k) : m = Ttl - table[k][y].age
  BY <1>5
<1>7. \A z \in Evictable(k) : table[k][y].age >= table[k][z].age
  <2> TAKE z \in Evictable(k)
  <2>1. Ttl - table[k][y].age <= Ttl - table[k][z].age
    BY <1>5, <1>6
  <2>2. table[k][y] \in Entry(k) /\ table[k][z] \in Entry(k)
    BY <1>0 DEF Evictable
  <2> QED
    BY <2>1, <2>2, FullFacts DEF Entry
<1>8. Live(k) \ {y} \in Rooms(k, key)
  BY <1>6, <1>7 DEF Rooms
<1> QED
  BY <1>8

\* With a token in its bucket, or with an entry to take the place of, a key is
\* admitted.
LEMMA WaitEnds ==
    ASSUME NEW k \in Table, Bucket(k, table[k], ideal[k]), Waits(k, table[k], hint[k]),
           hint[k] # NoHint, hint[k].left = 0, NEW answer \in Answers(k, hint[k].key)
    PROVE  answer.ok
<1> DEFINE key == hint[k].key
           d == DOMAIN table[k]
<1>1. \/ key \in d /\ Refill[k] <= table[k][key].tokens + table[k][key].age
      \/ key \notin d /\ \E x \in d : Full(k) <= table[k][x].tokens + table[k][x].age
  <2>1. \A x \in d : table[k][x] \in Entry(k)
    BY DEF Bucket
  <2>2. \A x \in d : table[k][x].tokens + table[k][x].age + 0 = table[k][x].tokens + table[k][x].age
    BY <2>1, FullFacts DEF Entry
  <2> QED
    BY <2>2 DEF Waits
<1>2. Rooms(k, key) # {}
  BY <1>1, RoomAgain
<1>3. PICK kept \in Rooms(k, key) : answer = Charge(k, key, kept)
  BY <1>2 DEF Answers
<1>4. answer.ok = ((IF key \in kept THEN TokensAt(k, table[k][key]) ELSE Full(k)) >= Refill[k])
  BY <1>3 DEF Charge
<1>5. key \in kept => TokensAt(k, table[k][key]) >= Refill[k]
  <2> SUFFICES ASSUME key \in kept PROVE TokensAt(k, table[k][key]) >= Refill[k]
    OBVIOUS
  <2>1. key \in d
    BY RoomsKeep
  <2>2. table[k][key] \in Entry(k) /\ Refill[k] <= table[k][key].tokens + table[k][key].age
    BY <1>1, <2>1 DEF Bucket
  <2> QED
    BY <2>2, FullFacts, TokensAre DEF Entry
<1> QED
  BY <1>4, <1>5, FullFacts

\* A refusal says how long that takes.
LEMMA RefusalWaits ==
    ASSUME NEW k \in Table, Bucket(k, table[k], ideal[k]), NEW key \in Key[k],
           NEW answer \in Answers(k, key)
    PROVE  Waits(k, answer.entries, HintOf(key, answer))
<1>0. answer.ok => Waits(k, answer.entries, HintOf(key, answer))
  BY DEF Waits, HintOf, NoHint
<1> SUFFICES ASSUME ~answer.ok,
                    NEW h, h = [key |-> key, left |-> answer.retry]
             PROVE  Waits(k, answer.entries, h)
  BY <1>0 DEF HintOf
<1>1. \A x \in DOMAIN table[k] : table[k][x] \in Entry(k)
  BY DEF Bucket
<1>2. CASE Rooms(k, key) = {}
  <2> DEFINE Left(x) == Min({Full(k) - TokensAt(k, table[k][x]), Ttl - table[k][x].age})
             T == {Left(x) : x \in Live(k)}
  <2>1. /\ answer.retry = Min(T)
        /\ answer.entries = Restrict(table[k], Live(k))
    BY <1>2 DEF Answers, UntilRoom
  <2>2. /\ key \notin Live(k) /\ Live(k) # {}
    <3>1. ~(key \in Live(k) \/ Cardinality(Live(k)) < Capacity[k])
      BY <1>2 DEF Rooms
    <3>2. Live(k) = {} => Cardinality(Live(k)) = 0
      BY FS_EmptySet
    <3> QED
      BY <3>1, <3>2, FullFacts
  <2>3. \A x \in Live(k) :
            /\ Left(x) \in Nat
            /\ Full(k) <= table[k][x].tokens + table[k][x].age + Left(x)
    <3> TAKE x \in Live(k)
    <3>1. table[k][x] \in Entry(k) /\ table[k][x].age < Ttl
      BY <1>1 DEF Live
    <3>2. /\ Full(k) - TokensAt(k, table[k][x]) \in Nat
          /\ Full(k) <= table[k][x].tokens + table[k][x].age + (Full(k) - TokensAt(k, table[k][x]))
      BY <3>1, FullFacts, TokensAre DEF Entry
    <3>3. /\ Ttl - table[k][x].age \in Nat
          /\ Full(k) <= table[k][x].tokens + table[k][x].age + (Ttl - table[k][x].age)
      BY <3>1, FullFacts DEF Entry
    <3>4. Left(x) \in {Full(k) - TokensAt(k, table[k][x]), Ttl - table[k][x].age}
      BY <3>2, <3>3, MinOfTwo
    <3> QED
      BY <3>2, <3>3, <3>4
  <2> HIDE DEF Left
  <2>4. Min(T) \in T
    <3>1. T \subseteq Nat /\ T # {}
      BY <2>2, <2>3
    <3> HIDE DEF T
    <3> QED
      BY <3>1, LeastNatural DEF Min
  <2>5. PICK x \in Live(k) : answer.retry = Left(x)
    BY <2>1, <2>4
  <2>6. /\ DOMAIN answer.entries = Live(k)
        /\ answer.entries[x] = table[k][x]
    BY <2>1 DEF Restrict
  <2>7. h.key = key /\ h.left = Left(x) /\ h \in [key : Key[k] \cup {"none"}, left : Int]
    BY <2>3, <2>5
  <2>8. Full(k) <= answer.entries[x].tokens + answer.entries[x].age + h.left
    BY <2>3, <2>6, <2>7
  <2> QED
    BY <2>2, <2>6, <2>7, <2>8 DEF Waits
<1>3. CASE Rooms(k, key) # {}
  <2>1. PICK kept \in Rooms(k, key) : answer = Charge(k, key, kept)
    BY <1>3 DEF Answers
  <2>2. /\ answer.ok = ((IF key \in kept THEN TokensAt(k, table[k][key]) ELSE Full(k)) >= Refill[k])
        /\ answer.retry = IF answer.ok THEN 0
                          ELSE Refill[k] - IF key \in kept THEN TokensAt(k, table[k][key]) ELSE Full(k)
    BY <2>1 DEF Charge
  <2>3. key \in kept
    BY <2>2, FullFacts
  <2> DEFINE tokens == TokensAt(k, table[k][key])
  <2>4. tokens \in Nat
    <3>1. table[k][key] \in Entry(k)
      BY <1>1, <2>3, RoomsKeep
    <3> QED
      BY <3>1, FullFacts, TokensAre DEF Entry
  <2>5. answer.retry = Refill[k] - tokens
    BY <2>2, <2>3
  <2>6. /\ key \in DOMAIN answer.entries
        /\ answer.entries[key] = [tokens |-> tokens, age |-> 0]
    BY <2>1, <2>2, <2>3 DEF Charge
  <2> HIDE DEF tokens
  <2>7. h.key = key /\ h.left = Refill[k] - tokens /\ h \in [key : Key[k] \cup {"none"}, left : Int]
    BY <2>4, <2>5, FullFacts
  <2>8. Refill[k] <= answer.entries[key].tokens + answer.entries[key].age + h.left
    BY <2>4, <2>6, <2>7, FullFacts
  <2> QED
    BY <2>6, <2>7, <2>8 DEF Waits
<1> QED
  BY <1>2, <1>3

LoginInv ==
    /\ DOMAIN table = Table /\ DOMAIN ideal = Table /\ DOMAIN hint = Table
    /\ \A k \in Table : Bucket(k, table[k], ideal[k]) /\ Waits(k, table[k], hint[k])

LEMMA FreshKeeps ==
    /\ DOMAIN Fresh.table = Table /\ DOMAIN Fresh.ideal = Table /\ DOMAIN Fresh.hint = Table
    /\ \A k \in Table : /\ Bucket(k, Fresh.table[k], Fresh.ideal[k])
                        /\ Waits(k, Fresh.table[k], Fresh.hint[k])
<1>1. /\ Fresh.table = [k \in Table |-> <<>>]
      /\ Fresh.ideal = [k \in Table |-> [x \in Key[k] |-> Full(k)]]
      /\ Fresh.hint = [k \in Table |-> NoHint]
  BY DEF Fresh
<1>2. ASSUME NEW k \in Table
      PROVE  /\ Bucket(k, Fresh.table[k], Fresh.ideal[k])
             /\ Waits(k, Fresh.table[k], Fresh.hint[k])
  <2>1. Fresh.table[k] = <<>> /\ Fresh.hint[k] = NoHint
    BY <1>1
  <2>2. Fresh.ideal[k] = [x \in Key[k] |-> Full(k)]
    BY <1>1
  <2>3. DOMAIN Fresh.table[k] = {}
    BY <2>1
  <2>4. IsFiniteSet(DOMAIN Fresh.table[k]) /\ Cardinality(DOMAIN Fresh.table[k]) <= Capacity[k]
    BY <2>3, FS_EmptySet, FullFacts
  <2>5. Bucket(k, Fresh.table[k], Fresh.ideal[k])
    BY <2>2, <2>3, <2>4, FullFacts DEF Bucket
  <2>6. Waits(k, Fresh.table[k], Fresh.hint[k])
    BY <2>1 DEF Waits, NoHint
  <2> QED
    BY <2>5, <2>6
<1>3. DOMAIN Fresh.table = Table /\ DOMAIN Fresh.ideal = Table /\ DOMAIN Fresh.hint = Table
  BY <1>1
<1> QED
  BY <1>2, <1>3

LEMMA ArriveKeeps ==
    ASSUME LoginInv, NEW source \in Key["source"], NEW account \in Key["account"],
           Arrive(source, account)
    PROVE  LoginInv'
<1>0. /\ "source" \in Table /\ "account" \in Table /\ Table = {"source", "account"}
      /\ \A k \in Table : Bucket(k, table[k], ideal[k]) /\ Waits(k, table[k], hint[k])
      /\ DOMAIN table = Table /\ DOMAIN ideal = Table /\ DOMAIN hint = Table
  BY DEF Table, LoginInv
<1>1. PICK first \in Answers("source", source) :
          IF ~first.ok
          THEN /\ table' = [table EXCEPT !["source"] = first.entries]
               /\ hint' = [hint EXCEPT !["source"] = HintOf(source, first)]
               /\ UNCHANGED <<ideal, waiting>>
          ELSE \E second \in Answers("account", account) :
                  /\ table' = [source |-> first.entries, account |-> second.entries]
                  /\ hint' = [source |-> NoHint, account |-> HintOf(account, second)]
                  /\ ideal' = [source |-> Spent("source", source, first),
                               account |-> Spent("account", account, second)]
                  /\ waiting' = IF second.ok THEN waiting + 1 ELSE waiting
  BY DEF Arrive
<1>2. /\ Bucket("source", first.entries, Spent("source", source, first))
      /\ Waits("source", first.entries, HintOf(source, first))
  BY <1>0, AnswerKeeps, RefusalWaits
<1>3. CASE ~first.ok
  <2>1. /\ table' = [table EXCEPT !["source"] = first.entries]
        /\ hint' = [hint EXCEPT !["source"] = HintOf(source, first)]
        /\ ideal' = ideal
    BY <1>1, <1>3
  <2>2. Spent("source", source, first) = ideal["source"]
    BY <1>3 DEF Spent
  <2>3. /\ table'["source"] = first.entries /\ table'["account"] = table["account"]
        /\ hint'["source"] = HintOf(source, first) /\ hint'["account"] = hint["account"]
        /\ DOMAIN table' = Table /\ DOMAIN hint' = Table
    BY <1>0, <2>1
  <2>4. /\ Bucket("source", table'["source"], ideal'["source"])
        /\ Waits("source", table'["source"], hint'["source"])
    BY <1>2, <2>1, <2>2, <2>3
  <2>5. /\ Bucket("account", table'["account"], ideal'["account"])
        /\ Waits("account", table'["account"], hint'["account"])
    BY <1>0, <2>1, <2>3
  <2> QED
    BY <1>0, <2>1, <2>3, <2>4, <2>5 DEF LoginInv
<1>4. CASE first.ok
  <2>1. PICK second \in Answers("account", account) :
                  /\ table' = [source |-> first.entries, account |-> second.entries]
                  /\ hint' = [source |-> NoHint, account |-> HintOf(account, second)]
                  /\ ideal' = [source |-> Spent("source", source, first),
                               account |-> Spent("account", account, second)]
    BY <1>1, <1>4
  <2>2. /\ Bucket("account", second.entries, Spent("account", account, second))
        /\ Waits("account", second.entries, HintOf(account, second))
    BY <1>0, AnswerKeeps, RefusalWaits
  <2>3. HintOf(source, first) = NoHint
    BY <1>4 DEF HintOf
  <2>4. /\ table'["source"] = first.entries /\ table'["account"] = second.entries
        /\ hint'["source"] = NoHint /\ hint'["account"] = HintOf(account, second)
        /\ ideal'["source"] = Spent("source", source, first)
        /\ ideal'["account"] = Spent("account", account, second)
        /\ DOMAIN table' = Table /\ DOMAIN ideal' = Table /\ DOMAIN hint' = Table
    BY <1>0, <2>1
  <2> QED
    BY <1>0, <1>2, <2>2, <2>3, <2>4 DEF LoginInv
<1> QED
  BY <1>3, <1>4

\* Nothing is forgotten by the time that passes, and it passes for the hints too.
LEMMA TickKeeps ==
    ASSUME LoginInv, Tick
    PROVE  LoginInv'
<1>1. ASSUME NEW k \in Table
      PROVE  Bucket(k, table'[k], ideal'[k]) /\ Waits(k, table'[k], hint'[k])
  <2> DEFINE t == table[k]
             u == table'[k]
             h == hint[k]
  <2>0. /\ Bucket(k, t, ideal[k]) /\ Waits(k, t, h)
        /\ Full(k) \in Nat /\ Ttl \in Nat /\ Full(k) <= Ttl /\ Refill[k] \in Nat /\ Refill[k] <= Full(k)
    BY FullFacts DEF LoginInv
  <2>1. /\ u = [x \in DOMAIN t |-> [t[x] EXCEPT !.age = Min({Ttl, @ + 1})]]
        /\ ideal'[k] = [x \in Key[k] |-> Min({Full(k), ideal[k][x] + 1})]
        /\ hint'[k] = [h EXCEPT !.left = Max({0, @ - 1})]
    BY DEF Tick
  <2> HIDE DEF t, u, h
  <2>2. DOMAIN u = DOMAIN t
    BY <2>1
  <2>3. \A x \in DOMAIN t :
          /\ t[x] \in Entry(k) /\ u[x] \in Entry(k)
          /\ u[x].tokens = t[x].tokens
          /\ u[x].age = IF Ttl <= t[x].age + 1 THEN Ttl ELSE t[x].age + 1
    <3> TAKE x \in DOMAIN t
    <3>1. t[x] \in Entry(k)
      BY <2>0 DEF Bucket
    <3>2. u[x] = [t[x] EXCEPT !.age = Min({Ttl, t[x].age + 1})]
      BY <2>1
    <3>3. /\ t[x].age \in 0 .. Ttl /\ t[x].tokens \in 0 .. Full(k)
          /\ Min({Ttl, t[x].age + 1}) = IF Ttl <= t[x].age + 1 THEN Ttl ELSE t[x].age + 1
      BY <2>0, <3>1, MinOfTwo DEF Entry
    <3> QED
      BY <2>0, <3>1, <3>2, <3>3 DEF Entry
  <2>4. /\ ideal'[k] \in [Key[k] -> 0 .. Full(k)]
        /\ \A x \in Key[k] :
              /\ ideal[k][x] \in 0 .. Full(k)
              /\ ideal'[k][x] = IF Full(k) <= ideal[k][x] + 1 THEN Full(k) ELSE ideal[k][x] + 1
    <3>1. \A x \in Key[k] : ideal[k][x] \in 0 .. Full(k)
      BY <2>0 DEF Bucket
    <3>2. \A x \in Key[k] : Min({Full(k), ideal[k][x] + 1})
             = IF Full(k) <= ideal[k][x] + 1 THEN Full(k) ELSE ideal[k][x] + 1
      BY <2>0, <3>1, MinOfTwo
    <3>3. \A x \in Key[k] : ideal'[k][x] = Min({Full(k), ideal[k][x] + 1})
      BY <2>1
    <3>4. \A x \in Key[k] : Min({Full(k), ideal[k][x] + 1}) \in 0 .. Full(k)
      BY <2>0, <3>1, <3>2
    <3>5. ideal'[k] \in [Key[k] -> 0 .. Full(k)]
      BY <2>1, <3>4
    <3> QED
      BY <3>1, <3>2, <3>3, <3>5
  <2>5. \A x \in Key[k] : ideal'[k][x] = IF x \in DOMAIN u THEN TokensAt(k, u[x]) ELSE Full(k)
    <3> TAKE x \in Key[k]
    <3>1. CASE x \in DOMAIN t
      <4>1. ideal[k][x] = TokensAt(k, t[x])
        BY <2>0, <3>1 DEF Bucket
      <4>2. /\ TokensAt(k, t[x])
                = IF Full(k) <= t[x].tokens + t[x].age THEN Full(k) ELSE t[x].tokens + t[x].age
            /\ TokensAt(k, u[x])
                = IF Full(k) <= u[x].tokens + u[x].age THEN Full(k) ELSE u[x].tokens + u[x].age
        BY <2>3, <3>1, TokensAre
      <4>3. t[x].age \in 0 .. Ttl /\ t[x].tokens \in 0 .. Full(k)
        BY <2>3, <3>1 DEF Entry
      <4> QED
        BY <2>0, <2>2, <2>3, <2>4, <3>1, <4>1, <4>2, <4>3
    <3>2. CASE x \notin DOMAIN t
      <4>1. ideal[k][x] = Full(k)
        BY <2>0, <3>2 DEF Bucket
      <4> QED
        BY <2>0, <2>2, <2>4, <3>2, <4>1
    <3> QED
      BY <3>1, <3>2
  <2>6. Bucket(k, u, ideal'[k])
    <3>1. \A x \in DOMAIN u : u[x] \in Entry(k)
      BY <2>2, <2>3
    <3>2. /\ DOMAIN u \subseteq Key[k] /\ IsFiniteSet(DOMAIN u)
          /\ Cardinality(DOMAIN u) <= Capacity[k]
      BY <2>0, <2>2 DEF Bucket
    <3> QED
      BY <2>4, <2>5, <3>1, <3>2 DEF Bucket
  <2>7. /\ h \in [key : Key[k] \cup {"none"}, left : Int]
        /\ hint'[k] \in [key : Key[k] \cup {"none"}, left : Int]
        /\ hint'[k].key = h.key
        /\ hint'[k].left \in Nat /\ hint'[k].left >= h.left - 1
        /\ h = NoHint => hint'[k] = NoHint
    <3>1. h \in [key : Key[k] \cup {"none"}, left : Int]
      BY <2>0 DEF Waits
    <3> DEFINE m == Max({0, h.left - 1})
    <3>2. m = IF 0 <= h.left - 1 THEN h.left - 1 ELSE 0
      <4>1. \A i \in Int : Max({0, i}) = IF 0 <= i THEN i ELSE 0
        BY MinOfTwo
      <4>2. h.left - 1 \in Int
        BY <3>1
      <4> QED
        BY <4>1, <4>2
    <3>3. hint'[k] = [key |-> h.key, left |-> m]
      BY <2>1, <3>1
    <3> HIDE DEF m
    <3>4. m \in Nat /\ m >= h.left - 1
      BY <3>1, <3>2
    <3>5. h = NoHint => hint'[k] = NoHint
      BY <3>2, <3>3 DEF NoHint
    <3> QED
      BY <3>1, <3>3, <3>4, <3>5
  <2>8. ASSUME NEW x \in DOMAIN t, NEW n \in Nat, n <= Full(k),
               n <= t[x].tokens + t[x].age + h.left
        PROVE  n <= u[x].tokens + u[x].age + hint'[k].left
    <3>1. /\ t[x].age \in 0 .. Ttl /\ t[x].tokens \in 0 .. Full(k) /\ h.left \in Int
          /\ hint'[k].left \in Nat /\ hint'[k].left >= h.left - 1
          /\ u[x].tokens = t[x].tokens
          /\ u[x].age = IF Ttl <= t[x].age + 1 THEN Ttl ELSE t[x].age + 1
      BY <2>3, <2>7 DEF Entry
    <3> QED
      BY <2>0, <2>8, <3>1
  <2>9. Waits(k, u, hint'[k])
    BY <2>0, <2>2, <2>7, <2>8 DEF Waits
  <2> QED
    BY <2>6, <2>9 DEF u
<1>2. DOMAIN table' = Table /\ DOMAIN ideal' = Table /\ DOMAIN hint' = Table
  BY DEF Tick
<1> QED
  BY <1>1, <1>2 DEF LoginInv

LEMMA LoginInvAlways == ServerSpec => []LoginInv
<1>1. ServerInit => LoginInv
  BY FreshKeeps DEF ServerInit, LoginInit, LoginInv
<1>2. LoginInv /\ [ServerNext]_serverVars => LoginInv'
  <2> SUFFICES ASSUME LoginInv, [ServerNext]_serverVars PROVE LoginInv'
    OBVIOUS
  <2>1. CASE LoginNext
    <3>1. CASE AcquireSlot \/ GiveUp \/ Verified \/ Abandon \/ DetachedEnds
      <4>1. UNCHANGED <<table, ideal, hint>>
        BY <3>1 DEF AcquireSlot, GiveUp, Verified, Abandon, DetachedEnds
      <4> QED
        BY <4>1 DEF LoginInv, Bucket, Waits, TokensAt
    <3> QED
      BY <2>1, <3>1, ArriveKeeps, TickKeeps DEF LoginNext
  <2>2. CASE LoginReset
    <3>1. table' = Fresh.table /\ ideal' = Fresh.ideal /\ hint' = Fresh.hint
      BY <2>2 DEF LoginReset
    <3>2. \A k \in Table : /\ Bucket(k, table'[k], ideal'[k])
                           /\ Waits(k, table'[k], hint'[k])
      BY <3>1, FreshKeeps
    <3>3. DOMAIN table' = Table /\ DOMAIN ideal' = Table /\ DOMAIN hint' = Table
      BY <3>1, FreshKeeps
    <3> QED
      BY <3>2, <3>3 DEF LoginInv
  <2>3. CASE UNCHANGED loginVars
    BY <2>3 DEF loginVars, LoginInv, Bucket, Waits, TokensAt
  <2> QED
    BY <2>1, <2>2, <2>3 DEF ServerNext, ProcessStep, LoginStep, AccountStep, serverVars
<1> QED
  BY <1>1, <1>2, PTL DEF ServerSpec

\* What a table of bounded size forgets is a bucket that is full
\* (make_room, prune_expired), whatever its constants and its keys are.
THEOREM TableSafe == ServerSpec => []TableFaithful
<1>1. LoginInv => TableFaithful
  BY DEF LoginInv, Bucket, TableFaithful
<1> QED
  BY <1>1, LoginInvAlways, PTL

\* Whoever waits as long as its refusal says is admitted (delay_until_tokens,
\* make_room), whatever the constants of the tables are.
THEOREM RetrySafe == ServerSpec => []RetryHonest
<1>1. LoginInv => RetryHonest
  BY WaitEnds DEF LoginInv, RetryHonest
<1> QED
  BY <1>1, LoginInvAlways, PTL

\* A window of time: charged says how much refill the attempts cost that a table has
\* let through since it was opened, elapsed how long that is.  It is opened at any
\* moment, and closed when the process ends.
VARIABLES charged, elapsed

windowVars == <<serverVars, charged, elapsed>>

NoCharge == [k \in Table |-> [x \in Key[k] |-> 0]]

Observe ==
    /\ \/ LoginStep
       \/ AccountStep
       \/ ProcessStep /\ ~(Serving /\ ~Serving')
    /\ charged' = [k \in Table |-> [x \in Key[k] |->
                     charged[k][x] + IF ideal'[k][x] < ideal[k][x] THEN Refill[k] ELSE 0]]
    /\ elapsed' = IF Serving /\ Tick THEN elapsed + 1 ELSE elapsed

OpenWindow ==
    /\ [ServerNext]_serverVars
    /\ charged' = NoCharge
    /\ elapsed' = 0

WindowSpec ==
    /\ ServerInit /\ charged = NoCharge /\ elapsed = 0
    /\ [][Observe \/ OpenWindow]_windowVars

WindowInv ==
    /\ elapsed \in Nat
    /\ DOMAIN charged = Table
    /\ \A k \in Table : charged[k] \in [Key[k] -> Nat]
    /\ \A k \in Table : \A x \in Key[k] : charged[k][x] + ideal[k][x] <= Full(k) + elapsed

\* A bucket is charged for an attempt, or filled by the time that passes.
LEMMA IdealMoves ==
    ASSUME LoginInv, LoginStep, NEW k \in Table, NEW x \in Key[k]
    PROVE  \/ ideal'[k][x] = ideal[k][x]
           \/ ideal'[k][x] = ideal[k][x] - Refill[k]
           \/ /\ Tick
              /\ ideal[k][x] <= ideal'[k][x]
              /\ ideal'[k][x] <= ideal[k][x] + 1
<1>1. ideal[k] \in [Key[k] -> 0 .. Full(k)] /\ DOMAIN ideal = Table
  BY DEF LoginInv, Bucket
<1>2. ASSUME NEW source \in Key["source"], NEW account \in Key["account"],
             Arrive(source, account)
      PROVE  \/ ideal'[k][x] = ideal[k][x]
             \/ ideal'[k][x] = ideal[k][x] - Refill[k]
  <2>1. \A key, answer : \/ Spent(k, key, answer) = ideal[k]
                         \/ Spent(k, key, answer) = [ideal[k] EXCEPT ![key] = @ - Refill[k]]
    BY DEF Spent
  <2>2. \/ ideal' = ideal
        \/ \E key, answer : ideal'[k] = Spent(k, key, answer)
    BY <1>2 DEF Arrive, Table
  <2> QED
    BY <1>1, <2>1, <2>2
<1>3. CASE Tick
  <2>1. ideal'[k][x] = Min({Full(k), ideal[k][x] + 1})
    BY <1>3 DEF Tick
  <2>2. /\ Full(k) \in Int /\ ideal[k][x] \in Int /\ ideal[k][x] + 1 \in Int
        /\ ideal[k][x] <= Full(k)
    BY <1>1, FullFacts
  <2> QED
    BY <1>3, <2>1, <2>2, MinOfTwo
<1>4. CASE AcquireSlot \/ GiveUp \/ Verified \/ Abandon \/ DetachedEnds
  BY <1>4 DEF AcquireSlot, GiveUp, Verified, Abandon, DetachedEnds
<1> QED
  BY <1>2, <1>3, <1>4 DEF LoginStep, LoginNext

LEMMA WindowStep ==
    ASSUME LoginInv, LoginInv', WindowInv, [Observe \/ OpenWindow]_windowVars
    PROVE  WindowInv'
<1>1. \A k \in Table : /\ Full(k) \in Nat /\ Refill[k] \in Nat
                       /\ ideal[k] \in [Key[k] -> 0 .. Full(k)]
                       /\ ideal'[k] \in [Key[k] -> 0 .. Full(k)]
  BY FullFacts DEF LoginInv, Bucket
<1>2. CASE UNCHANGED windowVars
  BY <1>2 DEF windowVars, serverVars, loginVars, WindowInv
<1>3. CASE OpenWindow
  BY <1>1, <1>3 DEF OpenWindow, NoCharge, WindowInv
<1>4. CASE Observe
  <2>1. /\ elapsed' = IF Serving /\ Tick THEN elapsed + 1 ELSE elapsed
        /\ charged' = [k \in Table |-> [x \in Key[k] |->
             charged[k][x] + IF ideal'[k][x] < ideal[k][x] THEN Refill[k] ELSE 0]]
    BY <1>4 DEF Observe
  <2>2. elapsed \in Nat /\ elapsed' \in Nat /\ elapsed <= elapsed'
    BY <2>1 DEF WindowInv
  <2>3. DOMAIN charged' = Table /\ \A k \in Table : charged'[k] \in [Key[k] -> Nat]
    BY <1>1, <2>1 DEF WindowInv
  <2>4. ASSUME NEW k \in Table, NEW x \in Key[k]
        PROVE  charged'[k][x] + ideal'[k][x] <= Full(k) + elapsed'
    <3>1. /\ ideal[k][x] \in Int /\ ideal'[k][x] \in Int /\ Full(k) \in Int
          /\ Refill[k] \in Nat /\ charged[k][x] \in Nat
          /\ charged[k][x] + ideal[k][x] <= Full(k) + elapsed
          /\ charged'[k][x] = charged[k][x]
                                + IF ideal'[k][x] < ideal[k][x] THEN Refill[k] ELSE 0
      BY <1>1, <2>1 DEF WindowInv
    <3>2. \/ ideal'[k][x] = ideal[k][x]
          \/ ideal'[k][x] = ideal[k][x] - Refill[k]
          \/ /\ elapsed' = elapsed + 1
             /\ ideal[k][x] <= ideal'[k][x]
             /\ ideal'[k][x] <= ideal[k][x] + 1
      <4>1. CASE LoginStep
        <5>1. Tick => elapsed' = elapsed + 1
          BY <2>1, <4>1 DEF LoginStep
        <5> QED
          BY <4>1, <5>1, IdealMoves
      <4>2. CASE \/ AccountStep
                 \/ ProcessStep /\ ~(Serving /\ ~Serving')
        BY <4>2 DEF AccountStep, ProcessStep, loginVars
      <4> QED
        BY <1>4, <4>1, <4>2 DEF Observe
    <3>3. charged'[k][x] \in Int
      BY <2>3
    <3>4. CASE ideal'[k][x] < ideal[k][x]
      <4>1. /\ ideal'[k][x] = ideal[k][x] - Refill[k]
            /\ charged'[k][x] = charged[k][x] + Refill[k]
        BY <3>1, <3>2, <3>4
      <4>2. charged'[k][x] + ideal'[k][x] = charged[k][x] + ideal[k][x]
        BY <3>1, <4>1
      <4> QED
        BY <2>2, <3>1, <3>3, <4>2
    <3>5. CASE ~(ideal'[k][x] < ideal[k][x])
      <4>1. charged'[k][x] = charged[k][x]
        BY <3>1, <3>5
      <4>2. \/ ideal'[k][x] = ideal[k][x]
            \/ elapsed' = elapsed + 1 /\ ideal'[k][x] <= ideal[k][x] + 1
        BY <3>1, <3>2, <3>5, FullFacts
      <4> QED
        BY <2>2, <3>1, <3>3, <4>1, <4>2
    <3> QED
      BY <3>4, <3>5
  <2> QED
    BY <2>2, <2>3, <2>4 DEF WindowInv
<1> QED
  BY <1>2, <1>3, <1>4

\* In no window of time do the tables let more attempts of a source, or on an account,
\* through than a full bucket and the refill of that time pay for, whatever else is tried,
\* forgotten to make room, expired or abandoned meanwhile (check_at, token bucket).
THEOREM AttemptsBounded ==
    WindowSpec => [](\A k \in Table : \A x \in Key[k] : charged[k][x] <= Full(k) + elapsed)
<1>1. WindowSpec => ServerSpec
  <2>1. [Observe \/ OpenWindow]_windowVars => [ServerNext]_serverVars
    BY DEF Observe, OpenWindow, ServerNext, windowVars
  <2> QED
    BY <2>1, PTL DEF WindowSpec, ServerSpec
<1>2. LoginInv /\ LoginInv' /\ WindowInv /\ [Observe \/ OpenWindow]_windowVars => WindowInv'
  BY WindowStep
<1>3. LoginInv /\ charged = NoCharge /\ elapsed = 0 => WindowInv
  BY FullFacts DEF LoginInv, Bucket, WindowInv, NoCharge
<1>4. LoginInv /\ WindowInv =>
        \A k \in Table : \A x \in Key[k] : charged[k][x] <= Full(k) + elapsed
  <2> SUFFICES ASSUME LoginInv, WindowInv, NEW k \in Table, NEW x \in Key[k]
               PROVE  charged[k][x] <= Full(k) + elapsed
    OBVIOUS
  <2>1. /\ charged[k][x] \in Nat /\ ideal[k][x] \in 0 .. Full(k) /\ elapsed \in Nat
        /\ Full(k) \in Nat /\ charged[k][x] + ideal[k][x] <= Full(k) + elapsed
    BY FullFacts DEF LoginInv, Bucket, WindowInv
  <2> QED
    BY <2>1
<1> QED
  BY <1>1, <1>2, <1>3, <1>4, LoginInvAlways, PTL DEF WindowSpec

-----------------------------------------------------------------------------
(* Administrators (Accounts) *)

Request == [at : {"path", "probe", "write"}, id : Account, name : Name, path : Directory]

\* A request whose directory was compared with the rows as they still are.
Current(a) == request[a].at \in {"probe", "write"} /\ a \notin overtaken

AccountsInv ==
    /\ request \in [Administrator -> {NoRequest} \cup Request]
    /\ \A a \in Administrator :
          Current(a) => \A id \in Others(request[a].id) : ~Overlap(request[a].path, user[id].path)
    /\ OverlapNeedsRace

LEMMA CheckKeeps ==
    ASSUME AccountsInv, NEW a \in Administrator,
           \/ \E id \in Account, name \in Name, path \in Directory : CheckName(a, id, name, path)
           \/ CheckPath(a)
           \/ ProbeDirectory(a)
    PROVE  AccountsInv'
<1>1. UNCHANGED <<user, raced>>
  BY DEF CheckName, CheckPath, ProbeDirectory, Advance
<1>2. /\ request' \in [Administrator -> {NoRequest} \cup Request]
      /\ \A b \in Administrator \ {a} :
            request'[b] = request[b] /\ (b \in overtaken' <=> b \in overtaken)
  BY DEF CheckName, CheckPath, ProbeDirectory, Advance, AccountsInv, Request, NoRequest
<1>3. \A id \in Others(request'[a].id) :
          Current(a)' => ~Overlap(request'[a].path, user[id].path)
  <2>1. CASE \E id \in Account, name \in Name, path \in Directory : CheckName(a, id, name, path)
    BY <2>1 DEF CheckName, AccountsInv, Current
  <2>2. CASE CheckPath(a)
    BY <2>2 DEF CheckPath, Advance, AccountsInv, Current, Request, NoRequest
  <2>3. CASE ProbeDirectory(a)
    BY <2>3 DEF ProbeDirectory, Advance, AccountsInv, Current, Request, NoRequest
  <2> QED
    BY <2>1, <2>2, <2>3
<1>4. \A b \in Administrator : Current(b)' =>
          \A id \in Others(request'[b].id) : ~Overlap(request'[b].path, user[id].path)
  BY <1>2, <1>3 DEF AccountsInv, Current
<1> QED
  BY <1>1, <1>2, <1>4 DEF AccountsInv, OverlapNeedsRace, Others

LEMMA WriteKeeps ==
    ASSUME AccountsInv, NEW a \in Administrator, WriteUser(a)
    PROVE  AccountsInv'
<1> DEFINE r == request[a]
<1>1. /\ r \in Request /\ r.at = "write"
      /\ request' = [request EXCEPT ![a] = NoRequest]
      /\ request' \in [Administrator -> {NoRequest} \cup Request]
  BY DEF WriteUser, AccountsInv, Request, NoRequest
<1>2. CASE Unique(r)
  <2>1. /\ user' = [id \in DOMAIN user \cup {r.id} |->
                      IF id = r.id THEN [name |-> r.name, path |-> r.path] ELSE user[id]]
        /\ raced' = IF a \in overtaken THEN raced \cup {r.id} ELSE raced \ {r.id}
        /\ overtaken' = Administrator
    BY <1>2 DEF WriteUser
  <2>2. ASSUME NEW i \in DOMAIN user', NEW j \in DOMAIN user', i # j,
               IsPrefix(user'[i].path, user'[j].path)
        PROVE  i \in raced' \/ j \in raced'
    <3>1. CASE i # r.id /\ j # r.id
      <4>1. i \in raced \/ j \in raced
        BY <2>1, <2>2, <3>1 DEF AccountsInv, OverlapNeedsRace
      <4> QED
        BY <2>1, <3>1, <4>1
    <3>2. CASE a \in overtaken /\ (i = r.id \/ j = r.id)
      BY <2>1, <3>2
    <3>3. CASE a \notin overtaken /\ (i = r.id \/ j = r.id)
      <4>1. \A id \in DOMAIN user \ {r.id} : /\ ~IsPrefix(r.path, user[id].path)
                                            /\ ~IsPrefix(user[id].path, r.path)
        BY <1>1, <3>3 DEF AccountsInv, Current, Others, Overlap
      <4> QED
        BY <2>1, <2>2, <3>3, <4>1
    <3> QED
      BY <3>1, <3>2, <3>3
  <2>3. \A b \in Administrator : ~Current(b)'
    BY <2>1 DEF Current
  <2> QED
    BY <1>1, <2>2, <2>3 DEF AccountsInv, OverlapNeedsRace
<1>3. CASE ~Unique(r)
  <2>1. UNCHANGED <<user, raced, overtaken>>
    BY <1>3 DEF WriteUser
  <2>2. \A b \in Administrator : Current(b)' => Current(b) /\ request'[b] = request[b]
    BY <1>1, <2>1 DEF Current, NoRequest, AccountsInv
  <2> QED
    BY <1>1, <2>1, <2>2 DEF AccountsInv, OverlapNeedsRace, Others
<1> QED
  BY <1>2, <1>3

\* Directories of users overlap only where requests overtook each other
\* (ensure_unique_path), for any number of users and administrators.
THEOREM OverlapSafe == ServerSpec => []OverlapNeedsRace
<1>1. ServerInit => AccountsInv
  BY DEF ServerInit, AccountsInit, AccountsInv, Current, NoRequest, OverlapNeedsRace
<1>2. AccountsInv /\ [ServerNext]_serverVars => AccountsInv'
  <2> SUFFICES ASSUME AccountsInv, [ServerNext]_serverVars PROVE AccountsInv'
    OBVIOUS
  <2>1. CASE AccountsNext
    BY <2>1, CheckKeeps, WriteKeeps DEF AccountsNext
  <2>2. CASE AccountsStop
    BY <2>2 DEF AccountsStop, AccountsInv, Current, NoRequest, OverlapNeedsRace, Others
  <2>3. CASE UNCHANGED accountVars
    BY <2>3 DEF accountVars, AccountsInv, Current, OverlapNeedsRace, Others
  <2> QED
    BY <2>1, <2>2, <2>3 DEF ServerNext, ProcessStep, LoginStep, AccountStep, serverVars
<1>3. AccountsInv => OverlapNeedsRace
  BY DEF AccountsInv
<1> QED
  BY <1>1, <1>2, <1>3, PTL DEF ServerSpec

=============================================================================
