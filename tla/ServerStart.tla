---------------------------- MODULE ServerStart -----------------------------
(***************************************************************************)
(* How a command of the server gets hold of an instance (main.rs,          *)
(* runtime_lock.rs, database.rs): the runtime locks, the initialization of *)
(* a database that is not there, the validation of one that is, and the    *)
(* opening of the pool.                                                    *)
(*                                                                         *)
(* A SQLite generation is its main file with a write-ahead log or a        *)
(* rollback journal beside it.  The model keeps of each file whose content *)
(* SQLite would read from it, and a stamp in place of its bytes: equal     *)
(* stamps are equal bytes.  The validation never opens the generation: it  *)
(* copies file by file, compares the files with the copies again, and      *)
(* opens the copies.  Programs that take no lock may write meanwhile.      *)
(***************************************************************************)
EXTENDS Naturals

CONSTANTS
    Process,     \* commands that are started, once each
    Kind,        \* serve, doctor or reconcile
    LocksOf,     \* the two lock files of a process, numbered by their paths
    HasPassword, \* whether BOOTSTRAP_ADMIN_PASSWORD is set
    MaxTries,    \* attempts at a snapshot
    MaxWrites,   \* bound on the writes of other programs
    MaxKills     \* bound on kills and I/O errors

ASSUME ProcessAssumption ==
    /\ Kind \in [Process -> {"serve", "doctor", "reconcile"}]
    /\ LocksOf \in [Process -> SUBSET Nat]
    /\ HasPassword \in [Process -> BOOLEAN]

\* All are about one database, whose lock is one of the two of each.
ASSUME DatabaseAssumption ==
    \A p, q \in Process : LocksOf[p] \cap LocksOf[q] # {}

ASSUME StartBoundAssumption ==
    MaxTries \in Nat \ {0} /\ MaxWrites \in Nat /\ MaxKills \in Nat

VARIABLES
    file,     \* the files of the generation
    admin,    \* an administrator exists
    pc,       \* where a process stands
    held,     \* the locks it holds
    copy,     \* the files it has copied for validation
    checked,  \* the copies it has compared again
    attempt,  \* attempts at the present snapshot
    rounds,   \* snapshots accepted
    made,     \* it has created the main file itself
    pool,     \* it has opened the database itself
    outcome,  \* how it ended
    writes, kills,
    seen,     \* history: contents of the database since the snapshot began
    halfMade, \* history: an initialization was killed
    origin    \* history: what the database was at first

processVars == <<pc, held, copy, checked, attempt, rounds, made, pool, outcome>>
startVars == <<file, admin, processVars, writes, kills, seen, halfMade, origin>>

File == {"main", "wal", "journal"}
Holds == {"none", "empty", "pages", "current", "foreign"}

\* The locks a process has yet to take, in the order of their paths.
Wanted(p) == LocksOf[p] \ held[p]

NextLock(p) == CHOOSE l \in Wanted(p) : \A m \in Wanted(p) : l <= m

\* What SQLite reads: a hot journal takes the main file back to its content,
\* a log overrides the main file.
Effective(g) ==
    IF "main" \notin DOMAIN g \/ g["main"].holds = "none" THEN "none"
    ELSE IF "journal" \in DOMAIN g /\ g["journal"].holds # "none" THEN g["journal"].holds
    ELSE IF "wal" \in DOMAIN g /\ g["wal"].holds # "none" THEN g["wal"].holds
    ELSE g["main"].holds

Absent(f) == file[f].holds = "none"

Written(f, h) == [holds |-> h, stamp |-> file[f].stamp + 1]

Unlinked(f) == [holds |-> "none", stamp |-> file[f].stamp]

\* Every step records what the database has been for each snapshot under way.
Watch(g) ==
    seen' = [p \in Process |-> IF pc[p] \in {"copy", "compare", "judge"}
                               THEN seen[p] \cup {Effective(g)} ELSE {}]

Goto(p, label) == pc' = [pc EXCEPT ![p] = label]

SameBut(changed) ==
    /\ "file" \notin changed => UNCHANGED <<file, seen>>
    /\ "admin" \notin changed => UNCHANGED admin
    /\ "copy" \notin changed => UNCHANGED <<copy, checked, attempt, rounds>>
    /\ "held" \notin changed => UNCHANGED held
    /\ "made" \notin changed => UNCHANGED made
    /\ "pool" \notin changed => UNCHANGED pool
    /\ "outcome" \notin changed => UNCHANGED outcome
    /\ "kills" \notin changed => UNCHANGED <<kills, halfMade>>
    /\ UNCHANGED <<writes, origin>>

\* The process exits and its locks are released with it.
Fail(p, why) ==
    /\ Goto(p, "ended")
    /\ held' = [held EXCEPT ![p] = {}]
    /\ outcome' = [outcome EXCEPT ![p] = why]

-----------------------------------------------------------------------------
(* RuntimeLock *)

Launch(p) ==
    /\ pc[p] = "off"
    /\ Goto(p, "lock")
    /\ SameBut({})

\* flock without waiting.
TakeLock(p) ==
    /\ pc[p] = "lock"
    /\ Wanted(p) # {}
    /\ IF \E q \in Process \ {p} : NextLock(p) \in held[q]
       THEN Fail(p, "running")
       ELSE /\ held' = [held EXCEPT ![p] = @ \cup {NextLock(p)}]
            /\ UNCHANGED <<pc, outcome>>
    /\ SameBut({"held", "outcome"})

\* The doctor validates; the others prepare first.
Locked(p) ==
    /\ pc[p] = "lock"
    /\ Wanted(p) = {}
    /\ Goto(p, IF Kind[p] = "doctor" THEN "validate" ELSE "probe")
    /\ SameBut({})

-----------------------------------------------------------------------------
(* prepare_current_database and initialize_current_database *)

Sidecar == ~Absent("wal") \/ ~Absent("journal")

\* Mutant of Probe: no start while a sidecar is there.
ProbeStrictly(p) ==
    /\ pc[p] = "probe"
    /\ IF Sidecar THEN Fail(p, "refused")
       ELSE /\ Goto(p, IF Absent("main") THEN "reserve" ELSE "validate")
            /\ UNCHANGED <<held, outcome>>
    /\ SameBut({"held", "outcome"})

\* A sidecar without its main file is not initialized over.
Probe(p) ==
    /\ pc[p] = "probe"
    /\ IF Absent("main") /\ Sidecar THEN Fail(p, "refused")
       ELSE /\ Goto(p, IF Absent("main") THEN "reserve" ELSE "validate")
            /\ UNCHANGED <<held, outcome>>
    /\ SameBut({"held", "outcome"})

\* Mutant of Reserve: a failure to reserve is cleaned up like any other.
ReserveOrClean(p) ==
    /\ pc[p] = "reserve"
    /\ IF Absent("main")
       THEN /\ file' = [file EXCEPT !["main"] = Written("main", "empty")]
            /\ Watch(file')
            /\ made' = [made EXCEPT ![p] = TRUE]
            /\ Goto(p, "schema")
            /\ UNCHANGED <<held, outcome>>
       ELSE /\ Goto(p, "clean_main")
            /\ UNCHANGED <<file, seen, made, held, outcome>>
    /\ SameBut({"file", "made", "held", "outcome"})

\* create_new: another program's file is left alone.
Reserve(p) ==
    /\ pc[p] = "reserve"
    /\ IF Absent("main")
       THEN /\ file' = [file EXCEPT !["main"] = Written("main", "empty")]
            /\ Watch(file')
            /\ made' = [made EXCEPT ![p] = TRUE]
            /\ Goto(p, "schema")
            /\ UNCHANGED <<held, outcome>>
       ELSE /\ Fail(p, "refused")
            /\ UNCHANGED <<file, seen, made>>
    /\ SameBut({"file", "made", "held", "outcome"})

\* The transaction is being written; tables of another program make it fail.
WriteSchema(p) ==
    /\ pc[p] = "schema"
    /\ IF Effective(file) = "empty"
       THEN /\ file' = [file EXCEPT !["main"] = Written("main", "pages"),
                                    !["journal"] = Written("journal", "empty")]
            /\ Watch(file')
            /\ Goto(p, "commit")
       ELSE /\ Goto(p, "clean_main")
            /\ UNCHANGED <<file, seen>>
    /\ SameBut({"file"})

CommitSchema(p) ==
    /\ pc[p] = "commit"
    /\ file' = [file EXCEPT !["main"] = Written("main", "current"),
                            !["journal"] = Unlinked("journal")]
    /\ Watch(file')
    /\ Goto(p, "sync")
    /\ SameBut({"file"})

SyncSchema(p) ==
    /\ pc[p] = "sync"
    /\ Goto(p, "open")
    /\ SameBut({})

\* A statement, the commit or a sync fails: all files are removed.
InitError(p) ==
    /\ pc[p] \in {"schema", "commit", "sync"}
    /\ kills < MaxKills
    /\ kills' = kills + 1
    /\ Goto(p, "clean_main")
    /\ UNCHANGED halfMade
    /\ SameBut({"kills"})

\* The files are removed one by one, the main file first.
Clean(p) ==
    /\ pc[p] \in {"clean_main", "clean_wal", "clean_journal"}
    /\ LET f == CASE pc[p] = "clean_main" -> "main"
                  [] pc[p] = "clean_wal" -> "wal"
                  [] OTHER -> "journal"
       IN  file' = [file EXCEPT ![f] = Unlinked(f)]
    /\ Watch(file')
    /\ IF pc[p] = "clean_journal"
       THEN Fail(p, "error")
       ELSE /\ Goto(p, IF pc[p] = "clean_main" THEN "clean_wal" ELSE "clean_journal")
            /\ UNCHANGED <<held, outcome>>
    /\ SameBut({"file", "held", "outcome"})

-----------------------------------------------------------------------------
(* validate_current_database *)

\* A failure once the pool is open closes the pool first.
Stop(p, why) ==
    IF pool[p]
    THEN /\ Goto(p, "close")
         /\ outcome' = [outcome EXCEPT ![p] = why]
         /\ UNCHANGED held
    ELSE Fail(p, why)

Begin(p) ==
    /\ copy' = [copy EXCEPT ![p] = <<>>]
    /\ checked' = [checked EXCEPT ![p] = {}]

\* require_secure_database_file; the snapshot begins.
Validate(p) ==
    /\ pc[p] = "validate"
    /\ IF Absent("main")
       THEN Stop(p, "refused") /\ UNCHANGED <<copy, checked, attempt>>
       ELSE /\ Goto(p, "copy")
            /\ Begin(p)
            /\ attempt' = [attempt EXCEPT ![p] = 1]
            /\ UNCHANGED <<held, outcome>>
    /\ seen' = [seen EXCEPT ![p] = {Effective(file)}]
    /\ UNCHANGED <<file, rounds>>
    /\ SameBut({"file", "copy", "held", "outcome"})

\* The main file, the log and the journal, in this order.
NextFile(done) ==
    IF "main" \notin done THEN "main" ELSE IF "wal" \notin done THEN "wal" ELSE "journal"

\* copy_generation_file: hashes before and after make it one step, and a change
\* in between is one that the comparison meets.
Copy(p) ==
    /\ pc[p] = "copy"
    /\ LET f == NextFile(DOMAIN copy[p])
           taken == [g \in DOMAIN copy[p] \cup {f} |-> IF g = f THEN file[f] ELSE copy[p][g]]
       IN  /\ copy' = [copy EXCEPT ![p] = taken]
           /\ Goto(p, IF DOMAIN taken = File THEN "compare" ELSE "copy")
    /\ UNCHANGED <<checked, attempt, rounds>>
    /\ SameBut({"copy"})

\* Absent files have no bytes to compare.
SameFile(a, b) == a.holds = b.holds /\ (a.holds = "none" \/ a.stamp = b.stamp)

\* Mutant of Unchanged: the main file is not compared again.
UnchangedSidecars(p, f) == f = "main" \/ SameFile(copy[p][f], file[f])

Unchanged(p, f) == SameFile(copy[p][f], file[f])

\* A file that changed meanwhile: the snapshot is taken again, a few times.
Compare(p) ==
    /\ pc[p] = "compare"
    /\ LET f == NextFile(checked[p])
       IN  IF Unchanged(p, f)
           THEN /\ checked' = [checked EXCEPT ![p] = @ \cup {f}]
                /\ Goto(p, IF checked'[p] = File THEN "judge" ELSE "compare")
                /\ UNCHANGED <<copy, attempt, seen, held, outcome>>
           ELSE IF attempt[p] < MaxTries
           THEN /\ Begin(p)
                /\ attempt' = [attempt EXCEPT ![p] = @ + 1]
                /\ seen' = [seen EXCEPT ![p] = {Effective(file)}]
                /\ Goto(p, "copy")
                /\ UNCHANGED <<held, outcome>>
           ELSE Stop(p, "changed") /\ UNCHANGED <<copy, checked, attempt, seen>>
    /\ UNCHANGED <<file, rounds>>
    /\ SameBut({"file", "copy", "held", "outcome"})

\* The copies are opened: the schema must be the current one, and the doctor's
\* second snapshot is only checked for its integrity.
Judge(p) ==
    /\ pc[p] = "judge"
    /\ IF Effective(copy[p]) = "current" \/ (rounds[p] > 0 /\ Kind[p] = "doctor")
       THEN /\ rounds' = [rounds EXCEPT ![p] = @ + 1]
            /\ Goto(p, CASE pool[p] -> "build"
                         [] Kind[p] # "doctor" -> "open"
                         [] rounds[p] = 0 -> "validate"
                         [] OTHER -> "probe_write")
            /\ UNCHANGED <<held, outcome>>
       ELSE Stop(p, "refused") /\ UNCHANGED rounds
    /\ Begin(p)
    /\ seen' = [seen EXCEPT ![p] = {}]
    /\ UNCHANGED <<file, attempt>>
    /\ SameBut({"file", "copy", "held", "outcome"})

-----------------------------------------------------------------------------
(* connect, build_state and the work *)

\* SQLite recovers the generation and turns the journal mode to WAL, which
\* rewrites the header of a database that was not in it.
Opened ==
    [file EXCEPT
        !["main"] = IF Absent("wal") THEN Written("main", Effective(file)) ELSE @,
        !["wal"] = IF Absent("wal") THEN Written("wal", Effective(file)) ELSE @,
        !["journal"] = Unlinked("journal")]

\* The last connection checkpoints the log and removes it.
Closed ==
    IF Absent("wal") THEN file
    ELSE [file EXCEPT !["main"] = Written("main", file["wal"].holds), !["wal"] = Unlinked("wal")]

\* create_if_missing(false)
Open(p) ==
    /\ pc[p] = "open"
    /\ IF Absent("main")
       THEN Fail(p, "error") /\ UNCHANGED <<file, seen, pool>>
       ELSE /\ file' = Opened
            /\ Watch(file')
            /\ pool' = [pool EXCEPT ![p] = TRUE]
            /\ Goto(p, "validate")
            /\ UNCHANGED <<held, outcome>>
    /\ SameBut({"file", "pool", "held", "outcome"})

\* pool.close(), or the end of a process that closes its connections.
Close(p) ==
    /\ pc[p] = "close"
    /\ file' = IF Absent("main") THEN file ELSE Closed
    /\ Watch(file')
    /\ Goto(p, "ended")
    /\ held' = [held EXCEPT ![p] = {}]
    /\ pool' = [pool EXCEPT ![p] = FALSE]
    /\ SameBut({"file", "held", "pool", "outcome"})
    /\ UNCHANGED outcome

\* Mutant of Build: the locks are held only until the state is built.
BuildUnlocked(p) ==
    /\ pc[p] = "build"
    /\ IF admin \/ HasPassword[p]
       THEN admin' = TRUE /\ Goto(p, "work") /\ UNCHANGED outcome
       ELSE /\ Goto(p, "close")
            /\ outcome' = [outcome EXCEPT ![p] = "error"]
            /\ UNCHANGED admin
    /\ held' = [held EXCEPT ![p] = {}]
    /\ SameBut({"admin", "held", "outcome"})

\* The directories are there or made; the first administrator needs a password.
Build(p) ==
    /\ pc[p] = "build"
    /\ IF admin \/ HasPassword[p]
       THEN admin' = TRUE /\ Goto(p, "work") /\ UNCHANGED outcome
       ELSE /\ Goto(p, "close")
            /\ outcome' = [outcome EXCEPT ![p] = "error"]
            /\ UNCHANGED admin
    /\ SameBut({"admin", "outcome"})

\* database_write_rollback_probe opens the database itself, as the only one.
ProbeWrite(p) ==
    /\ pc[p] = "probe_write"
    /\ IF Absent("main")
       THEN Fail(p, "error") /\ UNCHANGED <<file, seen>>
       ELSE /\ file' = Closed
            /\ Watch(file')
            /\ Goto(p, "work")
            /\ UNCHANGED <<held, outcome>>
    /\ SameBut({"file", "held", "outcome"})

\* The reconciliation ends, the server is told to stop, the doctor reports.
Exit(p) ==
    /\ pc[p] = "work"
    /\ outcome' = [outcome EXCEPT ![p] = "done"]
    /\ IF pool[p]
       THEN Goto(p, "close") /\ UNCHANGED held
       ELSE Goto(p, "ended") /\ held' = [held EXCEPT ![p] = {}]
    /\ SameBut({"held", "outcome"})

-----------------------------------------------------------------------------
(* Kills and programs that take no lock *)

\* The locks go with the process, the files stay as they are.
Kill(p) ==
    /\ pc[p] \notin {"off", "ended"}
    /\ kills < MaxKills
    /\ kills' = kills + 1
    /\ halfMade' = (halfMade \/ pc[p] \in {"schema", "commit", "clean_main", "clean_wal",
                                           "clean_journal"})
    /\ pool' = [pool EXCEPT ![p] = FALSE]
    /\ Fail(p, "killed")
    /\ SameBut({"held", "outcome", "kills", "pool"})

\* A file is put in place, a transaction is committed, the log is checkpointed.
Outsider ==
    /\ writes < MaxWrites
    /\ writes' = writes + 1
    /\ \/ /\ Absent("main")
          /\ \E h \in {"current", "foreign"} :
                file' = [file EXCEPT !["main"] = Written("main", h)]
       \/ /\ Effective(file) \in {"empty", "current", "foreign"}
          /\ Absent("journal")
          /\ \E h \in {"current", "foreign"} : file' = [Opened EXCEPT !["wal"] = Written("wal", h)]
       \/ /\ ~Absent("main")
          /\ ~Absent("wal")
          /\ file' = IF \E p \in Process : pool[p]
                     THEN [file EXCEPT !["main"] = Written("main", file["wal"].holds)]
                     ELSE Closed
    /\ Watch(file')
    /\ UNCHANGED <<admin, processVars, kills, halfMade, origin>>

-----------------------------------------------------------------------------
Generation(main, wal, journal) ==
    [f \in File |-> [holds |-> CASE f = "main" -> main [] f = "wal" -> wal [] OTHER -> journal,
                     stamp |-> 0]]

\* Not there, ours with and without a log, another program's, one whose log
\* makes it another program's, a log without its main file, a new database
\* whose transaction was cut off, and one that was only reserved.
Generations == {
    Generation("none", "none", "none"),
    Generation("current", "none", "none"),
    Generation("pages", "current", "none"),
    Generation("foreign", "none", "none"),
    Generation("current", "foreign", "none"),
    Generation("none", "foreign", "none"),
    Generation("pages", "none", "empty"),
    Generation("empty", "none", "none")}

StartInit ==
    /\ file \in Generations
    /\ admin \in (IF Effective(file) = "current" THEN BOOLEAN ELSE {FALSE})
    /\ pc = [p \in Process |-> "off"]
    /\ held = [p \in Process |-> {}]
    /\ copy = [p \in Process |-> <<>>]
    /\ checked = [p \in Process |-> {}]
    /\ attempt = [p \in Process |-> 0]
    /\ rounds = [p \in Process |-> 0]
    /\ made = [p \in Process |-> FALSE]
    /\ pool = [p \in Process |-> FALSE]
    /\ outcome = [p \in Process |-> "none"]
    /\ writes = 0
    /\ kills = 0
    /\ seen = [p \in Process |-> {}]
    /\ halfMade = FALSE
    /\ origin = IF ~Absent("main") THEN Effective(file) ELSE IF Absent("wal") THEN "none" ELSE "log"

StartStep(p) ==
    \/ Launch(p)
    \/ TakeLock(p)
    \/ Locked(p)
    \/ Probe(p)
    \/ Reserve(p)
    \/ WriteSchema(p)
    \/ CommitSchema(p)
    \/ SyncSchema(p)
    \/ InitError(p)
    \/ Clean(p)
    \/ Validate(p)
    \/ Copy(p)
    \/ Compare(p)
    \/ Judge(p)
    \/ Open(p)
    \/ Close(p)
    \/ Build(p)
    \/ ProbeWrite(p)
    \/ Exit(p)
    \/ Kill(p)

StartNext == (\E p \in Process : StartStep(p)) \/ Outsider

StartSpec == StartInit /\ [][StartNext]_startVars

-----------------------------------------------------------------------------
(* Properties *)

\* The three files are copied one after the other while other programs may
\* commit and checkpoint: the generation that is judged is nevertheless one
\* that the database has been since the snapshot began
\* (snapshot_generation_once).
SnapshotReal == \A p \in Process : pc[p] = "judge" => Effective(copy[p]) \in seen[p]

\* While a command works, nobody but itself and the programs that take no lock
\* changes its database or its administrators (RuntimeLock::acquire, held
\* from before the database is looked at to the end of the process).
UndisturbedWork ==
    [][\A p \in Process :
          /\ pc[p] = "work"
          /\ pc'[p] = "work"
          /\ <<file, admin>>' # <<file, admin>>
          => writes' # writes]_startVars

\* A command never changes a database of another program that it has not itself
\* made or seen in the current schema: not when the file appears while it
\* starts, and not when its own start fails (database.rs, create_new and the
\* validation of copies).
ForeignUntouched ==
    [][\A p \in Process :
          /\ pc'[p] # pc[p]
          /\ file' # file
          /\ Effective(file) = "foreign"
          => made[p] \/ rounds[p] > 0]_startVars

\* As long as no other program writes and no initialization was killed, every
\* start finds the database current or makes it: kills of commands at work,
\* logs left behind and initializations that fail do not keep the next command
\* out (prepare_current_database, initialize_current_database).
StartsAgain ==
    writes = 0 /\ origin \in {"none", "current"} /\ ~halfMade
        => \A p \in Process : outcome[p] # "refused" \/ Kind[p] = "doctor"

=============================================================================
