----------------------------- MODULE PartStore ------------------------------
(***************************************************************************)
(* How one part of an upload is received (put_part in routes.rs and in     *)
(* storage.rs, over rooted_fs.rs): the admission of the request, the       *)
(* temporary file, its publication under the part's name by a hard link    *)
(* that never replaces, and the row that records the receipt.              *)
(*                                                                         *)
(* A directory entry is on disk only once its directory has been synced:   *)
(* until then a power loss may take it back.  The content of a file is     *)
(* synced before it is linked, so a linked part is whole.  Temporary files *)
(* have no state of their own: a request has one from `stream' until it    *)
(* removes it, and one that a killed process leaves behind is never read.  *)
(*                                                                         *)
(* Semaphores are counted references.  A semaphore is named by the request *)
(* that created it, and lives as long as a request holds it.               *)
(***************************************************************************)
EXTENDS Naturals, FiniteSets

CONSTANTS
    Request,     \* PUT requests a client makes, again and again
    Part,        \* parts of the manifests
    Upload,      \* upload sessions
    Account,     \* accounts
    NULL,        \* no semaphore
    PartOf,      \* the part a request carries
    UploadOf,    \* the upload a part belongs to
    AccountOf,   \* the account an upload belongs to
    Global,      \* upload permits of the process
    PerAccount,  \* upload permits of an account
    MaxFaults    \* bound on errors, time-outs, disconnections, kills, damage

ASSUME ManifestAssumption ==
    /\ PartOf \in [Request -> Part]
    /\ UploadOf \in [Part -> Upload]
    /\ AccountOf \in [Upload -> Account]
    /\ \A u \in Upload : \E p \in Part : UploadOf[p] = u

ASSUME PermitAssumption == Global \in Nat \ {0} /\ PerAccount \in Nat \ {0}

ASSUME FiniteAssumption ==
    IsFiniteSet(Request) /\ NULL \notin Request /\ MaxFaults \in Nat

VARIABLES
    ustate,     \* uploads.commit_state, "frozen" from commit_started on
    received,   \* the parts with upload_parts.received_at set
    dir,        \* the entry of an upload's directory
    file,       \* the file under a part's final name
    pc,         \* where put_part stands for a request
    semaphore,  \* the account semaphore a request holds a reference to
    table,      \* UploadAdmission.accounts
    faults,
    lost        \* history: uploads whose directory entry a power loss took back

rowVars   == <<ustate, received>>
diskVars  == <<dir, file>>
entryVars == <<pc, semaphore, table>>
boundVars == <<faults, lost>>
vars == <<rowVars, diskVars, entryVars, boundVars>>

UploadFor(r)  == UploadOf[PartOf[r]]
AccountFor(r) == AccountOf[UploadFor(r)]

\* Control points of put_part, each named after the step it takes next.
Control == {"idle", "global", "account", "directory", "sync_directory",
            "stream", "link", "sync_link", "compare", "clean", "refuse",
            "record"}

FileState == {"absent", "linked", "durable", "bad"}

TypeOK ==
    /\ ustate \in [Upload -> {"receiving", "frozen", "gone"}]
    /\ received \in [Part -> BOOLEAN]
    /\ dir \in [Upload -> {"absent", "volatile", "durable"}]
    /\ file \in [Part -> FileState]
    /\ pc \in [Request -> Control]
    /\ semaphore \in [Request -> Request \cup {NULL}]
    /\ table \in [Account -> Request \cup {NULL}]
    /\ faults \in 0..MaxFaults
    /\ lost \subseteq Upload

-----------------------------------------------------------------------------
(* UploadAdmission *)

HoldsGlobal(r)  == pc[r] \notin {"idle", "global"}
HoldsAccount(r) == pc[r] \notin {"idle", "global", "account"}

\* The requests that hold a permit of a semaphore.
Holders(s) == {r \in Request : semaphore[r] = s /\ HoldsAccount(r)}

\* Mutant of Live: a semaphore without permits in use is pruned.
LiveWhileUsed(s) == s # NULL /\ Holders(s) # {}

\* strong_count: every request that waits or holds a permit keeps it alive.
Live(s) == s # NULL /\ \E r \in Request : semaphore[r] = s

\* The account's semaphore, created where none is alive; the retain drops the
\* dead entries of every account.
Lookup(r) ==
    LET a == AccountFor(r)
        s == IF Live(table[a]) THEN table[a] ELSE r
    IN  /\ semaphore' = [semaphore EXCEPT ![r] = s]
        /\ table' = [b \in Account |-> IF b = a THEN s
                                       ELSE IF Live(table[b]) THEN table[b] ELSE NULL]

Goto(r, label) == pc' = [pc EXCEPT ![r] = label]

\* Mutant of Done: the response leaves the reference to the account's permit.
DoneKeepingAccount(r) ==
    /\ Goto(r, "account")
    /\ UNCHANGED <<semaphore, table>>

\* The response: both permits and the reference are dropped.
Done(r) ==
    /\ Goto(r, "idle")
    /\ semaphore' = [semaphore EXCEPT ![r] = NULL]
    /\ UNCHANGED table

\* The row is read; only a receiving upload goes on to the admission.  The
\* answers 404, 409 and 204 for other states change nothing.
Start(r) ==
    /\ pc[r] = "idle"
    /\ ustate[UploadFor(r)] = "receiving"
    /\ Goto(r, "global")
    /\ Lookup(r)
    /\ UNCHANGED <<rowVars, diskVars, boundVars>>

AcquireGlobal(r) ==
    /\ pc[r] = "global"
    /\ Cardinality({q \in Request : HoldsGlobal(q)}) < Global
    /\ Goto(r, "account")
    /\ UNCHANGED <<rowVars, diskVars, semaphore, table, boundVars>>

AcquireAccount(r) ==
    /\ pc[r] = "account"
    /\ Cardinality(Holders(semaphore[r])) < PerAccount
    /\ Goto(r, "directory")
    /\ UNCHANGED <<rowVars, diskVars, semaphore, table, boundVars>>

-----------------------------------------------------------------------------
(* LocalStorage::put_part *)

\* ensure_dir: a missing directory is made, and its parent then synced; one
\* that can be opened is taken as it is.
OpenDirectory(r) ==
    /\ pc[r] = "directory"
    /\ IF dir[UploadFor(r)] = "absent"
       THEN /\ dir' = [dir EXCEPT ![UploadFor(r)] = "volatile"]
            /\ Goto(r, "sync_directory")
       ELSE /\ Goto(r, "stream")
            /\ UNCHANGED dir
    /\ UNCHANGED <<rowVars, file, semaphore, table, boundVars>>

SyncDirectory(r) ==
    /\ pc[r] = "sync_directory"
    /\ dir' = [dir EXCEPT ![UploadFor(r)] = "durable"]
    /\ Goto(r, "stream")
    /\ UNCHANGED <<rowVars, file, semaphore, table, boundVars>>

\* The body arrives, has the declared size and hash, and is synced.
Stream(r) ==
    /\ pc[r] = "stream"
    /\ Goto(r, "link")
    /\ UNCHANGED <<rowVars, diskVars, semaphore, table, boundVars>>

\* Mutant of Link: the file of another request is replaced.
LinkReplacing(r) ==
    /\ pc[r] = "link"
    /\ file' = [file EXCEPT ![PartOf[r]] = "linked"]
    /\ Goto(r, "sync_link")
    /\ UNCHANGED <<rowVars, dir, semaphore, table, boundVars>>

\* link_no_replace up to the linkat.
Link(r) ==
    /\ pc[r] = "link"
    /\ IF file[PartOf[r]] = "absent"
       THEN /\ file' = [file EXCEPT ![PartOf[r]] = "linked"]
            /\ Goto(r, "sync_link")
       ELSE /\ Goto(r, "compare")
            /\ UNCHANGED file
    /\ UNCHANGED <<rowVars, dir, semaphore, table, boundVars>>

\* The fsync of an upload's directory, for the entries of all its parts.
Synced(u) ==
    [p \in Part |-> IF UploadOf[p] = u /\ file[p] = "linked" THEN "durable"
                    ELSE file[p]]

SyncLink(r) ==
    /\ pc[r] = "sync_link"
    /\ file' = Synced(UploadFor(r))
    /\ Goto(r, "clean")
    /\ UNCHANGED <<rowVars, dir, semaphore, table, boundVars>>

\* Another request has linked the part: its file must be the declared one.
Compare(r) ==
    /\ pc[r] = "compare"
    /\ Goto(r, IF file[PartOf[r]] = "bad" THEN "refuse" ELSE "clean")
    /\ UNCHANGED <<rowVars, diskVars, semaphore, table, boundVars>>

\* Mutant of Clean: the temporary file is unlinked without a sync.
CleanUnsynced(r) ==
    /\ pc[r] = "clean"
    /\ Goto(r, "record")
    /\ UNCHANGED <<rowVars, diskVars, semaphore, table, boundVars>>

\* cleanup_temporary: remove_file unlinks and syncs the directory, which the
\* winner's link may still be waiting for.
Clean(r) ==
    /\ pc[r] = "clean"
    /\ file' = Synced(UploadFor(r))
    /\ Goto(r, "record")
    /\ UNCHANGED <<rowVars, dir, semaphore, table, boundVars>>

Refuse(r) ==
    /\ pc[r] = "refuse"
    /\ file' = Synced(UploadFor(r))
    /\ Done(r)
    /\ UNCHANGED <<rowVars, dir, boundVars>>

\* The UPDATE finds no row if the upload was deleted meanwhile; it does not
\* look at the state of the upload.
Record(r) ==
    /\ pc[r] = "record"
    /\ received' = [received EXCEPT ![PartOf[r]] =
                       @ \/ ustate[UploadFor(r)] # "gone"]
    /\ Done(r)
    /\ UNCHANGED <<ustate, diskVars, boundVars>>

-----------------------------------------------------------------------------
(* The rest of the upload's life *)

Missing(u) == {p \in Part : UploadOf[p] = u /\ ~received[p]}

\* Mutant of BeginCommit: the missing parts are not counted.
BeginCommitBlindly(u) ==
    /\ ustate[u] = "receiving"
    /\ ustate' = [ustate EXCEPT ![u] = "frozen"]
    /\ UNCHANGED <<received, diskVars, entryVars, boundVars>>

BeginCommit(u) ==
    /\ ustate[u] = "receiving"
    /\ Missing(u) = {}
    /\ ustate' = [ustate EXCEPT ![u] = "frozen"]
    /\ UNCHANGED <<received, diskVars, entryVars, boundVars>>

\* Permanent deletion of the asset deletes the rows and leaves the files.
DeleteUpload(u) ==
    /\ ustate[u] # "gone"
    /\ ustate' = [ustate EXCEPT ![u] = "gone"]
    /\ received' = [p \in Part |-> received[p] /\ UploadOf[p] # u]
    /\ UNCHANGED <<diskVars, entryVars, boundVars>>

-----------------------------------------------------------------------------
(* What goes wrong *)

Fault == faults < MaxFaults /\ faults' = faults + 1

\* The body is cut off, too long or has another hash; the 30 seconds of the
\* admission pass; the client disconnects and the handler is dropped; a file
\* or database operation fails.  The temporary file is removed, and the
\* directory synced, unless there is none or its removal fails too.
Abandon(r) ==
    /\ Fault
    /\ pc[r] # "idle"
    /\ \/ UNCHANGED file
       \/ /\ pc[r] \in {"stream", "link", "sync_link", "compare", "clean", "refuse"}
          /\ file' = Synced(UploadFor(r))
    /\ Done(r)
    /\ UNCHANGED <<rowVars, dir, lost>>

\* The process is killed or the power fails.  Entries that were not synced are
\* lost or kept; a kept one is still not synced.  Memory is lost.
Crash ==
    /\ Fault
    /\ \E gone \in SUBSET {u \in Upload : dir[u] = "volatile"},
          unlinked \in SUBSET {p \in Part : file[p] = "linked"} :
         /\ dir' = [u \in Upload |-> IF u \in gone THEN "absent" ELSE dir[u]]
         /\ file' = [p \in Part |-> IF UploadOf[p] \in gone \/ p \in unlinked
                                    THEN "absent" ELSE file[p]]
         /\ lost' = lost \cup gone
    /\ pc' = [r \in Request |-> "idle"]
    /\ semaphore' = [r \in Request |-> NULL]
    /\ table' = [a \in Account |-> NULL]
    /\ UNCHANGED rowVars

\* The disk returns other bytes than were written.
Damage(p) ==
    /\ Fault
    /\ file[p] \in {"linked", "durable"}
    /\ file' = [file EXCEPT ![p] = "bad"]
    /\ UNCHANGED <<rowVars, dir, entryVars, lost>>

-----------------------------------------------------------------------------
Init ==
    /\ ustate = [u \in Upload |-> "receiving"]
    /\ received = [p \in Part |-> FALSE]
    /\ dir = [u \in Upload |-> "absent"]
    /\ file = [p \in Part |-> "absent"]
    /\ pc = [r \in Request |-> "idle"]
    /\ semaphore = [r \in Request |-> NULL]
    /\ table = [a \in Account |-> NULL]
    /\ faults = 0
    /\ lost = {}

\* What put_part does once it has been admitted.
Store(r) ==
    \/ OpenDirectory(r) \/ SyncDirectory(r) \/ Stream(r) \/ Link(r)
    \/ SyncLink(r) \/ Compare(r) \/ Clean(r) \/ Refuse(r) \/ Record(r)

Next ==
    \/ \E r \in Request :
          Start(r) \/ AcquireGlobal(r) \/ AcquireAccount(r) \/ Store(r) \/ Abandon(r)
    \/ \E u \in Upload : BeginCommit(u) \/ DeleteUpload(u)
    \/ Crash
    \/ \E p \in Part : Damage(p)

Spec == Init /\ [][Next]_vars

\* Clients send a part until it is received, an admitted request runs on, and
\* tokio's semaphores serve their waiters in the order they came.
FairSpec ==
    /\ Spec
    /\ \A r \in Request :
         /\ WF_vars(~received[PartOf[r]] /\ Start(r))
         /\ SF_vars(AcquireGlobal(r))
         /\ SF_vars(AcquireAccount(r))
         /\ WF_vars(Store(r))

-----------------------------------------------------------------------------
(* Safety *)

\* Whoever links, whoever finds the part already linked and whoever fails: a
\* part that is recorded as received survives a power loss, so that the client
\* need not keep it, unless the loss took back the upload's directory, which
\* put_part syncs only if it has made it itself.
ReceivedPartKept ==
    \A p \in Part :
        received[p] => file[p] \in {"durable", "bad"} \/ UploadOf[p] \in lost

\* Dead entries are pruned and semaphores created anew, yet the uploads of an
\* account never run beyond its limit.
AccountLimit ==
    \A a \in Account :
        Cardinality({r \in Request : AccountFor(r) = a /\ HoldsAccount(r)}) <= PerAccount

\* Why: a part is only recorded after its directory entry has been synced by
\* some request, and the requests of an account that hold or wait for its
\* permits all refer to the one semaphore the table has for it.
PartInv ==
    /\ TypeOK
    /\ ReceivedPartKept
    /\ \A r \in Request :
         /\ pc[r] \in {"sync_link", "compare", "clean", "refuse"} => file[PartOf[r]] # "absent"
         /\ pc[r] = "record" => file[PartOf[r]] \in {"durable", "bad"}
         /\ pc[r] = "idle" <=> semaphore[r] = NULL
         /\ semaphore[r] # NULL => table[AccountFor(r)] = semaphore[r]
    /\ \A u \in Upload : ustate[u] = "frozen" => Missing(u) = {}
    /\ \A s \in Request : Cardinality(Holders(s)) <= PerAccount

-----------------------------------------------------------------------------
(* What the commit protocol sees of it *)

\* The parts of an upload, taken together.
PartsTogether(u) ==
    IF Missing(u) # {} \/ \E p \in Part : UploadOf[p] = u /\ file[p] = "absent"
    THEN "absent"
    ELSE IF \E p \in Part : UploadOf[p] = u /\ file[p] = "bad" THEN "bad" ELSE "good"

Exposed == {u \in Upload : dir[u] # "durable"} \cup lost

Ledger == INSTANCE PartLedger WITH
    parts <- [u \in Upload |-> PartsTogether(u)], exposed <- Exposed

\* Requests that passed the check of commit_state long ago, retries, kills and
\* the loss of unsynced entries never change the parts of an upload whose
\* commit has begun: put_part implements the ledger.
ImplementsPartLedger == Ledger!LedgerSpec

-----------------------------------------------------------------------------
(* Liveness *)

\* Requests that wait for their account while they hold a permit of the
\* process block the others only for a time: with finitely many faults every
\* part of an open upload is received.
PartsReceived ==
    \A p \in Part :
        <>(received[p] \/ ustate[UploadOf[p]] # "receiving" \/ file[p] = "bad")

=============================================================================
