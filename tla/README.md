# A verification development for Media Backup

TLA+ models of the Media Backup server and of the upload queue on the phones, the
TLC configurations that check them, and theorems about them with proofs TLAPS
checks. Paths without a prefix are below `src/crates/server/src/`.

Contents: [the system](#the-system), [what is modelled](#what-is-modelled),
[how the model corresponds to the code](#how-the-model-corresponds-to-the-code),
[runs](#runs), [disagreements](#disagreements-between-code-and-documentation),
[proofs](#proofs), [what is not modelled](#what-is-not-modelled),
[plan](#plan).

## The system

Phones back up their photo library to a server in the same house or VPN. An
agent core (Rust, behind Kotlin and Swift) keeps a local queue of resources,
splits each into parts and uploads them; the server stores parts, assembles them
into content-addressed objects below the account's storage path, and keeps assets
and resources in SQLite. An administrator creates accounts and assigns storage
paths and quotas.

| Component | State it keeps | Operations | Hard behaviour | What makes it correct |
|---|---|---|---|---|
| Upload commit protocol (`upload_commit.rs`) | `uploads.commit_state` and the commit columns, `blobs`, `resources` | `complete_inner`, `reconcile_all` | a crash between any two steps; several uploads of one content; the row, the file and the handler's locals disagreeing | an acknowledged resource keeps its object; commit states only move forward; a started commit settles |
| Blob and part storage (`storage.rs`, `rooted_fs.rs`) | part files, commit stages, final objects, lock files | assemble, publish, inspect, remove, clean up | files change outside transactions; partly written files; clean-up racing with handlers | a published object is complete; no stage outlives its commit; no open stage is removed |
| Upload routes (`routes.rs`) | upload sessions, part rows, admission semaphores | create, put part, status, complete | deduplication in two transactions; parts arriving when the commit has started; permits held while waiting | no resource without an object; parts are frozen; admission cannot starve |
| Library (`library.rs`) | assets, albums, tags, the change feed | trash, restore, permanent deletion, orphan reclamation, timeline, sync | unlink before COMMIT; deletion beside commits in flight; paging beside writers | deletion is final; only orphans are removed, and all of them; no change is skipped |
| Administration (`admin.rs`) | accounts, devices, tokens | create, update, disable, reset, revoke | a storage path changed under open uploads; check-then-write | paths stay disjoint; settled rows keep their key |
| Process start, background tasks (`main.rs`, `runtime_lock.rs`) | the runtime locks, the periodic task | start, pass every 120 s | a task that ends by itself; two processes on one data directory | at most one server per database and directory; passes go on |
| Login admission (`login_admission.rs`) | per-source and per-user windows | admit, record | a bounded table at its limit, a sliding window at its edges | limits hold; the table stays bounded |
| Agent core (`src/crates/agent-core`) | the job table, prepared generations on disk | enqueue, prepare, mark | callbacks of an earlier version or process; restart in mid-upload | a job is complete only for the version that was uploaded |
| Mobile clients (`src/clients/android`, `src/clients/ios`) | the platform's transfers | scan, upload, retry | background transfers outliving the process | every resource is eventually uploaded |
| Doctor (`doctor.rs`) | none | audit of rows against files, probes | the instance it reads was left by a server killed at any step | what it refuses is broken, and what the server leaves behind it accepts |
| Schema and connection (`database.rs`) | the files of the SQLite generation | initialize, snapshot, validate, open | a file that appears meanwhile; programs that take no lock; a kill in the initialization | foreign bytes stay; what is judged is what the database was; what ran starts again |
| Release tooling, configuration, web assets, metrics | none over time | verify, parse | nothing concurrent | - |

How they interact: handlers of all routes run concurrently in one process on a
connection pool; they share SQLite (one writer at a time), the file system (no
transactions), and one `flock` per upload taken by everybody who runs
`complete_inner` on it. The periodic pass calls `complete_inner`, the orphan
reclamation and the staging clean-up of the same code. A permanent deletion
calls the reclamation, too. The agent core talks to the server only through the
platform's HTTP client and hears the result through callbacks. A command holds both
runtime locks from before it looks at the database to its end; what it serves, the
login tables among it, is gone with the process.

`PROJECT.json` lists every component with its status and every hazard with the
line where it bites and the properties that speak about it.

## What is modelled

| Module | Content |
|---|---|
| `UploadCommit` | `complete_inner` step by step, beside `create_upload` with deduplication, trash, restore and permanent deletion, orphan reclamation, the staging clean-up, a change of the storage path, crashes, dropped handlers and damaged files |
| `BackupLedger` | the abstract specification: what the protocol promises the owner of a library |
| `UploadCommitRefinement` | the refinement mapping, `ImplementsLedger` |
| `Reconciler` | `reconcile_all` and the task that repeats it, composed with `UploadCommit`; fairness and liveness |
| `UploadCommitInvariant` | the inductive invariants `CommitInv`, `OrderInv` and `KeptInv` |
| `AgentQueue` | the agent core's table of jobs, generations of prepared parts and exported sources, one operator per call |
| `AndroidBackup` | the Android worker around that queue: scan, preparation, upload, kills and lost requests, and a library that is edited meanwhile; fairness and liveness |
| `UploadCommitProofs`, `ReconcilerProofs`, `AndroidBackupProofs` | the theorems and their proofs |
| `Doctor`, `DoctorInvariant` | the audit of `doctor.rs`, as predicates on the states of `UploadCommit`, and the invariant behind what it accepts |
| `CommitPromises` | the theorems about the quota, the ledger and the doctor |
| `CommitProgress` | the theorems about how far a handler is from its end, when a committed upload is given up, and who removes a stage |
| `PartStore` | `put_part` step by step: admission, directory, stream, link, sync, row; beside the freezing and the deletion of uploads, power losses and damage; fairness and liveness |
| `PartLedger` | the abstract specification of it: what the commit protocol takes for granted of the parts of an upload |
| `LibraryFeed` | the library's transactions, the change feed and a client that follows it |
| `Timeline` | the timeline, paged through by a reader, beside all of `LibraryFeed` |
| `ServerStart` | locks, initialization, snapshot, validation, opening and closing of the database by any command |
| `LoginAdmission` | the two bounded tables of token buckets and the slots for password verification |
| `Accounts` | users, their names and directories, checked and written apart |
| `Server` | the composition of the last three: what is admitted lives as long as the process that serves |
| `PartStoreProofs`, `TimelineProofs`, `ServerProofs` | the theorems about these |
| `MC...` | instances for TLC |

`Reconciler` EXTENDS `UploadCommit` and conjoins to its actions what they mean to
the pass; the theorem `PassImplementsCommit` shows that this adds no behaviour,
so every safety result about `UploadCommit` is one about the composed system.
`AndroidBackup` EXTENDS `AgentQueue` and conjoins to the operations of the queue what
the worker does around them. The two halves of the system meet in the HTTP calls; each
half sees the other one through what these calls promise. `UploadCommit` takes the parts
of an upload together, and links and records them in a step each; `PartStore` shows by its
refinement of `PartLedger` what may be taken for granted there. `LibraryFeed` looks at the same
transactions as `UploadCommit` from the side of those who read: it has no handlers in
several steps, because a write transaction is one step for its readers.

## How the model corresponds to the code

### The server

**Rows.** `ustate` is `uploads.commit_state` (with `"none"` before the row and
`"gone"` after its deletion), `complete` says whose `uploads.state` is
`complete`, `commit` holds the four commit columns, `blobs` the storage path of
each blob row, `resource` each resource's `blob_id`, `assets` the asset rows,
`path` the account's `storage_path`. One account is modelled: all keys and
queries of the protocol are qualified by the account.

**Files.** `stage` and `object` are `"absent"`, `"good"` (the declared size and hash) or
`"bad"`. `parts` is about the files and the rows of `upload_parts` at once: `"linked"` on disk
but not all recorded, recorded and `"good"` or `"bad"`, or recorded and `"lost"` from the
disk. Objects are keyed by storage path and content, as
`commit_keys` builds them.

**Identities.** `begin_commit` draws a fresh blob id and stage name for an
upload, so the id of a blob row is the upload that proposed it. An asset that is
deleted and uploaded again is a new element of `Asset`.

**Handlers.** Every wait on `commit.lock` serialises `complete_inner` per upload,
hence one `pc` per upload. A label is the step the handler takes next; a step is
what it does between two points where another handler can observe it. The
sequence is the code's: `load`, `begin`, `inspect_started`, `assemble`, ...,
`commit_metadata`, `remove_stage`; a committed upload goes through
`validate_row` and `validate_object`. `approved` and `tries` are the locals of
`commit_metadata_with_race_retry`; `create` are those of the deduplicating create
handler between its two transactions.

**Transactions.** SQLite runs in WAL mode with one writer. A deferred transaction
that read before another one wrote cannot be upgraded and fails, so every
transaction that commits is one atomic step. Only the reclaimer does something
other handlers can observe while it holds the write lock: it unlinks a file.
`reclaim` is its open transaction (readers still see the row), and `WriterFree`
the guard of all other write transactions. A failed COMMIT, unlink or dropped
handler is `ReclaimRollback`.

**Failures.** `Abandon` stands for a dropped handler (the client disconnects), an
I/O or busy error, and an account disabled at `begin_commit`; nothing is written,
and dropping `TemporaryPart` removes an unfinished stage. `Crash` loses every
handler and rolls the open transaction back. `Damage...` is a disk that returns
other bytes. `Crash` is also a power failure: it may take back the directories of any uploads
(`TakenBack`), recorded parts and unrecorded ones. `MaxFaults` bounds their number together.

**Merged and abstracted.** The parts of an upload are one value. `LinkParts` is the link of
the files in `Storage::put_part`, by a request that was admitted at some earlier time, and
`RecordParts` the handler's UPDATE after it; between the two the process may die, the
handler may be dropped, the upload be deleted. What happens between two requests of one
part, and between link and sync, is the subject of `PartStore`; the check for missing parts
before `begin_commit`'s transaction is merged with the one inside. Both queries of the
reclaimer have the same condition, and the second one repeats it under the lock, so the
first one is seen only in `Reconciler`, where it fixes the list of a pass. File contents are
equal or not; hashes do not collide. Storage paths are disjoint, as `ensure_unique_path`
intends.

**The pass.** `pass` holds where `reconcile_all` stands, the uploads or rows still
to do, the one it is working on, and whether the server listens: the first pass
runs before the server accepts requests. An error of an upload is counted and the
pass goes on; an error of a query of the pass itself (`fetch_one` on a row deleted
meanwhile, `PassFetch`; others, `PassError`, if `QueriesFail`) ends the pass, and
`main.rs` returns it from the background task. The task's closure owns its state
and is consumed by the one future it makes, so nothing starts it again; the runtime
library that polls it is external.

**History.** `raced` collects the contents whose object was unlinked while another
handler had inspected it and not yet written its metadata (`Relying`). It occurs in
no guard.

### The doctor

Each set of `Doctor` is what one check of `doctor.rs` refuses: the states of uploads, the
joins of committed ones, orphaned rows, objects, commits a start would go on with, parts.
The doctor is not a process of the model: `DoctorExplained` says of *every* state what it
would find if the server had been killed there. `WrongParts` are the uploads whose files
are not those that are recorded: unrecorded ones, missing ones, damaged ones, and any file of
an upload whose row is gone. `reclaimed` and `swept` are history.

### Receiving parts

`PartStore` is `put_part` of `routes.rs` and of `storage.rs`, and the operations of
`rooted_fs.rs` below it.

**Disk.** `file` is the entry under a part's final name: `"linked"` as long as the sync of
its directory is outstanding, `"durable"` afterwards. `dir` is the entry of the upload's
directory. `Crash` takes back any set of unsynced entries. A file is synced before it is
linked, so its content needs no such state. The upload's directory is synced by whoever
links, compares (through the removal of its temporary file) or cleans up, and each of
these covers the links of all others.

**Admission.** `semaphore` is the reference a request holds, `table` the weak references of
`UploadAdmission.accounts`; a semaphore is named by the request that made it, which is what
tells a new one from the one before. `Holders` are its permits in use.

**Uploads** are open at the start, and end by `BeginCommit` or `DeleteUpload`.
`BeginCommit` counts rows, not files. `Record` writes no matter what state the upload is in.

### The library and its readers

`LibraryFeed` has one action per handler. `log` is `account_changes`, and sequence numbers
are positions in it: the sequence is taken inside the write transaction, of which there is
one at a time. `follower` is a client as `docs/beginner-guide/07-current-protocol.md:67-68`
asks for one. `stale` and `silent` are history: what the follower has not seen as it is,
and what of this was last changed by a transaction whose event names something else.
What makes an entity stale is what its JSON is made of: the names of the tags are part of an
asset, the number of the assets part of a tag or album.

`Timeline` adds a reader. A page is selected by one query (`SelectPage`) and its rows are
read one after the other, each in queries of its own (`LoadSummary`); a row deleted between
the two fails the request. `steady` is history: the assets that have kept their place since
the walk began.

### Commands, logins, administrators

`ServerStart` has three files, each with whose content SQLite would read from it and a stamp
for its bytes. `Effective` is SQLite's view of the three. `copy` and `checked` are the
locals of the snapshot. `pc` is one label per step that touches a lock or a file; a `serve`
and a `reconcile` process prepare, open and validate again with the pool open, the doctor
takes two snapshots and never opens a pool of its own. `Kill` releases the locks and leaves
the files; `InitError` is an I/O error in the initialization. `Outsider` is a program that
takes no lock: it puts a file in place, commits, or checkpoints. `seen`, `halfMade` and
`origin` are history.

`LoginAdmission` counts tokens in ticks of refill, so that no fractions are needed; entries
carry the ticks since they were last touched in place of two instants that are always set together.
A table keeps `Capacity` entries; `ideal` is the table as it would be without that bound, and
`hint` counts down the delay of the last refusal. `Accounts` takes apart what the handlers
await: the check of the name, of the directory, the probe of the directory, the write.
A directory is the sequence of its components.

`Server` lets logins and administrators act while a server works. The end of its process
resets the login state and drops the requests, and leaves the users.

### The queue and the Android worker

`AgentQueue` is `src/crates/agent-core/src/lib.rs`, `AndroidBackup` is `BackupWorker.kt`
and `MediaScanner.kt`.

**Rows.** `job` is the table `jobs`, one row per item (`"none"` before it is inserted).
`modified` is `modified_ms`, `prepared` is `prepared_json`, reduced to the generation and
the content of its parts. The relation `older` is the order of `updated_at_ms`: `Touch`
makes a row the newest, `Oldest` is `ORDER BY updated_at_ms LIMIT 1`. `retry_wait` and
`retry_due` are the state `retry_wait` before and after `next_retry_ms`. The table
`job_parts`, `upload_id` and `retry_count` decide nothing but the length of a delay and
are left out; the state `failed` is reached by no host.

**Versions.** A version of an item is a time of modification and the content from this
time on. `enqueue` compares the size of the source, the model its content; both hosts ask
`needs_resource` first, so that this comparison never decides.

**Files.** `copy` is the exported source `file_path` names, until `RemoveSource`; `staged`
are the generations whose parts are complete on disk. `prepare_job` is taken apart into
`Write`, `Record`, `Collect` and `Remove`, because the process may die between them. A
partly written generation is never named by a row and is collected like a former one.

**The run.** One run at a time (`backupMutex`), one label per step of it. `seen` are the
rows of the cursor with their DATE_MODIFIED as queried; the content is copied later, as it
is then. Images and videos are one scan in the order of `Added`. A row of the library is a
photo (`Photo`), which may have a thumbnail (`ThumbnailOf`), an item with a job of its own.
The scan makes one copy per row: `ScanEnqueue` makes it the source of the photo's job, and
`ScanThumbnail` makes the thumbnail, a file of its own, from it. Of a photo without one
(`createThumbnail` returns null) `needs_resource` always says that the thumbnail is needed,
so it is copied again in every scan, and the copy removed. A failed row is skipped, every
other error ends the run: `ScanFails` before the photo is enqueued, `ThumbnailFails` after
it. Both remove the copy; the latter takes the source of the photo's job away with it if
that was enqueued in the same row. `cut` is history: the photos this happened to, until they
are enqueued again.

**The server** is what its calls promise: per item, the contents whose parts it has
(`received`), the contents it has as objects (`stored`), and the one it shows (`shown`). A
request fails with or without its effect (`RequestFails`).

**Failures.** `Kill` ends a run at any step; it also stands for the worker being stopped
between two uploads. `PrepareFails` is a full disk. `MaxFaults` bounds kills and failures
together; a missing source (`WriteFails`) is no fault but what the code makes of an
earlier one. Two edits within one second and an abandoned request that the server carries
out later than the next run's requests are not modelled.

## Runs

`r1`, `r2` are resources, `u1` and `u2` upload content `c1` for `r1` and `r2`, `u3`
uploads content `c2` for `r1` (an edited version of what `u1` uploads).

| Run | Instance | Shows |
|---|---|---|
| `commit_race` | `u1`, `u2` on two assets, 1 fault, 0.6 M states up to symmetry | `TypeOK`; `ObjectLossNeedsRace`: an acknowledged object disappears only through the one race described below, not through crashes, retries, duplicates, failed COMMITs or deletion; `DeletionIsFinal`; `DoctorExplained`: the doctor accepts what a server killed at any step leaves, between the link of a part and its record too, but for the exceptions below; `DoctorInv`, its inductive invariant; `CommitStateOrder`; `ImplementsLedger`; `HandlerAdvances`: every step of a handler brings it nearer to its end, and nobody else's takes it back |
| `commit_move` | `u1` with `u2` or with `u3`, contents of 2 and 3 bytes at a quota of 5; with `u2` one change of path; alone one fault (a power failure among them) or the staging clean-up; 0.4 M states | `CommitInv`, the inductive invariant; `SettledRowKept`: the row an upload has settled on stays under its final key; `QuotaRespected`: stored and reserved bytes stay within the quota; `CommittedKept`: a committed upload is given up only after an edited version, a move, damage or the one race; `DoctorExplained` with edited versions, the clean-up and lost directories |
| `reconcile` | `u1`, `u3` on one resource, 1 fault, failing queries, 0.19 M states | `PassInv`; `PassSettles`: what a pass takes up is settled when it goes on; `CommitSettles`, `OrphanReclaimed`, `StageCleaned` |
| `android_backup` | two photos, the first with a thumbnail, two versions each, one may be deleted, one resource per scan, two faults, 1.3 M states | `AndroidInv`, the inductive invariant; `ReadyHasParts`: what is handed out for upload is on disk and of the version enqueued last; `CopyKept`: until a job is complete its content is on the device, but for the photos of `cut`; `CompleteIsStored`: a complete job is shown by the server, and a later edit will be noticed; `EventuallyBackedUp` |
| `parts` | three requests, two of them for the same part, two uploads of two accounts, two permits and one per account, one fault; 0.25 M states | `PartInv`, the inductive invariant; `ReceivedPartKept`: a recorded part survives a power loss; `AccountLimit`; `ImplementsPartLedger`; `PartsReceived`: every part of an open upload is received in the end |
| `feed` | three assets, one tag, one album, two dates, pages of one event and of two assets, two transactions, one crash of the follower; 2.0 M states | `TimelineInv`; `ChangesAhead`: no change falls between pages, readings or into a crash; `SteadyAssetsListed`: an asset that keeps its place is neither skipped nor listed twice; `FollowerConverges` |
| `server` | a server, the doctor and a reconciliation under another data directory, eight kinds of database files, two writes or kills from outside; three sources and two names at tables of two and one entries; two administrators with four requests; 1.9 M states | `SnapshotReal`: what is judged is a state the database was in; `UndisturbedWork`, `ForeignUntouched`, `StartsAgain`; `TableFaithful`: the bound on the tables costs nobody's limit; `RetryHonest`: who waits as long as told is admitted; `WorkersBounded`; `OverlapNeedsRace` |
| `commit_acked`, `commit_stays`, `commit_stage`, `reconcile_stops`, `android_remaining` | minimal instances | the five disagreements below |

**Why these bounds.** The races of the protocol are between an upload that wins a
content and one that loses it, the deletion of one of their assets, and the
reclaimer: two uploads on two assets with one content have all of them. A third
upload of another content matters for the quota and for edited versions. One fault
interrupts any step; the recovery is complete before a second one would show
something new, and the proofs do not depend on the bound. One change of path gives
keys under a former directory; with two paths also candidates of the other kind.
In `android_backup` the jobs of three items compete for the head of the queue, a photo
with a thumbnail and one without take every path of a row, and a scan
limited to one resource makes the second photo wait for the first; two versions give one
edit at every point of a run; of two faults the second can hit the recovery from the
first. `Generation` must exceed the generations a row can have at once (a recorded one,
and one abandoned by each fault), so that a fresh one always exists.

In `parts`, two requests for one part meet at its link, and with it are the two requests
of the account that holds one permit and waits for its second; the request of the other
account is the one that must not be blocked by them; one power loss finds every
combination of synced and unsynced entries. In `feed`, two transactions are one behind the page and
one that changes the same entity again, or moves an asset across the cursor; pages
are smaller than what there is to read, and a page of the timeline has a row that can
vanish while another one is read. In `server`, one table has fewer entries than there are
keys for it and a burst of two, the other one entry; two attempts at a snapshot have a first,
which is repeated, and a last (the code has four). Two
processes share the database and one of the locks, and one has another number order of
locks. Two writes are a commit and its checkpoint, between any two copies.

**Constraints.** The clean-up touches stages only, so `commit_race` leaves it out
(`NoSweeps`); `commit_move` has it beside `u1` alone, `reconcile` and `commit_stage` beside
everything. `commit_race` has no power failures either (`NoLoss`); `commit_move` explores
them with `u1` alone, at every step of its commit. The two uploads of `commit_race` have the
same content and differ in nothing but their names and those of their resource and asset;
the run takes states that exchange them for one (`Exchanges`), which is sound for its
properties: they are invariants and statements about single steps, and none names an upload.
`commit_move` has `u2` or `u3` and not both, but every step to a state with both is checked,
which is what the quota refuses; after a move, only one of the assets is trashed and only
the second request deduplicated (`Pairwise`). In `feed` the follower works on a page while
no reader walks, and the other way round (`Apart`): neither changes anything the other one
reads. In `server` logins and administrators come one at a time, beside a server whose only
fault is its kill (`Apart`): they share nothing but its life. `reconcile` runs no two commit
handlers at a time and no deduplicating create (`HandlersApart`, `NoDedup`): it is about the
pass beside one handler, and a constrained liveness run says nothing about behaviours that
leave the constraint; in `feed` the follower can always act once the walk has ended, and a
walk ends by itself. What several handlers do to each other is the subject of the first two
runs.

**Deadlock** is checked except where the system may stop: the periodic task may have
stopped for good, an upload may have been deleted with its asset, all commands have
exited. The worker always starts another run.

**Fairness** (`FairPassSpec`). Weak fairness of every running commit handler and of
the open reclamation: the executor polls them, and a dropped one is `Abandon`, a
bounded fault. Weak fairness of the pass's own steps: the interval fires every 120
seconds. Strong fairness of the pass's entry into an upload: it waits in a blocking
`flock`, which the kernel grants eventually although clients retry, while each retry
makes the step disabled for a time. Nothing is assumed of clients. The three liveness
properties hold "unless the task has stopped" because the fourth disagreement makes
that an ordinary outcome. `OrphanReclaimed` is checked with a fixed storage path:
`remove_blob` refuses keys outside the account's present directory, so a row left
under a former path is never reclaimed.

**Fairness of the parts** (`FairSpec` of `PartStore`). A client sends a part again until it
is received (weak fairness of `Start` as long as it is not), an admitted request runs on
(`Store`), and tokio's semaphores serve their waiters in order (strong fairness of both
acquisitions, because a permit that is free may be taken again by others). Nobody is
obliged to begin a commit or to delete. **Of the feed** (`FairTimelineSpec`): the
follower goes on; the library may fall silent at any time.

**Fairness of the phone** (`FairSpec` of `AndroidBackup`). Weak fairness of the run's steps,
`StartRun` among them: with automatic backup on, WorkManager starts a run every six hours
and repeats one that asked for it (`BackupScheduler.kt:26-70`); and of `TimePasses`: delays
end. `EventuallyBackedUp` says that in the end the server shows the last version of
everything in the library, *or* again and again a job waits for a retry whose source is
gone. The second case is no courtesy: it is the fifth disagreement, and outside of it the
property says that no sequence of kills, edits and limits leaves an item behind.

## Disagreements between code and documentation

1. `AckedObjectPresent`. A commit inspects the final object, goes on to its
   metadata transaction, and does not look at the file again. If the row that owned
   the object is deleted with its asset and reclaimed in between, the shared file is
   unlinked; the transaction then inserts the upload's own row and acknowledges it.
   The comment at `library.rs:359-361` explains how the deletion of the row protects
   concurrent deduplication; the file is shared by content, not by row.
2. `CommittedStays`. A committed upload is validated by its resource still pointing at
   its blob. After an edited version of the resource has been committed, the next
   `complete` or pass marks the earlier upload `unknown`, where
   `docs/beginner-guide/07-current-protocol.md:55` has repeated completion return the
   same logical result. `CommittedKept` says when it does.
3. `OpenStageKept`. The referenced stage keys are read before the directory is listed:
   the stage of a commit that begins in between is taken for an orphan and removed.
   Nothing else removes one (`OpenStageSwept`), and not the clean-up of the first pass,
   beside which no handler runs (`FirstPassSafe`).
4. `PeriodicallySettled`. A permanent deletion during a pass makes `fetch_one` fail, the
   error ends the background task, and interrupted commits wait for the next start,
   where `docs/feature-inventory-and-tradeoffs.md:102` has the pass repeated every 120
   seconds.
5. `RemainingBackedUp`. A job whose upload failed is not taken up where it stood but
   prepared again, from a source that its first preparation removed
   (`src/crates/agent-core/src/lib.rs:405`, `:485`). As long as the item is in the library,
   the next scan enqueues it again. When it has left the library, the job fails whenever it
   is the oldest one due, and its error ends the run; the scan before has made all other
   jobs younger. `docs/feature-inventory-and-tradeoffs.md:156` has the next run go on with
   the queue.

Further boundaries are exceptions that a property names and a run explores, rather than
violations of their own:

6. *The doctor's exceptions* (`DoctorExplained`). A part is linked (`storage.rs:175`) before
   it is recorded (`routes.rs:504-510`): a server killed between the two, a handler dropped
   or a failing UPDATE leave a file without a receipt, and the doctor refuses the instance
   (`doctor.rs:368-371`) until the client sends the part again and it is recorded; such
   parts belong to uploads whose commit has not begun, since a commit counts the receipts. A
   power failure that takes back the directory of an upload (7) leaves receipts without
   files, which it refuses, too. It refuses an instance for good after ordinary use: the
   parts of uploads deleted with their asset stay on disk; a committed upload that an edited
   version has superseded is not joined any more; an upload that lost the object of its
   content to the reclaimer, or its stage to the clean-up (3), while it was finalizing has
   its parts and cannot go on. A rollback of the reclamation after its unlink leaves a row
   without a file until the next pass. `docs/feature-inventory-and-tradeoffs.md:210` and the
   runbook (`operations.md:112`, `:118`, `:141`) have the doctor pass before an instance is
   used.
7. *The directory of an upload* (`lost` in `ReceivedPartKept`). `ensure_dir` syncs the parent
   only if it made the directory itself. If the request that made it is gone before its
   sync, every later part goes into a directory a power loss can take back, with parts
   already recorded (`docs/feature-inventory-and-tradeoffs.md:95`). The commit protocol sees it as
   `"lost"` parts. The directories of objects and stages are made by the same function
   (`rooted_fs.rs:334-361`) and have the same gap; the models of the commit do not have it: there
   a published file stays on disk.
8. *Changes without an event* (`silent` in `ChangesAhead`). `create_upload` takes an asset
   out of the trash and dates it anew in a transaction that records nothing
   (`routes.rs:302-335`); `set_tag_assets` names the tag and not the assets,
   `change_tag_asset` and a permanent deletion the asset and not the tags
   (`docs/project-workflow.md:90`). The clients of the repository ask for the timeline again
   and use the feed only as a signal.
9. *A killed initialization* (`halfMade` in `StartsAgain`). A kill between the reservation
   of the file and its commit, or in the removal of a failed one, leaves a database every
   later start refuses (`docs/beginner-guide/02`, line 84); a failed initialization removes what
   another program has meanwhile written into the reserved file (`made` in `ForeignUntouched`).
10. *Overlapping directories* (`raced` in `OverlapNeedsRace`). Two requests of
   administrators that overtake each other can give two users directories of which one
   contains the other: the check and the write share no transaction, and the index of
   the table keeps only equal ones apart.

11. *A thumbnail that fails* (`cut` in `CopyKept`). The handler of a row's errors removes
   the row's copy (`MediaScanner.kt:186-187`). If it is the thumbnail that failed, the copy
   is by then the `file_path` of the photo's job, which is left without source and parts and
   fails when it is prepared, which ends the run;
   `docs/feature-inventory-and-tradeoffs.md:138` has a temporary source deleted only after
   its parts are prepared and recorded. The next scan finds the job incomplete and copies
   the photo again, so that nothing is lost unless the photo is deleted first or the
   thumbnail fails every time; in the latter case the photo is never uploaded.
   `EventuallyBackedUp` does not speak about this, since its failures are faults, of which
   there are finitely many.

## Proofs

TLAPS checks the following for every number of uploads, resources, assets, contents and
paths, every assignment between them, every quota, and any bounds `MaxFaults`,
`MaxMoves`; for the phone, for every library, number of versions and generations, and any
limits and bounds; for the reception of parts, for any requests, parts, accounts and
permits; for the readers, for any library and size of a page; for the commands, for any
processes and lock files. Most assumptions only type the constants. Those that say more
are facts of the code: a part belongs to one upload and an upload has finitely many
(`ManifestAssumption`, `FiniteAssumption`), every limit is at least one
(`PermitAssumption`, `FeedAssumption`, `TimelineAssumption`, `AdmissionAssumption`), an entry
of a login table lives at least until it is full (`AdmissionAssumption`), ids are
compared as numbers (`TimelineAssumption`), and each command about a database takes its lock
(`DatabaseAssumption`).

| Theorem | Statement |
|---|---|
| `TypeCorrect` | every reachable state is well typed and the metadata loop makes at most three attempts |
| `CommitInvariant` | `CommitInv` holds always |
| `ObjectsSafe`, `RowsSafe`, `DeletionSafe` | `ObjectLossNeedsRace`, `SettledRowKept`, `DeletionIsFinal` |
| `CommitOrdered` | `CommitStateOrder` |
| `QuotaSafe` | `QuotaRespected` |
| `LedgerImplemented` | `ImplementsLedger`: every step of the server is one of `BackupLedger`, or none |
| `PromisesConsistent` | what is shown is held, and nothing of a deleted asset is shown or uploaded again; proved of `BackupLedger`, true of the server |
| `DoctorInvAlways`, `DoctorSafe` | `DoctorInv`, `DoctorExplained`, with the doctor's history |
| `HandlersEnd` | `HandlerAdvances`, and a handler has never more than 26 own steps before it |
| `CommittedSafe` | `CommittedKept` |
| `OpenStageSwept` | the complete stage of an open commit is removed by the staging clean-up alone |
| `PassCorrect` | `PassInv` holds always |
| `PassImplementsCommit` | `PassSpec` implies `Spec` of `UploadCommit` |
| `PassKeepsObjects`, `PassKeepsPromises` | `ObjectLossNeedsRace`, `QuotaRespected` and `ImplementsLedger` hold for the server with its reconciler |
| `PassSettlesAlways` | `PassSettles` |
| `FirstPassSafe` | `FirstPassKeepsStages`: the clean-up before the server listens takes no complete stage of an open commit |
| `AndroidInvariant` | `AndroidInv` holds always |
| `PartsReady`, `CopiesSafe`, `CompletionSound` | `ReadyHasParts`, `CopyKept`, `CompleteIsStored` |
| `PartInvAlways` | `PartInv` holds always |
| `ReceivedPartSafe`, `AccountLimitSafe` | `ReceivedPartKept`, `AccountLimit` |
| `PartsImplementLedger` | `PartStore` implements `PartLedger` |
| `ChangesAheadSafe` | `ChangesAhead` |
| `TimelineCorrect`, `SteadySafe` | `TimelineInv`, `SteadyAssetsListed` |
| `OneCommand` | one command at a time is between its locks and its exit |
| `WorkUndisturbed`, `ForeignSafe` | `UndisturbedWork`, `ForeignUntouched` |
| `SnapshotSafe`, `StartsAgainSafe` | `SnapshotReal`, `StartsAgain` |
| `TableSafe`, `RetrySafe` | `TableFaithful`, `RetryHonest` |
| `AttemptsBounded` | in any window of time the tables let no more attempts of a key through than a full bucket and the refill of that time pay for |
| `WorkersSafe`, `OverlapSafe` | `WorkersBounded`, `OverlapNeedsRace` |

**The argument for the server.** `ObjectLossNeedsRace` is about a resource and the object of
its blob, but a resource gets its blob from what a handler remembers. The invariant
therefore says what a handler knows. In the metadata loop the object under its final key is
present, or its content is in `raced` (`CommitRelies`); a deduplicating create knows the
same of the object it inspected (`CreateRelies`); a candidate that has been checked lies in
the directory it was checked in (`ApprovalChecked`). For this to survive the other handlers'
steps, blob rows must not be replaced by others: there is one per content
(`OneRowPerContent`), nobody can know the id an upload will propose before it commits
(`FreshBlobUnused`), a row once settled on stays (`SettledRowKept`), and what the reclaimer
holds is an orphan, which no settled upload and no resource names (`ReclaimOrphan`). The
unlink is the only step that removes an object; a handler that relies on it at this moment
puts its content into `raced`, by definition. Moves of the account only matter through
`account_path`, which a commit fixes once and compares in its transaction (`ColumnsByState`,
`ColumnsByControl`). The proof has a lemma for each group of actions (`CreateKeeps`,
`LookKeeps`, `MetadataKeeps`, `LibraryKeeps`, `ReclaimKeeps`, `OutsideKeeps`), under it one
step per action, and one per conjunct it can disturb. `CommitStateOrder` uses the separate
invariant `OrderInv`: what a handler at each control point knows about its row, which can
vanish at any time and is otherwise changed by this handler alone.

**The argument for the quota.** The used and the reserved bytes are each the cardinality of
a union, one block of as many elements as its content has bytes per upload (`Bytes`): adding
or removing an upload adds or removes its block (`BytesOfMore`, `BytesOfFewer`), without an
induction over a sum. A step either takes nothing from the room that is left, moves one
upload from the reserved to the stored, or is a `CreateUpload`, which compares before it
reserves (`QuotaMoves`). That at each time only finitely many uploads exist is part of the
invariant, so `Upload` may be infinite.

**The argument for the ledger.** `LedgerStep` takes the steps one by one. Storing is
`CommitMetadata`; what makes it one step for the client is that everything before it leaves
status, rows, resources and deletions alone, or only moves the upload within what the client
sees as open (`OrderInv`). A deduplicated create is `Share`, the COMMIT of the reclaimer
`Forget`, and `CommitInv` says that what it forgets is shown by nothing.
`PromisesConsistent` is then proved of the six actions of the ledger.

**The argument for the doctor.** `DoctorInv` accounts for each kind of finding: an object
that a row or a commit needs is missing only after an unlink, which `reclaimed` records; a
stage only after the clean-up, which `swept` records (`BytesKept`); with no change of path
there is one place for everything (`OnePlace`). Of the parts it says whose may be
unrecorded, missing or left behind (`PartsOfUploads`): an upload leaves the state
`receiving` only through a `Begin` that has found all of them recorded, or is deleted
(`LeavesReceiving`), from then on only a crash and damage change them, and what a crash took
back a late `LinkParts` may put there again. Each conjunct has a lemma that first reduces a
step to the few kinds that matter for it (`PlaceKinds`, `ObjectKinds`, `ByteKinds`).
`FindingsExplained` needs no step: it derives `DoctorExplained` from these invariants in any
state.

**The argument for the progress of a handler.** `complete_inner` dispatches twice, retries
its metadata and goes back after a race, and its row may be settled or deleted between any
two of its steps. `StepsLeft` bounds what is ahead of it: the steps after its control point
(`StepsAfter`), two more dispatches while the upload is not begun, and less for each
metadata attempt made. `OrderInv` says which states of the row go with which control point,
so that a dispatch never leads back; `OwnStepAdvances` shows the descent action by action,
`OthersUntouched` that other steps leave the control point and the attempts alone; what they
may do to the row only lowers the bound. This is the half of `CommitSettles` that is about
safety; the other half, that the handler takes its steps, is fairness.

**The argument for committed uploads.** A validation reads the resource and the blob row,
then the object, and then marks, in three steps. `MarkedInDoubt` says of an upload about to
be marked that what was found is still so. What may be found is one of four: the resource
shows another content, and then (`ShownRequested`, `RowsCompleted`) an upload of that
content was requested for it and one was stored; the row is elsewhere, and then the path was
changed (`OnePlace`); the object is damaged; or it is missing, and then `CommitInv` names
the race. That the resource is there at all is `CommittedShown`. As long as the upload is
committed none of the four is taken back (`DoubtStays`): the first two and the last are
history that only grows, and nothing repairs a damaged object under its key (`DamageStays`).

**The argument for the pass.** `TakenUp` says of the handler the pass waits for that its
upload has begun, at whatever control point it is; so when the handler returns, it returns
from one of the marks, from the end of a commit, from a deletion, or out of attempts. Before
the server listens `PassInv` leaves no handler beside the pass, and during its clean-up
nothing else runs (`FirstSweepAlone`): what the clean-up has read as referenced is still so
when it removes (`FirstSweep`). The second crash this needs to say anything is beyond the
bound of the run `reconcile`, so that `FirstPassKeepsStages` is proved and not run.

**The argument for the phone.** `AndroidInv` consists of the types, `QueueInv`, `RunInv`,
`CopyKept` and `CompleteIsStored`. That a complete job is on the server depends on what the
run holds while it uploads (`RunInv`: the generation in hand is the recorded one, of the
row's present version, and what is about to be marked is shown), which in turn depends on
nobody else touching the row. That a job reopened as ready has its parts depends on
`QueueInv`: whatever is recorded stays on disk until the job is complete, because a
generation is recorded before the former ones are collected and before the source is
removed; this order is also why `CopyKept` survives a kill at each of these steps. The one
step that removes a source before there are parts is `ThumbnailFails`, and it says so in
`cut`; what takes a photo out of `cut` again is the enqueueing that gives it a source
(`EnqueueChanges`). A later edit is noticed because a row never remembers a time newer than
its content: the scan takes the time from the cursor, before it copies (`RunInv`, first and
third conjunct). `RowOf` collects what is said of one row; `OneRowChanges` reduces every
operation to the row it works on, `QuietStep` disposes of the steps that leave queue and
server alone, and `StateChanges` of those that only change a state, and `ThumbnailKeeps` is
about the second half of a row of the scan.

**The argument for the parts.** `PartInv` has one conjunct per concern and each is proved
inductive by itself (`FileStep`, `PermitStep`, `FrozenStep`). A row is written only by a
request that has synced the entry of its file, or found it synced, and nothing but the
clean-up of an upload that is past receiving removes it. An account has at most one live
semaphore: a new one is made only when the weak reference of the former is dead, which is
when nobody holds it; hence the permits of all its holders are permits of one semaphore.
For the refinement, an upload's parts are together when every row is there; a part that
arrives after the commit has begun finds them together already.

**The argument for the readers.** All handlers do the same to the feed
(`TransactionEffect`): at most one event at its end, and some entities are stale from now
on. An entity that is stale is either silent, or its last event lies ahead of the follower:
in the feed after its cursor, or in its page (`ChangesAhead`). This is inductive, because a
page is persisted only when its events have been applied, and the cursor then is where the
page ended. For the walk, `WalkInv` places every steady asset: what is listed is not below
the cursor, what is in the page comes in the order of the keys and below the cursor, and
what is still to come lies below both. A page takes the first assets below the cursor, so
what it leaves out is below its last row.

**The argument for the commands.** Locks are held by one process each (`LocksApart`), and
outside of starting and ending a process holds all of its own (`Entitled`); two processes of one
database share a lock, so at most one of them is past `Locked`, and before it no step touches
a file. An initialization writes only what it has made itself, and a pool opens only after
a snapshot in the current schema or after its own initialization.

A snapshot is three copies taken at different times. `SnapInv` says of an unfinished one
that the database was not there when its main file was copied, or that the copies are as
the files are, or that a file still to be compared has been overwritten (`Stale`). The last
is never undone, because every write has a stamp of its own. A log or a journal appears
only together with a write to the main file (`FileMoves`), so one that was absent when it
was copied cannot turn up unnoticed. And a comparison that succeeds is of a file that is
not overwritten. After the last one the copies are therefore a content the database had.
For `StartsAgain`, `Place` says how each label finds the three files. Nobody else touches
them while a command has its locks (`Alone`), so they are current or absent whenever no
initialization is half way (`Settled`), and by `SnapInv` every verdict is about a current
database.

**The argument for the administrators.** The state of a request says what it has checked; as
long as no other write came after its check, the check still holds of the rows as they are
when it writes.

**The argument for the logins.** An entry is worth `TokensAt`, and `Bucket` says that this
is what its key has in the unbounded table. Time moves both alike, also at `Ttl`, where the
constants make an entry full; what is pruned or evicted is full, and so says no more than an
absent entry (`RoomsKeep`, `AnswerKeeps`). `Waits` keeps of the last refusal that tokens,
age and remaining delay suffice, of its own entry or of one it waits for. A delay is a
minimum over the table; it exists because the natural numbers are well-founded
(`LeastNatural`), and so does the oldest entry that may be evicted (`RoomAgain`). For a
window of time (`WindowSpec`), `charged` counts what the attempts let through in it cost and
`elapsed` how long it is: `charged` and what the unbounded bucket still holds never exceed a
full bucket and `elapsed` (`WindowInv`). An attempt moves tokens from one to the other; only
time adds some (`IdealMoves`). A bound on the window itself rests on nothing but this sum,
and so holds of every window at once.

**Only model-checked.** Liveness (`CommitSettles`, `OrphanReclaimed`, `StageCleaned`,
`EventuallyBackedUp`, `PartsReceived`, `FollowerConverges`) and the absence of deadlock,
which need ENABLED. Of `CommitSettles`, `HandlersEnd` and `PassSettlesAlways` prove what
does not. Every invariant, action property and refinement the passing runs check is also a
theorem.

## What is not modelled

On the server: device and API authentication and the wire protocol (checks of a single
request, with no state between requests), error texts, configuration and metrics; the reset
of a password and disabling (one UPDATE each); the filters of the timeline, duplicate groups
and the delivery of resources (they only read); several accounts in the commit protocol,
whose keys and queries are all qualified by one; below `RootedFs`, temporary files that a
killed process leaves, links and special files; in the command line, the checks of a
release. Release tooling and the deployment scripts verify an installed tree, once and
alone; the web pages, the platform router and the mobile bindings pass calls on. Of the
phone: the iOS client and its background transfers, the synchronisation of albums after a
run, restoring, selecting by album, the names of source files (a source whose removal a kill
prevents stays on the device), and what the statistics show.

## Plan

1. *Done:* `UploadCommit`, `BackupLedger`, `Reconciler`, `Doctor`; `PartStore` with its
   admission; `AgentQueue` with `AndroidBackup`; `LibraryFeed` and `Timeline`; `ServerStart`,
   `LoginAdmission`, `Accounts` and their composition `Server`.
2. `IosBackup`: the same queue below background transfers that outlive the process. The
   questions are a completion that arrives for an earlier version (`agent-core/src/lib.rs:510`)
   and a reopened queue beside transfers of the former process (`:214`).
3. Theorems: every safety property of the passing runs is proved. What is left are
   the theorems of `IosBackup` and of what comes after it, and measures like `StepsLeft` for the
   pass as a whole and for the run of the phone.
