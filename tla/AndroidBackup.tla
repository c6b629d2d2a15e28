--------------------------- MODULE AndroidBackup ---------------------------
(***************************************************************************)
(* The Android worker (BackupWorker.kt, MediaScanner.kt) around the agent's*)
(* queue, with the media library, which the user edits meanwhile, and what *)
(* the server has accepted.                                                *)
(*                                                                         *)
(* WorkManager starts a run; a mutex keeps runs apart.  A run opens the    *)
(* agent, scans the library and enqueues copies of what is not backed up,  *)
(* then takes job after job from the queue and uploads it.  The first      *)
(* error ends the run.  The process may be killed at every step.           *)
(*                                                                         *)
(* An item is a photo (or video) of the library or the thumbnail of one.   *)
(* The scan copies a photo once; the copy is the source of its job, and    *)
(* the thumbnail, with a file and a job of its own, is made from it.       *)
(***************************************************************************)
EXTENDS AgentQueue

CONSTANTS
    Photo,         \* the rows of the media library
    ThumbnailOf,   \* the thumbnail made of a photo; NULL: none can be made
    Added,         \* DATE_ADDED of each photo: the order of the scan
    ScanLimit,     \* MAX_SCAN_ITEMS
    UploadLimit,   \* MAX_UPLOAD_ITEMS
    MaxFaults,     \* bound: kills, lost requests and responses, failed copies
    MaxDeletions   \* bound: deletions from the device's library

ASSUME PhotoAssumption ==
    /\ Photo \subseteq Item
    /\ ThumbnailOf \in [Photo -> (Item \ Photo) \cup {NULL}]

ASSUME RunAssumption ==
    /\ Added \in [Photo -> Nat]
    /\ {ScanLimit, UploadLimit, MaxFaults, MaxDeletions} \subseteq Nat

VARIABLES
    media,       \* the version of each photo in the library; NULL: deleted
    pc,          \* where the run stands
    seen,        \* rows of the scan's cursor still to come, with their DATE_MODIFIED
    queued,      \* resources enqueued by this run
    done,        \* uploads completed by this run
    item,        \* the item the run works on
    copied,      \* the content the scanner has copied
    held,        \* the prepared generation the run works on
    received,    \* contents whose parts the server has received
    stored,      \* contents for which the server has an object
    shown,       \* the content the server shows for the item
    faults, deletions,
    cut          \* history: photos whose job lost its source to a failed thumbnail

runVars    == <<pc, seen, queued, done, item, copied, held>>
serverVars == <<received, stored, shown>>
boundVars  == <<faults, deletions, cut>>
vars       == <<queueVars, media, runVars, serverVars, boundVars>>

RunControl == {"idle", "scan", "enqueue", "thumbnail", "next", "write", "record",
               "collect", "remove", "create", "part", "complete", "mark", "clean"}

TypeOK ==
    /\ QueueTypeOK
    /\ media \in [Photo -> Version \cup {NULL}]
    /\ pc \in RunControl
    /\ seen \in [Photo -> Version \cup {NULL}]
    /\ queued \in Nat /\ done \in Nat
    /\ item \in Item \cup {NULL}
    /\ copied \in Version \cup {NULL}
    /\ held \in Prepared \cup {NULL}
    /\ received \in [Item -> SUBSET Version]
    /\ stored \in [Item -> SUBSET Version]
    /\ shown \in [Item -> Version \cup {NULL}]
    /\ faults \in Nat /\ deletions \in Nat
    /\ cut \subseteq Photo

NoRows == [i \in Photo |-> NULL]

Init ==
    /\ QueueInit
    /\ media = [i \in Photo |-> 1]
    /\ pc = "idle" /\ seen = NoRows /\ queued = 0 /\ done = 0
    /\ item = NULL /\ copied = NULL /\ held = NULL
    /\ received = [i \in Item |-> {}]
    /\ stored = [i \in Item |-> {}]
    /\ shown = [i \in Item |-> NULL]
    /\ faults = 0 /\ deletions = 0 /\ cut = {}

-----------------------------------------------------------------------------
(* The run *)

At(label) == pc = label

\* The run goes on without an item in hand.
Resume(label) == pc' = label /\ item' = NULL /\ copied' = NULL /\ held' = NULL

EndRun == Resume("idle") /\ seen' = NoRows /\ queued' = 0 /\ done' = 0

\* WorkManager starts the worker: the agent is opened and the cursor queried.
StartRun ==
    /\ At("idle")
    /\ Open
    /\ pc' = "scan"
    /\ seen' = media
    /\ UNCHANGED <<media, queued, done, item, copied, held, serverVars, boundVars>>

-----------------------------------------------------------------------------
(* The scan *)

\* The row the cursor is at, oldest first.
Row(i) ==
    /\ At("scan")
    /\ queued < ScanLimit
    /\ seen[i] # NULL
    /\ \A j \in Photo : seen[j] # NULL => Added[i] <= Added[j]

PassRow(i) == seen' = [seen EXCEPT ![i] = NULL]

\* A photo without a thumbnail has no row for one: needs_resource says yes.
NeedsThumbnail(i) == ThumbnailOf[i] # NULL => Needs(ThumbnailOf[i], seen[i])

\* Nothing to do, or the photo has been deleted since the query.
ScanSkip(i) ==
    /\ Row(i)
    /\ media[i] = NULL \/ ~(Needs(i, seen[i]) \/ NeedsThumbnail(i))
    /\ PassRow(i)
    /\ UNCHANGED <<queueVars, media, pc, queued, done, item, copied, held,
                   serverVars, boundVars>>

\* The content is copied as it is now, whatever the cursor's DATE_MODIFIED.
ScanCopy(i) ==
    /\ Row(i)
    /\ Needs(i, seen[i]) \/ NeedsThumbnail(i)
    /\ media[i] # NULL
    /\ pc' = IF Needs(i, seen[i]) THEN "enqueue" ELSE "thumbnail"
    /\ item' = i /\ copied' = media[i]
    /\ UNCHANGED <<queueVars, media, seen, queued, done, held, serverVars, boundVars>>

\* With the photo's job done for, its thumbnail is next, or the next row.
AfterEnqueue ==
    IF NeedsThumbnail(item)
    THEN pc' = "thumbnail" /\ UNCHANGED <<seen, item, copied, held>>
    ELSE PassRow(item) /\ Resume("scan")

\* Mutant of ScanEnqueue: the time of modification is read after the copy.
ScanEnqueueLate ==
    /\ At("enqueue")
    /\ Enqueue(item, IF media[item] = NULL THEN seen[item] ELSE media[item], copied)
    /\ queued' = queued + 1
    /\ cut' = cut \ {item}
    /\ AfterEnqueue
    /\ UNCHANGED <<media, done, serverVars, faults, deletions>>

\* The job's file_path is the copy.
ScanEnqueue ==
    /\ At("enqueue")
    /\ Enqueue(item, seen[item], copied)
    /\ queued' = queued + 1
    /\ cut' = cut \ {item}
    /\ AfterEnqueue
    /\ UNCHANGED <<media, done, serverVars, faults, deletions>>

\* createThumbnail reads the copy and writes a file of its own.  A copy that no
\* job has as its source is removed afterwards.
ScanThumbnail ==
    /\ At("thumbnail")
    /\ IF ThumbnailOf[item] = NULL
       THEN UNCHANGED <<queueVars, queued>>
       ELSE /\ Enqueue(ThumbnailOf[item], seen[item], copied)
            /\ queued' = queued + 1
    /\ PassRow(item)
    /\ Resume("scan")
    /\ UNCHANGED <<media, done, serverVars, boundVars>>

ScanEnd ==
    /\ At("scan")
    /\ queued >= ScanLimit \/ seen = NoRows
    /\ pc' = "next"
    /\ seen' = NoRows
    /\ UNCHANGED <<queueVars, media, queued, done, item, copied, held,
                   serverVars, boundVars>>

-----------------------------------------------------------------------------
(* Taking jobs from the queue *)

\* The limit is reached or the queue is empty.
Finish ==
    /\ At("next")
    /\ done >= UploadLimit \/ NothingNext
    /\ EndRun
    /\ UNCHANGED <<queueVars, media, serverVars, boundVars>>

Wanting == At("next") /\ done < UploadLimit

TakeReady(i) ==
    /\ Wanting
    /\ NextReady(i)
    /\ pc' = "create" /\ item' = i /\ held' = job[i].prepared
    /\ UNCHANGED <<media, seen, queued, done, copied, serverVars, boundVars>>

TakeUnprepared(i) ==
    /\ Wanting
    /\ NextPrepare(i)
    /\ pc' = "write" /\ item' = i
    /\ UNCHANGED <<media, seen, queued, done, copied, held, serverVars, boundVars>>

Write ==
    /\ At("write")
    /\ WriteGeneration(item)
    /\ pc' = "record" /\ held' = NewGeneration(item)
    /\ UNCHANGED <<media, seen, queued, done, item, copied, serverVars, boundVars>>

\* next reports an error, and the run ends with it.
WriteFails ==
    /\ At("write")
    /\ SourceMissing(item)
    /\ EndRun
    /\ UNCHANGED <<media, serverVars, boundVars>>

Record ==
    /\ At("record")
    /\ RecordGeneration(item, held)
    /\ pc' = "collect"
    /\ UNCHANGED <<media, seen, queued, done, item, copied, held, serverVars, boundVars>>

Collect ==
    /\ At("collect")
    /\ CollectGenerations(item, held)
    /\ pc' = "remove"
    /\ UNCHANGED <<media, seen, queued, done, item, copied, held, serverVars, boundVars>>

Remove ==
    /\ At("remove")
    /\ RemoveSource(item)
    /\ pc' = "create"
    /\ UNCHANGED <<media, seen, queued, done, item, copied, held, serverVars, boundVars>>

-----------------------------------------------------------------------------
(* uploadJob *)

Content == held.content

\* The server deduplicates, or answers with the parts it still misses.
Deduplicate ==
    /\ Content \in stored[item]
    /\ shown' = [shown EXCEPT ![item] = Content]
    /\ UNCHANGED <<received, stored>>

ReceivePart ==
    /\ received' = [received EXCEPT ![item] = @ \cup {Content}]
    /\ UNCHANGED <<stored, shown>>

CommitUpload ==
    /\ stored' = [stored EXCEPT ![item] = @ \cup {Content}]
    /\ shown' = [shown EXCEPT ![item] = Content]
    /\ UNCHANGED received

CreateDeduplicated ==
    /\ At("create")
    /\ Deduplicate
    /\ pc' = "mark"
    /\ UNCHANGED <<queueVars, media, seen, queued, done, item, copied, held, boundVars>>

CreateUpload ==
    /\ At("create")
    /\ Content \notin stored[item]
    /\ MarkUpload(item)
    /\ pc' = IF Content \in received[item] THEN "complete" ELSE "part"
    /\ UNCHANGED <<media, seen, queued, done, item, copied, held, serverVars, boundVars>>

\* The part files are read from the held generation.
UploadPart ==
    /\ At("part")
    /\ held \in staged[item]
    /\ ReceivePart
    /\ pc' = "complete"
    /\ UNCHANGED <<queueVars, media, seen, queued, done, item, copied, held, boundVars>>

Complete ==
    /\ At("complete")
    /\ CommitUpload
    /\ pc' = "mark"
    /\ UNCHANGED <<queueVars, media, seen, queued, done, item, copied, held, boundVars>>

Mark ==
    /\ At("mark")
    /\ MarkComplete(item)
    /\ pc' = "clean"
    /\ UNCHANGED <<media, seen, queued, done, item, copied, held, serverVars, boundVars>>

Clean ==
    /\ At("clean")
    /\ RemoveParts(item)
    /\ done' = done + 1
    /\ Resume("next")
    /\ UNCHANGED <<media, seen, queued, serverVars, boundVars>>

-----------------------------------------------------------------------------
(* Failures *)

Fault == faults < MaxFaults /\ faults' = faults + 1 /\ UNCHANGED deletions

\* The process is killed, or the worker stopped by the system or the user.
Kill ==
    /\ Fault
    /\ pc # "idle"
    /\ EndRun
    /\ UNCHANGED <<queueVars, media, serverVars, cut>>

\* Copying or enqueueing the photo fails: the row is skipped, the copy removed.
ScanFails ==
    /\ Fault
    /\ At("enqueue")
    /\ PassRow(item)
    /\ Resume("scan")
    /\ UNCHANGED <<queueVars, media, queued, done, serverVars, cut>>

\* Making or enqueueing the thumbnail fails: the same handler removes the copy,
\* although it is the source of the photo's job if that was just enqueued.
ThumbnailFails ==
    /\ Fault
    /\ At("thumbnail")
    /\ IF Needs(item, seen[item])
       THEN copy' = [copy EXCEPT ![item] = NULL] /\ cut' = cut \cup {item}
       ELSE UNCHANGED <<copy, cut>>
    /\ PassRow(item)
    /\ Resume("scan")
    /\ UNCHANGED <<job, older, staged, media, queued, done, serverVars>>

\* The disk fails a preparation, before or after the generation is recorded.
PrepareFails ==
    /\ Fault
    /\ pc \in {"write", "collect"}
    /\ MarkFailed(item)
    /\ EndRun
    /\ UNCHANGED <<media, serverVars, cut>>

\* A request to the server fails, with or without its effect: the job is
\* marked, the exception thrown on, and the run ends.
RequestFails ==
    /\ Fault
    /\ \/ pc \in {"create", "part", "complete"} /\ UNCHANGED serverVars
       \/ At("create") /\ Deduplicate
       \/ At("part") /\ held \in staged[item] /\ ReceivePart
       \/ At("complete") /\ CommitUpload
    /\ MarkFailed(item)
    /\ EndRun
    /\ UNCHANGED <<media, cut>>

-----------------------------------------------------------------------------
(* The device *)

Edit(i) ==
    /\ media[i] # NULL /\ media[i] < MaxVersion
    /\ media' = [media EXCEPT ![i] = @ + 1]
    /\ UNCHANGED <<queueVars, runVars, serverVars, boundVars>>

Delete(i) ==
    /\ media[i] # NULL
    /\ deletions < MaxDeletions
    /\ media' = [media EXCEPT ![i] = NULL]
    /\ deletions' = deletions + 1
    /\ UNCHANGED <<queueVars, runVars, serverVars, faults, cut>>

TimePasses(i) ==
    /\ RetryDue(i)
    /\ UNCHANGED <<media, runVars, serverVars, boundVars>>

-----------------------------------------------------------------------------
RunStep ==
    \/ StartRun
    \/ \E i \in Photo : ScanSkip(i) \/ ScanCopy(i)
    \/ ScanEnqueue \/ ScanThumbnail \/ ScanEnd
    \/ Finish
    \/ \E i \in Item : TakeReady(i) \/ TakeUnprepared(i)
    \/ Write \/ WriteFails \/ Record \/ Collect \/ Remove
    \/ CreateDeduplicated \/ CreateUpload \/ UploadPart \/ Complete
    \/ Mark \/ Clean

Next ==
    \/ RunStep
    \/ Kill \/ ScanFails \/ ThumbnailFails \/ PrepareFails \/ RequestFails
    \/ \E i \in Photo : Edit(i) \/ Delete(i)
    \/ \E i \in Item : TimePasses(i)

Spec == Init /\ [][Next]_vars

\* WorkManager starts a run after every run, a run goes on, delays pass.
FairSpec ==
    /\ Spec
    /\ WF_vars(RunStep)
    /\ \A i \in Item : WF_vars(TimePasses(i))

-----------------------------------------------------------------------------
(* Properties *)

\* A job that is complete is on the server: the server shows the content the
\* job is about, which is at least as new as the time the job remembers, so
\* that every later version is noticed by needs_resource.
CompleteIsStored ==
    \A i \in InState({"complete"}) :
        /\ shown[i] = job[i].content
        /\ job[i].modified <= job[i].content

\* What the run relies on from one step to the next: the row of the item it
\* works on is in the state it left it in, the generation it holds is the one
\* recorded, and what it is about to mark as complete is shown by the server.
RunInv ==
    /\ \A i \in Photo : seen[i] # NULL /\ media[i] # NULL => seen[i] <= media[i]
    /\ pc \notin {"idle", "scan", "next"} => item \in Item
    /\ pc \in {"enqueue", "thumbnail"} =>
          /\ item \in Photo
          /\ copied \in Version /\ seen[item] \in Version /\ seen[item] <= copied
    /\ pc \in {"write", "record"} => job[item].state = "preparing"
    /\ pc \in {"record", "collect", "remove", "create", "part", "complete", "mark"}
          => HasParts(item, held)
    /\ pc \in {"collect", "remove", "create", "part", "complete", "mark", "clean"}
          => held \in Prepared /\ job[item].prepared = held
    /\ pc \in {"collect", "remove", "create"} => job[item].state = "ready"
    /\ pc \in {"part", "complete"} => job[item].state = "uploading"
    /\ At("mark") => /\ job[item].state \in {"ready", "uploading"}
                     /\ shown[item] = held.content
    /\ At("clean") => job[item].state = "complete"

\* Until a job is complete the device keeps what is to be uploaded, as the
\* exported source or as the recorded parts, whatever fails on the way, but for
\* a photo whose thumbnail failed and took the source of its job along; then
\* until the photo is enqueued again.
CopyKept ==
    \A i \in InState(JobState \ {"none", "complete"}) \ cut :
        copy[i] = job[i].content \/ HasParts(i, job[i].prepared)

\* The inductive invariant.
AndroidInv == TypeOK /\ QueueInv /\ RunInv /\ CopyKept /\ CompleteIsStored

BackedUp ==
    \A i \in Photo : media[i] # NULL =>
        /\ shown[i] = media[i]
        /\ ThumbnailOf[i] # NULL => shown[ThumbnailOf[i]] = media[i]

\* A job waits for a retry that prepares it from a source already removed.
SourceLost ==
    \E i \in InState({"retry_wait", "retry_due", "preparing"}) : copy[i] = NULL

\* In the end everything in the library is backed up in its last version,
\* unless again and again a retry finds its source removed.
EventuallyBackedUp == (<>[]BackedUp) \/ ([]<>SourceLost)

\* The documentation: a run that has not finished is retried, and the next one
\* goes on with the remaining items.
RemainingBackedUp == <>[]BackedUp

=============================================================================
