----------------------------- MODULE AgentQueue -----------------------------
(***************************************************************************)
(* The upload queue of the agent core (src/crates/agent-core/src/lib.rs):  *)
(* the table of jobs, the exported source files and the generations of     *)
(* prepared parts on disk.                                                 *)
(*                                                                         *)
(* A job belongs to an item of the device's library.  Versions of an item  *)
(* are numbered; a version stands for a modification time as well as for   *)
(* the content the item has from then on.  A host (AndroidBackup) composes *)
(* the operations with what it does itself; every operation is one call,   *)
(* except next_prepared, whose steps on the disk and in the table are      *)
(* separate, because the process may die between them.                     *)
(***************************************************************************)
EXTENDS Naturals

CONSTANTS
    Item,         \* resources of the device's library
    MaxVersion,   \* bound: versions of an item
    Generation,   \* identities of prepared generations
    NULL

Version == 1..MaxVersion

\* A prepared_json: the generation its parts lie in, and their content.
Prepared == [gen : Generation, content : Version]

ASSUME VersionAssumption == MaxVersion \in Nat \ {0}
ASSUME NullAssumption    == NULL \notin Item \cup Version \cup Prepared

VARIABLES
    job,      \* the row of each item
    older,    \* <<i, j>>: row i was updated before row j (updated_at_ms)
    copy,     \* the exported source the row's file_path names, if it exists
    staged    \* complete generations on disk

queueVars == <<job, older, copy, staged>>

\* "none": no row yet.  "retry_due": retry_wait with next_retry_ms passed.
JobState == {"none", "discovered", "preparing", "ready", "uploading",
             "retry_wait", "retry_due", "complete"}

NoJob == [state |-> "none", modified |-> NULL, content |-> NULL, prepared |-> NULL]

QueueTypeOK ==
    /\ job \in [Item -> [state : JobState,
                         modified : Version \cup {NULL},
                         content  : Version \cup {NULL},
                         prepared : Prepared \cup {NULL}]]
    /\ older \subseteq Item \X Item
    /\ copy \in [Item -> Version \cup {NULL}]
    /\ staged \in [Item -> SUBSET Prepared]

QueueInit ==
    /\ job = [i \in Item |-> NoJob]
    /\ older = {}
    /\ copy = [i \in Item |-> NULL]
    /\ staged = [i \in Item |-> {}]

-----------------------------------------------------------------------------
(* The table *)

\* An update sets updated_at_ms to the present: row i is the newest.
Touch(i) == older' = (older \ ({i} \X Item)) \cup ((Item \ {i}) \X {i})

InState(S) == {i \in Item : job[i].state \in S}

\* ORDER BY updated_at_ms LIMIT 1
Oldest(i, S) == i \in S /\ \A j \in S \ {i} : <<i, j>> \in older

\* Mutant of Needs: only the state is compared.
NeedsUnlessComplete(i, modified) == job[i].state # "complete"

\* needs_resource
Needs(i, modified) == job[i].state # "complete" \/ job[i].modified # modified

\* Mutant of Enqueue: what was prepared for the former version stays recorded.
EnqueueKeepsPrepared(i, modified, content) ==
    /\ IF Needs(i, modified) \/ job[i].content # content
       THEN /\ job' = [job EXCEPT ![i] = [@ EXCEPT !.state = "discovered",
                                          !.modified = modified, !.content = content]]
            /\ copy' = [copy EXCEPT ![i] = content]
            /\ Touch(i)
       ELSE UNCHANGED <<job, copy, older>>
    /\ UNCHANGED staged

\* enqueue.  The code compares the sizes of the sources, the model contents;
\* the hosts ask needs_resource first, so that the comparison never decides.
Enqueue(i, modified, content) ==
    /\ IF Needs(i, modified) \/ job[i].content # content
       THEN /\ job' = [job EXCEPT ![i] = [state |-> "discovered", modified |-> modified,
                                          content |-> content, prepared |-> NULL]]
            /\ copy' = [copy EXCEPT ![i] = content]
            /\ Touch(i)
       ELSE UNCHANGED <<job, copy, older>>
    /\ UNCHANGED staged

Restate(i, state) == job' = [job EXCEPT ![i].state = state]

SetState(i, state) == Restate(i, state) /\ Touch(i)

MarkUpload(i) == SetState(i, "uploading") /\ UNCHANGED <<copy, staged>>

\* mark_failed(.., retryable = true), as both hosts call it: prepared_json stays.
MarkFailed(i) == SetState(i, "retry_wait") /\ UNCHANGED <<copy, staged>>

\* mark_complete, the update; prepared_json stays here, too.
MarkComplete(i) == SetState(i, "complete") /\ UNCHANGED <<copy, staged>>

\* mark_complete, the removal of the recorded generation's files.
RemoveParts(i) ==
    /\ staged' = [staged EXCEPT ![i] = @ \ {job[i].prepared}]
    /\ UNCHANGED <<job, older, copy>>

\* next_retry_ms passes.
RetryDue(i) ==
    /\ job[i].state = "retry_wait"
    /\ Restate(i, "retry_due")
    /\ UNCHANGED <<older, copy, staged>>

-----------------------------------------------------------------------------
(* next_prepared *)

\* The oldest ready job is handed out as it is.
NextReady(i) == Oldest(i, InState({"ready"})) /\ UNCHANGED queueVars

\* Otherwise the oldest discovered or due job is to be prepared.
NextPrepare(i) ==
    /\ InState({"ready"}) = {}
    /\ Oldest(i, InState({"discovered", "retry_due"}))
    /\ SetState(i, "preparing")
    /\ UNCHANGED <<copy, staged>>

NothingNext == InState({"ready", "discovered", "retry_due"}) = {}

\* A fresh generation.
Unused(i) == {g \in Generation : \A p \in staged[i] \cup {job[i].prepared} :
                                    p # NULL => p.gen # g}

NewGeneration(i) == [gen |-> CHOOSE g \in Unused(i) : TRUE, content |-> copy[i]]

\* Mutant of WriteGeneration: the source is removed as soon as it is copied.
WriteAndRemoveSource(i) ==
    /\ copy[i] # NULL
    /\ Unused(i) # {}
    /\ staged' = [staged EXCEPT ![i] = @ \cup {NewGeneration(i)}]
    /\ copy' = [copy EXCEPT ![i] = NULL]
    /\ UNCHANGED <<job, older>>

\* prepare_file copies the source, part by part, into a new generation.
WriteGeneration(i) ==
    /\ copy[i] # NULL
    /\ Unused(i) # {}
    /\ staged' = [staged EXCEPT ![i] = @ \cup {NewGeneration(i)}]
    /\ UNCHANGED <<job, older, copy>>

\* File::open fails: the source has been removed by an earlier preparation.
SourceMissing(i) == copy[i] = NULL /\ MarkFailed(i)

RecordGeneration(i, p) ==
    /\ job' = [job EXCEPT ![i] = [@ EXCEPT !.state = "ready", !.prepared = p]]
    /\ Touch(i)
    /\ UNCHANGED <<copy, staged>>

\* gc_staging_generations
CollectGenerations(i, p) ==
    /\ staged' = [staged EXCEPT ![i] = {q \in @ : q.gen = p.gen}]
    /\ UNCHANGED <<job, older, copy>>

\* remove_source_after_prepare, which both hosts set
RemoveSource(i) ==
    /\ copy' = [copy EXCEPT ![i] = NULL]
    /\ UNCHANGED <<job, older, staged>>

-----------------------------------------------------------------------------
(* Opening the agent *)

\* Mutant of Recovered: every interrupted job is taken for a prepared one.
RecoveredBlindly(row) ==
    IF row.state \in {"preparing", "uploading"}
    THEN [row EXCEPT !.state = "ready"] ELSE row

Recovered(row) ==
    IF row.state \in {"preparing", "uploading"} /\ row.prepared # NULL
    THEN [row EXCEPT !.state = "ready"]
    ELSE IF row.state = "preparing" THEN [row EXCEPT !.state = "discovered"] ELSE row

Open ==
    /\ job' = [i \in Item |-> Recovered(job[i])]
    /\ UNCHANGED <<older, copy, staged>>

-----------------------------------------------------------------------------
(* What the queue promises *)

\* The parts of p are on disk and are those of the version the job is about.
HasParts(i, p) == p \in staged[i] /\ p.content = job[i].content

\* A job that is handed out or being uploaded has its parts on disk, and they
\* are those of the version that was enqueued last.
ReadyHasParts ==
    \A i \in InState({"ready", "uploading"}) : HasParts(i, job[i].prepared)

\* What every row satisfies whatever the host is doing: a row that exists is
\* about a version no older than the time it remembers; its source, if it is
\* still there, has that version's content; and what is recorded as prepared is
\* on disk until the job is complete, however often the job is interrupted.
QueueInv ==
    \A i \in Item :
        LET row == job[i] IN
        /\ row.state = "none" => row = NoJob /\ copy[i] = NULL
        /\ row.state # "none" =>
              /\ row.content \in Version /\ row.modified \in Version
              /\ row.modified <= row.content
              /\ copy[i] \in {NULL, row.content}
        /\ row.state \in {"ready", "uploading"} => row.prepared # NULL
        /\ row.state # "complete" /\ row.prepared # NULL => HasParts(i, row.prepared)

=============================================================================
