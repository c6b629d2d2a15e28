---------------------------- MODULE UploadCommit ----------------------------
(***************************************************************************)
(* The server's upload commit protocol (crates/server/src/upload_commit.rs)*)
(* with everything that runs beside it on one account: the create handler  *)
(* and its deduplication path (routes.rs), trash and permanent deletion,   *)
(* the reclamation of orphan blobs (library.rs), and the clean-up of       *)
(* commit staging (storage.rs).                                            *)
(*                                                                         *)
(* The state has three layers.  The SQLite rows are durable and every      *)
(* write transaction is one step, except the one of the reclaimer, which   *)
(* unlinks a file while it holds the write lock.  The files are durable    *)
(* and change outside any transaction.  The handlers' local variables are  *)
(* lost by a crash.  A step of a handler is what it does between two       *)
(* awaits that another handler can observe.                                *)
(*                                                                         *)
(* Identities.  BEGIN_COMMIT draws one fresh blob id and one fresh stage   *)
(* name per upload, so the id of a blob row is the upload that proposed it *)
(* and the stage file of an upload is named by the upload.  An asset that  *)
(* is deleted and uploaded again is a new element of Asset.  Objects are   *)
(* content-addressed below the account's storage path.                     *)
(***************************************************************************)
EXTENDS Integers, FiniteSets

CONSTANTS
    Upload,      \* upload sessions, and the blob ids they propose
    Resource,    \* (asset, source_resource_id) keys
    Asset,       \* asset rows
    Content,     \* contents, identified by their BLAKE3 hash
    Path,        \* disjoint storage paths the administrator may assign
    NULL,        \* SQL NULL
    ResourceOf,  \* the resource an upload request names
    AssetOf,     \* the asset a resource belongs to
    ContentOf,   \* the content an upload request declares
    Size,        \* bytes of a content
    Quota,       \* quota_bytes of the account, 0 for no limit
    MaxFaults,   \* bound on crashes, abandoned handlers, failed commits, damage
    MaxMoves     \* bound on changes of the account's storage path

ASSUME RequestAssumption ==
    /\ ResourceOf \in [Upload -> Resource]
    /\ AssetOf \in [Resource -> Asset]
    /\ ContentOf \in [Upload -> Content]

ASSUME NullAssumption == NULL \notin Upload \cup Path \cup Content

ASSUME BoundAssumption == MaxFaults \in Nat /\ MaxMoves \in Nat

ASSUME QuotaAssumption == Quota \in Nat /\ Size \in [Content -> Nat]

VARIABLES
    \* SQLite
    ustate,    \* uploads.commit_state; "none": not created, "gone": deleted
    complete,  \* the uploads whose uploads.state is 'complete'
    commit,    \* uploads.commit_blob_id, _final_key, _account_path, _staged_key
    blobs,     \* blobs.storage_path by blob id, NULL where there is no row
    resource,  \* resources.blob_id, NULL where there is no row
    assets,    \* assets.deleted_at, and whether the row exists
    path,      \* accounts.storage_path
    \* files
    parts,     \* the received parts of an upload, taken together
    stage,     \* the commit stage file of an upload
    object,    \* the final objects
    \* handlers
    pc,        \* where complete_inner stands for an upload
    approved,  \* the blob candidate commit_metadata may accept
    tries,     \* metadata attempts made
    create,    \* the deduplicating create handler of a request
    reclaim,   \* the open transaction of reconcile_orphan_blobs
    sweep,     \* the staging clean-up of reconcile_all
    \* bounds and history
    faults, moves,
    raced      \* contents unlinked while another handler relied on the file

rowVars     == <<ustate, complete, commit>>
libraryVars == <<blobs, resource, assets, path>>
fileVars    == <<parts, stage, object>>
handlerVars == <<pc, approved, tries>>
otherVars   == <<create, reclaim, sweep>>
boundVars   == <<faults, moves, raced>>
vars == <<rowVars, libraryVars, fileVars, handlerVars, otherVars, boundVars>>

-----------------------------------------------------------------------------
FileState == {"absent", "good", "bad"}

\* The parts of an upload: "linked" on disk but not all recorded, recorded and
\* "good" or "bad", or recorded and "lost" with their directory.
PartState == {"absent", "linked", "good", "bad", "lost"}

CommitState == {"none", "receiving", "commit_started", "finalizing",
                "committed", "unknown", "failed", "gone"}

\* Control points of complete_inner, each named after the step it takes next.
Control == {"idle", "load", "begin", "inspect_started", "assemble",
            "assembling", "to_finalizing", "inspect_final", "inspect_stage",
            "publish", "verify_published", "load_candidate",
            "check_candidate", "commit_metadata", "check_actual",
            "remove_stage", "validate_row", "validate_object",
            "mark_unknown", "mark_failed"}

MaxTries == 3

CommitColumns == [blob : Upload \cup {NULL}, final : Path \cup {NULL},
                  account : Path \cup {NULL}, staged : BOOLEAN]

Approval == [blob : Upload \cup {NULL}, final : Path \cup {NULL}]

CreateLocals == [pc : {"idle", "inspect", "upsert"}, blob : Upload \cup {NULL},
                 final : Path \cup {NULL}, account : Path \cup {NULL}]

NoCommit   == [blob |-> NULL, final |-> NULL, account |-> NULL, staged |-> FALSE]
NoApproval == [blob |-> NULL, final |-> NULL]
NoCreate   == [pc |-> "idle", blob |-> NULL, final |-> NULL, account |-> NULL]
NoReclaim  == [blob |-> NULL, unlinked |-> FALSE]
NoSweep    == [pc |-> "idle", path |-> NULL, keys |-> {}]

TypeOK ==
    /\ ustate \in [Upload -> CommitState]
    /\ complete \in SUBSET Upload
    /\ commit \in [Upload -> CommitColumns]
    /\ blobs \in [Upload -> Path \cup {NULL}]
    /\ resource \in [Resource -> Upload \cup {NULL}]
    /\ assets \in [Asset -> {"none", "live", "trashed", "deleted"}]
    /\ path \in Path
    /\ parts \in [Upload -> PartState]
    /\ stage \in [Upload -> FileState]
    /\ object \in [Path \X Content -> FileState]
    /\ pc \in [Upload -> Control]
    /\ approved \in [Upload -> Approval]
    /\ tries \in [Upload -> 0..MaxTries]
    /\ create \in [Upload -> CreateLocals]
    /\ reclaim \in [blob : Upload \cup {NULL}, unlinked : BOOLEAN]
    /\ sweep \in [pc : {"idle", "list", "remove"}, path : Path \cup {NULL},
                  keys : SUBSET Upload]
    /\ faults \in 0..MaxFaults
    /\ moves \in 0..MaxMoves
    /\ raced \in SUBSET Content

-----------------------------------------------------------------------------
AssetOfUpload(u) == AssetOf[ResourceOf[u]]

\* The upload row exists.
Exists(u) == ustate[u] \notin {"none", "gone"}

\* The blob rows of a content; blobs_content_unique_idx allows at most one.
Rows(c) == {b \in Upload : ContentOf[b] = c /\ blobs[b] # NULL}

\* Mutant of WriterFree: the reclaimer would not hold the write lock.
WriterAlwaysFree == TRUE

\* SQLite admits one writer; only the reclaimer holds the lock across steps.
WriterFree == reclaim.blob = NULL

\* Mutants of Orphan: each half of the WHERE clause missing.
OrphanDespiteResources(b) == \A u \in Upload : Exists(u) => commit[u].blob # b
OrphanDespiteUploads(b)   == \A r \in Resource : resource[r] # b

\* No resource and no upload names the row: reconcile_orphan_blobs' WHERE.
Orphan(b) ==
    /\ \A r \in Resource : resource[r] # b
    /\ \A u \in Upload : Exists(u) => commit[u].blob # b

\* Mutant of Inspect: the account's directory is not checked.
InspectAnywhere(account, key, c) == object[<<key, c>>]

\* inspect_object: a key outside the account's directory is an error.
Inspect(account, key, c) ==
    IF key = account THEN object[<<key, c>>] ELSE "error"

\* The sizes of the contents of some uploads, added up: as many as they have bytes.
Bytes(us) == Cardinality(UNION {{u} \X (1..Size[ContentOf[u]]) : u \in us})

UsedBytes == Bytes({b \in Upload : blobs[b] # NULL})

ReservedBytes(states) == Bytes({u \in Upload \ complete : ustate[u] \in states})

Active == {"receiving", "commit_started", "finalizing"}

-----------------------------------------------------------------------------
(* create_upload and the parts *)

InProgress(u) ==
    {v \in Upload : /\ ResourceOf[v] = ResourceOf[u]
                    /\ ContentOf[v] = ContentOf[u]
                    /\ v \notin complete
                    /\ ustate[v] \in Active}

\* The asset upsert creates the row or takes it out of the trash.
UpsertAsset(a) ==
    /\ assets[a] # "deleted"
    /\ assets' = [assets EXCEPT ![a] = "live"]

\* Mutant: unknown uploads reserve nothing.
WithinOpenQuota(u) ==
    Quota = 0 \/ UsedBytes + ReservedBytes(Active) + Size[ContentOf[u]] <= Quota

WithinCreateQuota(u) ==
    \/ Quota = 0
    \/ UsedBytes + ReservedBytes(Active \cup {"unknown"}) + Size[ContentOf[u]] <= Quota

CreateUpload(u) ==
    /\ WriterFree
    /\ ustate[u] = "none"
    /\ Rows(ContentOf[u]) = {}
    /\ InProgress(u) = {}
    /\ WithinCreateQuota(u)
    /\ UpsertAsset(AssetOfUpload(u))
    /\ ustate' = [ustate EXCEPT ![u] = "receiving"]
    /\ UNCHANGED <<complete, commit, blobs, resource, path, fileVars,
                   handlerVars, otherVars, boundVars>>

\* The same request again while its upload is open: the upload is handed back.
ResumeUpload(u) ==
    /\ WriterFree
    /\ Rows(ContentOf[u]) = {}
    /\ InProgress(u) # {}
    /\ UpsertAsset(AssetOfUpload(u))
    /\ UNCHANGED <<rowVars, blobs, resource, path, fileVars, handlerVars,
                   otherVars, boundVars>>

\* The account already has the content: the first transaction commits only
\* the asset, the object is inspected, a second transaction adds the resource.
DedupFound(u) ==
    /\ WriterFree
    /\ create[u].pc = "idle"
    /\ UpsertAsset(AssetOfUpload(u))
    /\ \E b \in Rows(ContentOf[u]) :
         create' = [create EXCEPT ![u] =
             [pc |-> "inspect", blob |-> b, final |-> blobs[b], account |-> path]]
    /\ UNCHANGED <<rowVars, blobs, resource, path, fileVars, handlerVars,
                   reclaim, sweep, boundVars>>

DedupInspect(u) ==
    /\ create[u].pc = "inspect"
    /\ LET c == create[u]
       IN  create' = [create EXCEPT ![u] =
             IF Inspect(c.account, c.final, ContentOf[u]) = "good"
             THEN [c EXCEPT !.pc = "upsert"] ELSE NoCreate]
    /\ UNCHANGED <<rowVars, libraryVars, fileVars, handlerVars, reclaim, sweep,
                   boundVars>>

\* Mutant of DedupUpsert: the asset is not checked again.
DedupUpsertBlindly(u) ==
    /\ WriterFree
    /\ create[u].pc = "upsert"
    /\ create' = [create EXCEPT ![u] = NoCreate]
    /\ resource' = IF blobs[create[u].blob] # NULL
                   THEN [resource EXCEPT ![ResourceOf[u]] = create[u].blob]
                   ELSE resource
    /\ UNCHANGED <<rowVars, blobs, assets, path, fileVars, handlerVars, reclaim,
                   sweep, boundVars>>

\* The foreign keys refuse a blob or an asset that has been deleted meanwhile.
DedupUpsert(u) ==
    /\ WriterFree
    /\ create[u].pc = "upsert"
    /\ create' = [create EXCEPT ![u] = NoCreate]
    /\ resource' =
         IF blobs[create[u].blob] # NULL /\ assets[AssetOfUpload(u)] # "deleted"
         THEN [resource EXCEPT ![ResourceOf[u]] = create[u].blob]
         ELSE resource
    /\ UNCHANGED <<rowVars, blobs, assets, path, fileVars, handlerVars, reclaim,
                   sweep, boundVars>>

\* Storage::put_part links the files of the parts.  Its request has found the
\* upload receiving, but much may have happened to the upload since; PartStore
\* looks inside this step.
LinkParts(u) ==
    /\ ustate[u] # "none"
    /\ parts[u] \in {"absent", "lost"}
    /\ parts' = [parts EXCEPT ![u] = IF @ = "absent" THEN "linked" ELSE "good"]
    /\ UNCHANGED <<rowVars, libraryVars, stage, object, handlerVars, otherVars,
                   boundVars>>

\* The put_part handler then records them; if it never comes to that, the files
\* wait for a part to be sent again.
RecordParts(u) ==
    /\ WriterFree
    /\ Exists(u)
    /\ parts[u] = "linked"
    /\ parts' = [parts EXCEPT ![u] = "good"]
    /\ UNCHANGED <<rowVars, libraryVars, stage, object, handlerVars, otherVars,
                   boundVars>>

-----------------------------------------------------------------------------
(* complete_inner: one handler at a time per upload, under its commit lock *)

Goto(u, label) == pc' = [pc EXCEPT ![u] = label]

\* The metadata loop's locals go with it.
DropLocals(u) ==
    /\ approved' = [approved EXCEPT ![u] = NoApproval]
    /\ tries' = [tries EXCEPT ![u] = 0]

\* A client's POST complete, a retry of it, or the turn of the upload in a
\* pass of reconcile_all.
Enter(u) ==
    /\ pc[u] = "idle"
    /\ Exists(u)
    /\ Goto(u, "load")
    /\ DropLocals(u)
    /\ UNCHANGED <<rowVars, libraryVars, fileVars, otherVars, boundVars>>

\* Mutant of Started: the periodic pass overlooks finalizing uploads.
StartedOrDone(u) == ustate[u] \in {"commit_started", "committed"}

Started(u) == ustate[u] \in {"commit_started", "finalizing", "committed"}

\* load_commit, the dispatch on commit_state and ready_commit.
Load(u) ==
    /\ pc[u] = "load"
    /\ LET here == commit[u].account = path
       IN  Goto(u, CASE ustate[u] = "receiving" -> "begin"
                     [] ustate[u] = "commit_started" /\ here -> "inspect_started"
                     [] ustate[u] = "finalizing" /\ here -> "inspect_final"
                     [] ustate[u] = "committed" /\ here -> "validate_row"
                     [] Started(u) /\ ~here -> "mark_unknown"
                     [] OTHER -> "idle")
    /\ UNCHANGED <<rowVars, libraryVars, fileVars, approved, tries, otherVars,
                   boundVars>>

WithinCommitQuota ==
    Quota = 0 \/ UsedBytes + ReservedBytes(Active) <= Quota

\* Mutant of Recorded: the parts on disk are counted, not the receipts.
OnDisk(u) == parts[u] # "absent"

\* No upload_parts row is without received_at.
Recorded(u) == parts[u] \notin {"absent", "linked"}

\* begin_commit: an existing blob makes the upload a finalizing duplicate,
\* otherwise the commit keys are fixed under the current storage path.
Begin(u) ==
    /\ pc[u] = "begin"
    /\ WriterFree
    /\ IF ustate[u] # "receiving" \/ ~Recorded(u)
       THEN Goto(u, "idle") /\ UNCHANGED <<ustate, commit>>
       ELSE \/ \E b \in Rows(ContentOf[u]) :
                 /\ ustate' = [ustate EXCEPT ![u] = "finalizing"]
                 /\ commit' = [commit EXCEPT ![u] =
                      [blob |-> b, final |-> blobs[b], account |-> path,
                       staged |-> FALSE]]
                 /\ Goto(u, "load")
            \/ /\ Rows(ContentOf[u]) = {}
               /\ WithinCommitQuota
               /\ ustate' = [ustate EXCEPT ![u] = "commit_started"]
               /\ commit' = [commit EXCEPT ![u] =
                    [blob |-> u, final |-> path, account |-> path, staged |-> TRUE]]
               /\ Goto(u, "load")
            \/ /\ Rows(ContentOf[u]) = {}
               /\ ~WithinCommitQuota
               /\ Goto(u, "idle")
               /\ UNCHANGED <<ustate, commit>>
    /\ UNCHANGED <<complete, libraryVars, fileVars, approved, tries, otherVars,
                   boundVars>>

FinalState(u) == Inspect(commit[u].account, commit[u].final, ContentOf[u])

InspectStarted(u) ==
    /\ pc[u] = "inspect_started"
    /\ Goto(u, CASE FinalState(u) = "good" -> "to_finalizing"
                 [] FinalState(u) = "absent" -> "assemble"
                 [] OTHER -> "mark_unknown")
    /\ UNCHANGED <<rowVars, libraryVars, fileVars, approved, tries, otherVars,
                   boundVars>>

\* assemble_commit: keep a verified stage, otherwise start a new one.
Assemble(u) ==
    /\ pc[u] = "assemble"
    /\ IF stage[u] = "good"
       THEN Goto(u, "to_finalizing") /\ UNCHANGED stage
       ELSE Goto(u, "assembling") /\ stage' = [stage EXCEPT ![u] = "bad"]
    /\ UNCHANGED <<rowVars, libraryVars, parts, object, approved, tries,
                   otherVars, boundVars>>

\* Mutant of FinishAssembly: parts that do not give the content are assembled again.
FinishAssemblyAgain(u) ==
    /\ pc[u] = "assembling"
    /\ IF parts[u] = "good"
       THEN /\ Goto(u, "to_finalizing")
            /\ stage' = [stage EXCEPT ![u] = IF @ = "absent" THEN @ ELSE "good"]
       ELSE Goto(u, "assemble") /\ stage' = [stage EXCEPT ![u] = "absent"]
    /\ UNCHANGED <<rowVars, libraryVars, parts, object, approved, tries,
                   otherVars, boundVars>>

\* The parts are read again.  A stage unlinked meanwhile stays unlinked: the
\* bytes and the fsync go to the open file.
FinishAssembly(u) ==
    /\ pc[u] = "assembling"
    /\ IF parts[u] = "good"
       THEN /\ Goto(u, "to_finalizing")
            /\ stage' = [stage EXCEPT ![u] = IF @ = "absent" THEN @ ELSE "good"]
       ELSE Goto(u, "mark_failed") /\ stage' = [stage EXCEPT ![u] = "absent"]
    /\ UNCHANGED <<rowVars, libraryVars, parts, object, approved, tries,
                   otherVars, boundVars>>

\* Mutant of ToFinalizing: the next pass is to do the rest.
ToFinalizingOnly(u) ==
    /\ pc[u] = "to_finalizing"
    /\ WriterFree
    /\ ustate' = [ustate EXCEPT ![u] = IF @ = "commit_started" THEN "finalizing" ELSE @]
    /\ Goto(u, "idle")
    /\ UNCHANGED <<complete, commit, libraryVars, fileVars, approved, tries,
                   otherVars, boundVars>>

ToFinalizing(u) ==
    /\ pc[u] = "to_finalizing"
    /\ WriterFree
    /\ IF ustate[u] = "commit_started"
       THEN /\ ustate' = [ustate EXCEPT ![u] = "finalizing"]
            /\ Goto(u, "inspect_final")
       ELSE Goto(u, "idle") /\ UNCHANGED ustate
    /\ UNCHANGED <<complete, commit, libraryVars, fileVars, approved, tries,
                   otherVars, boundVars>>

InspectFinal(u) ==
    /\ pc[u] = "inspect_final"
    /\ Goto(u, CASE FinalState(u) = "good" -> "load_candidate"
                 [] FinalState(u) = "absent" /\ commit[u].staged -> "inspect_stage"
                 [] OTHER -> "mark_unknown")
    /\ UNCHANGED <<rowVars, libraryVars, fileVars, approved, tries, otherVars,
                   boundVars>>

InspectStage(u) ==
    /\ pc[u] = "inspect_stage"
    /\ Goto(u, IF stage[u] = "good" THEN "publish" ELSE "mark_unknown")
    /\ UNCHANGED <<rowVars, libraryVars, fileVars, approved, tries, otherVars,
                   boundVars>>

FinalKey(u) == <<commit[u].final, ContentOf[u]>>

\* link_no_replace: an existing object wins, a missing stage is an error.
Publish(u) ==
    /\ pc[u] = "publish"
    /\ IF stage[u] = "good"
       THEN /\ object' = [object EXCEPT ![FinalKey(u)] =
                            IF @ = "absent" THEN stage[u] ELSE @]
            /\ Goto(u, "verify_published")
       ELSE Goto(u, "mark_unknown") /\ UNCHANGED object
    /\ UNCHANGED <<rowVars, libraryVars, parts, stage, approved, tries,
                   otherVars, boundVars>>

VerifyPublished(u) ==
    /\ pc[u] = "verify_published"
    /\ Goto(u, IF FinalState(u) = "good" THEN "load_candidate" ELSE "mark_unknown")
    /\ UNCHANGED <<rowVars, libraryVars, fileVars, approved, tries, otherVars,
                   boundVars>>

-----------------------------------------------------------------------------
(* commit_metadata_with_race_retry *)

Candidate(b) == [blob |-> b, final |-> blobs[b]]

LoadCandidate(u) ==
    /\ pc[u] = "load_candidate"
    /\ IF Rows(ContentOf[u]) = {}
       THEN Goto(u, "commit_metadata") /\ UNCHANGED approved
       ELSE /\ Goto(u, "check_candidate")
            /\ \E b \in Rows(ContentOf[u]) :
                 approved' = [approved EXCEPT ![u] = Candidate(b)]
    /\ UNCHANGED <<rowVars, libraryVars, fileVars, tries, otherVars, boundVars>>

\* validate_blob_candidate, before the transaction or after it found another
\* row; the latter uses up one of the attempts.
CheckCandidate(u) ==
    /\ pc[u] \in {"check_candidate", "check_actual"}
    /\ LET late == pc[u] = "check_actual"
           good == Inspect(commit[u].account, approved[u].final, ContentOf[u]) = "good"
       IN  \/ /\ good /\ ~late
              /\ Goto(u, "commit_metadata")
              /\ UNCHANGED <<approved, tries>>
           \/ /\ good /\ late
              /\ Goto(u, IF tries[u] < MaxTries THEN "load_candidate" ELSE "idle")
              /\ UNCHANGED <<approved, tries>>
           \/ /\ ~good
              /\ Goto(u, "mark_unknown")
              /\ DropLocals(u)
    /\ UNCHANGED <<rowVars, libraryVars, fileVars, otherVars, boundVars>>

\* The row commit_metadata reads back after INSERT ... ON CONFLICT DO NOTHING.
ActualRow(u) ==
    IF Rows(ContentOf[u]) = {}
    THEN [blob |-> commit[u].blob, final |-> commit[u].final]
    ELSE Candidate(CHOOSE b \in Rows(ContentOf[u]) : TRUE)

\* One transaction: the blob row, the resource and the upload's new state.
CommitMetadata(u) ==
    /\ pc[u] = "commit_metadata"
    /\ WriterFree
    /\ LET actual == ActualRow(u)
           mine   == [blob |-> commit[u].blob, final |-> commit[u].final]
       IN  \/ /\ commit[u].account # path
              /\ Goto(u, "mark_unknown")
              /\ DropLocals(u)
              /\ UNCHANGED <<rowVars, blobs, resource>>
           \/ /\ commit[u].account = path
              /\ actual \notin {mine, approved[u]}
              /\ Goto(u, "check_actual")
              /\ approved' = [approved EXCEPT ![u] = actual]
              /\ tries' = [tries EXCEPT ![u] = @ + 1]
              /\ UNCHANGED <<rowVars, blobs, resource>>
           \/ /\ commit[u].account = path
              /\ actual \in {mine, approved[u]}
              /\ ustate[u] # "finalizing"  \* deleted with its asset: rollback
              /\ Goto(u, "idle")
              /\ DropLocals(u)
              /\ UNCHANGED <<rowVars, blobs, resource>>
           \/ /\ commit[u].account = path
              /\ actual \in {mine, approved[u]}
              /\ ustate[u] = "finalizing"
              /\ blobs' = [blobs EXCEPT ![actual.blob] = actual.final]
              /\ resource' = [resource EXCEPT ![ResourceOf[u]] = actual.blob]
              /\ ustate' = [ustate EXCEPT ![u] = "committed"]
              /\ complete' = complete \cup {u}
              /\ commit' = [commit EXCEPT ![u].blob = actual.blob,
                                          ![u].final = actual.final]
              /\ Goto(u, IF commit[u].staged THEN "remove_stage" ELSE "idle")
              /\ DropLocals(u)
    /\ UNCHANGED <<assets, path, fileVars, otherVars, boundVars>>

RemoveStage(u) ==
    /\ pc[u] = "remove_stage"
    /\ stage' = [stage EXCEPT ![u] = "absent"]
    /\ Goto(u, "idle")
    /\ UNCHANGED <<rowVars, libraryVars, parts, object, approved, tries,
                   otherVars, boundVars>>

-----------------------------------------------------------------------------
(* validate_committed, and the two terminal marks *)

\* Mutant of ValidateRow: the upload's own blob id instead of the one it committed with.
ValidateOwnRow(u) ==
    /\ pc[u] = "validate_row"
    /\ Goto(u, IF /\ resource[ResourceOf[u]] = u
                  /\ blobs[u] = commit[u].final
               THEN "validate_object" ELSE "mark_unknown")
    /\ UNCHANGED <<rowVars, libraryVars, fileVars, approved, tries, otherVars,
                   boundVars>>

ValidateRow(u) ==
    /\ pc[u] = "validate_row"
    /\ Goto(u, IF /\ resource[ResourceOf[u]] = commit[u].blob
                  /\ blobs[commit[u].blob] = commit[u].final
               THEN "validate_object" ELSE "mark_unknown")
    /\ UNCHANGED <<rowVars, libraryVars, fileVars, approved, tries, otherVars,
                   boundVars>>

ValidateObject(u) ==
    /\ pc[u] = "validate_object"
    /\ Goto(u, CASE FinalState(u) # "good" -> "mark_unknown"
                 [] FinalState(u) = "good" /\ commit[u].staged -> "remove_stage"
                 [] OTHER -> "idle")
    /\ UNCHANGED <<rowVars, libraryVars, fileVars, approved, tries, otherVars,
                   boundVars>>

\* Mutants of MarkUnknown: a state the schema does not know; an upsert in
\* place of the update, which revives a deleted upload.
MarkLost(u) ==
    /\ pc[u] = "mark_unknown"
    /\ WriterFree
    /\ ustate' = [ustate EXCEPT ![u] = "lost"]
    /\ Goto(u, "idle")
    /\ UNCHANGED <<complete, commit, libraryVars, fileVars, approved, tries,
                   otherVars, boundVars>>

MarkUnknownBlindly(u) ==
    /\ pc[u] = "mark_unknown"
    /\ WriterFree
    /\ ustate' = [ustate EXCEPT ![u] = "unknown"]
    /\ Goto(u, "idle")
    /\ UNCHANGED <<complete, commit, libraryVars, fileVars, approved, tries,
                   otherVars, boundVars>>

MarkUnknown(u) ==
    /\ pc[u] = "mark_unknown"
    /\ WriterFree
    /\ ustate' = [ustate EXCEPT ![u] = IF Exists(u) THEN "unknown" ELSE @]
    /\ Goto(u, "idle")
    /\ UNCHANGED <<complete, commit, libraryVars, fileVars, approved, tries,
                   otherVars, boundVars>>

MarkFailed(u) ==
    /\ pc[u] = "mark_failed"
    /\ WriterFree
    /\ ustate' = [ustate EXCEPT ![u] = IF Exists(u) THEN "failed" ELSE @]
    /\ Goto(u, "idle")
    /\ UNCHANGED <<complete, commit, libraryVars, fileVars, approved, tries,
                   otherVars, boundVars>>

-----------------------------------------------------------------------------
(* The library: trash, restore, permanent deletion *)

Trash(a) ==
    /\ WriterFree
    /\ assets[a] \in {"live", "trashed"}
    /\ assets' = [assets EXCEPT ![a] = "trashed"]
    /\ UNCHANGED <<rowVars, blobs, resource, path, fileVars, handlerVars,
                   otherVars, boundVars>>

Restore(a) ==
    /\ WriterFree
    /\ assets[a] \in {"live", "trashed"}
    /\ assets' = [assets EXCEPT ![a] = "live"]
    /\ UNCHANGED <<rowVars, blobs, resource, path, fileVars, handlerVars,
                   otherVars, boundVars>>

\* Deletes the asset with its resources and, by the schema's cascade, its
\* uploads; a commit in flight keeps only what it has loaded.
DeletePermanently(a) ==
    /\ WriterFree
    /\ assets[a] = "trashed"
    /\ \E r \in Resource : AssetOf[r] = a /\ resource[r] # NULL
    /\ assets' = [assets EXCEPT ![a] = "deleted"]
    /\ resource' = [r \in Resource |-> IF AssetOf[r] = a THEN NULL ELSE resource[r]]
    /\ ustate' = [u \in Upload |->
         IF AssetOfUpload(u) = a /\ Exists(u) THEN "gone" ELSE ustate[u]]
    /\ UNCHANGED <<complete, commit, blobs, path, fileVars, handlerVars,
                   otherVars, boundVars>>

-----------------------------------------------------------------------------
(* reconcile_orphan_blobs: run by a permanent deletion, at start-up and    *)
(* every two minutes.  Its first query only chooses candidates; the DELETE *)
(* repeats the condition under the write lock.                             *)

ReclaimDelete(b) ==
    /\ WriterFree
    /\ blobs[b] # NULL
    /\ Orphan(b)
    /\ reclaim' = [blob |-> b, unlinked |-> FALSE]
    /\ UNCHANGED <<rowVars, libraryVars, fileVars, handlerVars, create, sweep,
                   boundVars>>

\* The commit handlers that have seen the object and rely on it, and the
\* create handlers that do.
Relying(k) ==
    \/ \E u \in Upload : /\ pc[u] \in {"load_candidate", "check_candidate",
                                       "commit_metadata", "check_actual"}
                         /\ FinalKey(u) = k
    \/ \E u \in Upload : /\ create[u].pc = "upsert"
                         /\ <<create[u].final, ContentOf[u]>> = k

\* remove_blob refuses a key outside the account's present directory.
ReclaimUnlink ==
    /\ reclaim.blob # NULL
    /\ ~reclaim.unlinked
    /\ LET b == reclaim.blob
           k == <<blobs[b], ContentOf[b]>>
       IN  IF blobs[b] = path
           THEN /\ object' = [object EXCEPT ![k] = "absent"]
                /\ reclaim' = [reclaim EXCEPT !.unlinked = TRUE]
                /\ raced' = IF Relying(k) THEN raced \cup {ContentOf[b]} ELSE raced
           ELSE reclaim' = NoReclaim /\ UNCHANGED <<object, raced>>
    /\ UNCHANGED <<rowVars, libraryVars, parts, stage, handlerVars, create,
                   sweep, faults, moves>>

\* Mutant of ReclaimCommit: the transaction is dropped without a commit.
ReclaimForget ==
    /\ reclaim.blob # NULL
    /\ reclaim.unlinked
    /\ reclaim' = NoReclaim
    /\ UNCHANGED <<rowVars, libraryVars, fileVars, handlerVars, create, sweep,
                   boundVars>>

ReclaimCommit ==
    /\ reclaim.blob # NULL
    /\ reclaim.unlinked
    /\ blobs' = [blobs EXCEPT ![reclaim.blob] = NULL]
    /\ reclaim' = NoReclaim
    /\ UNCHANGED <<rowVars, resource, assets, path, fileVars, handlerVars,
                   create, sweep, boundVars>>

-----------------------------------------------------------------------------
(* cleanup_orphan_staging at the end of reconcile_all: the referenced keys *)
(* are read first, the directory is listed afterwards.                     *)

\* Mutant of SweepRead: the stages of deleted uploads count as referenced.
SweepReadAll ==
    /\ sweep.pc = "idle"
    /\ sweep' = [pc |-> "list", path |-> path, keys |-> {u \in Upload : commit[u].staged}]
    /\ UNCHANGED <<rowVars, libraryVars, fileVars, handlerVars, create, reclaim,
                   boundVars>>

SweepRead ==
    /\ sweep.pc = "idle"
    /\ sweep' = [pc |-> "list", path |-> path,
                 keys |-> {u \in Upload : Exists(u) /\ commit[u].staged}]
    /\ UNCHANGED <<rowVars, libraryVars, fileVars, handlerVars, create, reclaim,
                   boundVars>>

SweepList ==
    /\ sweep.pc = "list"
    /\ sweep' = [sweep EXCEPT !.pc = "remove",
         !.keys = {u \in Upload \ sweep.keys :
                     stage[u] # "absent" /\ commit[u].account = sweep.path}]
    /\ UNCHANGED <<rowVars, libraryVars, fileVars, handlerVars, create, reclaim,
                   boundVars>>

SweepRemove(u) ==
    /\ sweep.pc = "remove"
    /\ u \in sweep.keys
    /\ stage' = [stage EXCEPT ![u] = "absent"]
    /\ sweep' = [sweep EXCEPT !.keys = @ \ {u}]
    /\ UNCHANGED <<rowVars, libraryVars, parts, object, handlerVars, create,
                   reclaim, boundVars>>

SweepEnd ==
    /\ sweep.pc = "remove"
    /\ sweep.keys = {}
    /\ sweep' = NoSweep
    /\ UNCHANGED <<rowVars, libraryVars, fileVars, handlerVars, create, reclaim,
                   boundVars>>

-----------------------------------------------------------------------------
(* The administrator, and what can go wrong *)

\* update_user assigns another storage path; nothing is moved on disk.
MoveAccount(p) ==
    /\ WriterFree
    /\ moves < MaxMoves
    /\ p # path
    /\ path' = p
    /\ moves' = moves + 1
    /\ UNCHANGED <<rowVars, blobs, resource, assets, fileVars, handlerVars,
                   otherVars, faults, raced>>

Fault == faults < MaxFaults /\ faults' = faults + 1

\* The client disconnects and its handler is dropped, or a step fails with an
\* I/O or busy error, or begin_commit refuses a disabled account: nothing is
\* written, and dropping TemporaryPart removes an unfinished stage.
Abandon(u) ==
    /\ Fault
    /\ pc[u] # "idle"
    /\ Goto(u, "idle")
    /\ DropLocals(u)
    /\ stage' = IF pc[u] = "assembling" THEN [stage EXCEPT ![u] = "absent"] ELSE stage
    /\ UNCHANGED <<rowVars, libraryVars, parts, object, otherVars, moves, raced>>

\* The unlink or the COMMIT fails, or the handler is dropped: rollback.
ReclaimRollback ==
    /\ Fault
    /\ reclaim.blob # NULL
    /\ reclaim' = NoReclaim
    /\ UNCHANGED <<rowVars, libraryVars, fileVars, handlerVars, create, sweep,
                   moves, raced>>

\* What a power failure takes back with the directory of an upload's parts.
TakenBack(state) == CASE state \in {"good", "bad"} -> "lost"
                      [] state = "linked" -> "absent"
                      [] OTHER -> state

\* The process dies: every handler is lost, open transactions roll back.  If the
\* power has failed, so are the upload directories whose entry was not synced,
\* which PartStore tells.
Crash ==
    /\ Fault
    /\ \E us \in SUBSET {u \in Upload : parts[u] # TakenBack(parts[u])} :
         parts' = [u \in Upload |-> IF u \in us THEN TakenBack(parts[u]) ELSE parts[u]]
    /\ pc' = [u \in Upload |-> "idle"]
    /\ approved' = [u \in Upload |-> NoApproval]
    /\ tries' = [u \in Upload |-> 0]
    /\ create' = [u \in Upload |-> NoCreate]
    /\ reclaim' = NoReclaim
    /\ sweep' = NoSweep
    /\ UNCHANGED <<rowVars, libraryVars, stage, object, moves, raced>>

\* The disk returns other bytes than were written.
DamageParts(u) ==
    /\ Fault
    /\ parts[u] = "good"
    /\ parts' = [parts EXCEPT ![u] = "bad"]
    /\ UNCHANGED <<rowVars, libraryVars, stage, object, handlerVars, otherVars,
                   moves, raced>>

DamageStage(u) ==
    /\ Fault
    /\ stage[u] = "good"
    /\ stage' = [stage EXCEPT ![u] = "bad"]
    /\ UNCHANGED <<rowVars, libraryVars, parts, object, handlerVars, otherVars,
                   moves, raced>>

DamageObject(k) ==
    /\ Fault
    /\ object[k] = "good"
    /\ object' = [object EXCEPT ![k] = "bad"]
    /\ UNCHANGED <<rowVars, libraryVars, parts, stage, handlerVars, otherVars,
                   moves, raced>>

-----------------------------------------------------------------------------
Init ==
    /\ ustate = [u \in Upload |-> "none"]
    /\ complete = {}
    /\ commit = [u \in Upload |-> NoCommit]
    /\ blobs = [b \in Upload |-> NULL]
    /\ resource = [r \in Resource |-> NULL]
    /\ assets = [a \in Asset |-> "none"]
    /\ path \in Path
    /\ parts = [u \in Upload |-> "absent"]
    /\ stage = [u \in Upload |-> "absent"]
    /\ object = [k \in Path \X Content |-> "absent"]
    /\ pc = [u \in Upload |-> "idle"]
    /\ approved = [u \in Upload |-> NoApproval]
    /\ tries = [u \in Upload |-> 0]
    /\ create = [u \in Upload |-> NoCreate]
    /\ reclaim = NoReclaim
    /\ sweep = NoSweep
    /\ faults = 0
    /\ moves = 0
    /\ raced = {}

CreateStep(u) ==
    \/ CreateUpload(u) \/ ResumeUpload(u)
    \/ DedupFound(u) \/ DedupInspect(u) \/ DedupUpsert(u)
    \/ LinkParts(u) \/ RecordParts(u)

\* What a running complete_inner does by itself.
CommitStep(u) ==
    \/ Load(u) \/ Begin(u) \/ InspectStarted(u) \/ Assemble(u)
    \/ FinishAssembly(u) \/ ToFinalizing(u) \/ InspectFinal(u)
    \/ InspectStage(u) \/ Publish(u) \/ VerifyPublished(u)
    \/ LoadCandidate(u) \/ CheckCandidate(u) \/ CommitMetadata(u)
    \/ RemoveStage(u) \/ ValidateRow(u) \/ ValidateObject(u)
    \/ MarkUnknown(u) \/ MarkFailed(u)

LibraryStep(a) == Trash(a) \/ Restore(a) \/ DeletePermanently(a)

ReclaimStep == ReclaimUnlink \/ ReclaimCommit

SweepStep == SweepRead \/ SweepList \/ (\E u \in Upload : SweepRemove(u)) \/ SweepEnd

FaultStep ==
    \/ \E u \in Upload : Abandon(u) \/ DamageParts(u) \/ DamageStage(u)
    \/ \E k \in Path \X Content : DamageObject(k)
    \/ ReclaimRollback
    \/ Crash

Next ==
    \/ \E u \in Upload : CreateStep(u) \/ Enter(u) \/ CommitStep(u)
    \/ \E a \in Asset : LibraryStep(a)
    \/ \E b \in Upload : ReclaimDelete(b)
    \/ ReclaimStep
    \/ SweepStep
    \/ \E p \in Path : MoveAccount(p)
    \/ FaultStep

Spec == Init /\ [][Next]_vars

-----------------------------------------------------------------------------
(* Safety *)

\* The object a library resource points to is gone only if the reclaimer
\* unlinked that content while another handler had already inspected it and
\* not yet written its metadata.  Kills, abandoned handlers, retries, concurrent
\* uploads of one content, staging clean-up and changes of the storage path
\* never lose an acknowledged object, once a published file stays on disk.
ObjectLossNeedsRace ==
    \A r \in Resource :
        LET b == resource[r]
        IN  b # NULL => \/ object[<<blobs[b], ContentOf[b]>>] # "absent"
                        \/ ContentOf[b] \in raced

\* A blob row that an upload has settled on, as a duplicate waiting for its
\* metadata or as a committed upload, stays under the upload's final key.
SettledRowKept ==
    \A u \in Upload :
        \/ ustate[u] = "finalizing" /\ ~commit[u].staged
        \/ ustate[u] = "committed"
        => blobs[commit[u].blob] = commit[u].final

\* Permanent deletion is final: no handler that was in flight when the asset
\* was deleted gives it a resource or an upload again.
DeletionIsFinal ==
    \A u \in Upload :
        assets[AssetOfUpload(u)] = "deleted" =>
            resource[ResourceOf[u]] = NULL /\ ~Exists(u)

\* What is stored and what open uploads may still store stay within the
\* quota, although uploads are admitted one by one and commit in any order.
QuotaRespected ==
    Quota = 0 \/ UsedBytes + ReservedBytes(Active \cup {"unknown"}) <= Quota

-----------------------------------------------------------------------------
(* Action properties *)

CommitOrder ==
    {<<"none", "receiving">>,
     <<"receiving", "commit_started">>, <<"receiving", "finalizing">>,
     <<"commit_started", "finalizing">>, <<"commit_started", "failed">>,
     <<"commit_started", "unknown">>,
     <<"finalizing", "committed">>, <<"finalizing", "unknown">>,
     <<"committed", "unknown">>}

\* An upload only moves forward through the commit states, whatever retries,
\* crashes and passes of the reconciler interleave; its row can only vanish.
CommitStateOrder ==
    [][\A u \in Upload :
         \/ ustate'[u] = ustate[u]
         \/ <<ustate[u], ustate'[u]>> \in CommitOrder
         \/ ustate[u] # "none" /\ ustate'[u] = "gone"]_vars

\* While a commit is open, a complete stage is not removed.
OpenStageKept ==
    [][\A u \in Upload :
         stage[u] = "good" /\ stage'[u] = "absent"
            => ustate[u] \notin {"commit_started", "finalizing"}]_vars

\* The own steps a handler has at most left: what is ahead of its control point,
\* two rounds of dispatch for an upload still to be begun, and the metadata
\* attempts it has not made.
StepsAfter ==
    [idle |-> 0, mark_unknown |-> 1, mark_failed |-> 1, remove_stage |-> 1,
     validate_object |-> 2, validate_row |-> 3,
     commit_metadata |-> 13, check_candidate |-> 14, load_candidate |-> 15,
     check_actual |-> 16, verify_published |-> 16, publish |-> 17,
     inspect_stage |-> 18, inspect_final |-> 19, to_finalizing |-> 20,
     assembling |-> 21, assemble |-> 22, inspect_started |-> 23, load |-> 24,
     begin |-> 25]

StepsLeft(u) ==
    IF pc[u] = "idle" THEN 0
    ELSE StepsAfter[pc[u]] - 4 * tries[u]
         + (IF pc[u] = "load" /\ ustate[u] = "receiving" THEN 2 ELSE 0)

\* A handler of complete_inner comes to its end: whatever other handlers, the
\* reclaimer, deletions and faults do to its upload meanwhile, every step of its
\* own brings it nearer, and no step of others takes it back.
HandlerAdvances ==
    [][\A u \in Upload : pc[u] # "idle" =>
         /\ StepsLeft(u)' <= StepsLeft(u)
         /\ pc'[u] # pc[u] => StepsLeft(u)' < StepsLeft(u)]_vars

\* Another content was requested for the upload's resource, and was stored.
Edited(u) ==
    \E v \in Upload, w \in complete :
        /\ ResourceOf[v] = ResourceOf[u]
        /\ ContentOf[v] # ContentOf[u]
        /\ ContentOf[w] = ContentOf[v]

\* What makes the server doubt an upload it has committed.
Doubtful(u) ==
    \/ Edited(u)
    \/ moves > 0
    \/ object[FinalKey(u)] = "bad"
    \/ ContentOf[u] \in raced

\* When completing a committed upload again does give the same result: it is
\* given up only after an edited version of its resource was stored, a change of
\* the storage path, damage to its object, or the race that loses the object.
CommittedKept ==
    [][\A u \in Upload :
         ustate[u] = "committed" /\ ustate'[u] \notin {"committed", "gone"}
            => Doubtful(u)]_vars

-----------------------------------------------------------------------------
(* Claims of the documentation that the code does not keep *)

\* A resource always has its object.
AckedObjectPresent ==
    \A r \in Resource :
        resource[r] # NULL => object[<<blobs[resource[r]], ContentOf[resource[r]]>>] # "absent"

\* Completing a committed upload again gives the same result until its asset
\* is deleted.
CommittedStays ==
    [][\A u \in Upload :
         ustate[u] = "committed" => ustate'[u] \in {"committed", "gone"}]_vars

=============================================================================
