------------------------------- MODULE Doctor -------------------------------
(***************************************************************************)
(* The audit of `media-backup-server doctor' (doctor.rs): the rows and the *)
(* files of an instance whose server is stopped or was killed, at any      *)
(* step.  Each set below is what one of its checks refuses; the audit      *)
(* stops at the first that is not empty.  It changes nothing: the probes   *)
(* roll back and remove what they write.                                   *)
(***************************************************************************)
EXTENDS UploadCommit

VARIABLES
    reclaimed,  \* history: contents whose object was unlinked
    swept       \* history: uploads whose stage the clean-up removed

Sessions == {u \in Upload : Exists(u)}

UnknownUploads == {u \in Sessions : ustate[u] = "unknown"}

\* A committed upload is joined with its blob, its resource and its account.
BrokenCommitted ==
    {u \in Sessions :
        /\ ustate[u] = "committed"
        /\ \/ u \notin complete
           \/ NULL \in {commit[u].blob, commit[u].final, commit[u].account}
           \/ blobs[commit[u].blob] # commit[u].final
           \/ resource[ResourceOf[u]] # commit[u].blob
           \/ commit[u].account # path}

OrphanRows == {b \in Upload : blobs[b] # NULL /\ Orphan(b)}

\* The rows whose file is not the declared one, or not below the account's path.
WrongObjects ==
    {b \in Upload : blobs[b] # NULL /\ Inspect(path, blobs[b], ContentOf[b]) # "good"}

\* Mutant of NoObject: a finalizing upload is expected to have its stage.
NoStage(u) == ustate[u] = "finalizing" /\ stage[u] # "good"

\* A finalizing upload whose bytes are neither staged nor published.
NoObject(u) ==
    /\ ustate[u] = "finalizing"
    /\ ~(commit[u].staged /\ stage[u] = "good")
    /\ object[FinalKey(u)] # "good"

\* validate_active_commits, for the commits that a start would go on with.
StuckCommits ==
    {u \in Sessions :
        /\ ustate[u] \in {"commit_started", "finalizing"}
        /\ \/ commit[u].account # path
           \/ commit[u].blob = NULL
           \/ commit[u].final # path
           \/ ustate[u] = "commit_started" /\ ~commit[u].staged
           \/ commit[u].staged /\ stage[u] = "bad"
           \/ object[FinalKey(u)] = "bad"
           \/ NoObject(u)}

\* The recorded parts are on disk with their declared bytes, and no others are;
\* what a deleted upload left there is recorded nowhere.
WrongParts ==
    {u \in Sessions : parts[u] \in {"linked", "bad", "lost"}}
    \cup {u \in Upload \ Sessions : parts[u] \notin {"absent", "lost"}}

-----------------------------------------------------------------------------
DoctorInit == Init /\ reclaimed = {} /\ swept = {}

Unlinks ==
    reclaimed' = IF reclaim'.unlinked /\ ~reclaim.unlinked
                 THEN reclaimed \cup {ContentOf[reclaim.blob]} ELSE reclaimed

Sweeps ==
    swept' = IF sweep' # sweep THEN swept \cup {u \in Upload : stage'[u] # stage[u]} ELSE swept

DoctorSpec == DoctorInit /\ [][Next /\ Unlinks /\ Sweeps]_<<vars, reclaimed, swept>>

-----------------------------------------------------------------------------
\* An edited version of the resource has taken over.
Superseded(u) ==
    LET b == resource[ResourceOf[u]]
    IN  b # NULL /\ ContentOf[b] # ContentOf[u]

\* The process died in the middle of assembling the stage, or the disk damaged it.
HalfStaged(u) == ustate[u] = "commit_started" /\ stage[u] = "bad"

\* On a disk that keeps its bytes, and with a storage path that never changed,
\* a server killed at any step leaves an instance the doctor accepts, except
\* for what a start of the server repairs (rows to reclaim, a stage to be
\* assembled again), for uploads the server itself gave up, for the parts in a
\* directory that a power failure took back, and for what ordinary use leaves
\* behind: parts linked but not yet recorded, of an upload whose commit has not
\* begun, the parts of deleted uploads, committed uploads an edited version has
\* superseded, and uploads that lost the object of their content to the
\* reclaimer, or their stage to the clean-up, while they were finalizing.
DoctorExplained ==
    moves = 0 =>
        /\ \A u \in BrokenCommitted : Superseded(u)
        /\ \A b \in WrongObjects \ OrphanRows :
              \/ object[<<path, ContentOf[b]>>] = "bad"
              \/ ContentOf[b] \in raced
              \/ /\ faults > 0 /\ ContentOf[b] \in reclaimed
                 /\ \A r \in Resource : resource[r] # b
        /\ \A u \in StuckCommits :
              \/ HalfStaged(u)
              \/ object[FinalKey(u)] = "bad" \/ stage[u] = "bad"
              \/ object[FinalKey(u)] = "absent" /\ ContentOf[u] \in reclaimed
              \/ u \in swept
        /\ \A u \in WrongParts :
              \/ ustate[u] = "gone"
              \/ parts[u] = "linked" /\ ustate[u] = "receiving"
              \/ parts[u] = "lost" /\ faults > 0
              \/ parts[u] = "bad"

=============================================================================
