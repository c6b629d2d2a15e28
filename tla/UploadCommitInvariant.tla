----------------------- MODULE UploadCommitInvariant ------------------------
(***************************************************************************)
(* The inductive invariant behind the safety properties of UploadCommit.   *)
(*                                                                         *)
(* ObjectLossNeedsRace is not inductive: a resource gets its blob from a   *)
(* handler's local variables, so the invariant has to say what a handler   *)
(* knows about the object it is going to point to (CommitRelies,           *)
(* CreateRelies, ApprovalChecked), that the rows it has in mind have not   *)
(* been replaced by others (FreshBlobUnused, SettledRowKept), and that the     *)
(* reclaimer only holds rows nobody points to (ReclaimOrphan).             *)
(* KeptInv adds what CommittedKept needs of the columns and of who stored  *)
(* what.                                                                   *)
(***************************************************************************)
EXTENDS UploadCommit

MetadataLoop == {"load_candidate", "check_candidate", "commit_metadata", "check_actual"}

\* commit_metadata is attempted at most MaxTries times.
AttemptsLeft ==
    \A u \in Upload :
        /\ pc[u] \notin MetadataLoop \cup {"idle"} => tries[u] = 0
        /\ pc[u] \in MetadataLoop \ {"check_actual"} => tries[u] < MaxTries

TypeInv == TypeOK /\ AttemptsLeft

OneRowPerContent ==
    \A a, b \in Upload :
        blobs[a] # NULL /\ blobs[b] # NULL /\ ContentOf[a] = ContentOf[b] => a = b

ResourceHasRow ==
    \A r \in Resource : resource[r] # NULL => blobs[resource[r]] # NULL

ReclaimOrphan ==
    reclaim.blob # NULL => blobs[reclaim.blob] # NULL /\ Orphan(reclaim.blob)

\* The commit columns are filled in from the start of the commit on.
ColumnsSet(u) ==
    /\ commit[u].blob # NULL
    /\ commit[u].final # NULL
    /\ commit[u].account # NULL
    /\ ContentOf[commit[u].blob] = ContentOf[u]

ColumnsByState ==
    \A u \in Upload :
        /\ ustate[u] \in {"commit_started", "finalizing", "committed"} => ColumnsSet(u)
        /\ ustate[u] = "commit_started" => commit[u].staged
        /\ ustate[u] \in {"commit_started", "finalizing"} /\ commit[u].staged
             => commit[u].blob = u

ColumnsByControl ==
    \A u \in Upload :
        pc[u] \notin {"idle", "load", "begin", "mark_unknown", "mark_failed"}
            => ColumnsSet(u)

\* As long as an upload has not committed under its own blob id, nobody
\* knows that id.
FreshBlobUnused ==
    \A b \in Upload :
        \/ ustate[b] \in {"none", "receiving"}
        \/ ustate[b] \in {"commit_started", "finalizing"} /\ commit[b].staged
        => /\ blobs[b] = NULL
           /\ \A u \in Upload : create[u].blob # b /\ (u # b => commit[u].blob # b)

Present(k) == object[k] # "absent" \/ k[2] \in raced

CommitRelies ==
    \A u \in Upload :
        pc[u] \in MetadataLoop =>
            commit[u].final = commit[u].account /\ Present(FinalKey(u))

\* A candidate that has been checked lies in the upload's account directory.
ApprovalChecked ==
    \A u \in Upload :
        /\ pc[u] \notin MetadataLoop \cup {"idle"} => approved[u] = NoApproval
        /\ pc[u] \in {"load_candidate", "commit_metadata"} /\ approved[u] # NoApproval
             => approved[u].final = commit[u].account

CreateRelies ==
    \A u \in Upload :
        create[u].pc # "idle" =>
            /\ create[u].blob # NULL
            /\ create[u].final # NULL
            /\ ContentOf[create[u].blob] = ContentOf[u]
            /\ blobs[create[u].blob] \in {NULL, create[u].final}
            /\ create[u].pc = "upsert" => Present(<<create[u].final, ContentOf[u]>>)

\* How rows, files and handlers are tied together.
LinkInv ==
    /\ OneRowPerContent
    /\ ResourceHasRow
    /\ ReclaimOrphan
    /\ ColumnsByState
    /\ ColumnsByControl
    /\ FreshBlobUnused
    /\ SettledRowKept
    /\ CommitRelies
    /\ ApprovalChecked
    /\ CreateRelies
    /\ DeletionIsFinal
    /\ ObjectLossNeedsRace

\* What a handler knows of the state of its upload, whose row can vanish at
\* any time but is otherwise changed by this handler alone.
StateByControl ==
    \A u \in Upload :
        /\ pc[u] # "idle" => ustate[u] # "none"
        /\ pc[u] \in {"inspect_started", "assemble", "assembling", "to_finalizing",
                      "mark_failed"}
             => ustate[u] \in {"commit_started", "gone"}
        /\ pc[u] \in {"inspect_final", "inspect_stage", "publish", "verify_published"}
                     \cup MetadataLoop
             => ustate[u] \in {"finalizing", "gone"}
        /\ pc[u] \in {"remove_stage", "validate_row", "validate_object"}
             => ustate[u] \in {"committed", "gone"}
        /\ pc[u] = "mark_unknown"
             => ustate[u] \in {"commit_started", "finalizing", "committed", "gone"}

\* What an upload has reserved is free when its bytes are stored, and only then.
CompleteByState ==
    \A u \in Upload :
        /\ ustate[u] = "committed" => u \in complete
        /\ u \in complete => ustate[u] \in {"committed", "unknown", "gone"}

CommitInv == TypeInv /\ LinkInv

OrderInv == TypeInv /\ StateByControl

\* Only a permanent deletion takes the resource of a committed upload away, and
\* the upload with it.
CommittedShown ==
    \A u \in Upload : ustate[u] = "committed" => resource[ResourceOf[u]] # NULL

OnePlace ==
    moves = 0 =>
        \A u \in Upload :
            /\ blobs[u] \in {NULL, path}
            /\ commit[u].final \in {NULL, path}
            /\ commit[u].account \in {NULL, path}

\* A content is stored by an upload of it that completed, and a resource shows
\* only what was requested for it.
RowsCompleted ==
    \A b \in Upload :
        blobs[b] # NULL => \E w \in complete : ContentOf[w] = ContentOf[b]

ShownRequested ==
    \A r \in Resource :
        resource[r] # NULL =>
            \E v \in Upload : ResourceOf[v] = r /\ ContentOf[v] = ContentOf[resource[r]]

\* What is about to be marked although it is committed is in doubt: the finding
\* of the validation is still true when it is written down.
MarkedInDoubt ==
    \A u \in Upload :
        ustate[u] = "committed" /\ pc[u] = "mark_unknown" => Doubtful(u)

\* The invariant behind CommittedKept.
KeptInv ==
    /\ CommittedShown
    /\ OnePlace
    /\ RowsCompleted
    /\ ShownRequested
    /\ MarkedInDoubt

=============================================================================
