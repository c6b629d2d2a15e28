-------------------------- MODULE DoctorInvariant ---------------------------
(***************************************************************************)
(* The inductive invariant behind DoctorExplained: why the bytes of a row, *)
(* or of a finalizing upload, are missing.  Together with CommitInv and    *)
(* StateByControl it accounts for every finding of the doctor.             *)
(***************************************************************************)
EXTENDS Doctor, UploadCommitInvariant

\* The object of a row is there until the reclaimer unlinks it; the row stays
\* without it until the reclaimer commits, or for good if that is rolled back.
RowsHaveObjects ==
    \A b \in Upload :
        blobs[b] # NULL /\ object[<<blobs[b], ContentOf[b]>>] = "absent" =>
            \/ ContentOf[b] \in raced
            \/ reclaim.blob = b /\ reclaim.unlinked
            \/ faults > 0 /\ ContentOf[b] \in reclaimed

UnlinkRecorded ==
    /\ reclaim.blob # NULL /\ reclaim.unlinked => ContentOf[reclaim.blob] \in reclaimed
    /\ raced \subseteq reclaimed

\* An upload on its way to its metadata has its bytes, staged or published, unless
\* the clean-up or the reclaimer took them.
BytesKept ==
    \A u \in Upload :
        /\ pc[u] = "assembling" => stage[u] # "absent" \/ u \in swept
        /\ \/ pc[u] = "to_finalizing" /\ ustate[u] = "commit_started"
           \/ ustate[u] = "finalizing" /\ commit[u].staged
           => \/ stage[u] # "absent" \/ u \in swept
              \/ object[FinalKey(u)] # "absent" \/ ContentOf[u] \in reclaimed

\* A commit begins once every part is recorded, and only a power failure takes
\* recorded parts back.
PartsOfUploads ==
    \A u \in Upload :
        /\ ustate[u] = "none" => parts[u] = "absent"
        /\ Exists(u) /\ ~Recorded(u) => ustate[u] = "receiving"
        /\ parts[u] = "lost" => faults > 0

\* Whatever handlers, reclaimer and clean-up interleave: the row of a committed
\* upload is shown, a row has its object and a commit its bytes, staged or
\* published, until the reclaimer's unlink or the clean-up takes them, and then
\* the history says so; a commit begins with the receipt of every part.
DoctorInv ==
    /\ CompleteByState
    /\ CommittedShown
    /\ OnePlace
    /\ RowsHaveObjects
    /\ UnlinkRecorded
    /\ BytesKept
    /\ PartsOfUploads

=============================================================================
