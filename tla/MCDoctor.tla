------------------------------ MODULE MCDoctor ------------------------------
(* An instance of UploadCommit with the audit of the doctor for TLC. *)
EXTENDS MCUploadCommit, DoctorInvariant

CONSTANT p1

\* The exchange of uploads of one content, along with their resources and assets.
Exchanges ==
    {p \in Permutations(Upload \cup Resource \cup Asset) :
        \A u \in Upload :
            /\ p[u] \in Upload
            /\ ContentOf[p[u]] = ContentOf[u]
            /\ p[ResourceOf[u]] = ResourceOf[p[u]]
            /\ p[AssetOfUpload(u)] = AssetOfUpload(p[u])}

\* Constraint: no power failure takes an upload's parts back.
NoLoss == \A u \in Upload : parts[u] # "lost"

Unused(u) == ustate[u] = "none"

\* Constraint: u1 beside the other upload of its content or beside the edited
\* version; a change of path with the former, a fault or the staging clean-up
\* with u1 alone; after either, only the first asset is trashed, and after a
\* change of path only the second request is deduplicated.
Pairwise ==
    /\ Unused(u2) \/ Unused(u3)
    /\ moves = 0 => path = p1
    /\ moves = 1 => Unused(u3) /\ create[u1] = NoCreate
    /\ moves + faults > 0 => assets[a2] \notin {"trashed", "deleted"}
    /\ faults = 1 => Unused(u2) /\ Unused(u3) /\ moves = 0
    /\ ~NoSweeps \/ swept # {} => Unused(u2) /\ Unused(u3) /\ faults + moves = 0

=============================================================================
