----------------------- MODULE UploadCommitRefinement -----------------------
(* The commit protocol implements BackupLedger. *)
EXTENDS UploadCommit

StatusOf(s) ==
    CASE s = "none" -> "none"
      [] s \in Active -> "open"
      [] s = "committed" -> "stored"
      [] s = "unknown" -> "unknown"
      [] s = "failed" -> "rejected"
      [] s = "gone" -> "deleted"

Status  == [u \in Upload |-> StatusOf(ustate[u])]

Held    == {c \in Content : Rows(c) # {}}

Shown   == [r \in Resource |->
              IF resource[r] = NULL THEN NULL ELSE ContentOf[resource[r]]]

Deleted == {a \in Asset : assets[a] = "deleted"}

Ledger == INSTANCE BackupLedger WITH
    status <- Status, held <- Held, shown <- Shown, deleted <- Deleted

\* Whatever the interleaving of handlers, reconciler, deletion and crashes,
\* what the client and the library see changes by the steps of BackupLedger.
ImplementsLedger == Ledger!Spec

=============================================================================
