---------------------------- MODULE BackupLedger ----------------------------
(***************************************************************************)
(* What the upload protocol promises the owner of a library: uploads that  *)
(* settle in one atomic step, resources that show a content the account    *)
(* holds, contents that are forgotten only when nothing shows them, and    *)
(* deletions that are final.  Files, stages, commit states, retries and    *)
(* crashes do not appear.                                                  *)
(***************************************************************************)
CONSTANTS Upload, Resource, Asset, Content, NULL, ResourceOf, AssetOf, ContentOf

VARIABLES
    status,   \* what the client can learn about an upload
    held,     \* the contents of the account
    shown,    \* the content a resource shows
    deleted   \* the permanently deleted assets

vars == <<status, held, shown, deleted>>

Usable(r) == AssetOf[r] \notin deleted

Init ==
    /\ status = [u \in Upload |-> "none"]
    /\ held = {}
    /\ shown = [r \in Resource |-> NULL]
    /\ deleted = {}

Open(u) ==
    /\ status[u] = "none"
    /\ Usable(ResourceOf[u])
    /\ status' = [status EXCEPT ![u] = "open"]
    /\ UNCHANGED <<held, shown, deleted>>

Store(u) ==
    /\ status[u] = "open"
    /\ Usable(ResourceOf[u])
    /\ status' = [status EXCEPT ![u] = "stored"]
    /\ held' = held \cup {ContentOf[u]}
    /\ shown' = [shown EXCEPT ![ResourceOf[u]] = ContentOf[u]]
    /\ UNCHANGED deleted

\* An upload whose outcome cannot be proved waits for the operator, also one
\* that had been stored; one with bad parts is rejected.
GiveUp(u) ==
    /\ \/ status[u] \in {"open", "stored"} /\ status' = [status EXCEPT ![u] = "unknown"]
       \/ status[u] = "open" /\ status' = [status EXCEPT ![u] = "rejected"]
    /\ UNCHANGED <<held, shown, deleted>>

\* A content the account holds is shown without being uploaded again.
Share(r, c) ==
    /\ c \in held
    /\ Usable(r)
    /\ shown' = [shown EXCEPT ![r] = c]
    /\ UNCHANGED <<status, held, deleted>>

Forget(c) ==
    /\ c \in held
    /\ \A r \in Resource : shown[r] # c
    /\ held' = held \ {c}
    /\ UNCHANGED <<status, shown, deleted>>

Delete(a) ==
    /\ a \notin deleted
    /\ deleted' = deleted \cup {a}
    /\ shown' = [r \in Resource |-> IF AssetOf[r] = a THEN NULL ELSE shown[r]]
    /\ status' = [u \in Upload |->
         IF AssetOf[ResourceOf[u]] = a /\ status[u] # "none" THEN "deleted" ELSE status[u]]
    /\ UNCHANGED held

Next ==
    \/ \E u \in Upload : Open(u) \/ Store(u) \/ GiveUp(u)
    \/ \E r \in Resource, c \in Content : Share(r, c)
    \/ \E c \in Content : Forget(c)
    \/ \E a \in Asset : Delete(a)

Spec == Init /\ [][Next]_vars

=============================================================================
