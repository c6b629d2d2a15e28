------------------------------ MODULE Accounts ------------------------------
(***************************************************************************)
(* Users as the administrators create and change them (admin.rs): the name *)
(* and the directory of a user are checked against the other rows one      *)
(* after the other, and the row is written later, in no transaction with   *)
(* the checks.  The table's indexes keep equal names and equal directories *)
(* apart, and no more.                                                     *)
(*                                                                         *)
(* Names stand for their lower-case forms, and a directory is the sequence *)
(* of its components below DATA_DIR.                                       *)
(***************************************************************************)
EXTENDS SequencesExt

CONSTANTS
    Account,        \* the users that may ever be
    Name,
    Directory,      \* the directories that are asked for
    Administrator,  \* requests at a time
    MaxRequests     \* bound on the requests

ASSUME AccountsAssumption ==
    (\A d \in Directory : d \in Seq(STRING)) /\ MaxRequests \in Nat

VARIABLES
    user,      \* the rows
    request,   \* what each administrator's request is about, and how far it is
    requests,
    overtaken, \* history: rows were written since the request checked its path
    raced      \* history: the users whose last write was overtaken

accountVars == <<user, request, requests, overtaken, raced>>

NoRequest == [at |-> "idle"]

Others(id) == DOMAIN user \ {id}

\* Mutant of Overlap: only equal directories are kept apart.
OverlapEqual(d, e) == d = e

\* account_paths_overlap
Overlap(d, e) == IsPrefix(d, e) \/ IsPrefix(e, d)

\* validate_account_path
Reserved(d) == Head(d) = "uploads"

\* What the indexes of the table refuse.
Unique(r) == \A id \in Others(r.id) : user[id].name # r.name /\ user[id].path # r.path

Advance(a, r) ==
    /\ request' = [request EXCEPT ![a] = r]
    /\ UNCHANGED <<user, requests, raced>>

-----------------------------------------------------------------------------
\* create_user and update_user find nobody else of this name.
CheckName(a, id, name, path) ==
    /\ request[a] = NoRequest
    /\ requests < MaxRequests
    /\ \A b \in Administrator : request[b] # NoRequest => request[b].id # id \/ id \in DOMAIN user
    /\ \A other \in Others(id) : user[other].name # name
    /\ request' = [request EXCEPT ![a] = [at |-> "path", id |-> id, name |-> name, path |-> path]]
    /\ requests' = requests + 1
    /\ UNCHANGED <<user, overtaken, raced>>

\* ensure_unique_path reads all rows and compares each.
CheckPath(a) ==
    /\ request[a].at = "path"
    /\ IF \E other \in Others(request[a].id) : Overlap(request[a].path, user[other].path)
       THEN Advance(a, NoRequest) /\ UNCHANGED overtaken
       ELSE /\ Advance(a, [request[a] EXCEPT !.at = "probe"])
            /\ overtaken' = overtaken \ {a}

\* The directory is made and written to, and a password is hashed.
ProbeDirectory(a) ==
    /\ request[a].at = "probe"
    /\ Advance(a, IF Reserved(request[a].path) THEN NoRequest ELSE [request[a] EXCEPT !.at = "write"])
    /\ UNCHANGED overtaken

WriteUser(a) ==
    /\ request[a].at = "write"
    /\ LET r == request[a]
           row == [name |-> r.name, path |-> r.path]
       IN  IF Unique(r)
           THEN /\ user' = [id \in DOMAIN user \cup {r.id} |-> IF id = r.id THEN row ELSE user[id]]
                /\ raced' = IF a \in overtaken THEN raced \cup {r.id} ELSE raced \ {r.id}
                /\ overtaken' = Administrator
           ELSE UNCHANGED <<user, raced, overtaken>>
    /\ request' = [request EXCEPT ![a] = NoRequest]
    /\ UNCHANGED requests

-----------------------------------------------------------------------------
AccountsInit ==
    /\ user = <<>>
    /\ request = [a \in Administrator |-> NoRequest]
    /\ requests = 0
    /\ overtaken = {}
    /\ raced = {}

\* The process ends with its requests; the rows stay.
AccountsStop ==
    /\ request' = [a \in Administrator |-> NoRequest]
    /\ UNCHANGED <<user, requests, overtaken, raced>>

AccountsNext ==
    \E a \in Administrator :
        \/ \E id \in Account, name \in Name, path \in Directory : CheckName(a, id, name, path)
        \/ CheckPath(a)
        \/ ProbeDirectory(a)
        \/ WriteUser(a)

AccountsSpec == AccountsInit /\ [][AccountsNext]_accountVars

-----------------------------------------------------------------------------
(* Properties *)

\* Only requests that meet can give two users directories of which one holds
\* the other: the last write of one of the two was preceded by another one
\* after its directory had been checked (ensure_unique_path, with no
\* transaction around the check and the write).
OverlapNeedsRace ==
    \A i, j \in DOMAIN user :
        i # j /\ IsPrefix(user[i].path, user[j].path) => i \in raced \/ j \in raced

=============================================================================
