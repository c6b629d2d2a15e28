----------------------------- MODULE PartLedger -----------------------------
(***************************************************************************)
(* What the reception of parts promises to the commit protocol, which      *)
(* takes the parts of an upload together (UploadCommit's `parts'): they    *)
(* arrive while the upload is receiving, they are complete before it is    *)
(* frozen, and from then on nothing but damage to the disk changes them.   *)
(* An upload whose directory entry is not on disk, or once was not and was *)
(* lost, is exposed: it can lose its parts, and receive them again.        *)
(*                                                                         *)
(* "absent" says that parts are not recorded as received, or not on disk:  *)
(* UploadCommit's "absent", "linked" and "lost".                           *)
(***************************************************************************)
CONSTANT Upload

VARIABLES ustate, parts, exposed

LedgerInit ==
    /\ ustate = [u \in Upload |-> "receiving"]
    /\ parts = [u \in Upload |-> "absent"]
    /\ exposed \in SUBSET Upload

Receive(u) ==
    /\ ustate[u] = "receiving" \/ u \in exposed
    /\ parts[u] = "absent"
    /\ parts' = [parts EXCEPT ![u] = "good"]
    /\ UNCHANGED ustate

Freeze(u) ==
    /\ ustate[u] = "receiving"
    /\ parts[u] # "absent" \/ u \in exposed
    /\ ustate' = [ustate EXCEPT ![u] = "frozen"]
    /\ UNCHANGED parts

Drop(u) ==
    /\ ustate[u] # "gone"
    /\ ustate' = [ustate EXCEPT ![u] = "gone"]
    /\ parts' = [parts EXCEPT ![u] = "absent"]

Spoil(u) ==
    /\ parts[u] = "good" \/ ustate[u] = "receiving" \/ u \in exposed
    /\ parts' = [parts EXCEPT ![u] = "bad"]
    /\ UNCHANGED ustate

Lose ==
    /\ \E lost \in SUBSET exposed :
         parts' = [u \in Upload |-> IF u \in lost THEN "absent" ELSE parts[u]]
    /\ UNCHANGED ustate

LedgerNext ==
    \/ \E u \in Upload : Receive(u) \/ Freeze(u) \/ Drop(u) \/ Spoil(u)
    \/ Lose

LedgerSpec == LedgerInit /\ [][LedgerNext]_<<ustate, parts>>

=============================================================================
