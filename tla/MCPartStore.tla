---------------------------- MODULE MCPartStore -----------------------------
(* An instance of PartStore for TLC: two requests carry the same part, and a  *)
(* third one belongs to another account.                                      *)
EXTENDS PartStore

CONSTANTS q1, q2, q3, p1, p2, u1, u2, a1, a2

MCPartOf    == [r \in Request |-> IF r = q3 THEN p2 ELSE p1]
MCUploadOf  == [p \in Part |-> IF p = p2 THEN u2 ELSE u1]
MCAccountOf == [u \in Upload |-> IF u = u2 THEN a2 ELSE a1]

=============================================================================
