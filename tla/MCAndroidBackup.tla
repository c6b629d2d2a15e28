-------------------------- MODULE MCAndroidBackup --------------------------
(* Instances of AndroidBackup for TLC. *)
EXTENDS AndroidBackup

CONSTANTS i1, i2, t1

\* i1 is the older photo; t1 is its thumbnail, where that is an item.
MCAdded       == [i \in Photo |-> IF i = i1 THEN 1 ELSE 2]
MCThumbnailOf == [i \in Photo |-> IF i = i1 /\ t1 \in Item THEN t1 ELSE NULL]

=============================================================================
