---------------------------- MODULE MCReconciler ----------------------------
(* Instances of Reconciler for TLC. *)
EXTENDS Reconciler, TLC

CONSTANTS u1, u2, u3, r1, r2, a1, a2, c1, c2

\* Two assets of the same content, and an edited version of the first.
MCResourceOf == [u \in Upload |-> IF u = u2 THEN r2 ELSE r1]
MCAssetOf    == [r \in Resource |-> IF r = r2 /\ a2 \in Asset THEN a2 ELSE a1]
MCContentOf  == [u \in Upload |-> IF u = u3 THEN c2 ELSE c1]
MCSize       == [c \in Content |-> 1]

\* Constraints: no deduplicating create handlers, and no two commit handlers at
\* a time; the pass beside one handler is what the liveness runs are about.
NoDedup       == \A u \in Upload : create[u] = NoCreate
HandlersApart == Cardinality({u \in Upload : pc[u] # "idle"}) <= 1

=============================================================================
