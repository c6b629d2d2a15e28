----------------------------- MODULE MCTimeline -----------------------------
(* An instance of Timeline for TLC. *)
EXTENDS Timeline

CONSTANTS t1, b1

\* A follower works on a page while no reader walks, and the other way round:
\* neither acts on the other.
Apart == ~walk.on \/ ~follower.on

=============================================================================
