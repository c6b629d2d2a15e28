----------------------------- MODULE Reconciler -----------------------------
(***************************************************************************)
(* The reconciliation pass (reconcile_all in upload_commit.rs) and the task*)
(* that repeats it (main.rs), composed with the protocol of UploadCommit.  *)
(*                                                                         *)
(* A pass first takes up every upload whose commit has started, one after  *)
(* the other, then the orphan blobs, and cleans up the staging directory   *)
(* at the end.  The server runs one pass before it listens, and then one   *)
(* every 120 seconds in a background task.  The task's closure is moved    *)
(* into its only future: when a pass returns an error the task is over,    *)
(* and no pass runs until the process is started again.                    *)
(***************************************************************************)
EXTENDS UploadCommit

CONSTANT QueriesFail   \* whether the pass's own queries may fail

VARIABLE pass   \* the pass, and whether the server listens

passVars == <<vars, pass>>

\* Where the pass stands.  "lock": waiting for the commit lock of an upload.
PassControl == {"wait", "uploads", "lock", "commit", "orphans", "reclaim",
                "sweep", "stopped"}

PassTypeOK == pass \in [pc : PassControl, todo : SUBSET Upload,
                        now : Upload \cup {NULL}, serving : BOOLEAN]

StartOfProcess == [pc |-> "wait", todo |-> {}, now |-> NULL, serving |-> FALSE]

At(label) == pass.pc = label

Stop == pass' = [pass EXCEPT !.pc = "stopped", !.todo = {}, !.now = NULL]

-----------------------------------------------------------------------------
(* The steps of the pass *)

PassStart ==
    /\ At("wait")
    /\ pass' = [pass EXCEPT !.pc = "uploads", !.todo = {u \in Upload : Started(u)}]
    /\ UNCHANGED vars

\* The upload's present state is read with fetch_one: a row deleted since the
\* list was made ends the pass with an error.
PassFetch(u) ==
    /\ At("uploads")
    /\ u \in pass.todo
    /\ IF Exists(u)
       THEN pass' = [pass EXCEPT !.pc = "lock", !.todo = @ \ {u}, !.now = u]
       ELSE Stop
    /\ UNCHANGED vars

\* complete_inner under the upload's lock; a row deleted while the pass waited
\* for the lock is an error of this upload only.
PassEnter ==
    /\ At("lock")
    /\ pc[pass.now] = "idle"
    /\ IF Exists(pass.now)
       THEN /\ Enter(pass.now)
            /\ pass' = [pass EXCEPT !.pc = "commit"]
       ELSE /\ pass' = [pass EXCEPT !.pc = "uploads", !.now = NULL]
            /\ UNCHANGED vars

\* Mutant of PassFollows: the pass waits for a success.
PassFollowsSuccess(u) ==
    pass' = IF At("commit") /\ pass.now = u /\ ustate'[u] = "committed"
            THEN [pass EXCEPT !.pc = "uploads", !.now = NULL]
            ELSE pass

\* The handler the pass waits for returns, with success or with an error.
PassFollows(u) ==
    pass' = IF At("commit") /\ pass.now = u /\ pc'[u] = "idle"
            THEN [pass EXCEPT !.pc = "uploads", !.now = NULL]
            ELSE pass

\* reconcile_orphan_blobs lists its candidates.
PassOrphans ==
    /\ At("uploads")
    /\ pass.todo = {}
    /\ pass' = [pass EXCEPT !.pc = "orphans",
                            !.todo = {b \in Upload : blobs[b] # NULL /\ Orphan(b)}]
    /\ UNCHANGED vars

PassReclaim(b) ==
    /\ At("orphans")
    /\ b \in pass.todo
    /\ WriterFree
    /\ IF blobs[b] # NULL /\ Orphan(b)
       THEN /\ ReclaimDelete(b)
            /\ pass' = [pass EXCEPT !.pc = "reclaim", !.todo = @ \ {b}]
       ELSE /\ pass' = [pass EXCEPT !.todo = @ \ {b}]
            /\ UNCHANGED vars

PassReclaimed ==
    pass' = IF At("reclaim") /\ reclaim'.blob = NULL
            THEN [pass EXCEPT !.pc = "orphans"] ELSE pass

PassSweep ==
    /\ At("orphans")
    /\ pass.todo = {}
    /\ SweepRead
    /\ pass' = [pass EXCEPT !.pc = "sweep"]

\* After its first pass the server listens.
PassSweeping ==
    /\ SweepList \/ (\E u \in Upload : SweepRemove(u)) \/ SweepEnd
    /\ pass' = IF sweep'.pc = "idle"
               THEN [pass EXCEPT !.pc = "wait", !.serving = TRUE] ELSE pass

\* A query of the pass itself fails.  (Before the server listens the process
\* exits: that is a crash.)
PassError ==
    /\ QueriesFail
    /\ pass.serving
    /\ pass.pc \in {"uploads", "orphans"}
    /\ Stop
    /\ UNCHANGED vars

-----------------------------------------------------------------------------
(* The protocol beside the pass *)

Commit(u) == CommitStep(u) /\ PassFollows(u)

Reclaim == ReclaimStep /\ PassReclaimed

\* What clients and the administrator start; a permanent deletion reclaims too.
Request ==
    /\ pass.serving
    /\ \/ \E u \in Upload : CreateStep(u) \/ Enter(u)
       \/ \E a \in Asset : LibraryStep(a)
       \/ \E b \in Upload : ReclaimDelete(b)
       \/ \E p \in Path : MoveAccount(p)
    /\ UNCHANGED pass

\* A failed unlink is counted and the pass goes on; a failed COMMIT ends it.
RollbackFault ==
    /\ ReclaimRollback
    /\ IF At("reclaim")
       THEN \/ pass' = [pass EXCEPT !.pc = "orphans"]
            \/ pass.serving /\ Stop
       ELSE UNCHANGED pass

ProtocolFault ==
    \/ \E u \in Upload : Abandon(u) /\ PassFollows(u)
    \/ /\ \/ \E u \in Upload : DamageParts(u) \/ DamageStage(u)
          \/ \E k \in Path \X Content : DamageObject(k)
       /\ UNCHANGED pass
    \/ Crash /\ pass' = StartOfProcess

-----------------------------------------------------------------------------
PassInit == Init /\ pass = StartOfProcess

\* The steps of the pass that do not wait for the commit lock.
PassStep ==
    \/ PassStart
    \/ \E u \in Upload : PassFetch(u) \/ PassReclaim(u)
    \/ PassOrphans
    \/ PassSweep
    \/ PassSweeping

PassNext ==
    \/ PassStep
    \/ PassEnter
    \/ PassError
    \/ \E u \in Upload : Commit(u)
    \/ Reclaim
    \/ Request
    \/ RollbackFault
    \/ ProtocolFault

PassSpec == PassInit /\ [][PassNext]_passVars

\* A handler that runs continues; so does the task, every 120 seconds; its
\* blocking flock on an upload is granted although clients retry.
FairPassSpec ==
    /\ PassSpec
    /\ \A u \in Upload : WF_passVars(Commit(u))
    /\ WF_passVars(Reclaim)
    /\ WF_passVars(PassStep)
    /\ SF_passVars(PassEnter)

-----------------------------------------------------------------------------
(* Safety *)

\* The pass waits only for what is running, a handler, a transaction or the
\* staging clean-up, so that it can always go on; and nothing but the pass
\* runs before the server listens.
PassInv ==
    /\ PassTypeOK
    /\ pass.pc \in {"lock", "commit"} <=> pass.now # NULL
    /\ At("commit") => pc[pass.now] # "idle"
    /\ At("reclaim") => reclaim.blob # NULL
    /\ At("sweep") <=> sweep.pc # "idle"
    /\ ~pass.serving =>
         /\ \A u \in Upload : pc[u] # "idle" => At("commit") /\ pass.now = u
         /\ \A u \in Upload : create[u] = NoCreate
         /\ reclaim.blob # NULL => At("reclaim")

Settled(u) == ustate[u] \in {"committed", "unknown", "failed", "gone"}

\* An upload the pass has taken up is settled when the pass goes on to the next
\* one, unless a fault ended its handler or its metadata attempts were all lost
\* to other rows.
PassSettles ==
    [][\A u \in Upload :
         At("commit") /\ pass.now = u /\ pass'.pc = "uploads" =>
            \/ Settled(u)'
            \/ faults' > faults
            \/ pc[u] = "check_actual" /\ tries[u] = MaxTries]_passVars

\* The staging clean-up of the first pass, before the server listens, takes no
\* complete stage of an open commit.
FirstPassKeepsStages ==
    [][\A u \in Upload :
         ~pass.serving /\ stage[u] = "good" /\ stage'[u] = "absent"
            => ustate[u] \notin {"commit_started", "finalizing"}]_passVars

-----------------------------------------------------------------------------
(* Liveness *)

Stopped == At("stopped")

\* A commit that has started is settled unless the periodic task has stopped:
\* a pass leaves no upload in between.
CommitSettles ==
    \A u \in Upload :
        ustate[u] \in {"commit_started", "finalizing"} ~> Settled(u) \/ Stopped

\* Unless the task has stopped, an orphan row is reclaimed or referred to
\* again.
OrphanReclaimed ==
    \A b \in Upload :
        blobs[b] # NULL /\ Orphan(b) ~> blobs[b] = NULL \/ ~Orphan(b) \/ Stopped

\* Unless the task has stopped, no stage file outlives a committed or deleted
\* upload.
StageCleaned ==
    \A u \in Upload :
        ustate[u] \in {"committed", "gone"} /\ stage[u] # "absent"
            ~> stage[u] = "absent" \/ ustate[u] = "unknown" \/ Stopped

\* The documentation: interrupted commits are taken up every 120 seconds.
PeriodicallySettled ==
    \A u \in Upload : ustate[u] \in {"commit_started", "finalizing"} ~> Settled(u)

=============================================================================
