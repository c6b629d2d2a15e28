-------------------------- MODULE ReconcilerProofs --------------------------
(***************************************************************************)
(* The reconciliation pass never waits for something that is not going to  *)
(* happen (PassInv), and it only does what UploadCommit allows, so that    *)
(* the theorems about UploadCommit hold with the pass.  The two go         *)
(* together: that a step of the pass is a step of UploadCommit rests on    *)
(* PassInv, and PassInv on the types of UploadCommit.  Then what a pass    *)
(* achieves: what it has taken up is settled when it goes on, and the      *)
(* staging clean-up of the first one takes no stage that is still needed.  *)
(***************************************************************************)
EXTENDS Reconciler, CommitProgress

\* A handler touches its own control point and nothing of the others'.
LEMMA CommitFrame ==
    ASSUME TypeOK, NEW u \in Upload, CommitStep(u)
    PROVE  /\ \A v \in Upload : v # u => pc'[v] = pc[v]
           /\ UNCHANGED <<create, reclaim, sweep>>
<1> USE DEF TypeOK, otherVars, Goto
<1>1. pc' = [pc EXCEPT ![u] = pc'[u]] /\ UNCHANGED otherVars
  BY DEF CommitStep, Load, Begin, InspectStarted, Assemble, FinishAssembly,
         ToFinalizing, InspectFinal, InspectStage, Publish, VerifyPublished,
         LoadCandidate, CheckCandidate, CommitMetadata, RemoveStage,
         ValidateRow, ValidateObject, MarkUnknown, MarkFailed
<1> QED
  BY <1>1

LEMMA EnterFrame ==
    ASSUME TypeOK, NEW u \in Upload, Enter(u)
    PROVE  /\ pc'[u] = "load"
           /\ \A v \in Upload : v # u => pc'[v] = pc[v]
           /\ UNCHANGED <<create, reclaim, sweep>>
BY DEF TypeOK, Enter, Goto, otherVars

LEMMA AbandonFrame ==
    ASSUME TypeOK, NEW u \in Upload, Abandon(u)
    PROVE  /\ pc'[u] = "idle"
           /\ \A v \in Upload : v # u => pc'[v] = pc[v]
           /\ UNCHANGED <<create, reclaim, sweep>>
BY DEF TypeOK, Abandon, Goto, otherVars

LEMMA CommitRuns ==
    ASSUME NEW u \in Upload, CommitStep(u)
    PROVE  pc[u] # "idle"
BY DEF CommitStep, Load, Begin, InspectStarted, Assemble, FinishAssembly, ToFinalizing,
       InspectFinal, InspectStage, Publish, VerifyPublished, LoadCandidate,
       CheckCandidate, CommitMetadata, RemoveStage, ValidateRow, ValidateObject,
       MarkUnknown, MarkFailed

LEMMA RequestFrame ==
    ASSUME TypeOK, Request
    PROVE  /\ pass.serving /\ UNCHANGED <<pass, sweep>>
           /\ \A v \in Upload : pc[v] # "idle" => pc'[v] # "idle"
           /\ reclaim.blob # NULL => reclaim' = reclaim
<1>1. pass.serving /\ UNCHANGED pass
  BY DEF Request
<1>2. CASE \E u \in Upload : CreateStep(u)
  BY <1>1, <1>2 DEF CreateStep, CreateUpload, ResumeUpload, DedupFound, DedupInspect,
                    DedupUpsert, LinkParts, RecordParts, handlerVars, otherVars
<1>3. CASE \E u \in Upload : Enter(u)
  BY <1>1, <1>3, EnterFrame
<1>4. CASE \E a \in Asset : LibraryStep(a)
  BY <1>1, <1>4 DEF LibraryStep, Trash, Restore, DeletePermanently, handlerVars, otherVars
<1>5. CASE \E b \in Upload : ReclaimDelete(b)
  BY <1>1, <1>5 DEF ReclaimDelete, WriterFree, handlerVars
<1>6. CASE \E p \in Path : MoveAccount(p)
  BY <1>1, <1>6 DEF MoveAccount, handlerVars, otherVars
<1> QED
  BY <1>1, <1>2, <1>3, <1>4, <1>5, <1>6 DEF Request

LEMMA PassInvInit == PassInit => PassInv
BY DEF PassInit, Init, PassInv, PassTypeOK, PassControl, StartOfProcess, At, NoSweep,
       NoReclaim

\* A step of one handler, with the pass going on when the handler it waits
\* for returns.
LEMMA FollowsKeeps ==
    ASSUME PassInv, NEW u \in Upload, pc[u] # "idle", PassFollows(u),
           \A v \in Upload : v # u => pc'[v] = pc[v],
           UNCHANGED <<create, reclaim, sweep>>
    PROVE  PassInv'
<1> USE NullAssumption DEF PassInv, PassTypeOK, PassControl, At, PassFollows
<1>1. CASE At("commit") /\ pass.now = u /\ pc'[u] = "idle"
  <2>1. pass' = [pass EXCEPT !.pc = "uploads", !.now = NULL]
    BY <1>1
  <2> QED
    BY <1>1, <2>1, ZenonT(60)
<1>2. CASE ~(At("commit") /\ pass.now = u /\ pc'[u] = "idle")
  <2>1. pass' = pass
    BY <1>2
  <2>2. At("commit") => pc'[pass.now] # "idle"
    BY <1>2
  <2> QED
    BY <2>1, <2>2
<1> QED
  BY <1>1, <1>2

\* Every step of the pass and beside it keeps PassInv.
LEMMA PassInvStep ==
    ASSUME TypeOK, PassInv, PassNext
    PROVE  PassInv'
<1> USE NullAssumption DEF PassInv, PassTypeOK, PassControl, At, Stop
<1>1. CASE PassStep
  <2>1. CASE PassStart \/ PassOrphans
    <3>1. ASSUME NEW t \in SUBSET Upload, NEW l \in PassControl,
                 pass' = [pass EXCEPT !.pc = l, !.todo = t]
          PROVE  PassTypeOK'
      BY <3>1
    <3>2. PassTypeOK'
      <4> DEFINE started == {u \in Upload : Started(u)}
                 orphans == {b \in Upload : blobs[b] # NULL /\ Orphan(b)}
      <4>1. started \in SUBSET Upload /\ orphans \in SUBSET Upload
        OBVIOUS
      <4>2. \/ pass' = [pass EXCEPT !.pc = "uploads", !.todo = started]
            \/ pass' = [pass EXCEPT !.pc = "orphans", !.todo = orphans]
        BY <2>1 DEF PassStart, PassOrphans
      <4> HIDE DEF started, orphans
      <4>3. "uploads" \in PassControl /\ "orphans" \in PassControl
        OBVIOUS
      <4> QED
        BY <3>1, <4>1, <4>2, <4>3
    <3> QED
      BY <2>1, <3>2, ZenonT(60) DEF PassStart, PassOrphans, vars, handlerVars, otherVars
  <2>2. ASSUME NEW u \in Upload, PassFetch(u) PROVE PassInv'
    <3>1. CASE Exists(u)
      <4>1. PassTypeOK'
        <5>1. pass' = [pc |-> "lock", todo |-> pass.todo \ {u}, now |-> u,
                       serving |-> pass.serving]
          BY <2>2, <3>1, ZenonT(60) DEF PassFetch
        <5> QED
          BY <5>1
      <4> QED
        BY <2>2, <3>1, <4>1 DEF PassFetch, vars, handlerVars, otherVars
    <3>2. CASE ~Exists(u)
      <4>1. pass' = [pc |-> "stopped", todo |-> {}, now |-> NULL, serving |-> pass.serving]
        BY <2>2, <3>2, ZenonT(60) DEF PassFetch
      <4> QED
        BY <2>2, <4>1 DEF PassFetch, vars, handlerVars, otherVars
    <3> QED
      BY <3>1, <3>2
  <2>3. ASSUME NEW b \in Upload, PassReclaim(b) PROVE PassInv'
    <3>1. CASE ReclaimDelete(b) /\ pass' = [pass EXCEPT !.pc = "reclaim", !.todo = @ \ {b}]
      <4>1. PassTypeOK'
        BY <3>1
      <4> QED
        BY <2>3, <3>1, <4>1 DEF PassReclaim, ReclaimDelete, handlerVars
    <3>2. CASE pass' = [pass EXCEPT !.todo = @ \ {b}] /\ UNCHANGED vars
      <4>1. PassTypeOK'
        BY <3>2
      <4> QED
        BY <2>3, <3>2, <4>1 DEF PassReclaim, vars, handlerVars, otherVars
    <3> QED
      BY <2>3, <3>1, <3>2 DEF PassReclaim
  <2>4. CASE PassSweep
    BY <2>4 DEF PassSweep, SweepRead, handlerVars, otherVars
  <2>5. CASE PassSweeping
    BY <2>5 DEF PassSweeping, SweepList, SweepRemove, SweepEnd, NoSweep, handlerVars,
                otherVars
  <2> QED
    BY <1>1, <2>1, <2>2, <2>3, <2>4, <2>5 DEF PassStep
<1>2. CASE PassEnter
  <2>1. pass.now \in Upload
    BY <1>2 DEF PassEnter
  <2>2. CASE Exists(pass.now)
    BY <1>2, <2>1, <2>2, EnterFrame DEF PassEnter
  <2>3. CASE ~Exists(pass.now)
    BY <1>2, <2>1, <2>3, ZenonT(60) DEF PassEnter, vars, handlerVars, otherVars
  <2> QED
    BY <2>2, <2>3
<1>3. CASE PassError
  BY <1>3 DEF PassError, vars, handlerVars, otherVars
<1>4. ASSUME NEW u \in Upload, Commit(u) PROVE PassInv'
  <2>1. /\ \A v \in Upload : v # u => pc'[v] = pc[v]
        /\ UNCHANGED <<create, reclaim, sweep>>
        /\ pc[u] # "idle"
    BY <1>4, CommitFrame, CommitRuns DEF Commit
  <2> QED
    BY <1>4, <2>1, FollowsKeeps DEF Commit
<1>5. CASE Reclaim
  BY <1>5 DEF Reclaim, PassReclaimed, ReclaimStep, ReclaimUnlink, ReclaimCommit, NoReclaim,
              handlerVars, otherVars
<1>6. CASE Request
  BY <1>6, RequestFrame
<1>7. CASE RollbackFault
  <2>1. UNCHANGED <<pc, create, sweep>> /\ reclaim.blob # NULL /\ reclaim'.blob = NULL
    BY <1>7 DEF RollbackFault, ReclaimRollback, NoReclaim, handlerVars
  <2>2. CASE At("reclaim") /\ pass' = [pass EXCEPT !.pc = "orphans"]
    BY <2>1, <2>2
  <2>3. CASE At("reclaim") /\ pass.serving /\ Stop
    BY <2>1, <2>3
  <2>4. CASE ~At("reclaim") /\ UNCHANGED pass
    BY <2>1, <2>4
  <2> QED
    BY <1>7, <2>2, <2>3, <2>4 DEF RollbackFault
<1>8. CASE ProtocolFault
  <2>1. ASSUME NEW u \in Upload, Abandon(u), PassFollows(u) PROVE PassInv'
    <3>1. pc[u] # "idle"
      BY <2>1 DEF Abandon
    <3> QED
      BY <2>1, <3>1, AbandonFrame, FollowsKeeps
  <2>2. ASSUME NEW u \in Upload, DamageParts(u) \/ DamageStage(u), UNCHANGED pass
        PROVE  PassInv'
    BY <2>2 DEF DamageParts, DamageStage, handlerVars, otherVars
  <2>3. ASSUME NEW k \in Path \X Content, DamageObject(k), UNCHANGED pass
        PROVE  PassInv'
    BY <2>3 DEF DamageObject, handlerVars, otherVars
  <2>4. CASE Crash /\ pass' = StartOfProcess
    BY <2>4 DEF Crash, StartOfProcess, NoReclaim, NoSweep
  <2> QED
    BY <1>8, <2>1, <2>2, <2>3, <2>4 DEF ProtocolFault
<1> QED
  BY <1>1, <1>2, <1>3, <1>4, <1>5, <1>6, <1>7, <1>8 DEF PassNext

\* What the pass does, UploadCommit allows.
LEMMA PassStepIsStep ==
    ASSUME PassInv, [PassNext]_passVars
    PROVE  [Next]_vars
<1> SUFFICES ASSUME PassNext PROVE [Next]_vars
  BY DEF passVars, vars
<1>1. CASE PassStep
  BY <1>1 DEF PassStep, PassStart, PassFetch, PassReclaim, PassOrphans, PassSweep,
              PassSweeping, Next, SweepStep
<1>2. CASE PassEnter
  <2>1. pass.now \in Upload
    BY <1>2 DEF PassEnter, At, PassInv, PassTypeOK
  <2> QED
    BY <1>2, <2>1 DEF PassEnter, Next
<1>3. CASE PassError
  BY <1>3 DEF PassError
<1>4. CASE \E u \in Upload : Commit(u)
  BY <1>4 DEF Commit, Next
<1>5. CASE Reclaim
  BY <1>5 DEF Reclaim, Next
<1>6. CASE Request
  BY <1>6 DEF Request, Next
<1>7. CASE RollbackFault \/ ProtocolFault
  BY <1>7 DEF RollbackFault, ProtocolFault, Next, FaultStep
<1> QED
  BY <1>1, <1>2, <1>3, <1>4, <1>5, <1>6, <1>7 DEF PassNext

LEMMA PassStepTypes ==
    TypeInv /\ PassInv /\ [PassNext]_passVars => (TypeInv /\ PassInv)'
<1> SUFFICES ASSUME TypeInv, PassInv, [PassNext]_passVars PROVE (TypeInv /\ PassInv)'
  OBVIOUS
<1>1. TypeInv'
  BY PassStepIsStep, TypeStep
<1>2. PassInv'
  <2>1. CASE PassNext
    BY <2>1, PassInvStep DEF TypeInv
  <2>2. CASE UNCHANGED passVars
    BY <2>2 DEF passVars, vars, PassInv, PassTypeOK, At, handlerVars, otherVars
  <2> QED
    BY <2>1, <2>2
<1> QED
  BY <1>1, <1>2

\* The pass waits only for what is running, and before the server listens
\* nothing but the pass runs (reconcile_all, main).
THEOREM PassCorrect == PassSpec => []PassInv
<1>1. PassInit => TypeInv /\ PassInv
  BY PassInvInit, CommitInvInit DEF PassInit, CommitInv
<1> QED
  BY <1>1, PassStepTypes, PTL DEF PassSpec

\* The server with its reconciler behaves as UploadCommit says.
THEOREM PassImplementsCommit == PassSpec => Spec
<1>1. PassInit => Init
  BY DEF PassInit
<1> QED
  BY <1>1, PassCorrect, PassStepIsStep, PTL DEF PassSpec, Spec

\* In particular an object that a resource points to is lost only to the race
\* of the reclaimer with a handler, the pass included.
THEOREM PassKeepsObjects == PassSpec => []ObjectLossNeedsRace
BY PassImplementsCommit, ObjectsSafe, PTL

\* And what the owner of the library is promised holds with the pass: it commits
\* and reclaims within the quota and by the steps of the ledger (reconcile_all).
THEOREM PassKeepsPromises == PassSpec => [](QuotaRespected /\ Consistent) /\ ImplementsLedger
BY PassImplementsCommit, QuotaSafe, PromisesConsistent, LedgerImplemented, PTL

-----------------------------------------------------------------------------
(* What the pass has taken up is settled *)

\* Whose turn it is, and whose will come, was begun before: its handler is not
\* going to begin a commit.
TakenUp ==
    /\ pass.pc \in {"uploads", "lock", "commit"} =>
         \A u \in pass.todo : ustate[u] \notin {"none", "receiving"}
    /\ pass.now # NULL => ustate[pass.now] \notin {"none", "receiving"}
    /\ At("commit") => pc[pass.now] # "begin"

\* Nothing brings an upload back to before its commit.
LEMMA StartedStays ==
    ASSUME OrderInv, [Next]_vars, NEW u \in Upload, ustate[u] \notin {"none", "receiving"}
    PROVE  ustate'[u] \notin {"none", "receiving"}
<1>1. TypeInv'
  BY TypeStep DEF OrderInv
<1>2. CASE Next
  BY <1>1, <1>2, OrderStep DEF CommitOrder
<1>3. CASE UNCHANGED vars
  BY <1>3 DEF vars, rowVars
<1> QED
  BY <1>2, <1>3

\* A handler gets to begin_commit only with a receiving upload.
LEMMA BeginStep ==
    ASSUME TypeInv, [Next]_vars, NEW u \in Upload, pc[u] # "begin", pc'[u] = "begin"
    PROVE  ustate[u] = "receiving"
<1> USE DEF TypeInv, TypeOK, Goto
<1>1. CommitStep(u)
  BY OwnMove
<1>2. CASE Load(u)
  BY <1>2 DEF Load
<1>3. CASE ~Load(u)
  BY <1>1, <1>3
     DEF CommitStep, Begin, InspectStarted, Assemble, FinishAssembly, ToFinalizing,
         InspectFinal, InspectStage, Publish, VerifyPublished, LoadCandidate, CheckCandidate,
         CommitMetadata, RemoveStage, ValidateRow, ValidateObject, MarkUnknown, MarkFailed
<1> QED
  BY <1>2, <1>3

\* What a step does to the list of the pass and to the upload whose turn it is.
LEMMA ListKinds ==
    ASSUME PassInv, [PassNext]_passVars
    PROVE  \/ PassStart
           \/ \E u \in Upload : PassFetch(u) /\ Exists(u)
           \/ PassEnter
           \/ pass'.pc = "orphans" /\ pass'.now = NULL
           \/ /\ pass'.now \in {pass.now, NULL} /\ pass'.todo \subseteq pass.todo
              /\ pass'.pc \in {"uploads", "lock", "commit"}
                   => pass.pc \in {"uploads", "lock", "commit"}
              /\ pass'.pc = "commit" => pass'.now = pass.now /\ pass.pc = "commit"
<1> USE DEF PassInv, PassTypeOK, PassControl, At, Stop, StartOfProcess
<1>1. CASE PassStep
  <2>1. ASSUME NEW u \in Upload, PassFetch(u), ~Exists(u)
        PROVE  pass'.pc = "stopped" /\ pass'.now = NULL /\ pass'.todo = {}
    BY <2>1 DEF PassFetch
  <2>2. CASE PassOrphans
    BY <2>2 DEF PassOrphans
  <2>3. ASSUME NEW b \in Upload, PassReclaim(b)
        PROVE  /\ pass'.pc \in {"orphans", "reclaim"} /\ pass'.now = pass.now
               /\ pass'.todo \subseteq pass.todo
    <3>1. \/ pass' = [pass EXCEPT !.pc = "reclaim", !.todo = @ \ {b}]
          \/ pass' = [pass EXCEPT !.todo = @ \ {b}] /\ pass.pc = "orphans"
      BY <2>3, Zenon DEF PassReclaim
    <3> QED
      BY <3>1
  <2>4. ASSUME PassSweep \/ PassSweeping
        PROVE  /\ pass'.now = pass.now /\ pass'.todo = pass.todo
               /\ pass'.pc \in {"wait", "sweep", pass.pc}
               /\ pass'.pc = "commit" => pass.pc = "commit"
    <3>1. CASE PassSweep
      BY <3>1 DEF PassSweep
    <3>2. CASE PassSweeping
      BY <3>2 DEF PassSweeping
    <3> QED
      BY <2>4, <3>1, <3>2
  <2> QED
    BY <1>1, <2>1, <2>2, <2>3, <2>4 DEF PassStep
<1>2. ASSUME NEW u \in Upload, PassFollows(u)
      PROVE  /\ pass'.now \in {pass.now, NULL} /\ pass'.todo \subseteq pass.todo
             /\ pass'.pc \in {"uploads", "lock", "commit"}
                  => pass.pc \in {"uploads", "lock", "commit"}
             /\ pass'.pc = "commit" => pass'.now = pass.now /\ pass.pc = "commit"
  BY <1>2 DEF PassFollows
<1>3. CASE PassError \/ Reclaim \/ Request \/ RollbackFault
  BY <1>3 DEF PassError, Reclaim, PassReclaimed, Request, RollbackFault
<1>4. CASE UNCHANGED pass \/ pass' = StartOfProcess
  BY <1>4
<1> QED
  BY <1>1, <1>2, <1>3, <1>4 DEF PassNext, Commit, ProtocolFault, passVars

PassAll == OrderInv /\ CommitInv /\ StageInv /\ PassInv /\ TakenUp

LEMMA TakenUpStep ==
    ASSUME OrderInv, PassInv, PassInv', TakenUp, [PassNext]_passVars
    PROVE  TakenUp'
<1>0. [Next]_vars /\ TypeInv
  BY PassStepIsStep DEF OrderInv
<1>1. /\ pass \in [pc : PassControl, todo : SUBSET Upload, now : Upload \cup {NULL},
                   serving : BOOLEAN]
      /\ pass' \in [pc : PassControl, todo : SUBSET Upload, now : Upload \cup {NULL},
                    serving : BOOLEAN]
      /\ At("commit") => pass.now # NULL
  BY DEF PassInv, PassTypeOK, At
<1>2. \A u \in Upload : /\ ustate[u] \notin {"none", "receiving"}
                             => ustate'[u] \notin {"none", "receiving"}
                        /\ pc[u] # "begin" /\ ustate[u] # "receiving" => pc'[u] # "begin"
  BY <1>0, StartedStays, BeginStep
<1> USE <1>1 DEF TakenUp, At
<1>3. CASE PassStart
  <2>1. /\ pass'.todo = {u \in Upload : Started(u)} /\ pass'.now = pass.now
        /\ pass.now = NULL /\ pass'.pc = "uploads" /\ ustate' = ustate
    BY <1>3 DEF PassStart, PassInv, vars, rowVars
  <2> QED
    BY <2>1, NullAssumption DEF Started
<1>4. ASSUME NEW u \in Upload, PassFetch(u), Exists(u) PROVE TakenUp'
  <2>1. /\ pass'.todo = pass.todo \ {u} /\ pass'.now = u /\ u \in pass.todo
        /\ pass'.pc = "lock" /\ pass.pc = "uploads" /\ ustate' = ustate
    BY <1>4 DEF PassFetch, vars, rowVars
  <2> QED
    BY <2>1
<1>5. CASE PassEnter
  <2>1. /\ pass'.todo = pass.todo /\ pass.pc = "lock" /\ pass.now \in Upload
    BY <1>5 DEF PassEnter, PassInv
  <2>2. /\ ustate' = ustate
        /\ \/ pass'.now = pass.now /\ pc'[pass.now] = "load"
           \/ pass'.now = NULL /\ pass'.pc = "uploads"
    <3>1. CASE Enter(pass.now) /\ pass' = [pass EXCEPT !.pc = "commit"]
      BY <1>0, <2>1, <3>1 DEF Enter, Goto, rowVars, TypeInv, TypeOK
    <3>2. CASE pass' = [pass EXCEPT !.pc = "uploads", !.now = NULL] /\ UNCHANGED vars
      BY <3>2 DEF vars, rowVars
    <3> QED
      BY <1>5, <3>1, <3>2 DEF PassEnter
  <2> QED
    BY <2>1, <2>2, NullAssumption
<1>6. CASE pass'.pc = "orphans" /\ pass'.now = NULL
  BY <1>6
<1>7. CASE /\ pass'.now \in {pass.now, NULL} /\ pass'.todo \subseteq pass.todo
           /\ pass'.pc \in {"uploads", "lock", "commit"}
                => pass.pc \in {"uploads", "lock", "commit"}
           /\ pass'.pc = "commit" => pass'.now = pass.now /\ pass.pc = "commit"
  BY <1>2, <1>7
<1> QED
  BY <1>3, <1>4, <1>5, <1>6, <1>7, ListKinds

LEMMA PassAllInit == PassInit => PassAll
<1> SUFFICES ASSUME PassInit PROVE PassAll
  OBVIOUS
<1>1. Init /\ pass = StartOfProcess
  BY DEF PassInit
<1>2. TakenUp
  BY <1>1 DEF TakenUp, StartOfProcess, At
<1> QED
  BY <1>1, <1>2, StageInit, PassInvInit DEF PassAll, StageAll

LEMMA PassAllStep == PassAll /\ [PassNext]_passVars => PassAll'
<1> SUFFICES ASSUME PassAll, [PassNext]_passVars PROVE PassAll'
  OBVIOUS
<1>1. [Next]_vars /\ StageAll
  BY PassStepIsStep DEF PassAll, StageAll
<1>2. OrderInv' /\ CommitInv' /\ StageInv'
  BY <1>1, StageStep DEF StageAll
<1>3. PassInv'
  BY PassStepTypes DEF PassAll, OrderInv
<1>4. TakenUp'
  BY <1>3, TakenUpStep DEF PassAll
<1> QED
  BY <1>2, <1>3, <1>4 DEF PassAll

\* How a handler the pass waits for can end by itself.
LEMMA EndSettles ==
    ASSUME TypeInv, StateByControl, NEW u \in Upload, CommitStep(u),
           ustate[u] \notin {"none", "receiving"}, pc[u] # "begin", pc'[u] = "idle"
    PROVE  \/ Settled(u)'
           \/ pc[u] = "check_actual" /\ tries[u] = MaxTries
<1>1. /\ pc[u] \in Control /\ ustate[u] \in CommitState
      /\ ustate \in [Upload -> CommitState] /\ pc \in [Upload -> Control]
      /\ tries[u] \in 0..MaxTries
  BY DEF TypeInv, TypeOK
<1> USE <1>1 DEF Goto, Settled, StateByControl, MetadataLoop, CommitState, rowVars
<1>2. CASE Load(u)
  <2>1. ustate[u] \in {"unknown", "failed", "gone"} /\ ustate' = ustate
    BY <1>2 DEF Load, Started
  <2> QED
    BY <2>1
<1>3. CASE ToFinalizing(u) \/ CommitMetadata(u) \/ MarkUnknown(u) \/ MarkFailed(u)
  BY <1>3 DEF ToFinalizing, CommitMetadata, MarkUnknown, MarkFailed, Exists
<1>4. CASE RemoveStage(u) \/ ValidateObject(u)
  BY <1>4 DEF RemoveStage, ValidateObject
<1>5. CASE CheckCandidate(u)
  BY <1>5 DEF CheckCandidate, MaxTries
<1>6. CASE \/ Begin(u) \/ InspectStarted(u) \/ Assemble(u) \/ FinishAssembly(u)
           \/ InspectFinal(u) \/ InspectStage(u) \/ Publish(u) \/ VerifyPublished(u)
           \/ LoadCandidate(u) \/ ValidateRow(u)
  BY <1>6 DEF Begin, InspectStarted, Assemble, FinishAssembly, InspectFinal, InspectStage,
              Publish, VerifyPublished, LoadCandidate, ValidateRow
<1> QED
  BY <1>2, <1>3, <1>4, <1>5, <1>6 DEF CommitStep

LEMMA TurnEnds ==
    ASSUME PassAll, [PassNext]_passVars, NEW u \in Upload,
           At("commit"), pass.now = u, pass'.pc = "uploads"
    PROVE  \/ Settled(u)'
           \/ faults' > faults
           \/ pc[u] = "check_actual" /\ tries[u] = MaxTries
<1>1. /\ TypeInv /\ StateByControl /\ PassInv
      /\ ustate[u] \notin {"none", "receiving"} /\ pc[u] # "begin"
      /\ pass \in [pc : PassControl, todo : SUBSET Upload, now : Upload \cup {NULL},
                   serving : BOOLEAN]
      /\ faults \in Int
  BY NullAssumption, BoundAssumption
     DEF PassAll, OrderInv, TakenUp, PassInv, PassTypeOK, TypeInv, TypeOK
<1> USE DEF At
<1>2. ASSUME NEW v \in Upload, PassFollows(v) PROVE v = u /\ pc'[u] = "idle"
  BY <1>1, <1>2 DEF PassFollows
<1>3. ASSUME NEW v \in Upload, Commit(v)
      PROVE  \/ Settled(u)'
             \/ pc[u] = "check_actual" /\ tries[u] = MaxTries
  <2>1. v = u /\ CommitStep(u) /\ pc'[u] = "idle"
    BY <1>2, <1>3 DEF Commit
  <2> QED
    BY <1>1, <2>1, EndSettles
<1>4. ASSUME NEW v \in Upload, Abandon(v) PROVE faults' > faults
  BY <1>1, <1>4 DEF Abandon, Fault
<1>5. CASE PassStep \/ PassEnter \/ PassError
  <2>1. ~PassSweeping
    BY <1>1 DEF PassSweeping, SweepList, SweepRemove, SweepEnd, PassInv
  <2>2. ~PassStart /\ ~PassOrphans /\ ~PassSweep /\ ~PassError /\ ~PassEnter
    BY DEF PassStart, PassOrphans, PassSweep, PassError, PassEnter
  <2>3. \A v \in Upload : ~PassFetch(v) /\ ~PassReclaim(v)
    BY DEF PassFetch, PassReclaim
  <2> QED
    BY <1>5, <2>1, <2>2, <2>3 DEF PassStep
<1>6. CASE Reclaim \/ Request \/ RollbackFault
  BY <1>1, <1>6 DEF Reclaim, PassReclaimed, Request, RollbackFault, Stop
<1>7. ~UNCHANGED pass /\ pass' # StartOfProcess
  BY DEF StartOfProcess
<1> QED
  BY <1>3, <1>4, <1>5, <1>6, <1>7 DEF PassNext, ProtocolFault, passVars

\* What a pass takes up it settles before it goes on: no path through complete_inner
\* ends in between, unless the handler is cut short, by a fault, or has lost all of its
\* metadata attempts to other rows (reconcile_all, complete_inner).
THEOREM PassSettlesAlways == PassSpec => PassSettles
<1>1. PassAll /\ PassAll' /\ [PassNext]_passVars =>
        [\A u \in Upload :
           At("commit") /\ pass.now = u /\ pass'.pc = "uploads" =>
              \/ Settled(u)'
              \/ faults' > faults
              \/ pc[u] = "check_actual" /\ tries[u] = MaxTries]_passVars
  BY TurnEnds
<1> QED
  BY <1>1, PassAllInit, PassAllStep, PTL DEF PassSpec, PassSettles

-----------------------------------------------------------------------------
(* The clean-up of the first pass *)

\* What the clean-up has read, and what it is going to remove, spares the stages of the
\* open commits; no commit begins before the server listens.
FirstSweep ==
    ~pass.serving =>
        \A u \in Upload :
            ustate[u] \in {"commit_started", "finalizing"} /\ stage[u] # "absent" =>
                /\ sweep.pc = "list" => u \in sweep.keys
                /\ sweep.pc = "remove" => u \notin sweep.keys

\* During the clean-up of the first pass nothing else runs.
LEMMA FirstSweepAlone ==
    ASSUME TypeOK, PassInv, PassNext, ~pass.serving, sweep.pc # "idle"
    PROVE  \/ PassSweeping
           \/ \E u \in Upload : DamageParts(u) \/ DamageStage(u)
           \/ \E k \in Path \X Content : DamageObject(k)
           \/ Crash
<1>1. /\ pass.pc = "sweep" /\ reclaim.blob = NULL
      /\ \A u \in Upload : pc[u] = "idle"
  BY DEF PassInv, At
<1>2. /\ ~PassStart /\ ~PassOrphans /\ ~PassSweep /\ ~PassEnter /\ ~PassError
      /\ \A u \in Upload : ~PassFetch(u) /\ ~PassReclaim(u)
  BY <1>1 DEF At, PassStart, PassOrphans, PassSweep, PassEnter, PassError, PassFetch,
              PassReclaim
<1>3. \A u \in Upload : ~CommitStep(u) /\ ~Abandon(u)
  BY <1>1, CommitRuns DEF Abandon
<1>4. ~Reclaim /\ ~RollbackFault /\ ~Request
  BY <1>1 DEF Reclaim, ReclaimStep, ReclaimUnlink, ReclaimCommit, RollbackFault,
              ReclaimRollback, Request
<1> QED
  BY <1>2, <1>3, <1>4 DEF PassNext, PassStep, Commit, ProtocolFault

LEMMA SweepBegun ==
    ASSUME TypeOK, PassNext, sweep.pc = "idle", sweep'.pc # "idle"
    PROVE  SweepRead
<1>1. ASSUME UNCHANGED sweep PROVE FALSE
  BY <1>1
<1>2. ASSUME NEW u \in Upload, CommitStep(u) PROVE UNCHANGED sweep
  BY <1>2, CommitFrame
<1>3. CASE PassStep
  BY <1>1, <1>3 DEF PassStep, PassStart, PassFetch, PassOrphans, PassReclaim, PassSweep,
                    PassSweeping, ReclaimDelete, SweepList, SweepRemove, SweepEnd, vars, otherVars
<1>4. CASE PassEnter \/ PassError \/ Reclaim \/ RollbackFault
  BY <1>1, <1>4 DEF PassEnter, PassError, Enter, Reclaim, ReclaimStep, ReclaimUnlink,
                    ReclaimCommit, RollbackFault, ReclaimRollback, vars, otherVars
<1>5. CASE Request
  BY <1>1, <1>5, RequestFrame
<1>6. CASE ProtocolFault
  BY <1>1, <1>6 DEF ProtocolFault, Abandon, DamageParts, DamageStage, DamageObject, Crash,
                    NoSweep, otherVars
<1> QED
  BY <1>1, <1>2, <1>3, <1>4, <1>5, <1>6 DEF PassNext, Commit

\* Only a crash takes the server off the network.
LEMMA ListenStays ==
    ASSUME PassInv, PassNext, ~pass'.serving, sweep'.pc # "idle"
    PROVE  ~pass.serving
<1> USE DEF PassInv, PassTypeOK, At, Stop
<1>1. ~Crash
  BY DEF Crash, NoSweep
<1>2. ASSUME NEW u \in Upload, PassFollows(u) PROVE pass'.serving = pass.serving
  BY <1>2 DEF PassFollows
<1>3. ASSUME PassStep PROVE pass'.serving = pass.serving \/ pass'.serving = TRUE
  BY <1>3 DEF PassStep, PassStart, PassFetch, PassOrphans, PassReclaim, PassSweep, PassSweeping
<1>4. ASSUME PassEnter \/ PassError \/ Reclaim \/ Request \/ RollbackFault
      PROVE  pass'.serving = pass.serving
  BY <1>4 DEF PassEnter, PassError, Reclaim, PassReclaimed, Request, RollbackFault
<1> QED
  BY <1>1, <1>2, <1>3, <1>4 DEF PassNext, Commit, ProtocolFault

LEMMA FirstSweepStep ==
    ASSUME PassAll, FirstSweep, [PassNext]_passVars
    PROVE  FirstSweep'
<1>0. /\ TypeOK /\ PassInv /\ StageInv /\ PassInv'
      /\ sweep \in [pc : {"idle", "list", "remove"}, path : Path \cup {NULL},
                    keys : SUBSET Upload]
  BY PassAllStep DEF PassAll, OrderInv, TypeInv, TypeOK
<1>1. CASE UNCHANGED passVars
  BY <1>1 DEF passVars, vars, rowVars, fileVars, otherVars, FirstSweep
<1>2. CASE pass'.serving
  BY <1>2 DEF FirstSweep
<1>3. CASE sweep'.pc = "idle"
  BY <1>3 DEF FirstSweep
<1>4. ASSUME PassNext, ~pass'.serving, sweep'.pc # "idle", sweep.pc = "idle"
      PROVE  FirstSweep'
  <2>1. pass'.pc = "sweep" /\ pass.pc # "sweep"
    BY <1>0, <1>4 DEF PassInv, At
  <2>2. SweepRead
    BY <1>0, <1>4, <2>1, SweepBegun
  <2>3. /\ sweep'.pc = "list" /\ ustate' = ustate /\ stage' = stage
        /\ sweep'.keys = {u \in Upload : Exists(u) /\ commit[u].staged}
    BY <2>2 DEF SweepRead, rowVars, fileVars
  <2> QED
    BY <1>0, <2>3 DEF FirstSweep, StageInv, Exists
<1>5. ASSUME PassNext, ~pass'.serving, sweep'.pc # "idle", sweep.pc # "idle"
      PROVE  FirstSweep'
  <2>1. ~pass.serving
    BY <1>0, <1>5, ListenStays
  <2>2. CASE PassSweeping
    <3>1. CASE SweepList
      <4>1. /\ UNCHANGED <<ustate, stage>> /\ sweep'.pc = "remove" /\ sweep.pc = "list"
            /\ \A u \in sweep'.keys : u \notin sweep.keys /\ stage[u] # "absent"
        BY <3>1, <1>0 DEF SweepList, rowVars, fileVars
      <4> QED
        BY <2>1, <4>1 DEF FirstSweep
    <3>2. ASSUME NEW v \in Upload, SweepRemove(v) PROVE FirstSweep'
      <4>1. /\ ustate' = ustate /\ sweep'.pc = "remove" /\ sweep.pc = "remove"
            /\ sweep'.keys \subseteq sweep.keys
            /\ \A u \in Upload : stage'[u] # "absent" => stage[u] # "absent"
        BY <3>2, <1>0 DEF SweepRemove, rowVars, TypeOK
      <4> QED
        BY <2>1, <4>1 DEF FirstSweep
    <3>3. ~SweepEnd
      BY <1>5 DEF SweepEnd, NoSweep
    <3> QED
      BY <2>2, <3>1, <3>2, <3>3 DEF PassSweeping
  <2>3. ASSUME \/ \E u \in Upload : DamageParts(u) \/ DamageStage(u)
               \/ \E k \in Path \X Content : DamageObject(k)
        PROVE  FirstSweep'
    BY <1>0, <2>1, <2>3
       DEF DamageParts, DamageStage, DamageObject, FirstSweep, rowVars, otherVars, TypeOK
  <2>4. ~Crash
    BY <1>5 DEF Crash, NoSweep
  <2> QED
    BY <1>0, <1>5, <2>1, <2>2, <2>3, <2>4, FirstSweepAlone
<1> QED
  BY <1>1, <1>2, <1>3, <1>4, <1>5

\* The clean-up that runs while a server that was killed starts again removes no
\* complete stage of an open commit: what the documentation says of every clean-up holds
\* of this one (reconcile_all before the listener, cleanup_orphan_staging).
THEOREM FirstPassSafe == PassSpec => FirstPassKeepsStages
<1>1. PassAll /\ FirstSweep /\ [PassNext]_passVars => (PassAll /\ FirstSweep)'
  BY PassAllStep, FirstSweepStep
<1>2. PassInit => PassAll /\ FirstSweep
  BY PassAllInit DEF PassInit, Init, FirstSweep, NoSweep
<1>3. PassAll /\ FirstSweep /\ [PassNext]_passVars =>
        [\A u \in Upload :
           ~pass.serving /\ stage[u] = "good" /\ stage'[u] = "absent"
              => ustate[u] \notin {"commit_started", "finalizing"}]_passVars
  <2> SUFFICES ASSUME PassAll, FirstSweep, [PassNext]_passVars, NEW u \in Upload,
                      ~pass.serving, stage[u] = "good", stage'[u] = "absent",
                      ustate[u] \in {"commit_started", "finalizing"}
               PROVE  FALSE
    OBVIOUS
  <2>1. SweepRemove(u)
    BY PassStepIsStep, StageTaken DEF PassAll, StageAll
  <2> QED
    BY <2>1 DEF SweepRemove, FirstSweep
<1> QED
  BY <1>1, <1>2, <1>3, PTL DEF PassSpec, FirstPassKeepsStages

=============================================================================
