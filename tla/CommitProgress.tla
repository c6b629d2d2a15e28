--------------------------- MODULE CommitProgress ---------------------------
(***************************************************************************)
(* How far a handler of complete_inner is from its end, when a committed   *)
(* upload is given up, and who removes the stage of an open commit.        *)
(***************************************************************************)
EXTENDS CommitPromises

-----------------------------------------------------------------------------
(* A handler comes to its end *)

LEMMA StepCounts ==
    /\ StepsAfter["mark_unknown"] = 1 /\ StepsAfter["mark_failed"] = 1
    /\ StepsAfter["remove_stage"] = 1
    /\ StepsAfter["validate_object"] = 2 /\ StepsAfter["validate_row"] = 3
    /\ StepsAfter["commit_metadata"] = 13 /\ StepsAfter["check_candidate"] = 14
    /\ StepsAfter["load_candidate"] = 15 /\ StepsAfter["check_actual"] = 16
    /\ StepsAfter["verify_published"] = 16 /\ StepsAfter["publish"] = 17
    /\ StepsAfter["inspect_stage"] = 18 /\ StepsAfter["inspect_final"] = 19
    /\ StepsAfter["to_finalizing"] = 20 /\ StepsAfter["assembling"] = 21
    /\ StepsAfter["assemble"] = 22 /\ StepsAfter["inspect_started"] = 23
    /\ StepsAfter["load"] = 24 /\ StepsAfter["begin"] = 25
BY DEF StepsAfter

\* Outside the metadata loop no attempt has been counted; inside, the attempts
\* left pay for the rounds to come.
LEMMA StepsLeftRange ==
    ASSUME TypeInv, NEW u \in Upload
    PROVE  /\ StepsLeft(u) \in 0..26
           /\ pc[u] # "idle" => StepsLeft(u) > 0
           /\ pc[u] \notin MetadataLoop \cup {"idle", "load"}
                => StepsLeft(u) = StepsAfter[pc[u]]
           /\ pc[u] \in MetadataLoop => StepsLeft(u) = StepsAfter[pc[u]] - 4 * tries[u]
           /\ pc[u] = "load" => StepsLeft(u) = IF ustate[u] = "receiving" THEN 26 ELSE 24
<1>1. /\ pc[u] \in Control /\ tries[u] \in 0..3
      /\ pc[u] \notin MetadataLoop \cup {"idle"} => tries[u] = 0
      /\ pc[u] \in MetadataLoop \ {"check_actual"} => tries[u] < 3
  BY DEF TypeInv, TypeOK, AttemptsLeft, MaxTries
<1> QED
  BY <1>1, StepCounts DEF Control, MetadataLoop, StepsLeft

\* A step of the handler itself.
LEMMA OwnStepAdvances ==
    ASSUME TypeInv, TypeInv', StateByControl, NEW u \in Upload, CommitStep(u)
    PROVE  StepsLeft(u)' < StepsLeft(u)
<1>0. /\ pc \in [Upload -> Control] /\ tries \in [Upload -> 0..3]
      /\ tries' \in [Upload -> 0..3] /\ ustate \in [Upload -> CommitState]
  BY DEF TypeInv, TypeOK, MaxTries
<1>a. /\ StepsLeft(u)' \in 0..26
      /\ pc'[u] = "idle" => StepsLeft(u)' = 0
      /\ pc'[u] \notin MetadataLoop \cup {"idle", "load"} => StepsLeft(u)' = StepsAfter[pc'[u]]
      /\ pc'[u] \in MetadataLoop => StepsLeft(u)' = StepsAfter[pc'[u]] - 4 * tries'[u]
      /\ pc'[u] = "load" => StepsLeft(u)' = IF ustate'[u] = "receiving" THEN 26 ELSE 24
  <2>1. pc'[u] = "idle" => StepsLeft(u)' = 0
    BY DEF StepsLeft
  <2>2. /\ StepsLeft(u)' \in 0..26
        /\ pc'[u] \notin MetadataLoop \cup {"idle", "load"} => StepsLeft(u)' = StepsAfter[pc'[u]]
        /\ pc'[u] \in MetadataLoop => StepsLeft(u)' = StepsAfter[pc'[u]] - 4 * tries'[u]
        /\ pc'[u] = "load" => StepsLeft(u)' = IF ustate'[u] = "receiving" THEN 26 ELSE 24
    <3>1. /\ pc'[u] \in Control /\ tries'[u] \in 0..3
          /\ pc'[u] \notin MetadataLoop \cup {"idle"} => tries'[u] = 0
          /\ pc'[u] \in MetadataLoop \ {"check_actual"} => tries'[u] < 3
      BY DEF TypeInv, TypeOK, AttemptsLeft, MaxTries
    <3> QED
      BY <3>1, StepCounts DEF Control, MetadataLoop, StepsLeft
  <2> QED
    BY <2>1, <2>2
<1>b. /\ pc[u] \notin MetadataLoop \cup {"idle", "load"} => StepsLeft(u) = StepsAfter[pc[u]]
      /\ pc[u] \in MetadataLoop => StepsLeft(u) = StepsAfter[pc[u]] - 4 * tries[u]
      /\ pc[u] = "load" => StepsLeft(u) = IF ustate[u] = "receiving" THEN 26 ELSE 24
  BY StepsLeftRange
<1> USE <1>0, StepCounts DEF Goto, MetadataLoop, rowVars
<1>1. CASE Load(u)
  <2>1. /\ pc[u] = "load" /\ UNCHANGED ustate
        /\ pc'[u] \in {"begin", "inspect_started", "inspect_final", "validate_row",
                       "mark_unknown", "idle"}
        /\ pc'[u] = "begin" => ustate[u] = "receiving"
    BY <1>1 DEF Load, Started
  <2> QED
    BY <1>a, <1>b, <2>1
<1>2. CASE Begin(u)
  <2>1. /\ pc[u] = "begin"
        /\ \/ pc'[u] = "idle"
           \/ pc'[u] = "load" /\ ustate'[u] \in {"finalizing", "commit_started"}
    BY <1>2 DEF Begin
  <2> QED
    BY <1>a, <1>b, <2>1
<1>3. CASE \/ InspectStarted(u) \/ Assemble(u) \/ FinishAssembly(u) \/ ToFinalizing(u)
           \/ InspectFinal(u) \/ InspectStage(u) \/ Publish(u)
  <2>1. \/ /\ pc[u] = "inspect_started"
           /\ pc'[u] \in {"to_finalizing", "assemble", "mark_unknown"}
        \/ pc[u] = "assemble" /\ pc'[u] \in {"to_finalizing", "assembling"}
        \/ pc[u] = "assembling" /\ pc'[u] \in {"to_finalizing", "mark_failed"}
        \/ pc[u] = "to_finalizing" /\ pc'[u] \in {"inspect_final", "idle"}
        \/ /\ pc[u] = "inspect_final"
           /\ \/ pc'[u] \in {"inspect_stage", "mark_unknown"}
              \/ pc'[u] = "load_candidate"
        \/ pc[u] = "inspect_stage" /\ pc'[u] \in {"publish", "mark_unknown"}
        \/ pc[u] = "publish" /\ pc'[u] \in {"verify_published", "mark_unknown"}
    BY <1>3
       DEF InspectStarted, Assemble, FinishAssembly, ToFinalizing, InspectFinal, InspectStage,
           Publish
  <2> QED
    BY <1>a, <1>b, <2>1
<1>4. CASE VerifyPublished(u)
  <2>1. /\ pc[u] = "verify_published" /\ pc'[u] \in {"load_candidate", "mark_unknown"}
    BY <1>4 DEF VerifyPublished
  <2> QED
    BY <1>a, <1>b, <2>1
<1>5. CASE LoadCandidate(u)
  <2>1. /\ pc[u] = "load_candidate" /\ pc'[u] \in {"check_candidate", "commit_metadata"}
        /\ tries' = tries
    BY <1>5 DEF LoadCandidate
  <2> QED
    BY <1>a, <1>b, <2>1
<1>6. CASE CheckCandidate(u)
  <2>1. \/ pc[u] = "check_candidate" /\ pc'[u] = "commit_metadata" /\ tries' = tries
        \/ /\ pc[u] = "check_actual" /\ tries' = tries
           /\ pc'[u] = IF tries[u] < 3 THEN "load_candidate" ELSE "idle"
        \/ pc[u] \in {"check_candidate", "check_actual"} /\ pc'[u] = "mark_unknown"
    BY <1>6 DEF CheckCandidate, MaxTries
  <2> QED
    BY <1>a, <1>b, <2>1
<1>7. CASE CommitMetadata(u)
  <2>1. /\ pc[u] = "commit_metadata"
        /\ \/ pc'[u] = "check_actual" /\ tries'[u] = tries[u] + 1
           \/ pc'[u] \in {"mark_unknown", "remove_stage", "idle"}
    BY <1>7 DEF CommitMetadata
  <2>2. tries[u] < 3
    BY <2>1 DEF TypeInv, AttemptsLeft, MaxTries
  <2> QED
    BY <1>a, <1>b, <2>1, <2>2
<1>8. CASE \/ RemoveStage(u) \/ ValidateRow(u) \/ ValidateObject(u) \/ MarkUnknown(u)
           \/ MarkFailed(u)
  <2>1. \/ pc[u] \in {"remove_stage", "mark_unknown", "mark_failed"} /\ pc'[u] = "idle"
        \/ pc[u] = "validate_row" /\ pc'[u] \in {"validate_object", "mark_unknown"}
        \/ pc[u] = "validate_object" /\ pc'[u] \in {"mark_unknown", "remove_stage", "idle"}
    BY <1>8 DEF RemoveStage, ValidateRow, ValidateObject, MarkUnknown, MarkFailed
  <2> QED
    BY <1>a, <1>b, <2>1
<1> QED
  BY <1>1, <1>2, <1>3, <1>4, <1>5, <1>6, <1>7, <1>8 DEF CommitStep

\* A handler touches its own upload only.
LEMMA OthersUntouched ==
    ASSUME TypeInv, NEW v \in Upload, Enter(v) \/ CommitStep(v),
           NEW u \in Upload, u # v
    PROVE  pc'[u] = pc[u] /\ tries'[u] = tries[u] /\ ustate'[u] = ustate[u]
<1> USE DEF TypeInv, TypeOK, Goto, DropLocals, rowVars
<1>1. CASE Enter(v)
  BY <1>1 DEF Enter
<1>2. CASE \/ Load(v) \/ Begin(v) \/ InspectStarted(v) \/ Assemble(v) \/ FinishAssembly(v)
           \/ ToFinalizing(v) \/ InspectFinal(v) \/ InspectStage(v) \/ Publish(v)
           \/ VerifyPublished(v) \/ LoadCandidate(v) \/ RemoveStage(v) \/ ValidateRow(v)
           \/ ValidateObject(v) \/ MarkUnknown(v) \/ MarkFailed(v)
  BY <1>2
     DEF Load, Begin, InspectStarted, Assemble, FinishAssembly, ToFinalizing, InspectFinal,
         InspectStage, Publish, VerifyPublished, LoadCandidate, RemoveStage, ValidateRow,
         ValidateObject, MarkUnknown, MarkFailed
<1>3. CASE CheckCandidate(v) \/ CommitMetadata(v)
  BY <1>3 DEF CheckCandidate, CommitMetadata
<1> QED
  BY <1>1, <1>2, <1>3 DEF CommitStep

\* Everything else ends handlers, or leaves them where they are and at most takes
\* their uploads away.
LEMMA RestOfSteps ==
    ASSUME TypeInv, StateByControl, Next,
           \A v \in Upload : ~Enter(v) /\ ~CommitStep(v),
           NEW u \in Upload, pc[u] # "idle"
    PROVE  \/ pc'[u] = "idle"
           \/ /\ pc'[u] = pc[u] /\ tries'[u] = tries[u]
              /\ ustate'[u] = ustate[u] \/ ustate'[u] = "gone"
<1> USE DEF TypeInv, TypeOK, rowVars, handlerVars
<1>1. ASSUME NEW v \in Upload, CreateStep(v)
      PROVE  UNCHANGED <<pc, tries>> /\ ustate'[u] = ustate[u]
  BY <1>1 DEF CreateStep, CreateUpload, ResumeUpload, DedupFound, DedupInspect, DedupUpsert,
              LinkParts, RecordParts, StateByControl
<1>2. ASSUME NEW a \in Asset, LibraryStep(a)
      PROVE  UNCHANGED <<pc, tries>> /\ (ustate'[u] = ustate[u] \/ ustate'[u] = "gone")
  BY <1>2 DEF LibraryStep, Trash, Restore, DeletePermanently
<1>3. ASSUME \/ \E b \in Upload : ReclaimDelete(b)
             \/ ReclaimStep \/ SweepStep
             \/ \E p \in Path : MoveAccount(p)
      PROVE  UNCHANGED <<pc, tries, ustate>>
  BY <1>3 DEF ReclaimDelete, ReclaimStep, ReclaimUnlink, ReclaimCommit, SweepStep, SweepRead,
              SweepList, SweepRemove, SweepEnd, MoveAccount
<1>4. ASSUME FaultStep
      PROVE  \/ pc'[u] = "idle"
             \/ pc'[u] = pc[u] /\ tries'[u] = tries[u] /\ ustate'[u] = ustate[u]
  BY <1>4 DEF FaultStep, Abandon, DamageParts, DamageStage, DamageObject, ReclaimRollback,
              Crash, Goto, DropLocals
<1> QED
  BY <1>1, <1>2, <1>3, <1>4 DEF Next

Advances(u) ==
    pc[u] # "idle" =>
        /\ StepsLeft(u)' <= StepsLeft(u)
        /\ pc'[u] # pc[u] => StepsLeft(u)' < StepsLeft(u)

LEMMA AdvancesStep ==
    ASSUME TypeInv, TypeInv', StateByControl, Next, NEW u \in Upload
    PROVE  Advances(u)
<1> SUFFICES ASSUME pc[u] # "idle"
             PROVE  /\ StepsLeft(u)' <= StepsLeft(u)
                    /\ pc'[u] # pc[u] => StepsLeft(u)' < StepsLeft(u)
  BY DEF Advances
<1>0. /\ StepsLeft(u) \in Int /\ StepsLeft(u) > 0
      /\ pc[u] = "load" => StepsLeft(u) = IF ustate[u] = "receiving" THEN 26 ELSE 24
  BY StepsLeftRange
<1>1. CASE CommitStep(u)
  <2>1. StepsLeft(u)' < StepsLeft(u)
    BY <1>1, OwnStepAdvances
  <2>2. StepsLeft(u)' \in Int
    <3>1. pc'[u] \in Control /\ tries'[u] \in 0..3
      BY DEF TypeInv, TypeOK, MaxTries
    <3> QED
      BY <3>1, StepCounts DEF Control, StepsLeft
  <2> QED
    BY <1>0, <2>1, <2>2
<1>2. ASSUME NEW v \in Upload, v # u, Enter(v) \/ CommitStep(v)
      PROVE  StepsLeft(u)' = StepsLeft(u) /\ pc'[u] = pc[u]
  BY <1>2, OthersUntouched DEF StepsLeft
<1>3. ~Enter(u)
  BY DEF Enter
<1>4. ASSUME \A v \in Upload : ~Enter(v) /\ ~CommitStep(v)
      PROVE  /\ StepsLeft(u)' <= StepsLeft(u)
             /\ pc'[u] # pc[u] => StepsLeft(u)' < StepsLeft(u)
  <2>1. CASE pc'[u] = "idle"
    BY <1>0, <2>1 DEF StepsLeft
  <2>2. CASE /\ pc'[u] = pc[u] /\ tries'[u] = tries[u]
             /\ ustate'[u] = ustate[u] \/ ustate'[u] = "gone"
    <3>1. CASE pc[u] = "load"
      <4>1. tries[u] = 0
        BY <3>1 DEF TypeInv, AttemptsLeft, MetadataLoop
      <4>2. StepsLeft(u)' = IF ustate'[u] = "receiving" THEN 26 ELSE 24
        BY <2>2, <3>1, <4>1, StepCounts DEF StepsLeft
      <4> QED
        BY <1>0, <2>2, <3>1, <4>2
    <3>2. CASE pc[u] # "load"
      <4>1. StepsLeft(u)' = StepsLeft(u)
        BY <2>2, <3>2 DEF StepsLeft
      <4> QED
        BY <1>0, <2>2, <4>1
    <3> QED
      BY <3>1, <3>2
  <2> QED
    BY <1>4, <2>1, <2>2, RestOfSteps
<1> QED
  BY <1>0, <1>1, <1>2, <1>3, <1>4

\* A handler of complete_inner ends after at most 26 steps of its own, whatever the
\* other handlers, the reclaimer, deletions and faults do to its upload meanwhile:
\* no retry begins again what has been done (complete_inner, begin_commit and
\* commit_metadata_with_race_retry).  That it takes these steps is what fairness adds.
THEOREM HandlersEnd == Spec => HandlerAdvances /\ [](\A u \in Upload : StepsLeft(u) \in 0..26)
<1>1. OrderInv /\ OrderInv' /\ [Next]_vars => [\A u \in Upload : Advances(u)]_vars
  BY AdvancesStep DEF OrderInv
<1>2. OrderInv => \A u \in Upload : StepsLeft(u) \in 0..26
  BY StepsLeftRange DEF OrderInv
<1> QED
  BY <1>1, <1>2, OrderInvInit, OrderInvStep, PTL DEF Spec, HandlerAdvances, Advances

-----------------------------------------------------------------------------
(* When a committed upload is given up *)

LEMMA KeptTypes ==
    ASSUME CommitInv
    PROVE  /\ ustate \in [Upload -> CommitState] /\ complete \in SUBSET Upload
           /\ commit \in [Upload -> CommitColumns] /\ blobs \in [Upload -> Path \cup {NULL}]
           /\ resource \in [Resource -> Upload \cup {NULL}] /\ path \in Path
           /\ object \in [Path \X Content -> FileState] /\ raced \in SUBSET Content
           /\ pc \in [Upload -> Control] /\ moves \in Nat
           /\ ResourceOf \in [Upload -> Resource] /\ ContentOf \in [Upload -> Content]
           /\ NULL \notin Upload \cup Path \cup Content
BY RequestAssumption, NullAssumption, BoundAssumption DEF CommitInv, TypeInv, TypeOK

\* As long as nothing makes it doubtful, a committed upload is what its resource
\* shows, and its object is whole and in its place.
LEMMA UndoubtedIsWhole ==
    ASSUME CommitInv, KeptInv, NEW u \in Upload, ustate[u] = "committed", ~Doubtful(u)
    PROVE  /\ resource[ResourceOf[u]] = commit[u].blob
           /\ blobs[commit[u].blob] = commit[u].final
           /\ commit[u].final = path /\ commit[u].account = path
           /\ object[FinalKey(u)] = "good"
<1> USE KeptTypes
<1> DEFINE b == resource[ResourceOf[u]]
           own == commit[u].blob
<1>1. /\ own \in Upload /\ ContentOf[own] = ContentOf[u]
      /\ commit[u].final # NULL /\ commit[u].account # NULL
      /\ FinalKey(u) \in Path \X Content
  <2>1. ColumnsSet(u)
    BY DEF CommitInv, LinkInv, ColumnsByState
  <2> QED
    BY <2>1, KeyTypes DEF ColumnsSet, CommitColumns
<1>2. blobs[own] = commit[u].final
  BY DEF CommitInv, LinkInv, SettledRowKept
<1>3. commit[u].final = path /\ commit[u].account = path
  BY <1>1 DEF Doubtful, KeptInv, OnePlace
<1>4. b \in Upload /\ b # NULL /\ blobs[b] # NULL
  BY DEF KeptInv, CommittedShown, CommitInv, LinkInv, ResourceHasRow
<1>5. ContentOf[b] = ContentOf[u]
  <2> SUFFICES ASSUME ContentOf[b] # ContentOf[u] PROVE Edited(u)
    BY DEF Doubtful
  <2>1. PICK v \in Upload : ResourceOf[v] = ResourceOf[u] /\ ContentOf[v] = ContentOf[b]
    BY <1>4 DEF KeptInv, ShownRequested
  <2>2. PICK w \in complete : ContentOf[w] = ContentOf[b]
    BY <1>4 DEF KeptInv, RowsCompleted
  <2> QED
    BY <2>1, <2>2 DEF Edited
<1>6. b = own
  BY <1>1, <1>2, <1>4, <1>5 DEF CommitInv, LinkInv, OneRowPerContent
<1>7. FinalKey(u) = <<blobs[b], ContentOf[b]>>
  BY <1>2, <1>5, <1>6 DEF FinalKey
<1>8. object[FinalKey(u)] # "absent"
  BY <1>4, <1>5, <1>7 DEF Doubtful, CommitInv, LinkInv, ObjectLossNeedsRace
<1>9. object[FinalKey(u)] = "good"
  BY <1>1, <1>8 DEF Doubtful, FileState
<1> QED
  BY <1>2, <1>3, <1>6, <1>9

\* An object that has been damaged stays so as long as a committed upload has it.
LEMMA DamageStays ==
    ASSUME CommitInv, [Next]_vars, NEW u \in Upload, ustate[u] = "committed",
           object[FinalKey(u)] = "bad"
    PROVE  object'[FinalKey(u)] = "bad"
<1> USE KeptTypes
<1>1. /\ FinalKey(u) \in Path \X Content
      /\ commit[u].blob \in Upload /\ ContentOf[commit[u].blob] = ContentOf[u]
      /\ blobs[commit[u].blob] = commit[u].final /\ commit[u].final # NULL
  <2>1. ColumnsSet(u)
    BY DEF CommitInv, LinkInv, ColumnsByState
  <2> QED
    BY <2>1, KeyTypes DEF ColumnsSet, CommitColumns, CommitInv, LinkInv, SettledRowKept
<1>2. ASSUME NEW v \in Upload, CommitMetadata(v) PROVE object' = object
  BY <1>2 DEF CommitMetadata, fileVars
<1>3. ASSUME NEW v \in Upload, Publish(v) PROVE object'[FinalKey(u)] = "bad"
  BY <1>1, <1>3 DEF Publish
<1>4. CASE ReclaimUnlink
  <2> DEFINE b == reclaim.blob
  <2>1. b \in Upload /\ blobs[b] # NULL /\ b # commit[u].blob
    <3>1. Orphan(b) /\ blobs[b] # NULL /\ b # NULL
      BY <1>4 DEF ReclaimUnlink, CommitInv, LinkInv, ReclaimOrphan
    <3>2. b \in Upload
      BY <3>1 DEF CommitInv, TypeInv, TypeOK
    <3> QED
      BY <3>1, <3>2 DEF Orphan, Exists
  <2>2. ContentOf[b] # ContentOf[u]
    BY <1>1, <2>1 DEF CommitInv, LinkInv, OneRowPerContent
  <2>3. object' = object \/ object' = [object EXCEPT ![<<blobs[b], ContentOf[b]>>] = "absent"]
    BY <1>4 DEF ReclaimUnlink
  <2>4. FinalKey(u) # <<blobs[b], ContentOf[b]>>
    BY <2>2 DEF FinalKey
  <2> QED
    BY <1>1, <2>3, <2>4
<1>5. ASSUME \/ \E b \in Upload : ReclaimDelete(b)
             \/ ReclaimCommit \/ ReclaimRollback \/ Crash
      PROVE  object' = object
  BY <1>5 DEF ReclaimDelete, ReclaimCommit, ReclaimRollback, Crash, fileVars
<1>6. ASSUME NEW k \in Path \X Content, DamageObject(k) PROVE object'[FinalKey(u)] = "bad"
  BY <1>1, <1>6 DEF DamageObject
<1> QED
  BY <1>2, <1>3, <1>4, <1>5, <1>6, ObjectKinds

\* What speaks for a doubt is never taken back.
LEMMA HistoryGrows ==
    ASSUME TypeInv, [Next]_vars
    PROVE  complete \subseteq complete' /\ raced \subseteq raced' /\ moves <= moves'
<1>0. moves \in Nat
  BY BoundAssumption DEF TypeInv, TypeOK
<1> USE <1>0 DEF rowVars, boundVars
<1>1. ASSUME NEW u \in Upload, CreateStep(u) \/ Enter(u)
      PROVE  UNCHANGED <<complete, raced, moves>>
  BY <1>1 DEF CreateStep, CreateUpload, ResumeUpload, DedupFound, DedupInspect, DedupUpsert,
              LinkParts, RecordParts, Enter
<1>2. ASSUME NEW u \in Upload, CommitStep(u)
      PROVE  complete \subseteq complete' /\ UNCHANGED <<raced, moves>>
  BY <1>2 DEF CommitStep, Load, Begin, InspectStarted, Assemble, FinishAssembly, ToFinalizing,
              InspectFinal, InspectStage, Publish, VerifyPublished, LoadCandidate,
              CheckCandidate, CommitMetadata, RemoveStage, ValidateRow, ValidateObject,
              MarkUnknown, MarkFailed
<1>3. ASSUME \/ \E x \in Asset : LibraryStep(x)
             \/ \E b \in Upload : ReclaimDelete(b)
             \/ ReclaimStep \/ SweepStep \/ FaultStep \/ UNCHANGED vars
      PROVE  complete' = complete /\ raced \subseteq raced' /\ moves' = moves
  BY <1>3
     DEF vars, LibraryStep, Trash, Restore, DeletePermanently, ReclaimDelete, ReclaimStep,
         ReclaimUnlink, ReclaimCommit, SweepStep, SweepRead, SweepList, SweepRemove, SweepEnd,
         FaultStep, Abandon, DamageParts, DamageStage, DamageObject, ReclaimRollback, Crash
<1>4. ASSUME NEW p \in Path, MoveAccount(p)
      PROVE  UNCHANGED <<complete, raced>> /\ moves' = moves + 1
  BY <1>4 DEF MoveAccount
<1> QED
  BY <1>1, <1>2, <1>3, <1>4 DEF Next

\* The keys of a committed upload are fixed.
LEMMA CommittedColumns ==
    ASSUME CommitInv, [Next]_vars, NEW u \in Upload, ustate[u] = "committed"
    PROVE  commit'[u] = commit[u]
<1> USE KeptTypes
<1>1. ASSUME NEW v \in Upload, Begin(v) PROVE commit'[u] = commit[u]
  BY <1>1 DEF Begin
<1>2. ASSUME NEW v \in Upload, CommitMetadata(v), ~UNCHANGED <<rowVars, blobs, resource>>
      PROVE  commit'[u] = commit[u]
  <2>1. PICK b \in Upload : Stores(v, b)
    BY <1>2, MetadataStores
  <2> QED
    BY <2>1 DEF Stores
<1>3. ASSUME ReclaimCommit \/ \E p \in Path : MoveAccount(p) PROVE commit' = commit
  BY <1>3 DEF ReclaimCommit, MoveAccount, rowVars
<1> QED
  BY <1>1, <1>2, <1>3, PlaceKinds

LEMMA DoubtStays ==
    ASSUME CommitInv, [Next]_vars, NEW u \in Upload, ustate[u] = "committed", Doubtful(u)
    PROVE  Doubtful(u)'
<1>1. complete \subseteq complete' /\ raced \subseteq raced' /\ moves <= moves' /\ moves \in Nat
      /\ moves' \in Int
  BY HistoryGrows, TypeStep, BoundAssumption DEF CommitInv, TypeInv, TypeOK
<1>2. Edited(u) => Edited(u)'
  BY <1>1 DEF Edited
<1>3. object[FinalKey(u)] = "bad" => object'[FinalKey(u)'] = "bad"
  <2>1. FinalKey(u)' = FinalKey(u)
    BY CommittedColumns DEF FinalKey
  <2> QED
    BY <2>1, DamageStays
<1>4. moves > 0 => moves' > 0
  BY <1>1
<1> QED
  BY <1>1, <1>2, <1>3, <1>4 DEF Doubtful

LEMMA RowsCompletedStep ==
    ASSUME CommitInv, StateByControl, RowsCompleted, [Next]_vars
    PROVE  RowsCompleted'
<1> USE KeptTypes
<1>1. complete \subseteq complete'
  BY HistoryGrows DEF CommitInv
<1>2. ASSUME NEW u \in Upload, CommitMetadata(u), ~UNCHANGED <<rowVars, blobs, resource>>
      PROVE  RowsCompleted'
  <2>1. PICK b \in Upload : Stores(u, b)
    BY <1>2, MetadataStores
  <2> QED
    BY <2>1 DEF Stores, RowsCompleted
<1>3. ASSUME \A b \in Upload : blobs'[b] \in {blobs[b], NULL} PROVE RowsCompleted'
  BY <1>1, <1>3 DEF RowsCompleted
<1>4. ASSUME \/ \E u \in Upload : \/ CreateUpload(u) \/ DedupUpsert(u)
                                  \/ MarkUnknown(u) \/ MarkFailed(u)
             \/ \E x \in Asset : DeletePermanently(x)
             \/ ReclaimCommit \/ Quiet
      PROVE  \A b \in Upload : blobs'[b] \in {blobs[b], NULL}
  BY <1>4 DEF CreateUpload, DedupUpsert, MarkUnknown, MarkFailed, DeletePermanently,
              ReclaimCommit, Quiet, libraryVars
<1> QED
  BY <1>2, <1>3, <1>4, StepKinds, Zenon

LEMMA ShownRequestedStep ==
    ASSUME CommitInv, StateByControl, ShownRequested, [Next]_vars
    PROVE  ShownRequested'
<1> USE KeptTypes DEF ShownRequested
<1>1. ASSUME NEW u \in Upload, CommitMetadata(u), ~UNCHANGED <<rowVars, blobs, resource>>
      PROVE  ShownRequested'
  <2>1. PICK b \in Upload : Stores(u, b)
    BY <1>1, MetadataStores
  <2> QED
    BY <2>1 DEF Stores
<1>2. ASSUME NEW u \in Upload, DedupUpsert(u) PROVE ShownRequested'
  <2>1. create[u].blob \in Upload /\ ContentOf[create[u].blob] = ContentOf[u]
    BY <1>2, SharedRow DEF DedupUpsert, CommitInv, LinkInv, CreateRelies
  <2> QED
    BY <1>2, <2>1 DEF DedupUpsert
<1>3. ASSUME NEW x \in Asset, DeletePermanently(x) PROVE ShownRequested'
  BY <1>3 DEF DeletePermanently
<1>4. ASSUME \/ \E u \in Upload : CreateUpload(u) \/ MarkUnknown(u) \/ MarkFailed(u)
             \/ ReclaimCommit \/ Quiet
      PROVE  resource' = resource
  BY <1>4 DEF CreateUpload, MarkUnknown, MarkFailed, ReclaimCommit, Quiet, libraryVars
<1> QED
  BY <1>1, <1>2, <1>3, <1>4, StepKinds, Zenon

\* Only a handler's own step takes it further than to its dispatch.
LEMMA OwnMove ==
    ASSUME TypeInv, [Next]_vars, NEW u \in Upload, pc'[u] \notin {pc[u], "idle", "load"}
    PROVE  CommitStep(u)
<1> USE DEF TypeInv, TypeOK
<1>1. ASSUME NEW v \in Upload, v # u, CommitStep(v) PROVE pc'[u] = pc[u]
  BY <1>1, OthersUntouched
<1>2. ASSUME NEW v \in Upload, Enter(v) PROVE pc'[u] \in {pc[u], "load"}
  BY <1>2 DEF Enter, Goto
<1>3. ASSUME \/ \E v \in Upload : CreateStep(v)
             \/ \E x \in Asset : LibraryStep(x)
             \/ \E b \in Upload : ReclaimDelete(b)
             \/ ReclaimStep \/ SweepStep \/ (\E p \in Path : MoveAccount(p))
             \/ UNCHANGED vars
      PROVE  pc' = pc
  BY <1>3 DEF vars, handlerVars, CreateStep, CreateUpload, ResumeUpload, DedupFound,
              DedupInspect, DedupUpsert, LinkParts, RecordParts, LibraryStep, Trash, Restore,
              DeletePermanently, ReclaimDelete, ReclaimStep, ReclaimUnlink, ReclaimCommit,
              SweepStep, SweepRead, SweepList, SweepRemove, SweepEnd, MoveAccount
<1>4. ASSUME FaultStep PROVE pc'[u] \in {pc[u], "idle"}
  BY <1>4 DEF FaultStep, Abandon, DamageParts, DamageStage, DamageObject, ReclaimRollback,
              Crash, Goto, handlerVars
<1> QED
  BY <1>1, <1>2, <1>3, <1>4 DEF Next

\* The three steps that condemn a committed upload, and that they have a reason.
LEMMA MarkedWithReason ==
    ASSUME CommitInv, StateByControl, KeptInv, NEW u \in Upload, CommitStep(u),
           pc[u] # "mark_unknown", pc'[u] = "mark_unknown", ustate'[u] = "committed"
    PROVE  ustate[u] = "committed" /\ Doubtful(u)
<1> USE KeptTypes DEF Goto, StateByControl, MetadataLoop
<1>1. CASE Load(u)
  <2>1. ustate[u] = "committed" /\ commit[u].account # path
    BY <1>1 DEF Load, Started, rowVars
  <2> QED
    BY <2>1, UndoubtedIsWhole
<1>2. CASE ValidateRow(u)
  <2>1. /\ ustate[u] = "committed"
        /\ ~(resource[ResourceOf[u]] = commit[u].blob /\ blobs[commit[u].blob] = commit[u].final)
    BY <1>2 DEF ValidateRow, rowVars
  <2> QED
    BY <2>1, UndoubtedIsWhole
<1>3. CASE ValidateObject(u)
  <2>1. ustate[u] = "committed" /\ FinalState(u) # "good"
    BY <1>3 DEF ValidateObject, rowVars
  <2>2. commit[u].final = commit[u].account /\ object[FinalKey(u)] = "good"
          => FinalState(u) = "good"
    BY DEF FinalState, Inspect, FinalKey
  <2> QED
    BY <2>1, <2>2, UndoubtedIsWhole
<1>4. CASE \/ Begin(u) \/ RemoveStage(u) \/ MarkFailed(u) \/ ToFinalizing(u)
           \/ Assemble(u) \/ FinishAssembly(u) \/ LoadCandidate(u)
  BY <1>4 DEF Begin, RemoveStage, MarkFailed, ToFinalizing, Assemble, FinishAssembly,
              LoadCandidate
<1>5. CASE \/ InspectStarted(u) \/ InspectFinal(u) \/ InspectStage(u) \/ Publish(u)
           \/ VerifyPublished(u) \/ CheckCandidate(u)
  BY <1>5 DEF InspectStarted, InspectFinal, InspectStage, Publish, VerifyPublished,
              CheckCandidate, rowVars
<1>6. CASE CommitMetadata(u)
  BY <1>6 DEF CommitMetadata, rowVars
<1> QED
  BY <1>1, <1>2, <1>3, <1>4, <1>5, <1>6 DEF CommitStep, MarkUnknown

LEMMA NewlyCommitted ==
    ASSUME CommitInv, StateByControl, [Next]_vars, NEW u \in Upload,
           ustate[u] # "committed", ustate'[u] = "committed"
    PROVE  pc[u] = "commit_metadata"
<1> USE KeptTypes
<1>1. ASSUME NEW v \in Upload, CommitMetadata(v), ~UNCHANGED <<rowVars, blobs, resource>>
      PROVE  pc[u] = "commit_metadata"
  <2>1. PICK b \in Upload : Stores(v, b)
    BY <1>1, MetadataStores
  <2>2. v = u
    BY <2>1 DEF Stores
  <2> QED
    BY <1>1, <2>2 DEF CommitMetadata
<1>2. ASSUME \/ \E v \in Upload : \/ CreateUpload(v) \/ DedupUpsert(v)
                                  \/ MarkUnknown(v) \/ MarkFailed(v)
             \/ \E x \in Asset : DeletePermanently(x)
             \/ ReclaimCommit \/ Quiet
      PROVE  FALSE
  BY <1>2 DEF CreateUpload, DedupUpsert, MarkUnknown, MarkFailed, DeletePermanently,
              ReclaimCommit, Quiet, rowVars, Active
<1> QED
  BY <1>1, <1>2, StepKinds

LEMMA MarkedStep ==
    ASSUME CommitInv, CommitInv', StateByControl, StateByControl', KeptInv, [Next]_vars
    PROVE  MarkedInDoubt'
<1> SUFFICES ASSUME NEW u \in Upload, ustate'[u] = "committed", pc'[u] = "mark_unknown"
             PROVE  Doubtful(u)'
  BY DEF MarkedInDoubt
<1>1. CASE pc[u] = "mark_unknown"
  <2>1. ustate[u] = "committed"
    BY <1>1, NewlyCommitted
  <2> QED
    BY <1>1, <2>1, DoubtStays DEF KeptInv, MarkedInDoubt
<1>2. CASE pc[u] # "mark_unknown"
  <2>1. CommitStep(u)
    BY <1>2, OwnMove DEF CommitInv
  <2> QED
    BY <1>2, <2>1, MarkedWithReason, DoubtStays
<1> QED
  BY <1>1, <1>2

KeptAll == OrderInv /\ CommitInv /\ KeptInv

LEMMA KeptInit == Init => KeptAll
<1> SUFFICES ASSUME Init PROVE KeptInv
  BY OrderInvInit, CommitInvInit DEF KeptAll
<1> QED
  BY DEF Init, KeptInv, CommittedShown, OnePlace, RowsCompleted, ShownRequested, MarkedInDoubt,
         NoCommit

LEMMA KeptStep == KeptAll /\ [Next]_vars => KeptAll'
<1> SUFFICES ASSUME KeptAll, [Next]_vars PROVE KeptAll'
  OBVIOUS
<1>1. /\ OrderInv /\ StateByControl /\ CommitInv /\ KeptInv
      /\ OrderInv' /\ StateByControl' /\ CommitInv'
  BY OrderInvStep, CommitInvStep DEF KeptAll, OrderInv
<1>2. CommittedShown' /\ OnePlace'
  BY <1>1, ShownStep, OnePlaceStep DEF KeptInv
<1>3. RowsCompleted' /\ ShownRequested'
  BY <1>1, RowsCompletedStep, ShownRequestedStep DEF KeptInv
<1>4. MarkedInDoubt'
  BY <1>1, MarkedStep
<1> QED
  BY <1>1, <1>2, <1>3, <1>4 DEF KeptAll, KeptInv

\* A committed upload is given up by the handler that condemned it.
LEMMA GivenUp ==
    ASSUME KeptAll, [Next]_vars, NEW u \in Upload,
           ustate[u] = "committed", ustate'[u] \notin {"committed", "gone"}
    PROVE  Doubtful(u)
<1>1. KeptInv /\ StateByControl /\ CommitInv /\ TypeInv
  BY DEF KeptAll, OrderInv
<1> USE KeptTypes, <1>1
<1>2. ASSUME NEW v \in Upload, CommitMetadata(v), ~UNCHANGED <<rowVars, blobs, resource>>
      PROVE  FALSE
  <2>1. PICK b \in Upload : Stores(v, b)
    BY <1>2, MetadataStores
  <2> QED
    BY <2>1 DEF Stores
<1>3. ASSUME NEW v \in Upload, MarkUnknown(v) \/ MarkFailed(v)
      PROVE  Doubtful(u)
  <2>1. v = u /\ (pc[u] = "mark_unknown" \/ pc[u] = "mark_failed")
    BY <1>3 DEF MarkUnknown, MarkFailed
  <2> QED
    BY <2>1 DEF KeptInv, MarkedInDoubt, StateByControl
<1>4. ASSUME \/ \E v \in Upload : CreateUpload(v) \/ DedupUpsert(v)
             \/ \E x \in Asset : DeletePermanently(x)
             \/ ReclaimCommit \/ Quiet
      PROVE  FALSE
  BY <1>4 DEF CreateUpload, DedupUpsert, DeletePermanently, ReclaimCommit, Quiet, rowVars,
              Exists, Active
<1> QED
  BY <1>2, <1>3, <1>4, StepKinds

\* A committed upload whose content, place and object nothing has called in question
\* stays committed until its asset is deleted: what complete_inner finds wrong with it
\* is there, and is still there when it is written down (validate_committed and
\* mark_unknown).
THEOREM CommittedSafe == Spec => CommittedKept
<1>1. KeptAll /\ KeptAll' /\ [Next]_vars =>
        [\A u \in Upload :
           ustate[u] = "committed" /\ ustate'[u] \notin {"committed", "gone"}
             => Doubtful(u)]_vars
  BY GivenUp
<1> QED
  BY <1>1, KeptInit, KeptStep, PTL DEF Spec, CommittedKept

-----------------------------------------------------------------------------
(* Who removes the stage of an open commit *)

\* A stage is begun by a started commit and is not complete before its last part.
StageInv ==
    \A u \in Upload :
        /\ pc[u] = "assembling" => stage[u] # "good"
        /\ stage[u] # "absent" =>
             /\ ustate[u] \notin {"none", "receiving"}
             /\ ustate[u] \in {"commit_started", "finalizing"} => commit[u].staged

\* The steps that create a stage, complete it or remove it.
LEMMA StageKinds ==
    ASSUME TypeInv, [Next]_vars, NEW u \in Upload, stage'[u] # stage[u]
    PROVE  \/ Assemble(u) \/ FinishAssembly(u) \/ RemoveStage(u)
           \/ Abandon(u) /\ pc[u] = "assembling"
           \/ DamageStage(u)
           \/ SweepRemove(u)
<1> USE DEF TypeInv, TypeOK, fileVars
<1>1. ASSUME NEW v \in Upload, CommitStep(v)
      PROVE  v = u /\ (Assemble(u) \/ FinishAssembly(u) \/ RemoveStage(u))
  <2>1. CASE Assemble(v) \/ FinishAssembly(v) \/ RemoveStage(v)
    BY <2>1 DEF Assemble, FinishAssembly, RemoveStage
  <2>2. CASE \/ Load(v) \/ Begin(v) \/ InspectStarted(v) \/ ToFinalizing(v)
             \/ InspectFinal(v) \/ InspectStage(v) \/ Publish(v) \/ VerifyPublished(v)
             \/ LoadCandidate(v) \/ CheckCandidate(v) \/ CommitMetadata(v)
             \/ ValidateRow(v) \/ ValidateObject(v) \/ MarkUnknown(v) \/ MarkFailed(v)
    BY <2>2
       DEF Load, Begin, InspectStarted, ToFinalizing, InspectFinal, InspectStage, Publish,
           VerifyPublished, LoadCandidate, CheckCandidate, CommitMetadata, ValidateRow,
           ValidateObject, MarkUnknown, MarkFailed
  <2> QED
    BY <1>1, <2>1, <2>2 DEF CommitStep
<1>2. ASSUME \/ \E v \in Upload : CreateStep(v) \/ Enter(v)
             \/ \E x \in Asset : LibraryStep(x)
             \/ \E b \in Upload : ReclaimDelete(b)
             \/ ReclaimStep \/ (\E p \in Path : MoveAccount(p)) \/ UNCHANGED vars
      PROVE  FALSE
  BY <1>2 DEF vars, CreateStep, CreateUpload, ResumeUpload, DedupFound, DedupInspect,
              DedupUpsert, LinkParts, RecordParts, Enter, LibraryStep, Trash, Restore, DeletePermanently,
              ReclaimDelete, ReclaimStep, ReclaimUnlink, ReclaimCommit, MoveAccount
<1>3. CASE SweepStep
  BY <1>3 DEF SweepStep, SweepRead, SweepList, SweepRemove, SweepEnd
<1>4. CASE FaultStep
  BY <1>4 DEF FaultStep, Abandon, DamageParts, DamageStage, DamageObject, ReclaimRollback,
              Crash
<1> QED
  BY <1>1, <1>2, <1>3, <1>4 DEF Next

StageAll == OrderInv /\ CommitInv /\ StageInv

LEMMA StageInit == Init => StageAll
BY OrderInvInit, CommitInvInit DEF StageAll, StageInv, Init

LEMMA StageStep == StageAll /\ [Next]_vars => StageAll'
<1> SUFFICES ASSUME StageAll, [Next]_vars PROVE StageInv'
  BY OrderInvStep, CommitInvStep DEF StageAll
<1>1. /\ TypeInv /\ TypeInv' /\ StateByControl /\ StateByControl' /\ CommitInv /\ CommitInv'
  BY OrderInvStep, CommitInvStep DEF StageAll, OrderInv
<1> SUFFICES ASSUME NEW u \in Upload
             PROVE  /\ pc'[u] = "assembling" => stage'[u] # "good"
                    /\ stage'[u] # "absent" =>
                         /\ ustate'[u] \notin {"none", "receiving"}
                         /\ ustate'[u] \in {"commit_started", "finalizing"} => commit'[u].staged
  BY DEF StageInv
<1>2. /\ pc[u] = "assembling" => stage[u] # "good"
      /\ stage[u] # "absent" =>
           /\ ustate[u] \notin {"none", "receiving"}
           /\ ustate[u] \in {"commit_started", "finalizing"} => commit[u].staged
  BY DEF StageAll, StageInv
<1>3. pc'[u] = "assembling" => stage'[u] # "good"
  <2>1. ASSUME pc'[u] = "assembling", stage'[u] # stage[u] PROVE stage'[u] # "good"
    BY <1>1, <2>1, StageKinds DEF Assemble, FinishAssembly, RemoveStage, Abandon, DamageStage,
       SweepRemove, Goto, TypeInv, TypeOK
  <2>2. ASSUME pc'[u] = "assembling", pc[u] # "assembling" PROVE stage'[u] # "good"
    <3>1. CommitStep(u)
      BY <1>1, <2>2, OwnMove
    <3>2. Assemble(u)
      BY <2>2, <3>1, <1>1 DEF CommitStep, Load, Begin, InspectStarted, FinishAssembly,
         ToFinalizing, InspectFinal, InspectStage, Publish, VerifyPublished, LoadCandidate,
         CheckCandidate, CommitMetadata, RemoveStage, ValidateRow, ValidateObject,
         MarkUnknown, MarkFailed, Goto, TypeInv, TypeOK
    <3> QED
      BY <1>1, <2>2, <3>2 DEF Assemble, Goto, TypeInv, TypeOK
  <2> QED
    BY <1>2, <2>1, <2>2
<1>4. ASSUME stage'[u] # "absent"
      PROVE  /\ ustate'[u] \notin {"none", "receiving"}
             /\ ustate'[u] \in {"commit_started", "finalizing"} => commit'[u].staged
  <2>1. CASE stage[u] = "absent"
    <3>1. Assemble(u)
      BY <1>1, <1>4, <2>1, StageKinds
         DEF FinishAssembly, RemoveStage, Abandon, DamageStage, SweepRemove, TypeInv, TypeOK
    <3>2. ustate'[u] = ustate[u] /\ commit' = commit /\ ustate[u] \in {"commit_started", "gone"}
      BY <1>1, <3>1 DEF Assemble, StateByControl, rowVars
    <3>3. ustate[u] = "commit_started" => commit[u].staged
      BY <1>1 DEF CommitInv, LinkInv, ColumnsByState
    <3> QED
      BY <3>2, <3>3
  <2>2. CASE stage[u] # "absent"
    <3>1. /\ ustate[u] \notin {"none", "receiving"}
          /\ ustate[u] \in {"commit_started", "finalizing"} => commit[u].staged
      BY <1>2, <2>2
    <3>2. \/ ustate'[u] = ustate[u] \/ ustate'[u] = "gone"
          \/ <<ustate[u], ustate'[u]>> \in CommitOrder
      BY <1>1, OrderStep DEF StageAll, OrderInv, vars, rowVars
    <3>3. /\ ustate'[u] \notin {"none", "receiving"}
          /\ ustate'[u] \in {"commit_started", "finalizing"}
               => ustate[u] \in {"commit_started", "finalizing"}
      BY <3>1, <3>2 DEF CommitOrder
    <3>4. commit'[u].staged = commit[u].staged
      <4> USE KeptTypes, <1>1
      <4>1. ASSUME NEW v \in Upload, Begin(v) PROVE commit'[u] = commit[u]
        <5>1. v # u \/ commit' = commit
          BY <3>1, <4>1 DEF Begin
        <5> QED
          BY <4>1, <5>1 DEF Begin
      <4>2. ASSUME NEW v \in Upload, CommitMetadata(v), ~UNCHANGED <<rowVars, blobs, resource>>
            PROVE  commit'[u].staged = commit[u].staged
        BY <4>2 DEF CommitMetadata, CommitColumns
      <4>3. ASSUME ReclaimCommit \/ \E p \in Path : MoveAccount(p) PROVE commit' = commit
        BY <4>3 DEF ReclaimCommit, MoveAccount, rowVars
      <4> QED
        BY <4>1, <4>2, <4>3, PlaceKinds
    <3> QED
      BY <3>1, <3>3, <3>4
  <2> QED
    BY <2>1, <2>2
<1> QED
  BY <1>3, <1>4

LEMMA StageTaken ==
    ASSUME StageAll, [Next]_vars, NEW u \in Upload, stage[u] = "good", stage'[u] = "absent",
           ustate[u] \in {"commit_started", "finalizing"}
    PROVE  SweepRemove(u)
<1>1. TypeInv /\ StateByControl /\ (pc[u] = "assembling" => stage[u] # "good")
  BY DEF StageAll, OrderInv, StageInv
<1> QED
  BY <1>1, StageKinds
     DEF Assemble, FinishAssembly, RemoveStage, DamageStage, StateByControl, TypeInv, TypeOK

\* The complete stage of an open commit is removed by the staging clean-up alone: no
\* handler, neither its own nor one dropped or begun again, takes it before the upload is
\* committed or its asset deleted (assemble_commit, TemporaryPart and
\* remove_stage_if_present against cleanup_orphan_staging).
THEOREM OpenStageSwept ==
    Spec => [][\A u \in Upload :
                 /\ stage[u] = "good" /\ stage'[u] = "absent"
                 /\ ustate[u] \in {"commit_started", "finalizing"}
                 => sweep.pc = "remove" /\ u \in sweep.keys]_vars
<1>1. StageAll /\ StageAll' /\ [Next]_vars =>
        [\A u \in Upload :
           /\ stage[u] = "good" /\ stage'[u] = "absent"
           /\ ustate[u] \in {"commit_started", "finalizing"}
           => sweep.pc = "remove" /\ u \in sweep.keys]_vars
  BY StageTaken DEF SweepRemove
<1> QED
  BY <1>1, StageInit, StageStep, PTL DEF Spec

=============================================================================
