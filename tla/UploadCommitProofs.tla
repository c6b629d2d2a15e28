------------------------- MODULE UploadCommitProofs -------------------------
(***************************************************************************)
(* Type correctness of UploadCommit, for every number of uploads,          *)
(* resources, assets, contents and storage paths.                          *)
(*                                                                         *)
(* CommitInv is inductive, and what follows from it: a lost object needs a *)
(* race with the reclaimer, a settled row is kept, a deletion is final.    *)
(*                                                                         *)
(* Three lemmas say when a step cannot disturb LinkInv; the remaining      *)
(* steps, one lemma or one case for each, disturb it and are followed      *)
(* conjunct by conjunct.                                                   *)
(***************************************************************************)
EXTENDS UploadCommitInvariant, TLAPS

LEMMA TypeInit == Init => TypeOK
<1> SUFFICES ASSUME Init PROVE TypeOK
  OBVIOUS
<1> USE RequestAssumption, NullAssumption, BoundAssumption
<1> QED
  BY DEF Init, TypeOK, CommitState, CommitColumns, FileState, Control, MaxTries,
         NoCommit, NoApproval, NoCreate, NoReclaim, NoSweep,
         CreateLocals, Approval, PartState

LEMMA CreateTypes ==
    ASSUME TypeOK, NEW u \in Upload, CreateStep(u)
    PROVE  TypeOK'
<1> USE RequestAssumption
    DEF TypeOK, rowVars, libraryVars, fileVars, handlerVars, otherVars, boundVars,
        FileState, CommitState, AssetOfUpload
<1>1. CASE CreateUpload(u)
  BY <1>1 DEF CreateUpload, UpsertAsset
<1>2. CASE ResumeUpload(u)
  BY <1>2 DEF ResumeUpload, UpsertAsset
<1>3. CASE DedupFound(u)
  <2>1. PICK b \in Rows(ContentOf[u]) :
          create' = [create EXCEPT ![u] =
             [pc |-> "inspect", blob |-> b, final |-> blobs[b], account |-> path]]
    BY <1>3 DEF DedupFound
  <2>2. b \in Upload /\ blobs[b] \in Path \cup {NULL}
    BY DEF Rows
  <2>3. create' \in [Upload -> CreateLocals]
    BY <2>1, <2>2 DEF CreateLocals
  <2> QED
    BY <1>3, <2>3 DEF DedupFound, UpsertAsset
<1>4. CASE DedupInspect(u)
  <2> DEFINE c == create[u]
             new == IF Inspect(c.account, c.final, ContentOf[u]) = "good"
                    THEN [c EXCEPT !.pc = "upsert"] ELSE NoCreate
  <2>1. c \in CreateLocals
    OBVIOUS
  <2>2. new \in CreateLocals
    BY <2>1 DEF CreateLocals, NoCreate
  <2>3. create' = [create EXCEPT ![u] = new]
    BY <1>4 DEF DedupInspect
  <2> HIDE DEF new
  <2>4. create' \in [Upload -> CreateLocals]
    BY <2>2, <2>3
  <2> QED
    BY <1>4, <2>4 DEF DedupInspect
<1>5. CASE DedupUpsert(u)
  BY <1>5 DEF DedupUpsert, NoCreate, CreateLocals
<1>6. CASE LinkParts(u) \/ RecordParts(u)
  BY <1>6 DEF LinkParts, RecordParts, PartState
<1> QED
  BY <1>1, <1>2, <1>3, <1>4, <1>5, <1>6 DEF CreateStep

LEMMA CommitTypes ==
    ASSUME TypeInv, NEW u \in Upload, Enter(u) \/ CommitStep(u)
    PROVE  TypeOK'
<1> USE RequestAssumption
    DEF TypeInv, TypeOK, rowVars, libraryVars, fileVars, handlerVars, otherVars,
        boundVars, FileState, CommitState, Control, Goto, DropLocals, MaxTries
<1>0. NoApproval \in Approval
  BY DEF NoApproval, Approval
<1>1. CASE Enter(u)
  BY <1>0, <1>1 DEF Enter
<1>2. CASE Load(u)
  BY <1>2 DEF Load, Exists
<1>3. CASE Begin(u)
  <2>1. pc' \in [Upload -> Control]
    BY <1>3 DEF Begin
  <2>2. ustate' \in [Upload -> CommitState]
    BY <1>3 DEF Begin
  <2>3. \A b \in Rows(ContentOf[u]), s \in BOOLEAN :
           [blob |-> b, final |-> blobs[b], account |-> path, staged |-> s]
             \in CommitColumns
    BY DEF Rows, CommitColumns
  <2>4. [blob |-> u, final |-> path, account |-> path, staged |-> TRUE]
          \in CommitColumns
    BY DEF CommitColumns
  <2>5. commit' \in [Upload -> CommitColumns]
    <3>1. CASE UNCHANGED commit
      BY <3>1
    <3>2. CASE \E b \in Rows(ContentOf[u]) :
                 commit' = [commit EXCEPT ![u] =
                   [blob |-> b, final |-> blobs[b], account |-> path, staged |-> FALSE]]
      <4>1. PICK b \in Rows(ContentOf[u]) :
              commit' = [commit EXCEPT ![u] =
                [blob |-> b, final |-> blobs[b], account |-> path, staged |-> FALSE]]
        BY <3>2
      <4>2. [blob |-> b, final |-> blobs[b], account |-> path, staged |-> FALSE]
              \in CommitColumns
        BY <2>3
      <4> QED
        BY <4>1, <4>2
    <3>3. CASE commit' = [commit EXCEPT ![u] =
                 [blob |-> u, final |-> path, account |-> path, staged |-> TRUE]]
      BY <2>4, <3>3
    <3> QED
      BY <1>3, <3>1, <3>2, <3>3 DEF Begin
  <2> QED
    BY <1>3, <2>1, <2>2, <2>5 DEF Begin
<1>4. CASE InspectStarted(u)
  BY <1>4 DEF InspectStarted
<1>5. CASE Assemble(u)
  <2>1. pc' \in [Upload -> Control]
    BY <1>5 DEF Assemble
  <2>2. stage' \in [Upload -> FileState]
    BY <1>5 DEF Assemble
  <2> QED
    BY <1>5, <2>1, <2>2 DEF Assemble
<1>6. CASE FinishAssembly(u)
  BY <1>6 DEF FinishAssembly
<1>7. CASE ToFinalizing(u)
  <2>1. pc' \in [Upload -> Control]
    BY <1>7 DEF ToFinalizing
  <2>2. ustate' \in [Upload -> CommitState]
    BY <1>7 DEF ToFinalizing
  <2> QED
    BY <1>7, <2>1, <2>2 DEF ToFinalizing
<1>8. CASE InspectFinal(u)
  BY <1>8 DEF InspectFinal
<1>9. CASE InspectStage(u)
  BY <1>9 DEF InspectStage
<1>10. CASE Publish(u)
  <2>1. pc' \in [Upload -> Control]
    BY <1>10 DEF Publish
  <2>2. object' \in [Path \X Content -> FileState]
    BY <1>10, SMTT(60) DEF Publish, FinalKey
  <2> QED
    BY <1>10, <2>1, <2>2 DEF Publish
<1>11. CASE VerifyPublished(u)
  BY <1>11 DEF VerifyPublished
<1>12. CASE LoadCandidate(u)
  <2>1. pc' \in [Upload -> Control]
    BY <1>12 DEF LoadCandidate
  <2>2. approved' \in [Upload -> Approval]
    BY <1>12, SMTT(60) DEF LoadCandidate, Rows, Candidate, Approval
  <2> QED
    BY <1>12, <2>1, <2>2 DEF LoadCandidate
<1>13. CASE CheckCandidate(u)
  <2>1. pc' \in [Upload -> Control]
    BY <1>13 DEF CheckCandidate
  <2>2. approved' \in [Upload -> Approval]
    BY <1>0, <1>13 DEF CheckCandidate
  <2>3. tries' \in [Upload -> 0..3]
    BY <1>13 DEF CheckCandidate
  <2> QED
    BY <1>13, <2>1, <2>2, <2>3 DEF CheckCandidate
<1>14. CASE CommitMetadata(u)
  <2> DEFINE actual == ActualRow(u)
  <2>1. actual \in Approval
    BY DEF ActualRow, Candidate, Rows, Approval, CommitColumns
  <2>2. pc' \in [Upload -> Control]
    BY <1>14 DEF CommitMetadata
  <2>3. approved' \in [Upload -> Approval]
    <3>1. \E x \in {actual, NoApproval, approved[u]} : approved' = [approved EXCEPT ![u] = x]
      BY <1>14 DEF CommitMetadata
    <3> HIDE DEF actual
    <3> QED
      BY <1>0, <2>1, <3>1
  <2>4. tries' \in [Upload -> 0..3]
    <3>1. tries[u] < 3
      BY <1>14 DEF AttemptsLeft, MetadataLoop, CommitMetadata
    <3> QED
      BY <1>14, <3>1 DEF CommitMetadata
  <2>5. ustate' \in [Upload -> CommitState] /\ complete' \in SUBSET Upload
    BY <1>14 DEF CommitMetadata
  <2>6. blobs' \in [Upload -> Path \cup {NULL}]
        /\ resource' \in [Resource -> Upload \cup {NULL}]
    <3>1. actual.blob \in Upload \cup {NULL} /\ actual.final \in Path \cup {NULL}
      BY <2>1 DEF Approval
    <3>2. \/ UNCHANGED <<blobs, resource>>
          \/ /\ blobs' = [blobs EXCEPT ![actual.blob] = actual.final]
             /\ resource' = [resource EXCEPT ![ResourceOf[u]] = actual.blob]
      BY <1>14 DEF CommitMetadata
    <3> HIDE DEF actual
    <3> QED
      BY <3>1, <3>2
  <2>7. commit' \in [Upload -> CommitColumns]
    <3>1. \A c \in CommitColumns, a \in Approval :
            [[c EXCEPT !.blob = a.blob] EXCEPT !.final = a.final] \in CommitColumns
      BY DEF CommitColumns, Approval
    <3>2. CASE UNCHANGED commit
      BY <3>2
    <3>3. CASE commit' = [commit EXCEPT ![u].blob = actual.blob, ![u].final = actual.final]
      <4> DEFINE new == [[commit[u] EXCEPT !.blob = actual.blob] EXCEPT !.final = actual.final]
      <4>1. new \in CommitColumns
        BY <2>1, <3>1
      <4>2. commit' = [commit EXCEPT ![u] = new]
        BY <3>3
      <4> HIDE DEF new
      <4> QED
        BY <4>1, <4>2
    <3> QED
      BY <1>14, <3>2, <3>3 DEF CommitMetadata
  <2> QED
    BY <1>14, <2>2, <2>3, <2>4, <2>5, <2>6, <2>7 DEF CommitMetadata
<1>15. CASE RemoveStage(u)
  BY <1>15 DEF RemoveStage
<1>16. CASE ValidateRow(u)
  BY <1>16 DEF ValidateRow
<1>17. CASE ValidateObject(u)
  BY <1>17 DEF ValidateObject
<1>18. CASE MarkUnknown(u)
  BY <1>18 DEF MarkUnknown
<1>19. CASE MarkFailed(u)
  BY <1>19 DEF MarkFailed
<1> QED
  BY <1>1, <1>2, <1>3, <1>4, <1>5, <1>6, <1>7, <1>8, <1>9, <1>10, <1>11, <1>12, <1>13, <1>14, <1>15, <1>16, <1>17, <1>18, <1>19
     DEF CommitStep

LEMMA OtherTypes ==
    ASSUME TypeOK,
           \/ \E a \in Asset : LibraryStep(a)
           \/ \E b \in Upload : ReclaimDelete(b)
           \/ ReclaimStep
           \/ SweepStep
           \/ \E p \in Path : MoveAccount(p)
           \/ FaultStep
    PROVE  TypeOK'
<1> USE RequestAssumption, BoundAssumption
    DEF TypeOK, rowVars, libraryVars, fileVars, handlerVars, otherVars, boundVars,
        FileState, CommitState, Control, Goto, DropLocals, MaxTries, Fault
<1>0. /\ NoApproval \in Approval
      /\ NoCreate \in CreateLocals
      /\ NoReclaim \in [blob : Upload \cup {NULL}, unlinked : BOOLEAN]
      /\ NoSweep \in [pc : {"idle", "list", "remove"}, path : Path \cup {NULL},
                      keys : SUBSET Upload]
  BY DEF NoApproval, Approval, NoCreate, CreateLocals, NoReclaim, NoSweep
<1>1. ASSUME NEW a \in Asset, Trash(a) PROVE TypeOK'
  BY <1>1 DEF Trash
<1>2. ASSUME NEW a \in Asset, Restore(a) PROVE TypeOK'
  BY <1>2 DEF Restore
<1>3. ASSUME NEW a \in Asset, DeletePermanently(a) PROVE TypeOK'
  BY <1>3 DEF DeletePermanently
<1>4. ASSUME NEW b \in Upload, ReclaimDelete(b) PROVE TypeOK'
  BY <1>4 DEF ReclaimDelete
<1>5. CASE ReclaimUnlink
  <2>1. reclaim.blob \in Upload
    BY <1>5 DEF ReclaimUnlink
  <2>2. object' \in [Path \X Content -> FileState]
    BY <1>5, ZenonT(60) DEF ReclaimUnlink
  <2>3. reclaim' \in [blob : Upload \cup {NULL}, unlinked : BOOLEAN]
    <3>1. [reclaim EXCEPT !.unlinked = TRUE]
            \in [blob : Upload \cup {NULL}, unlinked : BOOLEAN]
      OBVIOUS
    <3> QED
      BY <1>0, <1>5, <3>1, ZenonT(60) DEF ReclaimUnlink
  <2>4. raced' \in SUBSET Content
    BY <1>5, <2>1 DEF ReclaimUnlink
  <2> QED
    BY <1>5, <2>2, <2>3, <2>4 DEF ReclaimUnlink
<1>6. CASE ReclaimCommit
  BY <1>0, <1>6 DEF ReclaimCommit
<1>7. CASE SweepRead
  BY <1>7 DEF SweepRead
<1>8. CASE SweepList
  BY <1>8 DEF SweepList
<1>9. ASSUME NEW u \in Upload, SweepRemove(u) PROVE TypeOK'
  BY <1>9 DEF SweepRemove
<1>10. CASE SweepEnd
  BY <1>0, <1>10 DEF SweepEnd
<1>11. ASSUME NEW p \in Path, MoveAccount(p) PROVE TypeOK'
  BY <1>11 DEF MoveAccount
<1>12. ASSUME NEW u \in Upload, Abandon(u) PROVE TypeOK'
  <2>1. stage' \in [Upload -> FileState]
    BY <1>12 DEF Abandon
  <2> QED
    BY <1>0, <1>12, <2>1 DEF Abandon
<1>13. ASSUME NEW u \in Upload, DamageParts(u) PROVE TypeOK'
  BY <1>13 DEF DamageParts, PartState
<1>14. ASSUME NEW u \in Upload, DamageStage(u) PROVE TypeOK'
  BY <1>14 DEF DamageStage
<1>15. ASSUME NEW k \in Path \X Content, DamageObject(k) PROVE TypeOK'
  BY <1>15 DEF DamageObject
<1>16. CASE ReclaimRollback
  BY <1>0, <1>16 DEF ReclaimRollback
<1>17. CASE Crash
  <2>1. \A state \in PartState : TakenBack(state) \in PartState
    BY DEF PartState, TakenBack
  <2>2. parts' \in [Upload -> PartState]
    <3>1. PICK us \in SUBSET Upload :
            parts' = [u \in Upload |-> IF u \in us THEN TakenBack(parts[u]) ELSE parts[u]]
      BY <1>17 DEF Crash
    <3> QED
      BY <2>1, <3>1
  <2> QED
    BY <1>0, <1>17, <2>2 DEF Crash
<1> QED
  BY <1>1, <1>2, <1>3, <1>4, <1>5, <1>6, <1>7, <1>8, <1>9, <1>10, <1>11, <1>12, <1>13, <1>14, <1>15, <1>16, <1>17
     DEF LibraryStep, ReclaimStep, SweepStep, FaultStep

\* Every action by which a handler that runs complete_inner moves counts its
\* metadata attempts, and no other step touches pc or tries except to reset them.
LEMMA AttemptsStep ==
    ASSUME TypeInv, [Next]_vars
    PROVE  AttemptsLeft'
<1> USE DEF TypeInv, TypeOK, AttemptsLeft, MetadataLoop, rowVars, libraryVars,
            fileVars, handlerVars, otherVars, boundVars, vars
<1>1. ASSUME NEW u \in Upload, Enter(u) PROVE AttemptsLeft'
  BY <1>1 DEF Enter, Goto, DropLocals, MaxTries
<1>2. ASSUME NEW u \in Upload, CommitStep(u) PROVE AttemptsLeft'
  <2> USE DEF Goto, MaxTries
  <2>1. CASE Load(u)
    BY <2>1 DEF Load
  <2>2. CASE Begin(u)
    BY <2>2 DEF Begin
  <2>3. CASE InspectStarted(u)
    BY <2>3 DEF InspectStarted
  <2>4. CASE Assemble(u)
    BY <2>4 DEF Assemble
  <2>5. CASE FinishAssembly(u)
    BY <2>5 DEF FinishAssembly
  <2>6. CASE ToFinalizing(u)
    BY <2>6 DEF ToFinalizing
  <2>7. CASE InspectFinal(u)
    BY <2>7 DEF InspectFinal
  <2>8. CASE InspectStage(u)
    BY <2>8 DEF InspectStage
  <2>9. CASE Publish(u)
    BY <2>9 DEF Publish
  <2>10. CASE VerifyPublished(u)
    BY <2>10 DEF VerifyPublished
  <2>11. CASE LoadCandidate(u)
    BY <2>11 DEF LoadCandidate
  <2>12. CASE CheckCandidate(u)
    BY <2>12 DEF CheckCandidate, DropLocals
  <2>13. CASE CommitMetadata(u)
    BY <2>13 DEF CommitMetadata, DropLocals
  <2>14. CASE RemoveStage(u)
    BY <2>14 DEF RemoveStage
  <2>15. CASE ValidateRow(u)
    BY <2>15 DEF ValidateRow
  <2>16. CASE ValidateObject(u)
    BY <2>16 DEF ValidateObject
  <2>17. CASE MarkUnknown(u)
    BY <2>17 DEF MarkUnknown
  <2>18. CASE MarkFailed(u)
    BY <2>18 DEF MarkFailed
  <2> QED
    BY <1>2, <2>1, <2>2, <2>3, <2>4, <2>5, <2>6, <2>7, <2>8, <2>9, <2>10, <2>11, <2>12, <2>13, <2>14, <2>15, <2>16, <2>17, <2>18
       DEF CommitStep
<1>3. ASSUME UNCHANGED handlerVars PROVE AttemptsLeft'
  BY <1>3
<1>4. ASSUME NEW u \in Upload, Abandon(u) PROVE AttemptsLeft'
  BY <1>4 DEF Abandon, Goto, DropLocals, MaxTries
<1>5. CASE Crash
  BY <1>5 DEF Crash, MaxTries
<1> QED
  <2>1. ASSUME NEW u \in Upload, CreateStep(u) PROVE UNCHANGED handlerVars
    BY <2>1 DEF CreateStep, CreateUpload, ResumeUpload, DedupFound, DedupInspect,
                DedupUpsert, LinkParts, RecordParts
  <2>2. ASSUME NEW a \in Asset, LibraryStep(a) PROVE UNCHANGED handlerVars
    BY <2>2 DEF LibraryStep, Trash, Restore, DeletePermanently
  <2>3. ASSUME NEW b \in Upload, ReclaimDelete(b) PROVE UNCHANGED handlerVars
    BY <2>3 DEF ReclaimDelete
  <2>4. CASE ReclaimStep \/ SweepStep
    BY <2>4 DEF ReclaimStep, ReclaimUnlink, ReclaimCommit, SweepStep, SweepRead,
                SweepList, SweepRemove, SweepEnd
  <2>5. ASSUME NEW p \in Path, MoveAccount(p) PROVE UNCHANGED handlerVars
    BY <2>5 DEF MoveAccount
  <2>6. CASE FaultStep
    BY <1>3, <1>4, <1>5, <2>6
       DEF FaultStep, DamageParts, DamageStage, DamageObject, ReclaimRollback
  <2> QED
    BY <1>1, <1>2, <1>3, <2>1, <2>2, <2>3, <2>4, <2>5, <2>6 DEF Next

LEMMA TypeStep == TypeInv /\ [Next]_vars => TypeInv'
<1> SUFFICES ASSUME TypeInv, [Next]_vars PROVE TypeInv'
  OBVIOUS
<1>1. CASE UNCHANGED vars
  BY <1>1 DEF TypeInv, TypeOK, AttemptsLeft, vars, rowVars, libraryVars, fileVars,
              handlerVars, otherVars, boundVars
<1>2. CASE Next
  <2>1. TypeOK'
    BY <1>2, CreateTypes, CommitTypes, OtherTypes DEF Next, TypeInv
  <2> QED
    BY <2>1, AttemptsStep DEF TypeInv
<1> QED
  BY <1>1, <1>2

\* Every row, file and handler always has a state of its type, and no handler
\* of complete_inner attempts the metadata transaction more than MaxTries times.
THEOREM TypeCorrect == Spec => [](TypeOK /\ AttemptsLeft)
<1>1. Init => TypeInv
  BY TypeInit DEF Init, TypeInv, AttemptsLeft, MetadataLoop
<1> QED
  BY <1>1, TypeStep, PTL DEF Spec, TypeInv

-----------------------------------------------------------------------------
(* Rows, files and handlers *)

\* LinkInv is about neither parts, stages, the clean-up nor the bounds.
LEMMA UnlinkedStep ==
    ASSUME LinkInv,
           UNCHANGED <<ustate, commit, libraryVars, object, pc, approved, create,
                       reclaim, raced>>
    PROVE  LinkInv'
BY DEF LinkInv, OneRowPerContent, ResourceHasRow, ReclaimOrphan, Orphan, Exists,
       ColumnsByState, ColumnsByControl, ColumnsSet, FreshBlobUnused, SettledRowKept,
       CommitRelies, Present, FinalKey, ApprovalChecked, CreateRelies, DeletionIsFinal,
       ObjectLossNeedsRace, libraryVars

\* Keys of final objects that handlers and resources refer to.
LEMMA KeyTypes ==
    ASSUME CommitInv
    PROVE  /\ \A u \in Upload : ColumnsSet(u) => FinalKey(u) \in Path \X Content
           /\ \A u \in Upload :
                create[u].pc # "idle" => <<create[u].final, ContentOf[u]>> \in Path \X Content
           /\ \A r \in Resource :
                resource[r] # NULL =>
                    /\ resource[r] \in Upload
                    /\ <<blobs[resource[r]], ContentOf[resource[r]]>> \in Path \X Content
BY RequestAssumption, NullAssumption
   DEF CommitInv, TypeInv, TypeOK, CommitColumns, CreateLocals, ColumnsSet, FinalKey,
       LinkInv, CreateRelies, ResourceHasRow

\* A step of complete_inner outside the metadata loop that writes no row and
\* removes no object: what it has to establish for its next step.
LEMMA HandlerStep ==
    ASSUME CommitInv, TypeInv', NEW u \in Upload,
           NEW l \in (Control \ MetadataLoop) \cup {"load_candidate"},
           pc[u] \notin MetadataLoop \cup {"idle"},
           pc' = [pc EXCEPT ![u] = l],
           UNCHANGED <<rowVars, libraryVars, approved, create, reclaim, raced>>,
           \A k \in Path \X Content : object[k] # "absent" => object'[k] # "absent",
           l \notin {"idle", "load", "begin", "mark_unknown", "mark_failed"}
             => ColumnsSet(u),
           l = "load_candidate"
             => commit[u].final = commit[u].account /\ Present(FinalKey(u))
    PROVE  LinkInv'
<1> USE DEF CommitInv, TypeInv, TypeOK, LinkInv, rowVars, libraryVars
<1>1. OneRowPerContent' /\ ResourceHasRow' /\ ReclaimOrphan' /\ DeletionIsFinal'
  BY DEF OneRowPerContent, ResourceHasRow, ReclaimOrphan, Orphan, Exists, DeletionIsFinal
<1>2. ColumnsByState' /\ FreshBlobUnused' /\ SettledRowKept'
  BY DEF ColumnsByState, ColumnsSet, FreshBlobUnused, SettledRowKept
<1>3. ColumnsByControl'
  BY DEF ColumnsByControl, ColumnsSet
<1>4. \A k \in Path \X Content : Present(k) => Present(k)'
  BY DEF Present
<1>5. CommitRelies'
  <2> SUFFICES ASSUME NEW v \in Upload, pc'[v] \in MetadataLoop
               PROVE  commit[v].final = commit[v].account /\ Present(FinalKey(v))'
    BY DEF CommitRelies
  <2>1. commit[v].final = commit[v].account /\ Present(FinalKey(v)) /\ ColumnsSet(v)
    BY DEF CommitRelies, ColumnsByControl, MetadataLoop
  <2>2. FinalKey(v) \in Path \X Content /\ FinalKey(v)' = FinalKey(v)
    BY <2>1, KeyTypes DEF FinalKey
  <2> QED
    BY <1>4, <2>1, <2>2
<1>6. ApprovalChecked'
  BY DEF ApprovalChecked, MetadataLoop
<1>7. CreateRelies'
  BY <1>4, KeyTypes DEF CreateRelies, Present
<1>8. ObjectLossNeedsRace'
  BY KeyTypes DEF ObjectLossNeedsRace
<1> QED
  BY <1>1, <1>2, <1>3, <1>5, <1>6, <1>7, <1>8

LEMMA CreateKeeps ==
    ASSUME CommitInv, TypeInv', NEW u \in Upload, CreateStep(u)
    PROVE  LinkInv'
<1> USE RequestAssumption, NullAssumption
    DEF CommitInv, TypeInv, TypeOK, LinkInv, rowVars, libraryVars, fileVars,
        handlerVars, otherVars, boundVars
<1>1. CASE CreateUpload(u)
  <2>1. ColumnsByState' /\ FreshBlobUnused' /\ SettledRowKept'
    BY <1>1 DEF CreateUpload, ColumnsByState, ColumnsSet, FreshBlobUnused, SettledRowKept
  <2>2. ReclaimOrphan'
    BY <1>1 DEF CreateUpload, WriterFree, ReclaimOrphan
  <2>3. DeletionIsFinal'
    BY <1>1 DEF CreateUpload, UpsertAsset, AssetOfUpload, DeletionIsFinal, Exists
  <2> QED
    BY <1>1, <2>1, <2>2, <2>3
       DEF CreateUpload, OneRowPerContent, ResourceHasRow, ColumnsByControl, ColumnsSet,
           CommitRelies, Present, FinalKey, ApprovalChecked, CreateRelies,
           ObjectLossNeedsRace
<1>2. CASE ResumeUpload(u)
  <2>1. DeletionIsFinal'
    BY <1>2 DEF ResumeUpload, UpsertAsset, AssetOfUpload, DeletionIsFinal, Exists
  <2> QED
    BY <1>2, <2>1
       DEF ResumeUpload, OneRowPerContent, ResourceHasRow, ReclaimOrphan, Orphan, Exists,
           ColumnsByState, ColumnsByControl, ColumnsSet, FreshBlobUnused, SettledRowKept,
           CommitRelies, Present, FinalKey, ApprovalChecked, CreateRelies,
           ObjectLossNeedsRace
<1>3. CASE DedupFound(u)
  <2>1. PICK b \in Rows(ContentOf[u]) :
          create' = [create EXCEPT ![u] =
             [pc |-> "inspect", blob |-> b, final |-> blobs[b], account |-> path]]
    BY <1>3 DEF DedupFound
  <2>2. b \in Upload /\ blobs[b] # NULL /\ ContentOf[b] = ContentOf[u]
    BY DEF Rows
  <2>3. FreshBlobUnused'
    BY <1>3, <2>1, <2>2 DEF DedupFound, FreshBlobUnused
  <2>4. CreateRelies'
    BY <1>3, <2>1, <2>2 DEF DedupFound, CreateRelies, Present
  <2>5. DeletionIsFinal'
    BY <1>3 DEF DedupFound, UpsertAsset, AssetOfUpload, DeletionIsFinal, Exists
  <2> QED
    BY <1>3, <2>3, <2>4, <2>5
       DEF DedupFound, OneRowPerContent, ResourceHasRow, ReclaimOrphan, Orphan, Exists,
           ColumnsByState, ColumnsByControl, ColumnsSet, SettledRowKept,
           CommitRelies, Present, FinalKey, ApprovalChecked, ObjectLossNeedsRace
<1>4. CASE DedupInspect(u)
  <2> DEFINE c == create[u]
             found == Inspect(c.account, c.final, ContentOf[u]) = "good"
  <2>1. found => Present(<<c.final, ContentOf[u]>>)
    BY DEF Inspect, Present
  <2>2. create' = [create EXCEPT ![u] = IF found THEN [c EXCEPT !.pc = "upsert"]
                                                 ELSE NoCreate]
    BY <1>4 DEF DedupInspect
  <2> HIDE DEF found
  <2>3. /\ create'[u].pc # "idle" => /\ found
                                      /\ create'[u].blob = c.blob
                                      /\ create'[u].final = c.final
        /\ create'[u].blob \in {c.blob, NULL}
        /\ \A v \in Upload \ {u} : create'[v] = create[v]
    BY <2>2 DEF NoCreate, CreateLocals
  <2>4. CreateRelies'
    <3> SUFFICES ASSUME NEW v \in Upload, create'[v].pc # "idle"
                 PROVE  /\ create'[v].blob # NULL
                        /\ create'[v].final # NULL
                        /\ ContentOf[create'[v].blob] = ContentOf[v]
                        /\ blobs[create'[v].blob] \in {NULL, create'[v].final}
                        /\ create'[v].pc = "upsert"
                             => Present(<<create'[v].final, ContentOf[v]>>)
      BY <1>4 DEF CreateRelies, DedupInspect, Present
    <3>1. CASE v = u
      <4>1. /\ c.blob # NULL /\ c.final # NULL
            /\ ContentOf[c.blob] = ContentOf[u]
            /\ blobs[c.blob] \in {NULL, c.final}
        BY <1>4 DEF DedupInspect, CreateRelies
      <4> QED
        BY <2>1, <2>3, <3>1, <4>1
    <3>2. CASE v # u
      BY <2>3, <3>2 DEF CreateRelies
    <3> QED
      BY <3>1, <3>2
  <2>5. FreshBlobUnused'
    BY <1>4, <2>3 DEF DedupInspect, FreshBlobUnused
  <2> QED
    BY <1>4, <2>4, <2>5
       DEF DedupInspect, OneRowPerContent, ResourceHasRow, ReclaimOrphan, Orphan, Exists,
           ColumnsByState, ColumnsByControl, ColumnsSet, SettledRowKept, CommitRelies,
           Present, FinalKey, ApprovalChecked, DeletionIsFinal, ObjectLossNeedsRace
<1>5. CASE DedupUpsert(u)
  <2> DEFINE b == create[u].blob
  <2>1. /\ b \in Upload /\ ContentOf[b] = ContentOf[u]
        /\ blobs[b] # NULL => Present(<<blobs[b], ContentOf[b]>>)
    <3>1. /\ b # NULL /\ ContentOf[b] = ContentOf[u]
          /\ blobs[b] \in {NULL, create[u].final}
          /\ Present(<<create[u].final, ContentOf[u]>>)
      BY <1>5 DEF DedupUpsert, CreateRelies
    <3>2. b \in Upload \cup {NULL}
      BY DEF CreateLocals
    <3> QED
      BY <3>1, <3>2
  <2>2. \A r \in Resource :
          \/ resource'[r] = resource[r]
          \/ resource'[r] = b /\ r = ResourceOf[u] /\ blobs[b] # NULL
             /\ assets[AssetOfUpload(u)] # "deleted"
    BY <1>5 DEF DedupUpsert
  <2>3. ResourceHasRow'
    BY <1>5, <2>2 DEF DedupUpsert, ResourceHasRow
  <2>4. ReclaimOrphan'
    BY <1>5 DEF DedupUpsert, WriterFree, ReclaimOrphan
  <2>5. DeletionIsFinal'
    BY <1>5, <2>2 DEF DedupUpsert, DeletionIsFinal, AssetOfUpload, Exists
  <2>6. ObjectLossNeedsRace'
    BY <1>5, <2>1, <2>2, ZenonT(60) DEF DedupUpsert, ObjectLossNeedsRace, Present
  <2>7. FreshBlobUnused' /\ CreateRelies'
    BY <1>5 DEF DedupUpsert, FreshBlobUnused, CreateRelies, NoCreate, Present
  <2> QED
    BY <1>5, <2>3, <2>4, <2>5, <2>6, <2>7
       DEF DedupUpsert, OneRowPerContent, ColumnsByState, ColumnsByControl, ColumnsSet,
           SettledRowKept, CommitRelies, Present, FinalKey, ApprovalChecked
<1>6. CASE LinkParts(u) \/ RecordParts(u)
  BY <1>6, UnlinkedStep DEF LinkParts, RecordParts
<1> QED
  BY <1>1, <1>2, <1>3, <1>4, <1>5, <1>6 DEF CreateStep

\* The steps of complete_inner that only look: rows and files stay.
LEMMA LookKeeps ==
    ASSUME CommitInv, TypeInv', NEW u \in Upload,
           \/ Load(u) \/ InspectStarted(u) \/ Assemble(u) \/ FinishAssembly(u)
           \/ InspectFinal(u) \/ InspectStage(u) \/ Publish(u) \/ VerifyPublished(u)
           \/ RemoveStage(u) \/ ValidateRow(u) \/ ValidateObject(u)
    PROVE  LinkInv'
<1> USE DEF CommitInv, TypeInv, TypeOK, Control, MetadataLoop, rowVars, libraryVars,
            fileVars, otherVars, boundVars, Goto
<1>0. /\ ColumnsByState /\ ColumnsByControl
  BY DEF LinkInv
<1>1. ASSUME FinalState(u) = "good"
      PROVE  commit[u].final = commit[u].account /\ Present(FinalKey(u))
  BY <1>1 DEF FinalState, Inspect, Present, FinalKey
<1>2. CASE Load(u)
  <2>1. \A l : Goto(u, l) => pc' = [pc EXCEPT ![u] = pc'[u]]
    OBVIOUS
  <2> HIDE DEF Goto
  <2>2. pc[u] = "load" /\ pc' = [pc EXCEPT ![u] = pc'[u]]
    BY <1>2, <2>1 DEF Load
  <2> USE DEF Goto
  <2>3. \/ pc'[u] \in {"idle", "begin", "mark_unknown"}
        \/ /\ pc'[u] \in {"validate_row", "inspect_started", "inspect_final"}
           /\ ustate[u] \in {"committed", "commit_started", "finalizing"}
    BY <1>2 DEF Load, Started
  <2>4. pc'[u] \notin {"idle", "begin", "mark_unknown"} => ColumnsSet(u)
    BY <1>0, <2>3 DEF ColumnsByState
  <2>5. UNCHANGED <<rowVars, libraryVars, object, approved, create, reclaim, raced>>
    BY <1>2 DEF Load
  <2> HIDE DEF CommitInv, TypeInv, TypeOK
  <2> QED
    BY <2>2, <2>3, <2>4, <2>5, HandlerStep
<1>3. CASE InspectStarted(u)
  <2>1. /\ pc[u] = "inspect_started" /\ pc' = [pc EXCEPT ![u] = pc'[u]]
        /\ pc'[u] \in {"to_finalizing", "assemble", "mark_unknown"}
    BY <1>3 DEF InspectStarted
  <2> QED
    BY <1>0, <1>3, <2>1, HandlerStep
       DEF InspectStarted, ColumnsByControl
<1>4. CASE Assemble(u)
  <2>1. /\ pc[u] = "assemble" /\ pc' = [pc EXCEPT ![u] = pc'[u]]
        /\ pc'[u] \in {"to_finalizing", "assembling"}
    BY <1>4 DEF Assemble
  <2>2. ColumnsSet(u)
    BY <1>0, <2>1 DEF ColumnsByControl
  <2>3. UNCHANGED <<rowVars, libraryVars, object, approved, create, reclaim, raced>>
    BY <1>4 DEF Assemble
  <2> HIDE DEF CommitInv, TypeInv, TypeOK
  <2> QED
    BY <2>1, <2>2, <2>3, HandlerStep
<1>5. CASE FinishAssembly(u)
  <2>1. /\ pc[u] = "assembling" /\ pc' = [pc EXCEPT ![u] = pc'[u]]
        /\ pc'[u] \in {"to_finalizing", "mark_failed"}
    BY <1>5 DEF FinishAssembly
  <2>2. ColumnsSet(u)
    BY <1>0, <2>1 DEF ColumnsByControl
  <2>3. UNCHANGED <<rowVars, libraryVars, object, approved, create, reclaim, raced>>
    BY <1>5 DEF FinishAssembly
  <2> HIDE DEF CommitInv, TypeInv, TypeOK
  <2> QED
    BY <2>1, <2>2, <2>3, HandlerStep
<1>6. CASE InspectFinal(u)
  <2>1. /\ pc[u] = "inspect_final" /\ pc' = [pc EXCEPT ![u] = pc'[u]]
        /\ pc'[u] \in {"load_candidate", "inspect_stage", "mark_unknown"}
    BY <1>6 DEF InspectFinal
  <2>2. pc'[u] = "load_candidate" => FinalState(u) = "good"
    BY <1>6 DEF InspectFinal
  <2> QED
    BY <1>0, <1>1, <1>6, <2>1, <2>2, HandlerStep
       DEF InspectFinal, ColumnsByControl
<1>7. CASE InspectStage(u)
  <2>1. /\ pc[u] = "inspect_stage" /\ pc' = [pc EXCEPT ![u] = pc'[u]]
        /\ pc'[u] \in {"publish", "mark_unknown"}
    BY <1>7 DEF InspectStage
  <2> QED
    BY <1>0, <1>7, <2>1, HandlerStep
       DEF InspectStage, ColumnsByControl
<1>8. CASE Publish(u)
  <2>1. /\ pc[u] = "publish" /\ pc' = [pc EXCEPT ![u] = pc'[u]]
        /\ pc'[u] \in {"verify_published", "mark_unknown"}
    BY <1>8 DEF Publish
  <2>2. \A k \in Path \X Content : object[k] # "absent" => object'[k] # "absent"
    BY <1>8 DEF Publish
  <2>3. ColumnsSet(u)
    BY <1>0, <2>1 DEF ColumnsByControl
  <2>4. UNCHANGED <<rowVars, libraryVars, approved, create, reclaim, raced>>
    BY <1>8 DEF Publish
  <2> HIDE DEF CommitInv, TypeInv, TypeOK
  <2> QED
    BY <2>1, <2>2, <2>3, <2>4, HandlerStep
<1>9. CASE VerifyPublished(u)
  <2>1. /\ pc[u] = "verify_published" /\ pc' = [pc EXCEPT ![u] = pc'[u]]
        /\ pc'[u] \in {"load_candidate", "mark_unknown"}
    BY <1>9 DEF VerifyPublished
  <2>2. pc'[u] = "load_candidate" => FinalState(u) = "good"
    BY <1>9 DEF VerifyPublished
  <2> QED
    BY <1>0, <1>1, <1>9, <2>1, <2>2, HandlerStep
       DEF VerifyPublished, ColumnsByControl
<1>10. CASE RemoveStage(u)
  <2>1. /\ pc[u] = "remove_stage" /\ pc' = [pc EXCEPT ![u] = pc'[u]]
        /\ pc'[u] \in {"idle"}
    BY <1>10 DEF RemoveStage
  <2> QED
    BY <1>0, <1>10, <2>1, HandlerStep
       DEF RemoveStage, ColumnsByControl
<1>11. CASE ValidateRow(u)
  <2>1. /\ pc[u] = "validate_row" /\ pc' = [pc EXCEPT ![u] = pc'[u]]
        /\ pc'[u] \in {"validate_object", "mark_unknown"}
    BY <1>11 DEF ValidateRow
  <2> QED
    BY <1>0, <1>11, <2>1, HandlerStep
       DEF ValidateRow, ColumnsByControl
<1>12. CASE ValidateObject(u)
  <2>1. /\ pc[u] = "validate_object" /\ pc' = [pc EXCEPT ![u] = pc'[u]]
        /\ pc'[u] \in {"remove_stage", "mark_unknown", "idle"}
    BY <1>12 DEF ValidateObject
  <2> QED
    BY <1>0, <1>12, <2>1, HandlerStep
       DEF ValidateObject, ColumnsByControl
<1> QED
  BY <1>2, <1>3, <1>4, <1>5, <1>6, <1>7, <1>8, <1>9, <1>10, <1>11, <1>12

\* The first three branches of CommitMetadata write nothing; the last one
\* relies on what the handler knows of the object.
LEMMA MetadataKeeps ==
    ASSUME CommitInv, TypeInv', NEW u \in Upload, CommitMetadata(u)
    PROVE  LinkInv'
<1> USE RequestAssumption, NullAssumption
    DEF CommitInv, TypeInv, TypeOK, LinkInv, rowVars, libraryVars, fileVars,
        otherVars, boundVars
<1> DEFINE a == ActualRow(u)
           c == ContentOf[u]
           mine == [blob |-> commit[u].blob, final |-> commit[u].final]
<1>1. /\ pc[u] = "commit_metadata" /\ ColumnsSet(u)
      /\ commit[u].final = commit[u].account /\ Present(FinalKey(u))
  BY DEF CommitMetadata, ColumnsByControl, CommitRelies, MetadataLoop
<1>2. CASE UNCHANGED <<rowVars, blobs, resource>>
  <2>1. /\ pc' = [pc EXCEPT ![u] = pc'[u]]
        /\ pc'[u] \in {"mark_unknown", "check_actual", "idle"}
        /\ pc'[u] = "mark_unknown" => approved'[u] = NoApproval
        /\ \A v \in Upload \ {u} : approved'[v] = approved[v]
    BY <1>2 DEF CommitMetadata, Goto, DropLocals, NoApproval
  <2>2. ApprovalChecked'
    BY <1>2, <2>1 DEF ApprovalChecked, MetadataLoop
  <2>3. ColumnsByControl'
    BY <1>1, <1>2, <2>1 DEF ColumnsByControl, ColumnsSet
  <2>4. CommitRelies'
    BY <1>1, <1>2, <2>1 DEF CommitMetadata, CommitRelies, MetadataLoop, Present, FinalKey
  <2> QED
    BY <1>2, <2>2, <2>3, <2>4
       DEF CommitMetadata, OneRowPerContent, ResourceHasRow, ReclaimOrphan, Orphan,
           Exists, ColumnsByState, ColumnsSet, FreshBlobUnused, SettledRowKept,
           CreateRelies, Present, DeletionIsFinal, ObjectLossNeedsRace
<1>3. CASE ~UNCHANGED <<rowVars, blobs, resource>>
  <2>1. /\ ustate[u] = "finalizing" /\ a \in {mine, approved[u]} /\ WriterFree
        /\ blobs' = [blobs EXCEPT ![a.blob] = a.final]
        /\ resource' = [resource EXCEPT ![ResourceOf[u]] = a.blob]
        /\ ustate' = [ustate EXCEPT ![u] = "committed"]
        /\ commit' = [commit EXCEPT ![u].blob = a.blob, ![u].final = a.final]
        /\ pc' = [pc EXCEPT ![u] = IF commit[u].staged THEN "remove_stage" ELSE "idle"]
        /\ approved' = [approved EXCEPT ![u] = NoApproval]
        /\ UNCHANGED <<assets, object, create, reclaim, raced>>
    BY <1>3 DEF CommitMetadata, Goto, DropLocals
  <2>2. \/ /\ Rows(c) = {} /\ a.blob = commit[u].blob /\ a.final = commit[u].final
        \/ /\ a.blob \in Rows(c) /\ a.final = blobs[a.blob]
    BY DEF ActualRow, Candidate
  <2>3. /\ a.blob \in Upload /\ ContentOf[a.blob] = c /\ a.final # NULL
        /\ blobs[a.blob] \in {NULL, a.final}
    BY <1>1, <2>2 DEF Rows, ColumnsSet, CommitColumns
  <2>4. a.final = commit[u].account
    BY <1>1, <2>1, <2>3 DEF ApprovalChecked, NoApproval
  <2>5. Present(<<a.final, c>>)
    BY <1>1, <2>4 DEF FinalKey
  <2>6. \A b \in Upload : ContentOf[b] = c /\ b # a.blob => blobs[b] = NULL
    BY <2>2, <2>3 DEF Rows, OneRowPerContent
  <2>7. /\ commit'[u].blob = a.blob /\ commit'[u].final = a.final
        /\ commit'[u].account = commit[u].account /\ commit'[u].staged = commit[u].staged
        /\ \A v \in Upload \ {u} : commit'[v] = commit[v]
    BY <2>1 DEF CommitColumns
  <2> HIDE DEF a
  <2>8. OneRowPerContent'
    BY <2>1, <2>3, <2>6 DEF OneRowPerContent
  <2>9. ResourceHasRow'
    BY <2>1, <2>3 DEF ResourceHasRow
  <2>10. ReclaimOrphan'
    BY <2>1 DEF WriterFree, ReclaimOrphan
  <2>11. ColumnsByState' /\ ColumnsByControl'
    <3>1. \A v \in Upload : ColumnsSet(v) => ColumnsSet(v)'
      BY <1>1, <2>3, <2>7 DEF ColumnsSet
    <3>2. ColumnsSet(u)'
      BY <1>1, <3>1
    <3>3. ColumnsByState'
      BY <2>1, <2>7, <3>1, <3>2 DEF ColumnsByState
    <3>4. ColumnsByControl'
      BY <2>1, <3>1, <3>2 DEF ColumnsByControl
    <3> QED
      BY <3>3, <3>4
  <2>12. FreshBlobUnused'
    <3> SUFFICES ASSUME NEW b \in Upload,
                        \/ ustate'[b] \in {"none", "receiving"}
                        \/ ustate'[b] \in {"commit_started", "finalizing"} /\ commit'[b].staged
                 PROVE  /\ blobs'[b] = NULL
                        /\ \A v \in Upload : create[v].blob # b /\ (v # b => commit'[v].blob # b)
      BY <2>1 DEF FreshBlobUnused
    <3>1. b # u
      BY <2>1
    <3>2. /\ blobs[b] = NULL
          /\ \A v \in Upload : create[v].blob # b /\ (v # b => commit[v].blob # b)
      BY <2>1, <2>7, <3>1 DEF FreshBlobUnused
    <3>3. a.blob # b
      BY <2>2, <3>1, <3>2 DEF Rows
    <3> QED
      BY <2>1, <2>7, <3>1, <3>2, <3>3
  <2>13. SettledRowKept'
    <3> SUFFICES ASSUME NEW v \in Upload,
                        \/ ustate'[v] = "finalizing" /\ ~commit'[v].staged
                        \/ ustate'[v] = "committed"
                 PROVE  blobs'[commit'[v].blob] = commit'[v].final
      BY DEF SettledRowKept
    <3>1. CASE v = u
      BY <2>1, <2>3, <2>7, <3>1
    <3>2. CASE v # u
      <4>1. ColumnsSet(v) /\ blobs[commit[v].blob] = commit[v].final
        BY <2>1, <2>7, <3>2 DEF SettledRowKept, ColumnsByState
      <4> QED
        BY <2>1, <2>3, <2>7, <3>2, <4>1 DEF ColumnsSet, CommitColumns
    <3> QED
      BY <3>1, <3>2
  <2>14. CommitRelies' /\ ApprovalChecked'
    BY <2>1, <2>7 DEF CommitRelies, ApprovalChecked, MetadataLoop, Present, FinalKey
  <2>15. \A v \in Upload : create[v].pc # "idle" /\ create[v].blob = a.blob => blobs[a.blob] = a.final
    <3>1. CASE a.blob \in Rows(c)
      BY <2>3, <3>1 DEF Rows
    <3>2. CASE Rows(c) = {} /\ a.blob = commit[u].blob
      <4>1. CASE commit[u].staged
        BY <2>1, <3>2, <4>1 DEF ColumnsByState, FreshBlobUnused
      <4>2. CASE ~commit[u].staged
        BY <1>1, <2>1, <2>3, <3>2, <4>2 DEF SettledRowKept, ColumnsSet, Rows
      <4> QED
        BY <4>1, <4>2
    <3> QED
      BY <2>2, <3>1, <3>2
  <2>16. CreateRelies'
    BY <2>1, <2>3, <2>15 DEF CreateRelies, Present, CreateLocals
  <2>17. DeletionIsFinal'
    BY <2>1 DEF DeletionIsFinal, Exists, AssetOfUpload
  <2>18. ObjectLossNeedsRace'
    <3> SUFFICES ASSUME NEW r \in Resource, resource'[r] # NULL
                 PROVE  \/ object'[<<blobs'[resource'[r]], ContentOf[resource'[r]]>>] # "absent"
                        \/ ContentOf[resource'[r]] \in raced'
      BY DEF ObjectLossNeedsRace
    <3>1. CASE r = ResourceOf[u]
      <4>1. resource'[r] = a.blob /\ blobs'[a.blob] = a.final
        BY <2>1, <2>3, <3>1
      <4>2. object[<<a.final, c>>] # "absent" \/ c \in raced
        BY <2>5 DEF Present
      <4>3. ContentOf[a.blob] = c /\ object' = object /\ raced' = raced
        BY <2>1, <2>3
      <4> QED
        BY <4>1, <4>2, <4>3, Zenon
    <3>2. CASE r # ResourceOf[u]
      <4>1. resource'[r] = resource[r] /\ blobs[resource[r]] # NULL /\ resource[r] \in Upload
        BY <2>1, <3>2 DEF ResourceHasRow
      <4>2. blobs'[resource[r]] = blobs[resource[r]]
        BY <2>1, <2>3, <4>1
      <4> QED
        BY <2>1, <4>1, <4>2 DEF ObjectLossNeedsRace
    <3> QED
      BY <3>1, <3>2
  <2> QED
    BY <2>8, <2>9, <2>10, <2>11, <2>12, <2>13, <2>14, <2>16, <2>17, <2>18
<1> QED
  BY <1>2, <1>3

LEMMA CommitKeeps ==
    ASSUME CommitInv, TypeInv', NEW u \in Upload, Enter(u) \/ CommitStep(u)
    PROVE  LinkInv'
<1> USE RequestAssumption, NullAssumption
    DEF CommitInv, TypeInv, TypeOK, LinkInv, rowVars, libraryVars, fileVars,
        handlerVars, otherVars, boundVars, Goto, DropLocals
<1>1. CASE Enter(u)
  <2>1. ColumnsByControl' /\ CommitRelies' /\ ApprovalChecked'
    BY <1>1 DEF Enter, ColumnsByControl, ColumnsSet, CommitRelies, ApprovalChecked,
                MetadataLoop, Present, FinalKey
  <2> QED
    BY <1>1, <2>1
       DEF Enter, OneRowPerContent, ResourceHasRow, ReclaimOrphan, Orphan, Exists,
           ColumnsByState, ColumnsSet, FreshBlobUnused, SettledRowKept, CreateRelies,
           Present, DeletionIsFinal, ObjectLossNeedsRace
<1>2. CASE Begin(u)
  <2>1. /\ pc[u] = "begin" /\ pc' = [pc EXCEPT ![u] = pc'[u]]
        /\ pc'[u] \in {"idle", "load"}
        /\ UNCHANGED <<libraryVars, object, approved, create, reclaim, raced>>
    BY <1>2 DEF Begin
  <2>2. ApprovalChecked' /\ CommitRelies' /\ ColumnsByControl'
    <3>1. \A v \in Upload \ {u} : commit'[v] = commit[v]
      BY <1>2 DEF Begin
    <3>2. ApprovalChecked'
      BY <2>1, <3>1 DEF ApprovalChecked, MetadataLoop
    <3>3. CommitRelies'
      BY <2>1, <3>1 DEF CommitRelies, MetadataLoop, Present, FinalKey
    <3>4. ColumnsByControl'
      BY <2>1, <3>1 DEF ColumnsByControl, ColumnsSet
    <3> QED
      BY <3>2, <3>3, <3>4
  <2>3. ReclaimOrphan'
    BY <1>2 DEF Begin, WriterFree, ReclaimOrphan
  <2>4. ColumnsByState' /\ FreshBlobUnused' /\ SettledRowKept'
    <3>1. CASE UNCHANGED <<ustate, commit>>
      BY <2>1, <3>1 DEF ColumnsByState, ColumnsSet, FreshBlobUnused, SettledRowKept
    <3>2. CASE \E b \in Rows(ContentOf[u]) :
                 /\ ustate' = [ustate EXCEPT ![u] = "finalizing"]
                 /\ commit' = [commit EXCEPT ![u] =
                      [blob |-> b, final |-> blobs[b], account |-> path, staged |-> FALSE]]
      <4>1. PICK b \in Upload :
              /\ ContentOf[b] = ContentOf[u] /\ blobs[b] # NULL
              /\ ustate' = [ustate EXCEPT ![u] = "finalizing"]
              /\ commit' = [commit EXCEPT ![u] =
                   [blob |-> b, final |-> blobs[b], account |-> path, staged |-> FALSE]]
        BY <3>2 DEF Rows
      <4>2. ColumnsByState'
        BY <2>1, <4>1 DEF ColumnsByState, ColumnsSet
      <4>3. FreshBlobUnused'
        BY <2>1, <4>1 DEF FreshBlobUnused
      <4>4. SettledRowKept'
        BY <2>1, <4>1 DEF SettledRowKept
      <4> QED
        BY <4>2, <4>3, <4>4
    <3>3. CASE /\ ustate[u] = "receiving"
               /\ ustate' = [ustate EXCEPT ![u] = "commit_started"]
               /\ commit' = [commit EXCEPT ![u] =
                    [blob |-> u, final |-> path, account |-> path, staged |-> TRUE]]
      <4>1. ColumnsByState'
        BY <2>1, <3>3 DEF ColumnsByState, ColumnsSet
      <4>2. FreshBlobUnused'
        BY <2>1, <3>3 DEF FreshBlobUnused
      <4>3. SettledRowKept'
        BY <2>1, <3>3 DEF SettledRowKept
      <4> QED
        BY <4>1, <4>2, <4>3
    <3> QED
      BY <1>2, <3>1, <3>2, <3>3 DEF Begin
  <2>5. DeletionIsFinal'
    BY <1>2 DEF Begin, DeletionIsFinal, Exists, AssetOfUpload
  <2> QED
    BY <2>1, <2>2, <2>3, <2>4, <2>5
       DEF OneRowPerContent, ResourceHasRow, CreateRelies, Present, ObjectLossNeedsRace
<1>3. CASE ToFinalizing(u)
  <2>1. ReclaimOrphan'
    BY <1>3 DEF ToFinalizing, WriterFree, ReclaimOrphan
  <2>2. ColumnsByControl'
    <3>1. ColumnsSet(u)
      BY <1>3 DEF ToFinalizing, ColumnsByControl
    <3>2. \A v \in Upload : pc'[v] = pc[v] \/ v = u
      BY <1>3 DEF ToFinalizing
    <3> QED
      BY <1>3, <3>1, <3>2 DEF ToFinalizing, ColumnsByControl, ColumnsSet
  <2>3. ColumnsByState' /\ FreshBlobUnused' /\ SettledRowKept'
    BY <1>3 DEF ToFinalizing, ColumnsByState, ColumnsSet, FreshBlobUnused, SettledRowKept
  <2>4. CommitRelies' /\ ApprovalChecked'
    <3>1. /\ pc[u] = "to_finalizing" /\ pc' = [pc EXCEPT ![u] = pc'[u]]
          /\ pc'[u] \in {"inspect_final", "idle"}
          /\ UNCHANGED <<commit, object, approved, raced>>
      BY <1>3 DEF ToFinalizing
    <3>2. CommitRelies'
      BY <3>1 DEF CommitRelies, MetadataLoop, Present, FinalKey
    <3>3. ApprovalChecked'
      BY <3>1 DEF ApprovalChecked, MetadataLoop
    <3> QED
      BY <3>2, <3>3
  <2>5. DeletionIsFinal'
    BY <1>3 DEF ToFinalizing, DeletionIsFinal, Exists
  <2> QED
    BY <1>3, <2>1, <2>2, <2>3, <2>4, <2>5
       DEF ToFinalizing, OneRowPerContent, ResourceHasRow, CreateRelies, Present,
           ObjectLossNeedsRace
<1>4. CASE LoadCandidate(u)
  <2>1. CommitRelies' /\ ColumnsByControl'
    BY <1>4 DEF LoadCandidate, CommitRelies, ColumnsByControl, ColumnsSet, MetadataLoop,
                Present, FinalKey
  <2>2. ApprovalChecked'
    BY <1>4 DEF LoadCandidate, ApprovalChecked, MetadataLoop
  <2> QED
    BY <1>4, <2>1, <2>2
       DEF LoadCandidate, OneRowPerContent, ResourceHasRow, ReclaimOrphan, Orphan, Exists,
           ColumnsByState, ColumnsSet, FreshBlobUnused, SettledRowKept, CreateRelies,
           Present, DeletionIsFinal, ObjectLossNeedsRace
<1>5. CASE CheckCandidate(u)
  <2>1. CommitRelies' /\ ColumnsByControl'
    BY <1>5 DEF CheckCandidate, CommitRelies, ColumnsByControl, ColumnsSet, MetadataLoop,
                Present, FinalKey
  <2>2. /\ pc[u] \in {"check_candidate", "check_actual"}
        /\ pc' = [pc EXCEPT ![u] = pc'[u]]
        /\ \/ /\ approved[u].final = commit[u].account /\ UNCHANGED approved
              /\ pc'[u] \in {"commit_metadata", "load_candidate", "idle"}
           \/ approved' = [approved EXCEPT ![u] = NoApproval]
    BY <1>5 DEF CheckCandidate, Inspect
  <2>3. ApprovalChecked'
    BY <1>5, <2>2 DEF CheckCandidate, ApprovalChecked, MetadataLoop
  <2>4. UNCHANGED <<rowVars, libraryVars, fileVars, otherVars, boundVars>>
    BY <1>5 DEF CheckCandidate
  <2>5. OneRowPerContent' /\ ResourceHasRow' /\ DeletionIsFinal'
    BY <2>4 DEF OneRowPerContent, ResourceHasRow, DeletionIsFinal, Exists
  <2>6. ReclaimOrphan'
    BY <2>4 DEF ReclaimOrphan, Orphan, Exists
  <2>7. ColumnsByState' /\ FreshBlobUnused' /\ SettledRowKept'
    BY <2>4 DEF ColumnsByState, ColumnsSet, FreshBlobUnused, SettledRowKept
  <2>8. CreateRelies' /\ ObjectLossNeedsRace'
    BY <2>4 DEF CreateRelies, Present, ObjectLossNeedsRace
  <2> QED
    BY <2>1, <2>3, <2>5, <2>6, <2>7, <2>8
<1>6. CASE MarkUnknown(u) \/ MarkFailed(u)
  <2>1. ColumnsByState' /\ FreshBlobUnused' /\ SettledRowKept'
    <3>1. ColumnsByState'
      BY <1>6 DEF MarkUnknown, MarkFailed, Exists, ColumnsByState, ColumnsSet
    <3>2. FreshBlobUnused'
      BY <1>6 DEF MarkUnknown, MarkFailed, FreshBlobUnused
    <3>3. SettledRowKept'
      BY <1>6 DEF MarkUnknown, MarkFailed, SettledRowKept
    <3> QED
      BY <3>1, <3>2, <3>3
  <2>2. ColumnsByControl' /\ CommitRelies' /\ ApprovalChecked'
    <3>1. pc' = [pc EXCEPT ![u] = "idle"] /\ UNCHANGED <<commit, object, approved, raced>>
      BY <1>6 DEF MarkUnknown, MarkFailed
    <3>2. ColumnsByControl'
      BY <3>1 DEF ColumnsByControl, ColumnsSet
    <3>3. CommitRelies'
      BY <3>1 DEF CommitRelies, MetadataLoop, Present, FinalKey
    <3>4. ApprovalChecked'
      BY <3>1 DEF ApprovalChecked, MetadataLoop
    <3> QED
      BY <3>2, <3>3, <3>4
  <2>3. ReclaimOrphan' /\ DeletionIsFinal'
    BY <1>6 DEF MarkUnknown, MarkFailed, WriterFree, ReclaimOrphan, DeletionIsFinal, Exists
  <2> QED
    BY <1>6, <2>1, <2>2, <2>3
       DEF MarkUnknown, MarkFailed, OneRowPerContent, ResourceHasRow, CreateRelies,
           Present, ObjectLossNeedsRace
<1> QED
  BY <1>1, <1>2, <1>3, <1>4, <1>5, <1>6, LookKeeps, MetadataKeeps DEF CommitStep

\* Trash, restore and permanent deletion.
LEMMA LibraryKeeps ==
    ASSUME CommitInv, TypeInv', NEW a \in Asset, LibraryStep(a)
    PROVE  LinkInv'
<1> USE RequestAssumption, NullAssumption
    DEF CommitInv, TypeInv, TypeOK, LinkInv, rowVars, libraryVars, fileVars,
        handlerVars, otherVars, boundVars, Exists
<1>1. CASE Trash(a) \/ Restore(a)
  <2>1. DeletionIsFinal'
    BY <1>1 DEF Trash, Restore, DeletionIsFinal, AssetOfUpload
  <2> QED
    BY <1>1, <2>1
       DEF Trash, Restore, OneRowPerContent, ResourceHasRow, ReclaimOrphan, Orphan,
           ColumnsByState, ColumnsByControl, ColumnsSet, FreshBlobUnused, SettledRowKept,
           CommitRelies, Present, FinalKey, ApprovalChecked, CreateRelies,
           ObjectLossNeedsRace
<1>2. CASE DeletePermanently(a)
  <2>1. DeletionIsFinal'
    BY <1>2 DEF DeletePermanently, DeletionIsFinal, AssetOfUpload
  <2>2. ReclaimOrphan' /\ ResourceHasRow'
    BY <1>2 DEF DeletePermanently, WriterFree, ReclaimOrphan, ResourceHasRow
  <2>3. ColumnsByState' /\ FreshBlobUnused' /\ SettledRowKept'
    BY <1>2 DEF DeletePermanently, ColumnsByState, ColumnsSet, FreshBlobUnused,
                SettledRowKept
  <2>4. ObjectLossNeedsRace'
    BY <1>2 DEF DeletePermanently, ObjectLossNeedsRace
  <2> QED
    BY <1>2, <2>1, <2>2, <2>3, <2>4
       DEF DeletePermanently, OneRowPerContent, ColumnsByControl, ColumnsSet,
           CommitRelies, Present, FinalKey, ApprovalChecked, CreateRelies
<1> QED
  BY <1>1, <1>2 DEF LibraryStep

\* The reclaimer holds a row nobody refers to, and while it holds the writer
\* nobody can come to refer to it; a handler that already relies on the file
\* is what raced records.
LEMMA ReclaimKeeps ==
    ASSUME CommitInv, TypeInv', (\E b \in Upload : ReclaimDelete(b)) \/ ReclaimStep
    PROVE  LinkInv'
<1> USE RequestAssumption, NullAssumption
    DEF CommitInv, TypeInv, TypeOK, LinkInv, rowVars, libraryVars, fileVars,
        handlerVars, otherVars, boundVars
<1>1. ASSUME NEW b \in Upload, ReclaimDelete(b) PROVE LinkInv'
  <2>1. ReclaimOrphan'
    BY <1>1 DEF ReclaimDelete, ReclaimOrphan, Orphan, Exists
  <2> QED
    BY <1>1, <2>1
       DEF ReclaimDelete, OneRowPerContent, ResourceHasRow, ColumnsByState,
           ColumnsByControl, ColumnsSet, FreshBlobUnused, SettledRowKept, CommitRelies,
           Present, FinalKey, ApprovalChecked, CreateRelies, DeletionIsFinal, Exists,
           ObjectLossNeedsRace
<1>2. CASE ReclaimUnlink
  <2> DEFINE b == reclaim.blob
             k == <<blobs[b], ContentOf[b]>>
  <2>1. /\ b \in Upload /\ blobs[b] # NULL /\ Orphan(b)
        /\ UNCHANGED <<rowVars, libraryVars, handlerVars, create>>
        /\ reclaim'.blob \in {b, NULL}
    BY <1>2 DEF ReclaimUnlink, ReclaimOrphan, NoReclaim
  <2>2. raced \subseteq raced'
    BY <1>2 DEF ReclaimUnlink
  <2>3. \A x \in Path \X Content : x # k /\ Present(x) => Present(x)'
    BY <1>2, <2>2 DEF ReclaimUnlink, Present
  <2>4. \A x \in Path \X Content : x = k /\ Relying(x) /\ Present(x) => Present(x)'
    BY <1>2, <2>1 DEF ReclaimUnlink, Present
  <2>5. CommitRelies'
    <3> SUFFICES ASSUME NEW v \in Upload, pc[v] \in MetadataLoop
                 PROVE  commit[v].final = commit[v].account /\ Present(FinalKey(v))'
      BY <2>1 DEF CommitRelies
    <3>1. commit[v].final = commit[v].account /\ Present(FinalKey(v)) /\ ColumnsSet(v)
      BY DEF CommitRelies, ColumnsByControl, MetadataLoop
    <3>2. FinalKey(v) \in Path \X Content /\ FinalKey(v)' = FinalKey(v)
      BY <2>1, <3>1, KeyTypes DEF FinalKey
    <3>3. Relying(FinalKey(v))
      BY DEF Relying, MetadataLoop
    <3> HIDE DEF k
    <3> QED
      BY <2>3, <2>4, <3>1, <3>2, <3>3
  <2>6. CreateRelies'
    <3> SUFFICES ASSUME NEW v \in Upload, create[v].pc = "upsert"
                 PROVE  Present(<<create[v].final, ContentOf[v]>>)'
      BY <2>1 DEF CreateRelies
    <3> DEFINE x == <<create[v].final, ContentOf[v]>>
    <3>1. Present(x)
      BY DEF CreateRelies
    <3>2. x \in Path \X Content /\ x' = x
      BY <2>1, KeyTypes
    <3>3. Relying(x)
      BY DEF Relying
    <3> HIDE DEF k, x
    <3>4. Present(x)'
      BY <2>3, <2>4, <3>1, <3>2, <3>3
    <3> QED
      BY <3>4 DEF x
  <2>7. ObjectLossNeedsRace'
    BY <1>2, <2>1, <2>2 DEF ReclaimUnlink, ObjectLossNeedsRace, Orphan, OneRowPerContent,
                            ResourceHasRow
  <2>8. ReclaimOrphan'
    BY <2>1 DEF ReclaimOrphan, Orphan, Exists
  <2> QED
    BY <2>1, <2>5, <2>6, <2>7, <2>8
       DEF OneRowPerContent, ResourceHasRow, ColumnsByState, ColumnsByControl, ColumnsSet,
           FreshBlobUnused, SettledRowKept, ApprovalChecked, DeletionIsFinal, Exists
<1>3. CASE ReclaimCommit
  <2>1. OneRowPerContent' /\ ReclaimOrphan'
    BY <1>3 DEF ReclaimCommit, NoReclaim, OneRowPerContent, ReclaimOrphan
  <2>2. ResourceHasRow' /\ ObjectLossNeedsRace'
    BY <1>3 DEF ReclaimCommit, ReclaimOrphan, Orphan, ResourceHasRow, ObjectLossNeedsRace
  <2>3. FreshBlobUnused' /\ SettledRowKept' /\ CreateRelies'
    BY <1>3 DEF ReclaimCommit, ReclaimOrphan, Orphan, Exists, FreshBlobUnused,
                SettledRowKept, CreateRelies, Present
  <2> QED
    BY <1>3, <2>1, <2>2, <2>3
       DEF ReclaimCommit, ColumnsByState, ColumnsByControl, ColumnsSet, CommitRelies,
           Present, FinalKey, ApprovalChecked, DeletionIsFinal, Exists
<1> QED
  BY <1>1, <1>2, <1>3 DEF ReclaimStep

\* Clean-up, a change of the storage path, crashes and damage.
LEMMA OutsideKeeps ==
    ASSUME CommitInv, TypeInv',
           SweepStep \/ (\E p \in Path : MoveAccount(p)) \/ FaultStep
    PROVE  LinkInv'
<1> USE DEF CommitInv, rowVars, libraryVars, fileVars, handlerVars, otherVars, boundVars
<1>1. CASE SweepStep
  BY <1>1, UnlinkedStep DEF SweepStep, SweepRead, SweepList, SweepRemove, SweepEnd
<1>2. ASSUME NEW p \in Path, MoveAccount(p) PROVE LinkInv'
  BY <1>2
     DEF MoveAccount, LinkInv, OneRowPerContent, ResourceHasRow, ReclaimOrphan, Orphan,
         Exists, ColumnsByState, ColumnsByControl, ColumnsSet, FreshBlobUnused,
         SettledRowKept, CommitRelies, Present, FinalKey, ApprovalChecked, CreateRelies,
         DeletionIsFinal, ObjectLossNeedsRace
<1>3. ASSUME NEW u \in Upload, Abandon(u) PROVE LinkInv'
  <2>1. /\ pc' = [pc EXCEPT ![u] = "idle"] /\ approved' = [approved EXCEPT ![u] = NoApproval]
        /\ UNCHANGED <<rowVars, libraryVars, object, otherVars, raced>>
    BY <1>3 DEF Abandon, Goto, DropLocals
  <2>2. ColumnsByControl'
    BY <2>1 DEF TypeInv, TypeOK, LinkInv, ColumnsByControl, ColumnsSet
  <2>3. CommitRelies'
    BY <2>1 DEF TypeInv, TypeOK, LinkInv, CommitRelies, MetadataLoop, Present, FinalKey
  <2>4. ApprovalChecked'
    BY <2>1 DEF TypeInv, TypeOK, LinkInv, ApprovalChecked, MetadataLoop
  <2> QED
    BY <2>1, <2>2, <2>3, <2>4, SMTT(60)
       DEF LinkInv, OneRowPerContent, ResourceHasRow, ReclaimOrphan, Orphan, Exists,
           ColumnsByState, ColumnsSet, FreshBlobUnused, SettledRowKept, CreateRelies,
           Present, DeletionIsFinal, ObjectLossNeedsRace
<1>4. ASSUME NEW u \in Upload, DamageParts(u) \/ DamageStage(u) PROVE LinkInv'
  BY <1>4, UnlinkedStep DEF DamageParts, DamageStage
<1>5. ASSUME NEW k \in Path \X Content, DamageObject(k) PROVE LinkInv'
  <2>1. \A x : object'[x] # "absent" <=> object[x] # "absent"
    BY <1>5 DEF DamageObject, TypeInv, TypeOK
  <2> QED
    BY <1>5, <2>1
       DEF DamageObject, LinkInv, OneRowPerContent, ResourceHasRow, ReclaimOrphan, Orphan,
           Exists, ColumnsByState, ColumnsByControl, ColumnsSet, FreshBlobUnused,
           SettledRowKept, CommitRelies, Present, FinalKey, ApprovalChecked,
           CreateRelies, DeletionIsFinal, ObjectLossNeedsRace
<1>6. CASE ReclaimRollback
  BY <1>6
     DEF ReclaimRollback, NoReclaim, LinkInv, OneRowPerContent, ResourceHasRow,
         ReclaimOrphan, Exists, ColumnsByState, ColumnsByControl, ColumnsSet,
         FreshBlobUnused, SettledRowKept, CommitRelies, Present, FinalKey,
         ApprovalChecked, CreateRelies, DeletionIsFinal, ObjectLossNeedsRace
<1>7. CASE Crash
  BY <1>7, NullAssumption
     DEF Crash, NoReclaim, NoCreate, MetadataLoop, LinkInv, OneRowPerContent,
         ResourceHasRow, ReclaimOrphan, Exists, ColumnsByState, ColumnsByControl,
         ColumnsSet, FreshBlobUnused, SettledRowKept, CommitRelies, Present, FinalKey,
         ApprovalChecked, CreateRelies, DeletionIsFinal, ObjectLossNeedsRace
<1> QED
  BY <1>1, <1>2, <1>3, <1>4, <1>5, <1>6, <1>7 DEF FaultStep

LEMMA CommitInvInit == Init => CommitInv
<1> SUFFICES ASSUME Init PROVE CommitInv
  OBVIOUS
<1>1. TypeInv
  BY TypeInit DEF Init, TypeInv, AttemptsLeft, MetadataLoop
<1>2. LinkInv
  BY NullAssumption, RequestAssumption
     DEF Init, NoCommit, NoApproval, NoCreate, NoReclaim, MetadataLoop, LinkInv,
         OneRowPerContent, ResourceHasRow, ReclaimOrphan, Exists, ColumnsByState,
         ColumnsByControl, FreshBlobUnused, SettledRowKept, CommitRelies,
         ApprovalChecked, CreateRelies, DeletionIsFinal, AssetOfUpload,
         ObjectLossNeedsRace
<1> QED
  BY <1>1, <1>2 DEF CommitInv

LEMMA CommitInvStep == CommitInv /\ [Next]_vars => CommitInv'
<1> SUFFICES ASSUME CommitInv, [Next]_vars PROVE CommitInv'
  OBVIOUS
<1>1. TypeInv'
  BY TypeStep DEF CommitInv
<1>2. LinkInv'
  <2>1. CASE UNCHANGED vars
    BY <2>1, UnlinkedStep
       DEF CommitInv, vars, rowVars, libraryVars, fileVars, handlerVars, otherVars, boundVars
  <2>2. CASE Next
    BY <1>1, <2>2, CreateKeeps, CommitKeeps, LibraryKeeps, ReclaimKeeps, OutsideKeeps
       DEF Next
  <2> QED
    BY <2>1, <2>2
<1> QED
  BY <1>1, <1>2 DEF CommitInv

\* The invariant that ties rows, files and the handlers' local variables
\* together holds in every reachable state.
THEOREM CommitInvariant == Spec => []CommitInv
BY CommitInvInit, CommitInvStep, PTL DEF Spec

\* An object that a resource points to is lost only to a reclaimer that
\* unlinks it under another handler's feet; no crash, retry, concurrent
\* duplicate, clean-up or change of path loses it.
THEOREM ObjectsSafe == Spec => []ObjectLossNeedsRace
<1>1. CommitInv => ObjectLossNeedsRace
  BY DEF CommitInv, LinkInv
<1> QED
  BY <1>1, CommitInvariant, PTL

\* The blob row of a settled upload is neither dropped nor moved.
THEOREM RowsSafe == Spec => []SettledRowKept
<1>1. CommitInv => SettledRowKept
  BY DEF CommitInv, LinkInv
<1> QED
  BY <1>1, CommitInvariant, PTL

\* A permanently deleted asset never gets a resource or an upload back.
THEOREM DeletionSafe == Spec => []DeletionIsFinal
<1>1. CommitInv => DeletionIsFinal
  BY DEF CommitInv, LinkInv
<1> QED
  BY <1>1, CommitInvariant, PTL

\* A step moves an upload forward along CommitOrder and keeps what the
\* handlers know of its state.
LEMMA OrderStep ==
    ASSUME OrderInv, TypeInv', Next
    PROVE  /\ StateByControl'
           /\ \A v \in Upload :
                \/ ustate'[v] = ustate[v]
                \/ <<ustate[v], ustate'[v]>> \in CommitOrder
                \/ ustate[v] # "none" /\ ustate'[v] = "gone"
<1> DEFINE Forward == \A v \in Upload :
             \/ ustate'[v] = ustate[v]
             \/ <<ustate[v], ustate'[v]>> \in CommitOrder
             \/ ustate[v] # "none" /\ ustate'[v] = "gone"
<1> USE DEF OrderInv, TypeInv, TypeOK, StateByControl, MetadataLoop, CommitOrder,
            rowVars, libraryVars, fileVars, handlerVars, otherVars, boundVars, Goto
<1>1. ASSUME NEW u \in Upload, Enter(u) PROVE StateByControl' /\ Forward
  BY <1>1 DEF Enter, Exists
<1>2. ASSUME NEW u \in Upload, CommitStep(u) PROVE StateByControl' /\ Forward
  <2>1. CASE Load(u)
    <3>1. \A l : Goto(u, l) => \A v \in Upload : pc'[v] = IF v = u THEN l ELSE pc[v]
      OBVIOUS
    <3>2. \A v \in Upload \ {u} : pc'[v] = pc[v]
      BY <2>1, <3>1 DEF Load
    <3>3. /\ pc'[u] = "validate_row" => ustate[u] = "committed"
          /\ pc'[u] = "inspect_started" => ustate[u] = "commit_started"
          /\ pc'[u] = "inspect_final" => ustate[u] = "finalizing"
          /\ pc'[u] = "mark_unknown"
               => ustate[u] \in {"committed", "commit_started", "finalizing"}
          /\ pc'[u] \in {"validate_row", "inspect_started", "inspect_final",
                         "mark_unknown", "begin", "idle"}
      BY <2>1, <3>1 DEF Load, Started
    <3> QED
      BY <2>1, <3>2, <3>3 DEF Load
  <2>2. CASE Begin(u)
    BY <2>2 DEF Begin
  <2>3. CASE InspectStarted(u)
    BY <2>3 DEF InspectStarted
  <2>4. CASE Assemble(u)
    BY <2>4 DEF Assemble
  <2>5. CASE FinishAssembly(u)
    BY <2>5 DEF FinishAssembly
  <2>6. CASE ToFinalizing(u)
    BY <2>6 DEF ToFinalizing
  <2>7. CASE InspectFinal(u)
    BY <2>7 DEF InspectFinal
  <2>8. CASE InspectStage(u)
    BY <2>8 DEF InspectStage
  <2>9. CASE Publish(u)
    BY <2>9 DEF Publish
  <2>10. CASE VerifyPublished(u)
    BY <2>10 DEF VerifyPublished
  <2>11. CASE LoadCandidate(u)
    BY <2>11 DEF LoadCandidate
  <2>12. CASE CheckCandidate(u)
    BY <2>12 DEF CheckCandidate
  <2>13. CASE CommitMetadata(u)
    BY <2>13 DEF CommitMetadata
  <2>14. CASE RemoveStage(u)
    BY <2>14 DEF RemoveStage
  <2>15. CASE ValidateRow(u)
    BY <2>15 DEF ValidateRow
  <2>16. CASE ValidateObject(u)
    BY <2>16 DEF ValidateObject
  <2>17. CASE MarkUnknown(u)
    BY <2>17 DEF MarkUnknown, Exists
  <2>18. CASE MarkFailed(u)
    BY <2>18 DEF MarkFailed, Exists
  <2> QED
    BY <1>2, <2>1, <2>2, <2>3, <2>4, <2>5, <2>6, <2>7, <2>8, <2>9, <2>10, <2>11, <2>12, <2>13, <2>14, <2>15, <2>16, <2>17, <2>18
       DEF CommitStep
<1>3. ASSUME UNCHANGED <<ustate, pc>> PROVE StateByControl' /\ Forward
  BY <1>3
<1>4. ASSUME NEW u \in Upload, CreateUpload(u) PROVE StateByControl' /\ Forward
  BY <1>4 DEF CreateUpload
<1>5. ASSUME NEW a \in Asset, DeletePermanently(a) PROVE StateByControl' /\ Forward
  BY <1>5 DEF DeletePermanently, Exists
<1>6. ASSUME UNCHANGED ustate, \A v \in Upload : pc'[v] \in {pc[v], "idle"}
      PROVE  StateByControl' /\ Forward
  BY <1>6
<1> QED
  <2>1. ASSUME NEW u \in Upload, CreateStep(u) PROVE CreateUpload(u) \/ UNCHANGED <<ustate, pc>>
    BY <2>1 DEF CreateStep, ResumeUpload, DedupFound, DedupInspect, DedupUpsert, LinkParts, RecordParts
  <2>2. ASSUME NEW a \in Asset, LibraryStep(a)
        PROVE  DeletePermanently(a) \/ UNCHANGED <<ustate, pc>>
    BY <2>2 DEF LibraryStep, Trash, Restore
  <2>3. ASSUME (\E b \in Upload : ReclaimDelete(b)) \/ ReclaimStep \/ SweepStep
               \/ (\E p \in Path : MoveAccount(p))
        PROVE  UNCHANGED <<ustate, pc>>
    BY <2>3 DEF ReclaimDelete, ReclaimStep, ReclaimUnlink, ReclaimCommit, SweepStep,
                SweepRead, SweepList, SweepRemove, SweepEnd, MoveAccount
  <2>4. ASSUME FaultStep
        PROVE  UNCHANGED ustate /\ \A v \in Upload : pc'[v] \in {pc[v], "idle"}
    BY <2>4 DEF FaultStep, Abandon, DamageParts, DamageStage, DamageObject,
                ReclaimRollback, Crash
  <2> QED
    BY <1>1, <1>2, <1>3, <1>4, <1>5, <1>6, <2>1, <2>2, <2>3, <2>4 DEF Next

LEMMA OrderInvInit == Init => OrderInv
BY CommitInvInit DEF CommitInv, OrderInv, StateByControl, MetadataLoop, Init

LEMMA OrderInvStep == OrderInv /\ [Next]_vars => OrderInv'
<1> SUFFICES ASSUME OrderInv, [Next]_vars PROVE OrderInv'
  OBVIOUS
<1>1. TypeInv'
  BY TypeStep DEF OrderInv
<1>2. CASE UNCHANGED vars
  BY <1>1, <1>2 DEF vars, rowVars, handlerVars, OrderInv, StateByControl
<1> QED
  BY <1>1, <1>2, OrderStep DEF OrderInv

\* Whatever interleaves, an upload only moves forward through the states of a
\* commit; its row can only vanish with its asset.
THEOREM CommitOrdered == Spec => CommitStateOrder
<1>1. OrderInv /\ OrderInv' /\ [Next]_vars
        => [\A u \in Upload :
              \/ ustate'[u] = ustate[u]
              \/ <<ustate[u], ustate'[u]>> \in CommitOrder
              \/ ustate[u] # "none" /\ ustate'[u] = "gone"]_vars
  BY OrderStep DEF OrderInv
<1> QED
  BY <1>1, OrderInvInit, OrderInvStep, PTL DEF Spec, CommitStateOrder

=============================================================================
