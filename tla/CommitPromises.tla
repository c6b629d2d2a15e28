--------------------------- MODULE CommitPromises ---------------------------
(***************************************************************************)
(* What the invariants of the commit protocol are good for: the quota of   *)
(* the account, the promises of BackupLedger, and a doctor all of whose    *)
(* findings have a known cause.                                            *)
(***************************************************************************)
EXTENDS UploadCommitProofs, UploadCommitRefinement, DoctorInvariant, FiniteSetTheorems

-----------------------------------------------------------------------------
(* Sums of sizes *)

LEMMA OwnBytes ==
    ASSUME NEW u \in Upload
    PROVE  /\ Size[ContentOf[u]] \in Nat
           /\ IsFiniteSet({u} \X (1..Size[ContentOf[u]]))
           /\ Cardinality({u} \X (1..Size[ContentOf[u]])) = Size[ContentOf[u]]
<1> DEFINE n == Size[ContentOf[u]]
<1>1. n \in Nat
  BY RequestAssumption, QuotaAssumption
<1>2. IsFiniteSet(1..n) /\ Cardinality(1..n) = n
  <2> HIDE DEF n
  <2>1. /\ IsFiniteSet(1..n)
        /\ Cardinality(1..n) = IF 1 > n THEN 0 ELSE n - 1 + 1
    BY <1>1, FS_Interval
  <2> QED
    BY <1>1, <2>1
<1>3. IsFiniteSet({u}) /\ Cardinality({u}) = 1
  BY FS_Singleton
<1> HIDE DEF n
<1>4. IsFiniteSet({u} \X (1..n)) /\ Cardinality({u} \X (1..n)) = 1 * n
  <2> DEFINE A == {u}
             B == 1..n
  <2>1. /\ IsFiniteSet(A) /\ Cardinality(A) = 1
        /\ IsFiniteSet(B) /\ Cardinality(B) = n
    BY <1>2, <1>3
  <2> HIDE DEF A, B
  <2>2. IsFiniteSet(A \X B) /\ Cardinality(A \X B) = 1 * n
    BY <2>1, FS_Product
  <2> QED
    BY <2>2 DEF A, B
<1>5. 1 * n = n
  BY <1>1
<1> QED
  BY <1>1, <1>4, <1>5, Zenon DEF n

LEMMA FiniteBytes ==
    ASSUME NEW us \in SUBSET Upload, IsFiniteSet(us)
    PROVE  /\ IsFiniteSet(UNION {{u} \X (1..Size[ContentOf[u]]) : u \in us})
           /\ Bytes(us) \in Nat
<1> DEFINE f == [u \in us |-> {u} \X (1..Size[ContentOf[u]])]
           S == {{u} \X (1..Size[ContentOf[u]]) : u \in us}
<1>1. f \in Surjection(us, S)
  BY DEF Surjection
<1>2. IsFiniteSet(S)
  <2> HIDE DEF f, S
  <2> QED
    BY <1>1, FS_Surjection
<1>3. \A T \in S : IsFiniteSet(T)
  BY OwnBytes
<1>4. IsFiniteSet(UNION S)
  <2> HIDE DEF S
  <2> QED
    BY <1>2, <1>3, FS_UNION
<1> QED
  BY <1>4, FS_CardinalityType DEF Bytes

LEMMA BytesOfMore ==
    ASSUME NEW us \in SUBSET Upload, IsFiniteSet(us), NEW u \in Upload \ us
    PROVE  Bytes(us \cup {u}) = Bytes(us) + Size[ContentOf[u]]
<1> DEFINE S == UNION {{v} \X (1..Size[ContentOf[v]]) : v \in us}
           T == {u} \X (1..Size[ContentOf[u]])
<1>1. /\ IsFiniteSet(S) /\ Bytes(us) = Cardinality(S)
      /\ IsFiniteSet(T) /\ Size[ContentOf[u]] = Cardinality(T)
      /\ Cardinality(S) \in Nat /\ Cardinality(T) \in Nat
  BY FiniteBytes, OwnBytes DEF Bytes
<1>2. Bytes(us \cup {u}) = Cardinality(S \cup T)
  <2>1. UNION {{v} \X (1..Size[ContentOf[v]]) : v \in us \cup {u}} = S \cup T
    OBVIOUS
  <2> QED
    BY <2>1 DEF Bytes
<1>3. S \cap T = {}
  OBVIOUS
<1> HIDE DEF S, T
<1>4. Cardinality(S \cup T) = Cardinality(S) + Cardinality(T) - Cardinality(S \cap T)
  BY <1>1, FS_Union
<1>5. Cardinality(S \cap T) = 0
  BY <1>3, FS_EmptySet
<1> QED
  BY <1>1, <1>2, <1>4, <1>5

LEMMA BytesOfFewer ==
    ASSUME NEW us \in SUBSET Upload, IsFiniteSet(us), NEW vs \in SUBSET us
    PROVE  Bytes(vs) <= Bytes(us)
<1> DEFINE S == UNION {{v} \X (1..Size[ContentOf[v]]) : v \in us}
           T == UNION {{v} \X (1..Size[ContentOf[v]]) : v \in vs}
<1>1. IsFiniteSet(S) /\ T \in SUBSET S
  BY FiniteBytes
<1>2. Cardinality(T) <= Cardinality(S)
  <2> HIDE DEF S, T
  <2> QED
    BY <1>1, FS_Subset
<1> QED
  BY <1>2 DEF Bytes

-----------------------------------------------------------------------------
(* What a step does to the rows *)

\* A finalizing upload commits with the row of blob b.
Stores(u, b) ==
    /\ ustate[u] = "finalizing" /\ commit[u].account = path
    /\ ContentOf[b] = ContentOf[u]
    /\ \/ blobs[b] = path
       \/ b = u /\ Rows(ContentOf[u]) = {} /\ commit[u].staged
    /\ blobs' = [blobs EXCEPT ![b] = path]
    /\ resource' = [resource EXCEPT ![ResourceOf[u]] = b]
    /\ ustate' = [ustate EXCEPT ![u] = "committed"]
    /\ complete' = complete \cup {u}
    /\ commit' = [commit EXCEPT ![u].blob = b, ![u].final = path]

\* A commit stores a row of its content under the account's path: the one there
\* is, or its own.
LEMMA MetadataStores ==
    ASSUME CommitInv, NEW u \in Upload, CommitMetadata(u),
           ~UNCHANGED <<rowVars, blobs, resource>>
    PROVE  \E b \in Upload : Stores(u, b)
<1> USE RequestAssumption, NullAssumption
    DEF CommitInv, TypeInv, TypeOK, LinkInv
<1> DEFINE a == ActualRow(u)
           c == ContentOf[u]
           mine == [blob |-> commit[u].blob, final |-> commit[u].final]
<1>1. /\ pc[u] = "commit_metadata" /\ ColumnsSet(u)
      /\ commit[u].final = commit[u].account
  BY DEF CommitMetadata, ColumnsByControl, CommitRelies, MetadataLoop
<1>2. /\ ustate[u] = "finalizing" /\ commit[u].account = path
      /\ a \in {mine, approved[u]}
      /\ blobs' = [blobs EXCEPT ![a.blob] = a.final]
      /\ resource' = [resource EXCEPT ![ResourceOf[u]] = a.blob]
      /\ ustate' = [ustate EXCEPT ![u] = "committed"]
      /\ complete' = complete \cup {u}
      /\ commit' = [commit EXCEPT ![u].blob = a.blob, ![u].final = a.final]
  BY DEF CommitMetadata
<1>3. \/ /\ Rows(c) = {} /\ a.blob = commit[u].blob /\ a.final = commit[u].final
      \/ /\ a.blob \in Rows(c) /\ a.final = blobs[a.blob]
  BY DEF ActualRow, Candidate
<1>4. a.blob \in Upload /\ ContentOf[a.blob] = c /\ a.final # NULL
  BY <1>1, <1>3 DEF Rows, ColumnsSet, CommitColumns
<1>5. a.final = path
  BY <1>1, <1>2, <1>4 DEF ApprovalChecked, NoApproval
<1>6. \/ blobs[a.blob] = path
      \/ a.blob = u /\ Rows(c) = {} /\ commit[u].staged
  <2>1. CASE Rows(c) = {} /\ a.blob = commit[u].blob
    <3>1. commit[u].staged
      BY <1>1, <1>2, <1>4, <2>1 DEF SettledRowKept, ColumnsSet, Rows
    <3> QED
      BY <1>2, <2>1, <3>1 DEF ColumnsByState
  <2> QED
    BY ONLY <1>3, <1>5, <2>1, Zenon
<1>7. /\ blobs' = [blobs EXCEPT ![a.blob] = path]
      /\ commit' = [commit EXCEPT ![u].blob = a.blob, ![u].final = path]
  BY <1>2, <1>5, Zenon
<1> HIDE DEF a
<1> QED
  BY <1>2, <1>4, <1>6, <1>7, Zenon DEF Stores

\* A deduplicating handler has a blob in mind.
LEMMA SharedRow ==
    ASSUME CommitInv, NEW u \in Upload, create[u].pc # "idle"
    PROVE  create[u].blob \in Upload
<1>1. create[u] \in CreateLocals
  BY DEF CommitInv, TypeInv, TypeOK
<1>2. create[u].blob # NULL
  BY DEF CommitInv, LinkInv, CreateRelies
<1> QED
  BY <1>1, <1>2 DEF CreateLocals

\* The steps that leave the rows, and what the library shows, alone.
Quiet ==
    /\ UNCHANGED <<complete, blobs, resource>>
    /\ \A x \in Asset : assets'[x] = "deleted" <=> assets[x] = "deleted"
    /\ \A v \in Upload : ustate'[v] = ustate[v] \/ {ustate[v], ustate'[v]} \subseteq Active

LEMMA StepKinds ==
    ASSUME CommitInv, StateByControl, [Next]_vars
    PROVE  \/ \E u \in Upload : CreateUpload(u)
           \/ \E u \in Upload : CommitMetadata(u) /\ ~UNCHANGED <<rowVars, blobs, resource>>
           \/ \E u \in Upload : DedupUpsert(u)
           \/ \E u \in Upload : MarkUnknown(u) \/ MarkFailed(u)
           \/ \E x \in Asset : DeletePermanently(x)
           \/ ReclaimCommit
           \/ Quiet
<1> USE DEF CommitInv, TypeInv, TypeOK, rowVars, libraryVars, fileVars, handlerVars,
            otherVars, boundVars, Goto, Active
<1>1. ASSUME UNCHANGED <<ustate, complete, blobs, resource, assets>> PROVE Quiet
  BY <1>1 DEF Quiet
<1>2. ASSUME NEW u \in Upload, CreateStep(u) \/ Enter(u)
      PROVE  CreateUpload(u) \/ DedupUpsert(u) \/ Quiet
  <2>1. CASE ResumeUpload(u) \/ DedupFound(u)
    <3>1. UpsertAsset(AssetOfUpload(u)) /\ UNCHANGED <<ustate, complete, blobs, resource>>
      BY <2>1 DEF ResumeUpload, DedupFound
    <3>2. \A x \in Asset : assets'[x] = "deleted" <=> assets[x] = "deleted"
      BY <3>1, RequestAssumption DEF UpsertAsset, AssetOfUpload
    <3> QED
      BY <3>1, <3>2 DEF Quiet
  <2>2. CASE DedupInspect(u) \/ LinkParts(u) \/ RecordParts(u) \/ Enter(u)
    BY <1>1, <2>2 DEF DedupInspect, LinkParts, RecordParts, Enter
  <2> QED
    BY <1>2, <2>1, <2>2 DEF CreateStep
<1>3. ASSUME NEW u \in Upload, CommitStep(u)
      PROVE  \/ CommitMetadata(u) /\ ~UNCHANGED <<rowVars, blobs, resource>>
             \/ MarkUnknown(u) \/ MarkFailed(u) \/ Quiet
  <2>1. CASE Begin(u)
    BY <2>1 DEF Begin, Quiet
  <2>2. CASE ToFinalizing(u)
    BY <2>2 DEF ToFinalizing, Quiet
  <2>3. CASE CommitMetadata(u)
    BY <1>1, <2>3 DEF CommitMetadata
  <2>4. CASE \/ Load(u) \/ InspectStarted(u) \/ Assemble(u) \/ FinishAssembly(u)
             \/ InspectFinal(u) \/ InspectStage(u) \/ Publish(u) \/ VerifyPublished(u)
             \/ LoadCandidate(u) \/ CheckCandidate(u) \/ RemoveStage(u)
             \/ ValidateRow(u) \/ ValidateObject(u)
    BY <1>1, <2>4
       DEF Load, InspectStarted, Assemble, FinishAssembly, InspectFinal, InspectStage,
           Publish, VerifyPublished, LoadCandidate, CheckCandidate, RemoveStage,
           ValidateRow, ValidateObject
  <2> QED
    BY <1>3, <2>1, <2>2, <2>3, <2>4 DEF CommitStep
<1>4. ASSUME NEW x \in Asset, LibraryStep(x) PROVE DeletePermanently(x) \/ Quiet
  BY <1>4 DEF LibraryStep, Trash, Restore, Quiet
<1>5. ASSUME \/ \E b \in Upload : ReclaimDelete(b)
             \/ ReclaimStep \/ SweepStep \/ (\E p \in Path : MoveAccount(p)) \/ FaultStep
             \/ UNCHANGED vars
      PROVE  ReclaimCommit \/ Quiet
  BY <1>1, <1>5
     DEF vars, ReclaimDelete, ReclaimStep, ReclaimUnlink, SweepStep, SweepRead, SweepList,
         SweepRemove, SweepEnd, MoveAccount, FaultStep, Abandon, DamageParts, DamageStage,
         DamageObject, ReclaimRollback, Crash
<1> QED
  BY <1>2, <1>3, <1>4, <1>5, Zenon DEF Next

-----------------------------------------------------------------------------
(* The quota *)

Stored == {b \in Upload : blobs[b] # NULL}

Reserved == {u \in Upload \ complete : ustate[u] \in Active \cup {"unknown"}}

\* A sum over the uploads that exist is finite; what a step does to the two sums
\* follows from where it takes an upload.
QuotaInv ==
    /\ IsFiniteSet({u \in Upload : ustate[u] # "none"})
    /\ CompleteByState
    /\ QuotaRespected

LEMMA StoredAndReserved ==
    ASSUME CommitInv, QuotaInv
    PROVE  /\ IsFiniteSet(Stored) /\ IsFiniteSet(Reserved)
           /\ UsedBytes = Bytes(Stored)
           /\ ReservedBytes(Active \cup {"unknown"}) = Bytes(Reserved)
           /\ Bytes(Stored) \in Nat /\ Bytes(Reserved) \in Nat
<1>1. Stored \subseteq {u \in Upload : ustate[u] # "none"}
  BY DEF Stored, CommitInv, LinkInv, FreshBlobUnused
<1>2. Reserved \subseteq {u \in Upload : ustate[u] # "none"}
  BY DEF Reserved, Active
<1>3. IsFiniteSet(Stored) /\ IsFiniteSet(Reserved)
  BY <1>1, <1>2, FS_Subset, Zenon DEF QuotaInv
<1>4. Stored \in SUBSET Upload /\ Reserved \in SUBSET Upload
  BY DEF Stored, Reserved
<1> QED
  BY <1>3, <1>4, FiniteBytes DEF Stored, Reserved, UsedBytes, ReservedBytes

\* The sums after a step, by the uploads that entered one or left the other.
LEMMA QuotaMoves ==
    ASSUME CommitInv, QuotaInv, CommitInv',
           IsFiniteSet({u \in Upload : ustate[u] # "none"})', CompleteByState',
           \/ Stored' \subseteq Stored /\ Reserved' \subseteq Reserved
           \/ \E u \in Reserved :
                Stored' \subseteq Stored \cup {u} /\ Reserved' \subseteq Reserved \ {u}
    PROVE  QuotaInv'
<1> DEFINE Sum == Bytes(Stored) + Bytes(Reserved)
<1>1. /\ Stored \in SUBSET Upload /\ Reserved \in SUBSET Upload
      /\ Stored' \in SUBSET Upload /\ Reserved' \in SUBSET Upload
  BY DEF Stored, Reserved
<1>2. IsFiniteSet(Stored) /\ IsFiniteSet(Reserved)
  BY StoredAndReserved
<1>3. Bytes(Stored') + Bytes(Reserved') <= Sum
  <2>1. ASSUME NEW A \in SUBSET Upload, NEW B \in SUBSET Upload,
               IsFiniteSet(A), IsFiniteSet(B),
               NEW A2 \in SUBSET A, NEW B2 \in SUBSET B
        PROVE  Bytes(A2) + Bytes(B2) <= Bytes(A) + Bytes(B)
    <3>1. IsFiniteSet(A2) /\ IsFiniteSet(B2)
      BY <2>1, FS_Subset
    <3>2. /\ Bytes(A) \in Nat /\ Bytes(B) \in Nat
          /\ Bytes(A2) \in Nat /\ Bytes(B2) \in Nat
      BY <2>1, <3>1, FiniteBytes
    <3> QED
      BY <2>1, <3>2, BytesOfFewer
  <2>2. CASE Stored' \subseteq Stored /\ Reserved' \subseteq Reserved
    BY <1>1, <1>2, <2>1, <2>2
  <2>3. ASSUME NEW u \in Reserved,
               Stored' \subseteq Stored \cup {u}, Reserved' \subseteq Reserved \ {u}
        PROVE  Bytes(Stored') + Bytes(Reserved') <= Sum
    <3> DEFINE A == Stored \cup {u}
               B == Reserved \ {u}
    <3>1. u \in Upload /\ Size[ContentOf[u]] \in Nat
      BY OwnBytes DEF Reserved
    <3>2. A \in SUBSET Upload /\ B \in SUBSET Upload /\ IsFiniteSet(A) /\ IsFiniteSet(B)
      BY <1>1, <1>2, <3>1, FS_AddElement, FS_RemoveElement
    <3>3. Bytes(Stored') + Bytes(Reserved') <= Bytes(A) + Bytes(B)
      <4> HIDE DEF A, B
      <4> QED
        BY <2>1, <2>3, <3>2 DEF A, B
    <3>4. Bytes(Reserved) = Bytes(B) + Size[ContentOf[u]]
      <4>1. u \in Upload \ B /\ B \cup {u} = Reserved
        BY <3>1
      <4> HIDE DEF B
      <4> QED
        BY <3>2, <4>1, BytesOfMore
    <3>5. Bytes(A) <= Bytes(Stored) + Size[ContentOf[u]]
      <4>1. CASE u \in Stored
        <5>1. Bytes(A) = Bytes(Stored)
          <6>1. A = Stored
            BY <4>1
          <6> QED
            BY <6>1, Zenon
        <5>2. Bytes(Stored) \in Nat
          BY StoredAndReserved
        <5> HIDE DEF A
        <5> QED
          BY <3>1, <5>1, <5>2
      <4>2. CASE u \notin Stored
        <5>1. Bytes(A) = Bytes(Stored) + Size[ContentOf[u]]
          BY <1>1, <1>2, <3>1, <4>2, BytesOfMore
        <5>2. Bytes(Stored) \in Nat
          BY StoredAndReserved
        <5> QED
          BY <3>1, <5>1, <5>2
      <4> QED
        BY <4>1, <4>2
    <3>6. Bytes(A) \in Nat /\ Bytes(B) \in Nat /\ Bytes(Stored) \in Nat
      <4> HIDE DEF A, B
      <4> QED
        BY <3>2, FiniteBytes, StoredAndReserved
    <3>7. Bytes(Stored') \in Nat /\ Bytes(Reserved') \in Nat
      <4>1. IsFiniteSet(Stored') /\ IsFiniteSet(Reserved')
        <5> HIDE DEF A, B
        <5> QED
          BY <2>3, <3>2, FS_Subset DEF A, B
      <4> QED
        BY <1>1, <4>1, FiniteBytes
    <3> HIDE DEF A, B
    <3> QED
      BY <3>1, <3>3, <3>4, <3>5, <3>6, <3>7
  <2> QED
    BY <2>2, <2>3
<1>4. Quota = 0 \/ Sum <= Quota
  BY StoredAndReserved DEF QuotaInv, QuotaRespected
<1>5. /\ Bytes(Stored) \in Nat /\ Bytes(Reserved) \in Nat
      /\ Bytes(Stored') \in Nat /\ Bytes(Reserved') \in Nat
  <2>1. Stored' \subseteq {u \in Upload : ustate[u] # "none"}'
    BY DEF Stored, CommitInv, LinkInv, FreshBlobUnused
  <2>2. Reserved' \subseteq {u \in Upload : ustate[u] # "none"}'
    BY DEF Reserved, Active
  <2>3. IsFiniteSet(Stored') /\ IsFiniteSet(Reserved')
    BY <2>1, <2>2, FS_Subset, Zenon
  <2> QED
    BY <1>1, <1>2, <2>3, FiniteBytes
<1>6. Quota = 0 \/ Bytes(Stored') + Bytes(Reserved') <= Quota
  BY <1>3, <1>4, <1>5, QuotaAssumption
<1>7. UsedBytes' = Bytes(Stored') /\ ReservedBytes(Active \cup {"unknown"})' = Bytes(Reserved')
  BY DEF UsedBytes, ReservedBytes, Bytes, Stored, Reserved
<1>8. QuotaRespected'
  BY <1>6, <1>7, Zenon DEF QuotaRespected
<1> QED
  BY <1>8 DEF QuotaInv

\* An open upload stays in the reservation, or leaves it for good.
LEMMA QuotaStep ==
    ASSUME CommitInv, StateByControl, QuotaInv, CommitInv', [Next]_vars
    PROVE  QuotaInv'
<1>0. /\ ustate \in [Upload -> CommitState] /\ complete \in SUBSET Upload
      /\ blobs \in [Upload -> Path \cup {NULL}] /\ path \in Path
  BY DEF CommitInv, TypeInv, TypeOK
<1> USE <1>0
<1> DEFINE Known == {v \in Upload : ustate[v] # "none"}
<1>1. IsFiniteSet(Known)
  BY DEF QuotaInv
<1>2. \A v \in Upload : /\ blobs[v] # NULL => ustate[v] # "none"
                        /\ ustate[v] = "committed" => v \in complete
                        /\ v \in complete => ustate[v] \in {"committed", "unknown", "gone"}
  BY DEF CommitInv, LinkInv, FreshBlobUnused, QuotaInv, CompleteByState
<1>3. ASSUME NEW u \in Upload, CreateUpload(u) PROVE QuotaInv'
  <2>1. /\ ustate[u] = "none" /\ u \notin complete
        /\ ustate' = [ustate EXCEPT ![u] = "receiving"]
        /\ complete' = complete /\ blobs' = blobs
        /\ WithinCreateQuota(u)
    BY <1>2, <1>3 DEF CreateUpload
  <2>2. Stored' = Stored /\ Reserved' = Reserved \cup {u} /\ u \notin Reserved
    BY <2>1 DEF Stored, Reserved, Active
  <2>3. IsFiniteSet(Known') /\ CompleteByState'
    <3>1. Known' = Known \cup {u}
      BY <2>1
    <3>2. CompleteByState'
      BY <1>2, <2>1 DEF CompleteByState
    <3>3. IsFiniteSet(Known \cup {u})
      BY <1>1, FS_AddElement, Zenon
    <3> QED
      BY <3>1, <3>2, <3>3
  <2>4. /\ UsedBytes = Bytes(Stored)
        /\ ReservedBytes(Active \cup {"unknown"}) = Bytes(Reserved)
        /\ Bytes(Stored) \in Nat /\ Bytes(Reserved) \in Nat
        /\ Size[ContentOf[u]] \in Nat
        /\ Bytes(Reserved \cup {u}) = Bytes(Reserved) + Size[ContentOf[u]]
    <3>1. Reserved \in SUBSET Upload /\ u \in Upload \ Reserved
      BY <2>2 DEF Reserved
    <3> QED
      BY <3>1, StoredAndReserved, OwnBytes, BytesOfMore
  <2>5. Quota = 0 \/ Bytes(Stored) + Bytes(Reserved \cup {u}) <= Quota
    BY <2>1, <2>4, QuotaAssumption DEF WithinCreateQuota
  <2>6. UsedBytes' = Bytes(Stored') /\ ReservedBytes(Active \cup {"unknown"})' = Bytes(Reserved')
    BY DEF UsedBytes, ReservedBytes, Bytes, Stored, Reserved
  <2>7. QuotaRespected'
    BY <2>2, <2>5, <2>6, Zenon DEF QuotaRespected
  <2> QED
    BY <2>3, <2>7 DEF QuotaInv
<1>4. ASSUME NEW u \in Upload, CommitMetadata(u), ~UNCHANGED <<rowVars, blobs, resource>>
      PROVE  QuotaInv'
  <2>1. PICK b \in Upload : Stores(u, b)
    BY <1>4, MetadataStores
  <2>2. u \in Reserved
    BY <1>2, <2>1 DEF Stores, Reserved, Active
  <2>3. Stored' \subseteq Stored \cup {u} /\ Reserved' \subseteq Reserved \ {u}
    <3>1. path # NULL
      BY NullAssumption
    <3>2. \A v \in Upload : blobs'[v] # NULL => blobs[v] # NULL \/ v = u
      BY <2>1, <3>1 DEF Stores
    <3>3. \A v \in Upload \ {u} : ustate'[v] = ustate[v]
      BY <2>1 DEF Stores
    <3> QED
      BY <2>1, <3>2, <3>3 DEF Stores, Stored, Reserved
  <2>4. Known' = Known
    BY <2>1 DEF Stores
  <2>5. CompleteByState'
    BY <1>2, <2>1 DEF Stores, CompleteByState
  <2> QED
    BY <1>1, <2>2, <2>3, <2>4, <2>5, QuotaMoves, Zenon
<1>5. ASSUME complete' = complete,
             \A v \in Upload : blobs'[v] # NULL => blobs[v] # NULL,
             \A v \in Upload : ustate'[v] # "none" <=> ustate[v] # "none",
             \A v \in Upload :
                \/ ustate'[v] = ustate[v]
                \/ {ustate[v], ustate'[v]} \subseteq Active
                \/ ustate[v] \in Active \cup {"committed"} /\ ustate'[v] = "unknown"
                \/ ustate[v] \in Active /\ ustate'[v] = "failed"
                \/ ustate'[v] = "gone"
      PROVE  QuotaInv'
  <2>1. Stored' \subseteq Stored /\ Reserved' \subseteq Reserved
    BY <1>2, <1>5 DEF Stored, Reserved, Active
  <2>2. Known' = Known
    BY <1>5
  <2>3. CompleteByState'
    BY <1>2, <1>5 DEF CompleteByState, Active
  <2> QED
    BY <1>1, <2>1, <2>2, <2>3, QuotaMoves, Zenon
<1>6. ASSUME NEW u \in Upload, DedupUpsert(u) PROVE QuotaInv'
  BY <1>5, <1>6 DEF DedupUpsert, rowVars
<1>7. ASSUME NEW u \in Upload, MarkUnknown(u) \/ MarkFailed(u) PROVE QuotaInv'
  <2>1. /\ \A v \in Upload \ {u} : ustate'[v] = ustate[v]
        /\ \/ ustate'[u] = ustate[u]
           \/ ustate[u] \in Active \cup {"committed"} /\ ustate'[u] = "unknown"
           \/ ustate[u] \in Active /\ ustate'[u] = "failed"
    BY <1>7 DEF MarkUnknown, MarkFailed, StateByControl, Exists, Active
  <2>2. complete' = complete /\ blobs' = blobs
    BY <1>7 DEF MarkUnknown, MarkFailed, libraryVars
  <2> QED
    BY <1>5, <2>1, <2>2 DEF Active
<1>8. ASSUME NEW x \in Asset, DeletePermanently(x) PROVE QuotaInv'
  BY <1>5, <1>8 DEF DeletePermanently, Exists
<1>9. CASE ReclaimCommit
  BY <1>5, <1>9 DEF ReclaimCommit, rowVars
<1>10. CASE Quiet
  BY <1>5, <1>10 DEF Quiet, Active
<1> QED
  BY <1>3, <1>4, <1>6, <1>7, <1>8, <1>9, <1>10, StepKinds, Zenon

LEMMA QuotaInit == Init => QuotaInv
<1> SUFFICES ASSUME Init PROVE QuotaInv
  OBVIOUS
<1>1. {u \in Upload : ustate[u] # "none"} = {} /\ CompleteByState
  BY DEF Init, CompleteByState
<1>2. Stored = {} /\ Reserved = {}
  BY DEF Init, Stored, Reserved, Active
<1>3. UsedBytes = Bytes({}) /\ ReservedBytes(Active \cup {"unknown"}) = Bytes({})
  BY <1>2, Zenon DEF UsedBytes, ReservedBytes, Stored, Reserved
<1>4. Bytes({}) = 0
  <2>1. UNION {{v} \X (1..Size[ContentOf[v]]) : v \in {}} = {}
    OBVIOUS
  <2> QED
    BY <2>1, FS_EmptySet DEF Bytes
<1>5. QuotaRespected
  BY <1>3, <1>4, QuotaAssumption DEF QuotaRespected
<1> QED
  BY <1>1, <1>5, FS_EmptySet DEF QuotaInv

\* Uploads are admitted one by one, each against the sum of what is stored and
\* what the others have reserved, and commit in any order: the account's quota
\* is never exceeded, for any sizes.
THEOREM QuotaSafe == Spec => []QuotaRespected
<1> DEFINE I == OrderInv /\ CommitInv /\ QuotaInv
<1>1. Init => I
  BY OrderInvInit, CommitInvInit, QuotaInit
<1>2. I /\ [Next]_vars => I'
  BY OrderInvStep, CommitInvStep, QuotaStep DEF OrderInv
<1>3. I => QuotaRespected
  BY DEF QuotaInv
<1> QED
  BY <1>1, <1>2, <1>3, PTL DEF Spec

-----------------------------------------------------------------------------
(* The refinement of BackupLedger *)

LEMMA StatusValues ==
    /\ StatusOf("none") = "none"
    /\ \A s \in Active : StatusOf(s) = "open"
    /\ StatusOf("committed") = "stored"
    /\ StatusOf("unknown") = "unknown"
    /\ StatusOf("failed") = "rejected"
    /\ StatusOf("gone") = "deleted"
    /\ \A s \in CommitState : StatusOf(s) = "none" <=> s = "none"
BY DEF StatusOf, Active, CommitState

LEMMA LedgerStep ==
    ASSUME CommitInv, StateByControl, [Next]_vars
    PROVE  [Ledger!Next]_<<Status, Held, Shown, Deleted>>
<1>0. /\ ustate \in [Upload -> CommitState]
      /\ blobs \in [Upload -> Path \cup {NULL}] /\ path \in Path
      /\ resource \in [Resource -> Upload \cup {NULL}]
      /\ assets \in [Asset -> {"none", "live", "trashed", "deleted"}]
      /\ ResourceOf \in [Upload -> Resource] /\ AssetOf \in [Resource -> Asset]
      /\ ContentOf \in [Upload -> Content] /\ NULL \notin Upload \cup Path \cup Content
  BY RequestAssumption, NullAssumption DEF CommitInv, TypeInv, TypeOK
<1> USE <1>0
<1>1. ASSUME NEW u \in Upload, CreateUpload(u) PROVE Ledger!Open(u)
  <2>1. /\ ustate[u] = "none" /\ ustate' = [ustate EXCEPT ![u] = "receiving"]
        /\ UNCHANGED <<blobs, resource>>
        /\ assets[AssetOfUpload(u)] # "deleted"
        /\ assets' = [assets EXCEPT ![AssetOfUpload(u)] = "live"]
    BY <1>1 DEF CreateUpload, UpsertAsset
  <2>2. Held' = Held /\ Shown' = Shown
    BY <2>1 DEF Held, Rows, Shown
  <2>3. Deleted' = Deleted /\ AssetOf[ResourceOf[u]] \notin Deleted
    BY <2>1 DEF Deleted, AssetOfUpload
  <2>4. Status[u] = "none" /\ Status' = [Status EXCEPT ![u] = "open"]
    BY <2>1, StatusValues DEF Status, Active
  <2> QED
    BY <2>2, <2>3, <2>4 DEF Ledger!Open, Ledger!Usable
<1>2. ASSUME NEW u \in Upload, CommitMetadata(u), ~UNCHANGED <<rowVars, blobs, resource>>
      PROVE  Ledger!Store(u)
  <2>1. PICK b \in Upload : Stores(u, b)
    BY <1>2, MetadataStores
  <2>2. Held' = Held \cup {ContentOf[u]}
    <3>1. blobs' = [blobs EXCEPT ![b] = path] /\ ContentOf[b] = ContentOf[u] /\ path # NULL
      BY <2>1 DEF Stores
    <3>2. \A v \in Upload : blobs'[v] # NULL <=> blobs[v] # NULL \/ v = b
      BY <3>1
    <3> QED
      BY <3>1, <3>2 DEF Held, Rows
  <2>3. Shown' = [Shown EXCEPT ![ResourceOf[u]] = ContentOf[u]]
    BY <2>1 DEF Stores, Shown
  <2>4. Status[u] = "open" /\ Status' = [Status EXCEPT ![u] = "stored"]
    BY <2>1, StatusValues DEF Stores, Status, Active
  <2>5. Deleted' = Deleted /\ AssetOf[ResourceOf[u]] \notin Deleted
    BY <1>2, <2>1 DEF Stores, CommitMetadata, Deleted, CommitInv, LinkInv, DeletionIsFinal,
                      Exists, AssetOfUpload
  <2> QED
    BY <2>2, <2>3, <2>4, <2>5 DEF Ledger!Store, Ledger!Usable
<1>3. ASSUME NEW u \in Upload, DedupUpsert(u)
      PROVE  \/ \E r \in Resource, c \in Content : Ledger!Share(r, c)
             \/ UNCHANGED <<Status, Held, Shown, Deleted>>
  <2>1. UNCHANGED <<ustate, blobs, assets>>
    BY <1>3 DEF DedupUpsert, rowVars
  <2>2. UNCHANGED <<Status, Held, Deleted>>
    BY <2>1 DEF Status, Held, Rows, Deleted
  <2> DEFINE b == create[u].blob
             r == ResourceOf[u]
  <2>3. CASE UNCHANGED resource
    BY <2>2, <2>3 DEF Shown
  <2>4. CASE ~UNCHANGED resource
    <3>1. /\ blobs[b] # NULL /\ assets[AssetOfUpload(u)] # "deleted"
          /\ resource' = [resource EXCEPT ![r] = b]
      BY <1>3, <2>4 DEF DedupUpsert
    <3>2. b \in Upload
      BY <1>3, SharedRow DEF DedupUpsert
    <3>3. ContentOf[b] \in Held
      BY <3>1, <3>2 DEF Held, Rows
    <3>4. Shown' = [Shown EXCEPT ![r] = ContentOf[b]]
      BY <3>1, <3>2 DEF Shown
    <3>5. AssetOf[r] \notin Deleted
      BY <3>1 DEF Deleted, AssetOfUpload
    <3>6. Ledger!Share(r, ContentOf[b])
      BY <2>2, <3>3, <3>4, <3>5 DEF Ledger!Share, Ledger!Usable
    <3> QED
      BY <3>2, <3>6
  <2> QED
    BY <2>3, <2>4
<1>4. ASSUME NEW u \in Upload, MarkUnknown(u) \/ MarkFailed(u)
      PROVE  Ledger!GiveUp(u) \/ UNCHANGED <<Status, Held, Shown, Deleted>>
  <2>1. UNCHANGED <<blobs, resource, assets>>
    BY <1>4 DEF MarkUnknown, MarkFailed, libraryVars
  <2>2. UNCHANGED <<Held, Shown, Deleted>>
    BY <2>1 DEF Held, Rows, Shown, Deleted
  <2>3. \/ ustate' = ustate
        \/ /\ ustate[u] \in Active \cup {"committed"}
           /\ ustate' = [ustate EXCEPT ![u] = "unknown"]
        \/ ustate[u] \in Active /\ ustate' = [ustate EXCEPT ![u] = "failed"]
    BY <1>4 DEF MarkUnknown, MarkFailed, StateByControl, Exists, Active
  <2>4. \/ Status' = Status
        \/ Status[u] \in {"open", "stored"} /\ Status' = [Status EXCEPT ![u] = "unknown"]
        \/ Status[u] = "open" /\ Status' = [Status EXCEPT ![u] = "rejected"]
    BY <2>3, StatusValues DEF Status
  <2> QED
    BY <2>2, <2>4 DEF Ledger!GiveUp
<1>5. ASSUME NEW x \in Asset, DeletePermanently(x) PROVE Ledger!Delete(x)
  <2>1. /\ assets[x] = "trashed" /\ assets' = [assets EXCEPT ![x] = "deleted"]
        /\ resource' = [r \in Resource |-> IF AssetOf[r] = x THEN NULL ELSE resource[r]]
        /\ ustate' = [u \in Upload |->
             IF AssetOfUpload(u) = x /\ Exists(u) THEN "gone" ELSE ustate[u]]
        /\ blobs' = blobs
    BY <1>5 DEF DeletePermanently
  <2>2. Held' = Held
    BY <2>1 DEF Held, Rows
  <2>3. x \notin Deleted /\ Deleted' = Deleted \cup {x}
    BY <2>1 DEF Deleted
  <2>4. Shown' = [r \in Resource |-> IF AssetOf[r] = x THEN NULL ELSE Shown[r]]
    BY <2>1 DEF Shown
  <2>5. Status' = [u \in Upload |->
          IF AssetOf[ResourceOf[u]] = x /\ Status[u] # "none" THEN "deleted" ELSE Status[u]]
    BY <2>1, StatusValues DEF Status, AssetOfUpload, Exists
  <2> QED
    BY <2>2, <2>3, <2>4, <2>5 DEF Ledger!Delete
<1>6. ASSUME ReclaimCommit PROVE \E c \in Content : Ledger!Forget(c)
  <2> DEFINE b == reclaim.blob
             c == ContentOf[b]
  <2>1. /\ b \in Upload /\ blobs[b] # NULL /\ Orphan(b)
        /\ blobs' = [blobs EXCEPT ![b] = NULL] /\ UNCHANGED <<ustate, resource, assets>>
    BY <1>6 DEF ReclaimCommit, CommitInv, LinkInv, ReclaimOrphan, TypeInv, TypeOK, rowVars
  <2>2. \A v \in Upload : ContentOf[v] = c /\ blobs[v] # NULL => v = b
    BY <2>1 DEF CommitInv, LinkInv, OneRowPerContent
  <2>3. c \in Held /\ Held' = Held \ {c}
    BY <2>1, <2>2 DEF Held, Rows
  <2>4. \A r \in Resource : Shown[r] # c
    <3> SUFFICES ASSUME NEW r \in Resource, Shown[r] = c PROVE FALSE
      OBVIOUS
    <3>1. c \in Content
      BY <2>1
    <3>2. resource[r] # NULL /\ ContentOf[resource[r]] = c
      BY <3>1 DEF Shown
    <3>3. resource[r] \in Upload /\ blobs[resource[r]] # NULL
      BY <3>2 DEF CommitInv, LinkInv, ResourceHasRow
    <3> QED
      BY <2>1, <2>2, <3>2, <3>3 DEF Orphan
  <2>5. UNCHANGED <<Status, Shown, Deleted>>
    BY <2>1 DEF Status, Shown, Deleted
  <2> QED
    BY <2>1, <2>3, <2>4, <2>5 DEF Ledger!Forget
<1>7. ASSUME Quiet PROVE UNCHANGED <<Status, Held, Shown, Deleted>>
  <2>1. UNCHANGED <<Held, Shown, Deleted>>
    BY <1>7 DEF Quiet, Held, Rows, Shown, Deleted
  <2>2. \A u \in Upload : StatusOf(ustate'[u]) = StatusOf(ustate[u])
    BY <1>7, StatusValues DEF Quiet
  <2> QED
    BY <2>1, <2>2 DEF Status
<1> QED
  BY <1>1, <1>2, <1>3, <1>4, <1>5, <1>6, <1>7, StepKinds, Zenon DEF Ledger!Next

\* What the client and the library see changes only by the steps of BackupLedger:
\* uploads settle in one step, resources show contents the account holds, a content
\* is forgotten only when nothing shows it, and a deletion is final.
THEOREM LedgerImplemented == Spec => ImplementsLedger
<1>1. Init => Ledger!Init
  BY StatusValues DEF Init, Ledger!Init, Status, Held, Rows, Shown, Deleted
<1>2. CommitInv /\ OrderInv /\ [Next]_vars => [Ledger!Next]_<<Status, Held, Shown, Deleted>>
  BY LedgerStep DEF OrderInv
<1> QED
  BY <1>1, <1>2, CommitInvInit, CommitInvStep, OrderInvInit, OrderInvStep, PTL
     DEF Spec, ImplementsLedger, Ledger!Spec, Ledger!vars

\* What the ledger keeps together: a resource shows only what the account holds,
\* and nothing of a deleted asset is shown or may still be uploaded.
Consistent ==
    /\ \A r \in Resource : Shown[r] # NULL => Shown[r] \in Held
    /\ \A r \in Resource : AssetOf[r] \in Deleted => Shown[r] = NULL
    /\ \A u \in Upload : AssetOf[ResourceOf[u]] \in Deleted => Status[u] \in {"none", "deleted"}

LEMMA ConsistentStep ==
    ASSUME Consistent, [Ledger!Next]_<<Status, Held, Shown, Deleted>>,
           ResourceOf \in [Upload -> Resource]
    PROVE  Consistent'
<1>0. DOMAIN Status = Upload /\ DOMAIN Shown = Resource
  BY DEF Status, Shown
<1>1. ASSUME NEW u \in Upload, Ledger!Open(u) \/ Ledger!Store(u) \/ Ledger!GiveUp(u)
      PROVE  Consistent'
  <2>1. CASE Ledger!Open(u)
    BY <1>0, <2>1 DEF Ledger!Open, Ledger!Usable, Consistent
  <2>2. CASE Ledger!Store(u)
    BY <1>0, <2>2 DEF Ledger!Store, Ledger!Usable, Consistent
  <2>3. CASE Ledger!GiveUp(u)
    BY <1>0, <2>3 DEF Ledger!GiveUp, Consistent
  <2> QED
    BY <1>1, <2>1, <2>2, <2>3
<1>2. ASSUME NEW r \in Resource, NEW c \in Content, Ledger!Share(r, c) PROVE Consistent'
  BY <1>0, <1>2 DEF Ledger!Share, Ledger!Usable, Consistent
<1>3. ASSUME NEW c \in Content, Ledger!Forget(c) PROVE Consistent'
  BY <1>3 DEF Ledger!Forget, Consistent
<1>4. ASSUME NEW a \in Asset, Ledger!Delete(a) PROVE Consistent'
  BY <1>4 DEF Ledger!Delete, Consistent
<1>5. CASE UNCHANGED <<Status, Held, Shown, Deleted>>
  BY <1>5 DEF Consistent
<1> QED
  BY <1>1, <1>2, <1>3, <1>4, <1>5 DEF Ledger!Next

\* Proved of the few steps of the ledger, this holds of the server, whose handlers
\* take many: no row is forgotten while a resource names it, and no handler that was
\* under way brings back what is permanently deleted.
THEOREM PromisesConsistent == Spec => []Consistent
<1>1. Ledger!Init => Consistent
  BY RequestAssumption DEF Ledger!Init, Consistent
<1>2. Consistent /\ [Ledger!Next]_<<Status, Held, Shown, Deleted>> => Consistent'
  BY ConsistentStep, RequestAssumption
<1> QED
  BY <1>1, <1>2, LedgerImplemented, PTL DEF ImplementsLedger, Ledger!Spec, Ledger!vars

-----------------------------------------------------------------------------
(* The invariant behind the doctor *)

\* Reduces a step to one of a few actions, or to what the others have in common.
LEMMA PlaceKinds ==
    ASSUME [Next]_vars
    PROVE  \/ \E u \in Upload : Begin(u)
           \/ \E u \in Upload : CommitMetadata(u) /\ ~UNCHANGED <<rowVars, blobs, resource>>
           \/ ReclaimCommit
           \/ \E p \in Path : MoveAccount(p)
           \/ UNCHANGED <<blobs, commit, path, moves>>
<1> USE DEF rowVars, libraryVars, fileVars, handlerVars, otherVars, boundVars
<1>1. ASSUME NEW u \in Upload, CreateStep(u) \/ Enter(u)
      PROVE  UNCHANGED <<blobs, commit, path, moves>>
  BY <1>1 DEF CreateStep, CreateUpload, ResumeUpload, DedupFound, DedupInspect, DedupUpsert,
              LinkParts, RecordParts, Enter
<1>2. ASSUME NEW u \in Upload, CommitStep(u)
      PROVE  \/ Begin(u)
             \/ CommitMetadata(u) /\ ~UNCHANGED <<rowVars, blobs, resource>>
             \/ UNCHANGED <<blobs, commit, path, moves>>
  <2>1. CASE CommitMetadata(u)
    BY <2>1 DEF CommitMetadata
  <2>2. CASE \/ Load(u) \/ InspectStarted(u) \/ Assemble(u) \/ FinishAssembly(u)
             \/ ToFinalizing(u) \/ InspectFinal(u) \/ InspectStage(u) \/ Publish(u)
             \/ VerifyPublished(u) \/ LoadCandidate(u) \/ CheckCandidate(u) \/ RemoveStage(u)
             \/ ValidateRow(u) \/ ValidateObject(u) \/ MarkUnknown(u) \/ MarkFailed(u)
    BY <2>2
       DEF Load, InspectStarted, Assemble, FinishAssembly, ToFinalizing, InspectFinal,
           InspectStage, Publish, VerifyPublished, LoadCandidate, CheckCandidate, RemoveStage,
           ValidateRow, ValidateObject, MarkUnknown, MarkFailed
  <2> QED
    BY <1>2, <2>1, <2>2 DEF CommitStep
<1>3. ASSUME \/ \E x \in Asset : LibraryStep(x)
             \/ \E b \in Upload : ReclaimDelete(b)
             \/ ReclaimStep \/ SweepStep \/ FaultStep \/ UNCHANGED vars
      PROVE  ReclaimCommit \/ UNCHANGED <<blobs, commit, path, moves>>
  BY <1>3
     DEF vars, LibraryStep, Trash, Restore, DeletePermanently, ReclaimDelete, ReclaimStep,
         ReclaimUnlink, SweepStep, SweepRead, SweepList, SweepRemove, SweepEnd, FaultStep,
         Abandon, DamageParts, DamageStage, DamageObject, ReclaimRollback, Crash
<1> QED
  BY <1>1, <1>2, <1>3, Zenon DEF Next

LEMMA OnePlaceStep ==
    ASSUME CommitInv, OnePlace, [Next]_vars
    PROVE  OnePlace'
<1>0. /\ blobs \in [Upload -> Path \cup {NULL}] /\ commit \in [Upload -> CommitColumns]
      /\ path \in Path /\ moves \in Nat
  BY BoundAssumption DEF CommitInv, TypeInv, TypeOK
<1> USE <1>0
<1>1. ASSUME NEW u \in Upload, Begin(u) PROVE OnePlace'
  BY <1>1 DEF Begin, OnePlace, libraryVars, boundVars, CommitColumns, Rows
<1>2. ASSUME NEW u \in Upload, CommitMetadata(u), ~UNCHANGED <<rowVars, blobs, resource>>
      PROVE  OnePlace'
  <2>1. PICK b \in Upload : Stores(u, b)
    BY <1>2, MetadataStores
  <2>2. UNCHANGED <<path, moves>>
    BY <1>2 DEF CommitMetadata, boundVars
  <2> QED
    BY <2>1, <2>2 DEF Stores, OnePlace, CommitColumns
<1>3. CASE ReclaimCommit
  BY <1>3 DEF ReclaimCommit, OnePlace, rowVars, boundVars
<1>4. ASSUME NEW p \in Path, MoveAccount(p) PROVE OnePlace'
  BY <1>4 DEF MoveAccount, OnePlace
<1>5. CASE UNCHANGED <<blobs, commit, path, moves>>
  BY <1>5 DEF OnePlace
<1> QED
  BY <1>1, <1>2, <1>3, <1>4, <1>5, PlaceKinds, Zenon

LEMMA ShownStep ==
    ASSUME CommitInv, StateByControl, CommittedShown, [Next]_vars
    PROVE  CommittedShown'
<1>0. /\ ustate \in [Upload -> CommitState]
      /\ resource \in [Resource -> Upload \cup {NULL}] /\ NULL \notin Upload
      /\ ResourceOf \in [Upload -> Resource] /\ AssetOf \in [Resource -> Asset]
  BY RequestAssumption, NullAssumption DEF CommitInv, TypeInv, TypeOK
<1> USE <1>0 DEF CommittedShown
<1>1. ASSUME NEW u \in Upload, CreateUpload(u) PROVE CommittedShown'
  BY <1>1 DEF CreateUpload
<1>2. ASSUME NEW u \in Upload, CommitMetadata(u), ~UNCHANGED <<rowVars, blobs, resource>>
      PROVE  CommittedShown'
  <2>1. PICK b \in Upload : Stores(u, b)
    BY <1>2, MetadataStores
  <2> QED
    BY <2>1 DEF Stores
<1>3. ASSUME NEW u \in Upload, DedupUpsert(u) PROVE CommittedShown'
  <2>1. create[u].blob \in Upload
    BY <1>3, SharedRow DEF DedupUpsert
  <2> QED
    BY <1>3, <2>1 DEF DedupUpsert, rowVars
<1>4. ASSUME NEW u \in Upload, MarkUnknown(u) \/ MarkFailed(u) PROVE CommittedShown'
  BY <1>4 DEF MarkUnknown, MarkFailed, libraryVars
<1>5. ASSUME NEW x \in Asset, DeletePermanently(x) PROVE CommittedShown'
  BY <1>5 DEF DeletePermanently, Exists, AssetOfUpload
<1>6. CASE ReclaimCommit
  BY <1>6 DEF ReclaimCommit, rowVars
<1>7. CASE Quiet
  BY <1>7 DEF Quiet, Active
<1> QED
  BY <1>1, <1>2, <1>3, <1>4, <1>5, <1>6, <1>7, StepKinds, Zenon

\* The steps that touch a row's object, or what the reclaimer knows of it.
LEMMA ObjectKinds ==
    ASSUME [Next]_vars
    PROVE  \/ \E u \in Upload : CommitMetadata(u) /\ ~UNCHANGED <<rowVars, blobs, resource>>
           \/ \E u \in Upload : Publish(u)
           \/ \E b \in Upload : ReclaimDelete(b)
           \/ ReclaimUnlink
           \/ ReclaimCommit
           \/ \E k \in Path \X Content : DamageObject(k)
           \/ ReclaimRollback
           \/ Crash
           \/ UNCHANGED <<blobs, object, reclaim, raced>> /\ faults' \in {faults, faults + 1}
<1> USE DEF rowVars, libraryVars, fileVars, handlerVars, otherVars, boundVars
<1> DEFINE Else == UNCHANGED <<blobs, object, reclaim, raced>> /\ faults' \in {faults, faults + 1}
<1>1. ASSUME NEW u \in Upload, CreateStep(u) \/ Enter(u) PROVE Else
  BY <1>1 DEF CreateStep, CreateUpload, ResumeUpload, DedupFound, DedupInspect, DedupUpsert,
              LinkParts, RecordParts, Enter
<1>2. ASSUME NEW u \in Upload, CommitStep(u)
      PROVE  \/ CommitMetadata(u) /\ ~UNCHANGED <<rowVars, blobs, resource>>
             \/ Publish(u) \/ Else
  <2>1. CASE CommitMetadata(u)
    BY <2>1 DEF CommitMetadata
  <2>2. CASE \/ Load(u) \/ Begin(u) \/ InspectStarted(u) \/ Assemble(u) \/ FinishAssembly(u)
             \/ ToFinalizing(u) \/ InspectFinal(u) \/ InspectStage(u)
             \/ VerifyPublished(u) \/ LoadCandidate(u) \/ CheckCandidate(u) \/ RemoveStage(u)
             \/ ValidateRow(u) \/ ValidateObject(u) \/ MarkUnknown(u) \/ MarkFailed(u)
    BY <2>2
       DEF Load, Begin, InspectStarted, Assemble, FinishAssembly, ToFinalizing, InspectFinal,
           InspectStage, VerifyPublished, LoadCandidate, CheckCandidate, RemoveStage,
           ValidateRow, ValidateObject, MarkUnknown, MarkFailed
  <2> QED
    BY <1>2, <2>1, <2>2 DEF CommitStep
<1>3. ASSUME \/ \E x \in Asset : LibraryStep(x)
             \/ SweepStep \/ (\E p \in Path : MoveAccount(p)) \/ UNCHANGED vars
      PROVE  Else
  BY <1>3
     DEF vars, LibraryStep, Trash, Restore, DeletePermanently, SweepStep, SweepRead,
         SweepList, SweepRemove, SweepEnd, MoveAccount
<1>4. ASSUME FaultStep
      PROVE  \/ \E k \in Path \X Content : DamageObject(k)
             \/ ReclaimRollback \/ Crash \/ Else
  BY <1>4 DEF FaultStep, Abandon, DamageParts, DamageStage, Fault
<1> QED
  BY <1>1, <1>2, <1>3, <1>4, Zenon DEF Next, ReclaimStep

LEMMA RowObjectsStep ==
    ASSUME CommitInv, CommitInv', RowsHaveObjects, UnlinkRecorded, [Next]_vars, Unlinks
    PROVE  RowsHaveObjects' /\ UnlinkRecorded'
<1>0. /\ blobs \in [Upload -> Path \cup {NULL}] /\ path \in Path /\ faults \in Nat
      /\ object \in [Path \X Content -> FileState] /\ raced \in SUBSET Content
      /\ reclaim \in [blob : Upload \cup {NULL}, unlinked : BOOLEAN]
      /\ ContentOf \in [Upload -> Content] /\ NULL \notin Upload \cup Path \cup Content
      /\ \A b \in Upload : blobs[b] # NULL => <<blobs[b], ContentOf[b]>> \in Path \X Content
  BY RequestAssumption, NullAssumption, BoundAssumption DEF CommitInv, TypeInv, TypeOK
<1> USE <1>0 DEF RowsHaveObjects, UnlinkRecorded, Unlinks
<1>1. ASSUME NEW u \in Upload, CommitMetadata(u), ~UNCHANGED <<rowVars, blobs, resource>>
      PROVE  RowsHaveObjects' /\ UnlinkRecorded'
  <2>1. PICK b \in Upload : Stores(u, b)
    BY <1>1, MetadataStores
  <2>2. UNCHANGED <<object, reclaim, raced, faults>>
    BY <1>1 DEF CommitMetadata, fileVars, otherVars, boundVars
  <2>3. blobs[b] = path \/ object[<<path, ContentOf[b]>>] # "absent" \/ ContentOf[b] \in raced
    <3>1. /\ commit[u].final = commit[u].account
          /\ object[FinalKey(u)] # "absent" \/ ContentOf[u] \in raced
      BY <1>1 DEF CommitMetadata, CommitInv, LinkInv, CommitRelies, MetadataLoop, Present, FinalKey
    <3> QED
      BY <2>1, <3>1 DEF Stores, FinalKey
  <2>4. reclaimed' = reclaimed
    BY <2>2
  <2>5. /\ blobs'[b] = path
        /\ \A v \in Upload \ {b} : blobs'[v] = blobs[v]
    BY <2>1 DEF Stores
  <2> QED
    BY <2>2, <2>3, <2>4, <2>5
<1>2. ASSUME NEW u \in Upload, Publish(u) PROVE RowsHaveObjects' /\ UnlinkRecorded'
  <2>1. /\ UNCHANGED <<blobs, reclaim, raced, faults>>
        /\ \A k \in Path \X Content : object'[k] = "absent" => object[k] = "absent"
    BY <1>2 DEF Publish, libraryVars, otherVars, boundVars
  <2>2. reclaimed' = reclaimed
    BY <2>1
  <2> QED
    BY <2>1, <2>2
<1>3. ASSUME NEW b \in Upload, ReclaimDelete(b) PROVE RowsHaveObjects' /\ UnlinkRecorded'
  BY <1>3 DEF ReclaimDelete, WriterFree, libraryVars, fileVars, boundVars
<1>4. CASE ReclaimUnlink
  <2> DEFINE b == reclaim.blob
             k == <<blobs[b], ContentOf[b]>>
  <2>1. /\ b \in Upload /\ ~reclaim.unlinked /\ UNCHANGED <<blobs, faults>>
        /\ blobs[b] # NULL
        /\ \A v \in Upload : blobs[v] # NULL /\ ContentOf[v] = ContentOf[b] => v = b
    BY <1>4 DEF ReclaimUnlink, CommitInv, LinkInv, ReclaimOrphan, OneRowPerContent, libraryVars
  <2>2. CASE blobs[b] = path
    <3>1. /\ object' = [object EXCEPT ![k] = "absent"]
          /\ reclaim' = [reclaim EXCEPT !.unlinked = TRUE]
          /\ raced' \in {raced, raced \cup {ContentOf[b]}}
      BY <1>4, <2>2 DEF ReclaimUnlink
    <3>2. reclaim'.unlinked /\ reclaim'.blob = b
      BY <3>1
    <3>3. reclaimed' = reclaimed \cup {ContentOf[b]}
      BY <2>1, <3>2
    <3>4. \A v \in Upload \ {b} : blobs[v] # NULL =>
            object'[<<blobs[v], ContentOf[v]>>] = object[<<blobs[v], ContentOf[v]>>]
      BY <2>1, <3>1
    <3>5. RowsHaveObjects'
      BY <2>1, <3>1, <3>2, <3>3, <3>4
    <3> QED
      BY <3>1, <3>2, <3>3, <3>5
  <2>3. CASE blobs[b] # path
    BY <1>4, <2>1, <2>3 DEF ReclaimUnlink, NoReclaim
  <2> QED
    BY <2>2, <2>3
<1>5. CASE ReclaimCommit
  BY <1>5 DEF ReclaimCommit, NoReclaim, fileVars, boundVars
<1>6. CASE \E k \in Path \X Content : DamageObject(k)
  BY <1>6 DEF DamageObject, Fault, libraryVars, otherVars
<1>7. CASE ReclaimRollback \/ Crash
  BY <1>7 DEF ReclaimRollback, Crash, Fault, NoReclaim, libraryVars, fileVars
<1>8. CASE UNCHANGED <<blobs, object, reclaim, raced>> /\ faults' \in {faults, faults + 1}
  BY <1>8
<1> QED
  BY <1>1, <1>2, <1>3, <1>4, <1>5, <1>6, <1>7, <1>8, ObjectKinds, Zenon

\* The steps that touch the bytes of a commit, or how far it has come.
LEMMA ByteKinds ==
    ASSUME CommitInv, StateByControl, [Next]_vars
    PROVE  \/ \E u \in Upload : Begin(u) \/ InspectStarted(u) \/ Assemble(u) \/ FinishAssembly(u)
           \/ \E u \in Upload : ToFinalizing(u) \/ Publish(u) \/ RemoveStage(u)
           \/ \E u \in Upload : CommitMetadata(u) /\ ~UNCHANGED <<rowVars, blobs, resource>>
           \/ \E u \in Upload : Abandon(u) \/ DamageStage(u) \/ SweepRemove(u)
           \/ \E k \in Path \X Content : DamageObject(k)
           \/ ReclaimUnlink
           \/ /\ UNCHANGED <<commit, stage, object>>
              /\ \A v \in Upload :
                   /\ pc'[v] \in {pc[v]} \cup (Control \ {"assembling", "to_finalizing"})
                   /\ ustate'[v] \in {"commit_started", "finalizing"} => ustate'[v] = ustate[v]
<1>0. pc \in [Upload -> Control] /\ ustate \in [Upload -> CommitState]
  BY DEF CommitInv, TypeInv, TypeOK
<1> USE <1>0 DEF rowVars, libraryVars, fileVars, handlerVars, otherVars, boundVars, Goto, Control
<1> DEFINE Else == /\ UNCHANGED <<commit, stage, object>>
                   /\ \A v \in Upload :
                        /\ pc'[v] \in {pc[v]} \cup (Control \ {"assembling", "to_finalizing"})
                        /\ ustate'[v] \in {"commit_started", "finalizing"} => ustate'[v] = ustate[v]
<1>1. ASSUME NEW u \in Upload, CreateStep(u) \/ Enter(u) PROVE Else
  BY <1>1 DEF CreateStep, CreateUpload, ResumeUpload, DedupFound, DedupInspect, DedupUpsert,
              LinkParts, RecordParts, Enter
<1>2. ASSUME NEW u \in Upload, CommitStep(u)
      PROVE  \/ Begin(u) \/ InspectStarted(u) \/ Assemble(u) \/ FinishAssembly(u)
             \/ ToFinalizing(u) \/ Publish(u) \/ RemoveStage(u)
             \/ CommitMetadata(u) /\ ~UNCHANGED <<rowVars, blobs, resource>>
             \/ Else
  <2>1. CASE CommitMetadata(u)
    BY <2>1 DEF CommitMetadata
  <2>2. CASE Load(u)
    BY <2>2 DEF Load
  <2>3. CASE \/ InspectFinal(u) \/ InspectStage(u) \/ VerifyPublished(u) \/ LoadCandidate(u)
             \/ CheckCandidate(u)
    BY <2>3 DEF InspectFinal, InspectStage, VerifyPublished, LoadCandidate, CheckCandidate
  <2>4. CASE ValidateRow(u) \/ ValidateObject(u) \/ MarkUnknown(u) \/ MarkFailed(u)
    BY <2>4 DEF ValidateRow, ValidateObject, MarkUnknown, MarkFailed
  <2> QED
    BY <1>2, <2>1, <2>2, <2>3, <2>4, Zenon DEF CommitStep
<1>3. ASSUME \/ \E x \in Asset : LibraryStep(x)
             \/ \E b \in Upload : ReclaimDelete(b)
             \/ ReclaimCommit
             \/ SweepRead \/ SweepList \/ SweepEnd
             \/ (\E p \in Path : MoveAccount(p)) \/ UNCHANGED vars
      PROVE  Else
  BY <1>3
     DEF vars, LibraryStep, Trash, Restore, DeletePermanently, ReclaimDelete, ReclaimCommit,
         SweepRead, SweepList, SweepEnd, MoveAccount
<1>4. ASSUME (\E u \in Upload : DamageParts(u)) \/ ReclaimRollback \/ Crash PROVE Else
  BY <1>4 DEF DamageParts, ReclaimRollback, Crash
<1> QED
  BY <1>1, <1>2, <1>3, <1>4, Zenon DEF Next, ReclaimStep, SweepStep, FaultStep

LEMMA BytesKeptStep ==
    ASSUME CommitInv, CommitInv', StateByControl, BytesKept, [Next]_vars, Unlinks, Sweeps
    PROVE  BytesKept'
<1>0. /\ pc \in [Upload -> Control] /\ ustate \in [Upload -> CommitState]
      /\ stage \in [Upload -> FileState] /\ object \in [Path \X Content -> FileState]
      /\ commit \in [Upload -> CommitColumns] /\ swept \subseteq swept'
      /\ reclaimed \subseteq reclaimed'
      /\ \A v \in Upload : ustate[v] \in {"commit_started", "finalizing"} =>
            FinalKey(v) \in Path \X Content
  <2>1. reclaimed \subseteq reclaimed' /\ swept \subseteq swept'
    BY DEF Unlinks, Sweeps
  <2>2. \A v \in Upload : ustate[v] \in {"commit_started", "finalizing"} =>
          FinalKey(v) \in Path \X Content
    BY KeyTypes DEF CommitInv, LinkInv, ColumnsByState
  <2> QED
    BY <2>1, <2>2 DEF CommitInv, TypeInv, TypeOK
<1> USE <1>0 DEF Goto, FileState
<1> DEFINE Assembling(v) == pc[v] = "assembling"
           Holds(v) == \/ pc[v] = "to_finalizing" /\ ustate[v] = "commit_started"
                       \/ ustate[v] = "finalizing" /\ commit[v].staged
           Staged(v) == stage[v] # "absent" \/ v \in swept
           Stood(v) == object[FinalKey(v)] # "absent" \/ ContentOf[v] \in reclaimed
<1>1. \A v \in Upload : Assembling(v) => Staged(v)
  BY DEF BytesKept
<1>2. \A v \in Upload : Holds(v) => Staged(v) \/ Stood(v)
  BY DEF BytesKept
<1>3. ASSUME \A v \in Upload : Assembling(v)' => Staged(v)',
             \A v \in Upload : Holds(v)' => Staged(v)' \/ Stood(v)'
      PROVE  BytesKept'
  BY <1>3 DEF BytesKept
\* A step touches the bytes of one upload only.
<1>4. ASSUME NEW u \in Upload,
             \A v \in Upload \ {u} : /\ pc'[v] = pc[v] /\ ustate'[v] = ustate[v]
                                    /\ commit'[v] = commit[v] /\ stage'[v] = stage[v],
             \A k \in Path \X Content : object[k] # "absent" => object'[k] # "absent",
             Assembling(u)' => Staged(u)',
             Holds(u)' => Staged(u)' \/ Stood(u)'
      PROVE  BytesKept'
  <2>1. ASSUME NEW v \in Upload \ {u}
        PROVE  /\ Assembling(v)' => Staged(v)'
               /\ Holds(v)' => Staged(v)' \/ Stood(v)'
    <3>1. Staged(v) => Staged(v)'
      BY <1>4
    <3>2. Assembling(v)' => Assembling(v)
      BY <1>4
    <3>3. Holds(v)' => Holds(v)
      BY <1>4
    <3>4. Holds(v) /\ Stood(v) => Stood(v)'
      <4>1. FinalKey(v)' = FinalKey(v)
        BY <1>4 DEF FinalKey
      <4>2. Holds(v) => FinalKey(v) \in Path \X Content
        OBVIOUS
      <4> QED
        BY <1>4, <4>1, <4>2
    <3> HIDE DEF Assembling, Holds, Staged, Stood
    <3> QED
      BY <1>1, <1>2, <3>1, <3>2, <3>3, <3>4
  <2> HIDE DEF Assembling, Holds, Staged, Stood
  <2> QED
    BY <1>3, <1>4, <2>1
<1>5. ASSUME NEW u \in Upload, Begin(u) PROVE BytesKept'
  <2>1. /\ \A v \in Upload \ {u} : /\ pc'[v] = pc[v] /\ ustate'[v] = ustate[v]
                                  /\ commit'[v] = commit[v] /\ stage'[v] = stage[v]
        /\ UNCHANGED <<stage, object>> /\ pc'[u] \in {"load", "idle"}
        /\ UNCHANGED <<ustate, commit>> \/ ustate'[u] = "commit_started" \/ ~commit'[u].staged
    BY <1>5 DEF Begin, fileVars, CommitColumns
  <2>2. ~Assembling(u)'
    BY <2>1
  <2>3. Holds(u)' => Holds(u) /\ UNCHANGED <<commit, stage, object>>
    BY <2>1
  <2>4. Holds(u)' => Staged(u)' \/ Stood(u)'
    BY <1>2, <2>3 DEF FinalKey
  <2> HIDE DEF Assembling, Holds, Staged, Stood
  <2> QED
    BY <1>4, <2>1, <2>2, <2>4
<1>6. ASSUME NEW u \in Upload, InspectStarted(u) PROVE BytesKept'
  <2>1. /\ \A v \in Upload \ {u} : /\ pc'[v] = pc[v] /\ ustate'[v] = ustate[v]
                                  /\ commit'[v] = commit[v] /\ stage'[v] = stage[v]
        /\ UNCHANGED <<ustate, commit, stage, object>>
        /\ pc'[u] # "assembling"
        /\ pc'[u] = "to_finalizing" => object[FinalKey(u)] # "absent"
    BY <1>6 DEF InspectStarted, rowVars, fileVars, FinalState, Inspect, FinalKey
  <2>2. ~Assembling(u)'
    BY <2>1
  <2>3. Stood(u) => Stood(u)'
    BY <2>1 DEF FinalKey
  <2>4. Holds(u)' => Holds(u) \/ Stood(u)
    BY <2>1
  <2>5. Holds(u)' => Staged(u)' \/ Stood(u)'
    BY <1>2, <2>1, <2>3, <2>4
  <2> HIDE DEF Assembling, Holds, Staged, Stood
  <2> QED
    BY <1>4, <2>1, <2>2, <2>5
<1>7. ASSUME NEW u \in Upload, Assemble(u) PROVE BytesKept'
  <2>1. /\ \A v \in Upload \ {u} : /\ pc'[v] = pc[v] /\ ustate'[v] = ustate[v]
                                  /\ commit'[v] = commit[v] /\ stage'[v] = stage[v]
        /\ UNCHANGED object /\ stage'[u] # "absent"
    BY <1>7 DEF Assemble, rowVars
  <2>2. Staged(u)'
    BY <2>1
  <2> HIDE DEF Assembling, Holds, Staged, Stood
  <2> QED
    BY <1>4, <2>1, <2>2
<1>8. ASSUME NEW u \in Upload, FinishAssembly(u) PROVE BytesKept'
  <2>1. /\ \A v \in Upload \ {u} : /\ pc'[v] = pc[v] /\ ustate'[v] = ustate[v]
                                  /\ commit'[v] = commit[v] /\ stage'[v] = stage[v]
        /\ UNCHANGED <<ustate, commit, object>> /\ pc[u] = "assembling"
        /\ \/ pc'[u] = "to_finalizing" /\ (stage[u] # "absent" => stage'[u] # "absent")
           \/ pc'[u] = "mark_failed"
        /\ ustate[u] \in {"commit_started", "gone"}
    BY <1>8 DEF FinishAssembly, rowVars, StateByControl
  <2>2. ~Assembling(u)'
    BY <2>1
  <2>3. Holds(u)' => Staged(u)'
    BY <1>1, <2>1
  <2> HIDE DEF Assembling, Holds, Staged, Stood
  <2> QED
    BY <1>4, <2>1, <2>2, <2>3
<1>9. ASSUME NEW u \in Upload, ToFinalizing(u) PROVE BytesKept'
  <2>1. /\ \A v \in Upload \ {u} : /\ pc'[v] = pc[v] /\ ustate'[v] = ustate[v]
                                  /\ commit'[v] = commit[v] /\ stage'[v] = stage[v]
        /\ UNCHANGED <<commit, stage, object>> /\ pc'[u] \in {"inspect_final", "idle"}
        /\ ustate' = ustate \/ Holds(u)
    BY <1>9 DEF ToFinalizing, fileVars
  <2>2. ~Assembling(u)'
    BY <2>1
  <2>3. Holds(u)' => Holds(u)
    BY <2>1
  <2>4. Holds(u)' => Staged(u)' \/ Stood(u)'
    BY <1>2, <2>1, <2>3 DEF FinalKey
  <2> HIDE DEF Assembling, Holds, Staged, Stood
  <2> QED
    BY <1>4, <2>1, <2>2, <2>4
<1>10. ASSUME NEW u \in Upload, Publish(u) PROVE BytesKept'
  <2>1. /\ \A v \in Upload \ {u} : /\ pc'[v] = pc[v] /\ ustate'[v] = ustate[v]
                                  /\ commit'[v] = commit[v] /\ stage'[v] = stage[v]
        /\ UNCHANGED <<ustate, commit, stage>> /\ pc'[u] \in {"verify_published", "mark_unknown"}
        /\ \A k \in Path \X Content : object[k] # "absent" => object'[k] # "absent"
    BY <1>10 DEF Publish, rowVars
  <2>2. ~Assembling(u)'
    BY <2>1
  <2>3. Holds(u)' => Holds(u) /\ FinalKey(u)' = FinalKey(u) /\ FinalKey(u) \in Path \X Content
    BY <2>1 DEF FinalKey
  <2>4. Holds(u)' => Staged(u)' \/ Stood(u)'
    BY <1>2, <2>1, <2>3
  <2> HIDE DEF Assembling, Holds, Staged, Stood
  <2> QED
    BY <1>4, <2>1, <2>2, <2>4
<1>11. ASSUME NEW u \in Upload, RemoveStage(u) PROVE BytesKept'
  <2>1. /\ \A v \in Upload \ {u} : /\ pc'[v] = pc[v] /\ ustate'[v] = ustate[v]
                                  /\ commit'[v] = commit[v] /\ stage'[v] = stage[v]
        /\ UNCHANGED <<ustate, object>> /\ pc'[u] = "idle"
        /\ ustate[u] \in {"committed", "gone"}
    BY <1>11 DEF RemoveStage, rowVars, StateByControl
  <2>2. ~Assembling(u)' /\ ~Holds(u)'
    BY <2>1
  <2> HIDE DEF Assembling, Holds, Staged, Stood
  <2> QED
    BY <1>4, <2>1, <2>2
<1>12. ASSUME NEW u \in Upload, CommitMetadata(u), ~UNCHANGED <<rowVars, blobs, resource>>
       PROVE  BytesKept'
  <2>1. PICK b \in Upload : Stores(u, b)
    BY <1>12, MetadataStores
  <2>2. /\ \A v \in Upload \ {u} : /\ pc'[v] = pc[v] /\ ustate'[v] = ustate[v]
                                  /\ commit'[v] = commit[v] /\ stage'[v] = stage[v]
        /\ UNCHANGED object /\ pc'[u] \in {"remove_stage", "idle"} /\ ustate'[u] = "committed"
    BY <1>12, <2>1 DEF CommitMetadata, Stores, fileVars
  <2>3. ~Assembling(u)' /\ ~Holds(u)'
    BY <2>2
  <2> HIDE DEF Assembling, Holds, Staged, Stood
  <2> QED
    BY <1>4, <2>2, <2>3
<1>13. ASSUME NEW u \in Upload, Abandon(u) PROVE BytesKept'
  <2>1. /\ \A v \in Upload \ {u} : /\ pc'[v] = pc[v] /\ ustate'[v] = ustate[v]
                                  /\ commit'[v] = commit[v] /\ stage'[v] = stage[v]
        /\ UNCHANGED <<ustate, commit, object>> /\ pc'[u] = "idle"
        /\ UNCHANGED stage \/ ustate[u] \in {"commit_started", "gone"}
    BY <1>13 DEF Abandon, rowVars, StateByControl
  <2>2. ~Assembling(u)'
    BY <2>1
  <2>3. Holds(u)' => Holds(u) /\ UNCHANGED <<commit, stage, object>>
    BY <2>1
  <2>4. Holds(u)' => Staged(u)' \/ Stood(u)'
    BY <1>2, <2>3 DEF FinalKey
  <2> HIDE DEF Assembling, Holds, Staged, Stood
  <2> QED
    BY <1>4, <2>1, <2>2, <2>4
<1>14. ASSUME NEW u \in Upload, DamageStage(u) \/ SweepRemove(u) PROVE BytesKept'
  <2>1. /\ \A v \in Upload \ {u} : /\ pc'[v] = pc[v] /\ ustate'[v] = ustate[v]
                                  /\ commit'[v] = commit[v] /\ stage'[v] = stage[v]
        /\ UNCHANGED <<pc, ustate, commit, object>>
    BY <1>14 DEF DamageStage, SweepRemove, rowVars, handlerVars
  <2>2. Staged(u) => Staged(u)'
    <3>1. CASE DamageStage(u)
      BY <3>1 DEF DamageStage
    <3>2. CASE SweepRemove(u)
      <4>1. u \in sweep.keys /\ u \notin sweep'.keys
        BY <3>2 DEF SweepRemove, CommitInv, TypeInv, TypeOK
      <4>2. stage'[u] # stage[u] => u \in swept'
        BY <4>1 DEF Sweeps
      <4> QED
        BY <4>2
    <3> QED
      BY <1>14, <3>1, <3>2
  <2>3. Assembling(u)' => Assembling(u)
    BY <2>1
  <2>4. Holds(u)' => Holds(u)
    BY <2>1
  <2>5. Stood(u) => Stood(u)'
    BY <2>1 DEF FinalKey
  <2> HIDE DEF Assembling, Holds, Staged, Stood
  <2> QED
    BY <1>1, <1>2, <1>4, <2>1, <2>2, <2>3, <2>4, <2>5
\* The other steps take no stage away; one of them unlinks an object.
<1>15. ASSUME UNCHANGED <<commit, stage>>,
              \A v \in Upload :
                 /\ pc'[v] \in {pc[v]} \cup (Control \ {"assembling", "to_finalizing"})
                 /\ ustate'[v] \in {"commit_started", "finalizing"} => ustate'[v] = ustate[v],
              \A k \in Path \X Content : object[k] # "absent" =>
                 object'[k] # "absent" \/ k[2] \in reclaimed'
       PROVE  BytesKept'
  <2> SUFFICES ASSUME NEW v \in Upload
               PROVE  /\ Assembling(v)' => Staged(v)'
                      /\ Holds(v)' => Staged(v)' \/ Stood(v)'
    <3> HIDE DEF Assembling, Holds, Staged, Stood
    <3> QED
      BY <1>3
  <2>1. Staged(v) => Staged(v)'
    BY <1>15
  <2>2. Assembling(v)' => Assembling(v)
    BY <1>15
  <2>3. Holds(v)' => Holds(v)
    BY <1>15
  <2>4. Holds(v) /\ Stood(v) => Stood(v)'
    <3>1. FinalKey(v)' = FinalKey(v) /\ FinalKey(v)[2] = ContentOf[v]
      BY <1>15 DEF FinalKey
    <3>2. Holds(v) => FinalKey(v) \in Path \X Content
      OBVIOUS
    <3> QED
      BY <1>15, <3>1, <3>2
  <2> HIDE DEF Assembling, Holds, Staged, Stood
  <2> QED
    BY <1>1, <1>2, <2>1, <2>2, <2>3, <2>4
<1>16. ASSUME NEW k \in Path \X Content, DamageObject(k) PROVE BytesKept'
  BY <1>15, <1>16 DEF DamageObject, rowVars, handlerVars
<1>17. ASSUME ReclaimUnlink PROVE BytesKept'
  <2>1. UNCHANGED <<ustate, commit, stage, pc>>
    BY <1>17 DEF ReclaimUnlink, rowVars, handlerVars
  <2>2. \A k \in Path \X Content : object[k] # "absent" =>
          object'[k] # "absent" \/ k[2] \in reclaimed'
    <3> DEFINE b == reclaim.blob
               key == <<blobs[b], ContentOf[b]>>
    <3>1. CASE blobs[b] = path
      <4>1. /\ object' = [object EXCEPT ![key] = "absent"]
            /\ ~reclaim.unlinked /\ reclaim' = [reclaim EXCEPT !.unlinked = TRUE]
        BY <1>17, <3>1 DEF ReclaimUnlink
      <4>2. reclaim'.unlinked
        BY <4>1 DEF CommitInv, TypeInv, TypeOK
      <4>3. ContentOf[b] \in reclaimed'
        BY <4>1, <4>2 DEF Unlinks
      <4> QED
        BY <4>1, <4>3
    <3>2. CASE blobs[b] # path
      BY <1>17, <3>2 DEF ReclaimUnlink
    <3> QED
      BY <3>1, <3>2
  <2> QED
    BY <1>15, <2>1, <2>2
<1>18. CASE /\ UNCHANGED <<commit, stage, object>>
            /\ \A v \in Upload :
                 /\ pc'[v] \in {pc[v]} \cup (Control \ {"assembling", "to_finalizing"})
                 /\ ustate'[v] \in {"commit_started", "finalizing"} => ustate'[v] = ustate[v]
  BY <1>15, <1>18
<1> QED
  BY <1>5, <1>6, <1>7, <1>8, <1>9, <1>10, <1>11, <1>12, <1>13, <1>14, <1>16, <1>17, <1>18,
     ByteKinds, Zenon

\* An upload stops receiving once all its parts are recorded, or with its asset.
LEMMA LeavesReceiving ==
    ASSUME OrderInv, Next, NEW v \in Upload, ustate[v] = "receiving"
    PROVE  ustate'[v] \in {"receiving", "gone"} \/ Recorded(v)
<1>0. /\ ustate \in [Upload -> CommitState]
      /\ pc[v] \notin {"mark_unknown", "mark_failed"}
  BY DEF OrderInv, StateByControl, TypeInv, TypeOK
<1> USE <1>0 DEF rowVars, libraryVars, fileVars, handlerVars, otherVars, boundVars
<1>1. ASSUME NEW u \in Upload, CreateStep(u) \/ Enter(u)
      PROVE  ustate'[v] = "receiving"
  BY <1>1 DEF CreateStep, CreateUpload, ResumeUpload, DedupFound, DedupInspect,
              DedupUpsert, LinkParts, RecordParts, Enter
<1>2. ASSUME NEW u \in Upload, CommitStep(u), u # v \/ ~Begin(u)
      PROVE  ustate'[v] = "receiving"
  BY <1>2
     DEF CommitStep, Load, Begin, InspectStarted, Assemble, FinishAssembly, ToFinalizing,
         InspectFinal, InspectStage, Publish, VerifyPublished, LoadCandidate,
         CheckCandidate, CommitMetadata, RemoveStage, ValidateRow, ValidateObject,
         MarkUnknown, MarkFailed
<1>3. CASE Begin(v)
  BY <1>3 DEF Begin
<1>4. ASSUME NEW a \in Asset, LibraryStep(a)
      PROVE  ustate'[v] \in {"receiving", "gone"}
  BY <1>4 DEF LibraryStep, Trash, Restore, DeletePermanently
<1>5. ASSUME \/ \E b \in Upload : ReclaimDelete(b)
             \/ ReclaimStep \/ SweepStep \/ (\E p \in Path : MoveAccount(p))
             \/ FaultStep
      PROVE  ustate'[v] = "receiving"
  BY <1>5
     DEF ReclaimDelete, ReclaimStep, ReclaimUnlink, ReclaimCommit, SweepStep, SweepRead,
         SweepList, SweepRemove, SweepEnd, MoveAccount, FaultStep, Abandon, DamageParts,
         DamageStage, DamageObject, ReclaimRollback, Crash
<1> QED
  BY <1>1, <1>2, <1>3, <1>4, <1>5 DEF Next

LEMMA PartsStep ==
    ASSUME CommitInv, OrderInv, CommitInv', PartsOfUploads, Next
    PROVE  PartsOfUploads'
<1>0. /\ parts \in [Upload -> PartState]
      /\ faults \in Nat
  BY BoundAssumption DEF CommitInv, TypeInv, TypeOK
<1> USE <1>0 DEF rowVars, libraryVars, fileVars, handlerVars, otherVars, boundVars
\* What a step does to the parts of an upload.
<1> DEFINE Moved(v) ==
             \/ parts'[v] = parts[v]
             \/ ustate[v] # "none" /\ ~Recorded(v) /\ parts'[v] \in {"linked", "good"}
             \/ Recorded(v) /\ parts'[v] \in {"good", "bad"}
             \/ parts'[v] = TakenBack(parts[v]) /\ faults' = faults + 1
           PartsMove ==
             /\ faults' = faults \/ faults' = faults + 1
             /\ \A v \in Upload : Moved(v)
<1>1. PartsMove
  <2>1. ASSUME NEW u \in Upload, LinkParts(u) \/ RecordParts(u)
        PROVE  PartsMove
    BY <2>1 DEF LinkParts, RecordParts, Recorded, Exists
  <2>2. ASSUME NEW u \in Upload, DamageParts(u)
        PROVE  PartsMove
    BY <2>2 DEF DamageParts, Recorded, Fault
  <2>3. CASE Crash
    BY <2>3 DEF Crash, Fault
  <2>4. CASE UNCHANGED parts /\ (Fault \/ UNCHANGED faults)
    BY <2>4 DEF Fault
  <2>5. ASSUME NEW u \in Upload, CreateStep(u) \/ Enter(u)
        PROVE  LinkParts(u) \/ RecordParts(u) \/ UNCHANGED <<parts, faults>>
    BY <2>5 DEF CreateStep, CreateUpload, ResumeUpload, DedupFound, DedupInspect,
                DedupUpsert, Enter
  <2>6. ASSUME NEW u \in Upload, CommitStep(u) PROVE UNCHANGED <<parts, faults>>
    BY <2>6
       DEF CommitStep, Load, Begin, InspectStarted, Assemble, FinishAssembly, ToFinalizing,
           InspectFinal, InspectStage, Publish, VerifyPublished, LoadCandidate,
           CheckCandidate, CommitMetadata, RemoveStage, ValidateRow, ValidateObject,
           MarkUnknown, MarkFailed
  <2>7. ASSUME \/ \E x \in Asset : LibraryStep(x)
               \/ \E b \in Upload : ReclaimDelete(b)
               \/ ReclaimStep \/ SweepStep \/ (\E p \in Path : MoveAccount(p))
        PROVE  UNCHANGED <<parts, faults>>
    BY <2>7
       DEF LibraryStep, Trash, Restore, DeletePermanently, ReclaimDelete, ReclaimStep,
           ReclaimUnlink, ReclaimCommit, SweepStep, SweepRead, SweepList, SweepRemove,
           SweepEnd, MoveAccount
  <2>8. ASSUME FaultStep
        PROVE  \/ \E u \in Upload : DamageParts(u)
               \/ Crash
               \/ UNCHANGED parts /\ Fault
    BY <2>8 DEF FaultStep, Abandon, DamageStage, DamageObject, ReclaimRollback
  <2> QED
    BY <2>1, <2>2, <2>3, <2>4, <2>5, <2>6, <2>7, <2>8 DEF Next
<1> SUFFICES ASSUME NEW v \in Upload
             PROVE  /\ ustate'[v] = "none" => parts'[v] = "absent"
                    /\ Exists(v)' /\ ~Recorded(v)' => ustate'[v] = "receiving"
                    /\ parts'[v] = "lost" => faults' > 0
  BY DEF PartsOfUploads
<1>2. /\ ustate[v] = "none" => parts[v] = "absent"
      /\ Exists(v) /\ ~Recorded(v) => ustate[v] = "receiving"
      /\ parts[v] = "lost" => faults > 0
  BY DEF PartsOfUploads
<1>3. /\ Recorded(v) => Recorded(v)'
      /\ parts[v] = "absent" /\ ustate[v] = "none" => parts'[v] = "absent"
      /\ parts'[v] = "lost" => faults' > 0
  BY <1>1, <1>2 DEF Recorded, TakenBack
<1>4. \/ ustate'[v] = ustate[v]
      \/ <<ustate[v], ustate'[v]>> \in CommitOrder
      \/ ustate[v] # "none" /\ ustate'[v] = "gone"
  BY OrderStep DEF CommitInv
<1>5. ustate'[v] = "none" => ustate[v] = "none"
  BY <1>4 DEF CommitOrder
<1>6. Exists(v)' /\ ~Recorded(v)' => ustate'[v] = "receiving"
  <2> SUFFICES ASSUME Exists(v)', ~Recorded(v), ustate'[v] # "receiving"
               PROVE  FALSE
    BY <1>3
  <2>1. ustate[v] \in {"none", "receiving", "gone"}
    BY <1>2 DEF Exists
  <2>2. CASE ustate[v] = "receiving"
    BY <2>2, LeavesReceiving DEF Exists
  <2>3. CASE ustate[v] \in {"none", "gone"}
    BY <1>4, <2>3 DEF CommitOrder, Exists
  <2> QED
    BY <2>1, <2>2, <2>3
<1> QED
  BY <1>2, <1>3, <1>5, <1>6

LEMMA DoctorInvStep ==
    ASSUME CommitInv, OrderInv, QuotaInv, DoctorInv, Next, Unlinks, Sweeps
    PROVE  DoctorInv'
<1>1. CommitInv' /\ StateByControl
  BY CommitInvStep DEF OrderInv
<1>2. QuotaInv'
  BY <1>1, QuotaStep
<1>3. CommittedShown' /\ OnePlace'
  BY <1>1, ShownStep, OnePlaceStep DEF DoctorInv
<1>4. RowsHaveObjects' /\ UnlinkRecorded'
  BY <1>1, RowObjectsStep DEF DoctorInv
<1>5. BytesKept'
  BY <1>1, BytesKeptStep DEF DoctorInv
<1>6. PartsOfUploads'
  BY <1>1, PartsStep DEF DoctorInv
<1> QED
  BY <1>2, <1>3, <1>4, <1>5, <1>6 DEF DoctorInv, QuotaInv

LEMMA DoctorInvInit == DoctorInit => DoctorInv
<1> SUFFICES ASSUME DoctorInit PROVE DoctorInv
  OBVIOUS
<1>1. Init /\ reclaimed = {} /\ swept = {}
  BY DEF DoctorInit
<1>2. CompleteByState /\ CommittedShown
  BY <1>1 DEF Init, CompleteByState, CommittedShown
<1>3. OnePlace
  BY <1>1 DEF Init, OnePlace, NoCommit
<1>4. RowsHaveObjects /\ UnlinkRecorded
  BY <1>1 DEF Init, RowsHaveObjects, UnlinkRecorded, NoReclaim
<1>5. BytesKept /\ PartsOfUploads
  BY <1>1 DEF Init, BytesKept, PartsOfUploads, Exists
<1> QED
  BY <1>2, <1>3, <1>4, <1>5 DEF DoctorInv

\* Each finding of the doctor, traced to its cause.
LEMMA FindingsExplained ==
    ASSUME CommitInv, DoctorInv
    PROVE  DoctorExplained
<1> SUFFICES ASSUME moves = 0
             PROVE  /\ \A u \in BrokenCommitted : Superseded(u)
                    /\ \A b \in WrongObjects \ OrphanRows :
                          \/ object[<<path, ContentOf[b]>>] = "bad"
                          \/ ContentOf[b] \in raced
                          \/ /\ faults > 0 /\ ContentOf[b] \in reclaimed
                             /\ \A r \in Resource : resource[r] # b
                    /\ \A u \in StuckCommits :
                          \/ HalfStaged(u)
                          \/ object[FinalKey(u)] = "bad" \/ stage[u] = "bad"
                          \/ object[FinalKey(u)] = "absent" /\ ContentOf[u] \in reclaimed
                          \/ u \in swept
                    /\ \A u \in WrongParts :
                          \/ ustate[u] = "gone"
                          \/ parts[u] = "linked" /\ ustate[u] = "receiving"
                          \/ parts[u] = "lost" /\ faults > 0
                          \/ parts[u] = "bad"
  BY DEF DoctorExplained
<1>0. /\ ustate \in [Upload -> CommitState] /\ commit \in [Upload -> CommitColumns]
      /\ blobs \in [Upload -> Path \cup {NULL}] /\ path \in Path
      /\ resource \in [Resource -> Upload \cup {NULL}]
      /\ stage \in [Upload -> FileState] /\ object \in [Path \X Content -> FileState]
      /\ ResourceOf \in [Upload -> Resource] /\ ContentOf \in [Upload -> Content]
      /\ NULL \notin Upload \cup Path \cup Content
  BY RequestAssumption, NullAssumption DEF CommitInv, TypeInv, TypeOK
<1> USE <1>0 DEF FileState
\* With one storage path, the columns of a started commit are all there and equal.
<1>1. ASSUME NEW u \in Upload, ustate[u] \in {"commit_started", "finalizing", "committed"}
      PROVE  /\ commit[u].blob \in Upload /\ commit[u].blob # NULL
             /\ ContentOf[commit[u].blob] = ContentOf[u]
             /\ commit[u].final = path /\ commit[u].account = path /\ path # NULL
  <2>1. ColumnsSet(u)
    BY <1>1 DEF CommitInv, LinkInv, ColumnsByState
  <2> QED
    BY <2>1 DEF ColumnsSet, CommitColumns, DoctorInv, OnePlace
<1>2. ASSUME NEW u \in BrokenCommitted PROVE Superseded(u)
  <2>1. u \in Upload /\ ustate[u] = "committed" /\ u \in complete
    BY DEF BrokenCommitted, Sessions, DoctorInv, CompleteByState
  <2>2. blobs[commit[u].blob] = commit[u].final
    BY <2>1 DEF CommitInv, LinkInv, SettledRowKept
  <2>3. resource[ResourceOf[u]] # commit[u].blob
    BY <1>1, <2>1, <2>2 DEF BrokenCommitted
  <2> DEFINE b == resource[ResourceOf[u]]
  <2>4. b # NULL /\ b \in Upload /\ blobs[b] # NULL
    BY <2>1 DEF DoctorInv, CommittedShown, CommitInv, LinkInv, ResourceHasRow
  <2>5. blobs[commit[u].blob] # NULL
    BY <1>1, <2>1, <2>2
  <2>6. ContentOf[b] # ContentOf[u]
    BY <1>1, <2>1, <2>3, <2>4, <2>5 DEF CommitInv, LinkInv, OneRowPerContent
  <2> QED
    BY <2>4, <2>6 DEF Superseded
<1>3. ASSUME NEW b \in WrongObjects \ OrphanRows
      PROVE  \/ object[<<path, ContentOf[b]>>] = "bad"
             \/ ContentOf[b] \in raced
             \/ /\ faults > 0 /\ ContentOf[b] \in reclaimed
                /\ \A r \in Resource : resource[r] # b
  <2>1. b \in Upload /\ blobs[b] = path /\ ~Orphan(b) /\ path # NULL
    BY DEF WrongObjects, OrphanRows, DoctorInv, OnePlace
  <2>2. object[<<path, ContentOf[b]>>] \in {"bad", "absent"}
    BY <2>1 DEF WrongObjects, Inspect
  <2>3. CASE object[<<path, ContentOf[b]>>] = "absent"
    <3>1. \/ ContentOf[b] \in raced
          \/ reclaim.blob = b
          \/ faults > 0 /\ ContentOf[b] \in reclaimed
      BY <2>1, <2>3 DEF DoctorInv, RowsHaveObjects
    <3>2. reclaim.blob # b
      BY <2>1 DEF CommitInv, LinkInv, ReclaimOrphan
    <3>3. ContentOf[b] \in raced \/ \A r \in Resource : resource[r] # b
      BY <2>1, <2>3 DEF CommitInv, LinkInv, ObjectLossNeedsRace
    <3> QED
      BY <3>1, <3>2, <3>3
  <2> QED
    BY <2>2, <2>3
<1>4. ASSUME NEW u \in StuckCommits
      PROVE  \/ HalfStaged(u)
             \/ object[FinalKey(u)] = "bad" \/ stage[u] = "bad"
             \/ object[FinalKey(u)] = "absent" /\ ContentOf[u] \in reclaimed
             \/ u \in swept
  <2>1. u \in Upload /\ ustate[u] \in {"commit_started", "finalizing"}
    BY DEF StuckCommits, Sessions
  <2>2. ustate[u] = "commit_started" => commit[u].staged
    BY <2>1 DEF CommitInv, LinkInv, ColumnsByState
  <2>3. \/ stage[u] = "bad"
        \/ object[FinalKey(u)] = "bad"
        \/ NoObject(u)
    BY <1>1, <2>1, <2>2 DEF StuckCommits
  <2>4. CASE NoObject(u) /\ object[FinalKey(u)] # "bad"
    <3>1. /\ ustate[u] = "finalizing" /\ object[FinalKey(u)] = "absent"
          /\ ~(commit[u].staged /\ stage[u] = "good")
      <4>1. FinalKey(u) \in Path \X Content
        BY <1>1, <2>1 DEF FinalKey
      <4> QED
        BY <2>4, <4>1 DEF NoObject
    <3>2. CASE commit[u].staged
      BY <2>1, <3>1, <3>2 DEF DoctorInv, BytesKept
    <3>3. CASE ~commit[u].staged
      <4> DEFINE b == commit[u].blob
      <4>1. blobs[b] = path
        BY <1>1, <2>1, <3>1, <3>3 DEF CommitInv, LinkInv, SettledRowKept
      <4>2. object[<<blobs[b], ContentOf[b]>>] = "absent"
        BY <1>1, <2>1, <3>1, <4>1 DEF FinalKey
      <4>3. ContentOf[b] \in reclaimed
        BY <1>1, <2>1, <4>1, <4>2 DEF DoctorInv, RowsHaveObjects, UnlinkRecorded
      <4> QED
        BY <1>1, <2>1, <3>1, <4>3
    <3> QED
      BY <3>2, <3>3
  <2> QED
    BY <2>3, <2>4
<1>5. ASSUME NEW u \in WrongParts
      PROVE  \/ ustate[u] = "gone"
             \/ parts[u] = "linked" /\ ustate[u] = "receiving"
             \/ parts[u] = "lost" /\ faults > 0
             \/ parts[u] = "bad"
  BY DEF WrongParts, Sessions, Exists, Recorded, DoctorInv, PartsOfUploads
<1> QED
  BY <1>2, <1>3, <1>4, <1>5

\* The invariants that account for the doctor's findings together.
DoctorAll == OrderInv /\ CommitInv /\ QuotaInv /\ DoctorInv

LEMMA DoctorAllInit == DoctorInit => DoctorAll
BY OrderInvInit, CommitInvInit, QuotaInit, DoctorInvInit DEF DoctorInit, DoctorAll

LEMMA DoctorAllStep ==
    DoctorAll /\ [Next /\ Unlinks /\ Sweeps]_<<vars, reclaimed, swept>> => DoctorAll'
<1>1. CASE DoctorAll /\ Next /\ Unlinks /\ Sweeps
  BY <1>1, OrderInvStep, CommitInvStep, QuotaStep, DoctorInvStep DEF OrderInv, DoctorAll
<1>2. CASE DoctorAll /\ UNCHANGED <<vars, reclaimed, swept>>
  <2>1. OrderInv' /\ CommitInv' /\ QuotaInv'
    BY <1>2, OrderInvStep, CommitInvStep, QuotaStep DEF OrderInv, DoctorAll
  <2>2. DoctorInv'
    BY <1>2
       DEF DoctorAll, DoctorInv, CompleteByState, CommittedShown, OnePlace, RowsHaveObjects,
           UnlinkRecorded, BytesKept, FinalKey, PartsOfUploads, Exists, Recorded, vars, rowVars, libraryVars,
           fileVars, handlerVars, otherVars, boundVars
  <2> QED
    BY <2>1, <2>2 DEF DoctorAll
<1> QED
  BY <1>1, <1>2

\* Whatever handlers, the reclaimer, the clean-up and faults interleave, the bytes
\* of a row, and those of a commit on its way, are where DoctorInv says, or the
\* history says who took them (reconcile_orphan_blobs, cleanup_orphan_staging).
THEOREM DoctorInvAlways == DoctorSpec => []DoctorInv
<1>1. DoctorAll => DoctorInv
  BY DEF DoctorAll
<1> QED
  BY <1>1, DoctorAllInit, DoctorAllStep, PTL DEF DoctorSpec

\* A server of one storage path that stops at any step, however its handlers, the
\* reclaimer and the clean-up interleaved, leaves nothing for the doctor to refuse
\* but what DoctorExplained lists.
THEOREM DoctorSafe == DoctorSpec => []DoctorExplained
<1>1. DoctorAll => DoctorExplained
  BY FindingsExplained DEF DoctorAll
<1> QED
  BY <1>1, DoctorAllInit, DoctorAllStep, PTL DEF DoctorSpec

=============================================================================
