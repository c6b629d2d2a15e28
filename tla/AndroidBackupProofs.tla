------------------------ MODULE AndroidBackupProofs ------------------------
(***************************************************************************)
(* AndroidInv is inductive, and what follows from it: whatever is edited,  *)
(* deleted, killed or lost, a job that is not complete has its content on  *)
(* the device, and a job that is complete has it on the server.            *)
(*                                                                         *)
(* The steps are grouped by what they disturb: the run alone, the row of   *)
(* one item, the files of one item, the server.                            *)
(***************************************************************************)
EXTENDS AndroidBackup, TLAPS

USE VersionAssumption, NullAssumption, PhotoAssumption, RunAssumption DEF Version

\* The part of the invariant that is about rows and files.
Rows == QueueInv /\ CopyKept

\* Nothing about rows and files changes while they are left alone.
LEMMA RowsUnchanged ==
    ASSUME Rows, UNCHANGED <<queueVars, cut>>
    PROVE  Rows'
BY DEF Rows, QueueInv, CopyKept, HasParts, InState, queueVars

\* Nor about complete jobs, if the server is left alone, too.
LEMMA StoredUnchanged ==
    ASSUME CompleteIsStored, UNCHANGED <<job, shown>>
    PROVE  CompleteIsStored'
BY DEF CompleteIsStored, InState

\* A step that leaves the queue and the server alone has only the run to account for.
LEMMA QuietStep ==
    ASSUME AndroidInv, UNCHANGED <<queueVars, serverVars, cut>>, TypeOK', RunInv'
    PROVE  AndroidInv'
BY RowsUnchanged, StoredUnchanged DEF AndroidInv, Rows, queueVars, serverVars

\* An empty queue, an idle worker and a server that knows nothing.
LEMMA Started == Init => AndroidInv
BY DEF Init, QueueInit, AndroidInv, TypeOK, QueueTypeOK, QueueInv, RunInv, CopyKept,
       CompleteIsStored, InState, JobState, NoJob, NoRows, At, RunControl, HasParts

\* The steps of a scan that do not write to the queue.
LEMMA ScanKeeps ==
    ASSUME AndroidInv,
           (\E i \in Photo : ScanSkip(i) \/ ScanCopy(i)) \/ ScanEnd \/ ScanFails
    PROVE  AndroidInv'
<1> USE DEF AndroidInv
<1>1. ASSUME NEW i \in Photo, ScanSkip(i) PROVE AndroidInv'
  <2>1. TypeOK'
    BY <1>1 DEF TypeOK, QueueTypeOK, ScanSkip, PassRow, Row, queueVars, serverVars, boundVars
  <2>2. RunInv'
    BY <1>1 DEF RunInv, TypeOK, ScanSkip, PassRow, Row, At, HasParts, queueVars, serverVars
  <2> QED BY <1>1, <2>1, <2>2, QuietStep DEF ScanSkip, boundVars
<1>2. ASSUME NEW i \in Photo, ScanCopy(i) PROVE AndroidInv'
  <2>1. TypeOK'
    BY <1>2 DEF TypeOK, QueueTypeOK, RunControl, ScanCopy, Row, queueVars, serverVars, boundVars
  <2>2. RunInv'
    BY <1>2 DEF RunInv, TypeOK, ScanCopy, Row, At, queueVars
  <2> QED BY <1>2, <2>1, <2>2, QuietStep DEF ScanCopy, boundVars
<1>3. CASE ScanEnd
  <2>1. TypeOK'
    BY <1>3 DEF TypeOK, QueueTypeOK, RunControl, ScanEnd, NoRows, queueVars, serverVars, boundVars
  <2>2. RunInv'
    BY <1>3 DEF RunInv, ScanEnd, NoRows, At
  <2> QED BY <1>3, <2>1, <2>2, QuietStep DEF ScanEnd, boundVars
<1>4. CASE ScanFails
  <2>1. TypeOK'
    <3>1. /\ seen' = [seen EXCEPT ![item] = NULL] /\ item' = NULL /\ copied' = NULL
          /\ held' = NULL /\ pc' = "scan" /\ faults' = faults + 1
          /\ UNCHANGED <<queueVars, media, queued, done, serverVars, deletions, cut>>
      BY <1>4 DEF ScanFails, Resume, PassRow, Fault
    <3>2. seen' \in [Photo -> Version \cup {NULL}]
      BY <3>1 DEF TypeOK
    <3> QED BY <3>1, <3>2 DEF TypeOK, QueueTypeOK, RunControl, queueVars, serverVars
  <2>2. RunInv'
    BY <1>4 DEF RunInv, TypeOK, ScanFails, Resume, PassRow, At
  <2> QED BY <1>4, <2>1, <2>2, QuietStep DEF ScanFails
<1> QED BY <1>1, <1>2, <1>3, <1>4

\* Edits, deletions and kills.
LEMMA OutsideKeeps ==
    ASSUME AndroidInv, (\E i \in Photo : Edit(i) \/ Delete(i)) \/ Kill \/ Finish
    PROVE  AndroidInv'
<1> USE DEF AndroidInv
<1>1. ASSUME NEW i \in Photo, Edit(i) PROVE AndroidInv'
  <2>1. TypeOK'
    BY <1>1 DEF TypeOK, QueueTypeOK, Edit, queueVars, runVars, serverVars, boundVars
  <2>2. RunInv'
    BY <1>1 DEF RunInv, TypeOK, Edit, At, HasParts, queueVars, runVars, serverVars
  <2> QED BY <1>1, <2>1, <2>2, QuietStep DEF Edit, boundVars
<1>2. ASSUME NEW i \in Photo, Delete(i) PROVE AndroidInv'
  <2>1. TypeOK'
    BY <1>2 DEF TypeOK, QueueTypeOK, Delete, queueVars, runVars, serverVars
  <2>2. RunInv'
    BY <1>2 DEF RunInv, TypeOK, Delete, At, HasParts, queueVars, runVars, serverVars
  <2> QED BY <1>2, <2>1, <2>2, QuietStep DEF Delete
<1>3. CASE Kill \/ Finish
  <2>1. TypeOK'
    BY <1>3 DEF TypeOK, QueueTypeOK, RunControl, Kill, Finish, Fault, EndRun, Resume, NoRows,
                queueVars, serverVars, boundVars
  <2>2. RunInv'
    BY <1>3 DEF RunInv, Kill, Finish, EndRun, Resume, NoRows, At
  <2> QED BY <1>3, <2>1, <2>2, QuietStep DEF Kill, Finish, boundVars
<1> QED BY <1>1, <1>2, <1>3

-----------------------------------------------------------------------------
(* One row changes *)

\* Ordering by the time of update stays within the rows.
LEMMA TouchType ==
    ASSUME older \subseteq Item \X Item, NEW i \in Item, Touch(i)
    PROVE  older' \subseteq Item \X Item
BY DEF Touch

\* A new state of a row that exists and is not complete, or becomes complete.
LEMMA StateChanges ==
    ASSUME Rows, QueueTypeOK, NEW i \in Item, NEW s \in JobState \ {"none"},
           job[i].state \notin {"none", "complete"},
           s \in {"ready", "uploading"} => job[i].prepared # NULL,
           Restate(i, s), Touch(i) \/ UNCHANGED older,
           UNCHANGED <<copy, staged, cut>>
    PROVE  Rows' /\ QueueTypeOK'
<1>1. QueueTypeOK'
  BY TouchType, SMTT(60) DEF QueueTypeOK, Restate
<1>2. /\ job' = [job EXCEPT ![i].state = s]
      /\ job'[i] = [job[i] EXCEPT !.state = s]
      /\ \A j \in Item \ {i} : job'[j] = job[j]
  BY DEF Restate, QueueTypeOK
<1>3. /\ job'[i].state = s /\ job'[i].modified = job[i].modified
      /\ job'[i].content = job[i].content /\ job'[i].prepared = job[i].prepared
  BY <1>2 DEF QueueTypeOK
<1>4. QueueInv'
  BY <1>2, <1>3 DEF Rows, QueueInv, HasParts
<1>5. CopyKept'
  <2> SUFFICES ASSUME NEW j \in Item \ cut,
                      job'[j].state \in JobState \ {"none", "complete"}
               PROVE  (copy[j] = job[j].content \/ HasParts(j, job[j].prepared))'
    BY DEF CopyKept, InState
  <2>1. job[j].state \in JobState \ {"none", "complete"}
    BY <1>2 DEF QueueTypeOK
  <2>2. copy[j] = job[j].content \/ HasParts(j, job[j].prepared)
    BY <2>1 DEF Rows, CopyKept, InState
  <2> QED BY <1>2, <1>3, <2>2 DEF HasParts
<1> QED BY <1>1, <1>4, <1>5 DEF Rows

\* A row that is not complete afterwards is no concern of CompleteIsStored.
LEMMA OthersComplete ==
    ASSUME CompleteIsStored, NEW i \in Item, job'[i].state # "complete",
           \A j \in Item \ {i} : job'[j] = job[j] /\ shown'[j] = shown[j]
    PROVE  CompleteIsStored'
BY DEF CompleteIsStored, InState

\* A failure marks at most the job in hand and ends the run.
LEMMA FailureKeeps ==
    ASSUME AndroidInv, WriteFails \/ PrepareFails \/ RequestFails
    PROVE  AndroidInv'
<1> USE DEF AndroidInv
<1> DEFINE i == item
<1>1. i \in Item /\ job[i].state \notin {"none", "complete"}
  BY DEF RunInv, At, WriteFails, PrepareFails, RequestFails, Fault
<1>2. SetState(i, "retry_wait") /\ UNCHANGED <<copy, staged, cut>>
  BY DEF WriteFails, PrepareFails, RequestFails, SourceMissing, MarkFailed, boundVars
<1>3. Rows' /\ QueueTypeOK'
  BY <1>1, <1>2, StateChanges DEF SetState, Rows, TypeOK, JobState
<1>4. EndRun /\ UNCHANGED media /\ faults' \in Nat /\ UNCHANGED deletions
  BY DEF WriteFails, PrepareFails, RequestFails, Fault, boundVars, TypeOK
<1>5. held \in Prepared \/ At("write")
  BY DEF RunInv, At, WriteFails, PrepareFails, RequestFails, HasParts, TypeOK
<1>6. /\ received' \in [Item -> SUBSET Version] /\ stored' \in [Item -> SUBSET Version]
      /\ shown' \in [Item -> Version \cup {NULL}]
      /\ \A j \in Item \ {i} : shown'[j] = shown[j]
  <2>1. CASE UNCHANGED serverVars
    BY <2>1 DEF serverVars, TypeOK
  <2>2. CASE ~At("write") /\ (Deduplicate \/ ReceivePart \/ CommitUpload)
    BY <2>2, <1>1, <1>5 DEF Deduplicate, ReceivePart, CommitUpload, Content, TypeOK, Prepared
  <2>3. CASE WriteFails \/ PrepareFails
    BY <2>1, <2>3 DEF WriteFails, PrepareFails
  <2>4. CASE RequestFails
    BY <2>1, <2>2, <2>4 DEF RequestFails, At
  <2> QED BY <2>3, <2>4
<1>7. TypeOK'
  BY <1>2, <1>3, <1>4, <1>6 DEF TypeOK, EndRun, Resume, NoRows, RunControl
<1>8. RunInv'
  BY <1>4 DEF RunInv, EndRun, Resume, NoRows, At
<1>9. CompleteIsStored'
  BY <1>1, <1>2, <1>6, OthersComplete DEF SetState, Restate, TypeOK, QueueTypeOK
<1> QED BY <1>3, <1>7, <1>8, <1>9 DEF Rows

\* Steps that change the state of the row in hand and go on with it.
LEMMA MarksKeep ==
    ASSUME AndroidInv,
           (\E i \in Item : TakeUnprepared(i) \/ TimePasses(i)) \/ CreateUpload \/ Mark
    PROVE  AndroidInv'
<1> USE DEF AndroidInv
<1>1. ASSUME NEW i \in Item, TakeUnprepared(i) PROVE AndroidInv'
  <2>1. job[i].state \in {"discovered", "retry_due"} /\ SetState(i, "preparing")
    BY <1>1 DEF TakeUnprepared, NextPrepare, Oldest, InState
  <2>2. Rows' /\ QueueTypeOK'
    BY <1>1, <2>1, StateChanges
       DEF SetState, Rows, TypeOK, JobState, TakeUnprepared, NextPrepare, boundVars
  <2>3. job'[i].state = "preparing" /\ \A j \in Item \ {i} : job'[j] = job[j]
    BY <2>1 DEF SetState, Restate, TypeOK, QueueTypeOK
  <2>4. TypeOK'
    BY <1>1, <2>2 DEF TypeOK, RunControl, TakeUnprepared, serverVars, boundVars
  <2>5. RunInv'
    BY <1>1, <2>3 DEF RunInv, TakeUnprepared, Wanting, At
  <2>6. CompleteIsStored'
    BY <1>1, <2>3, OthersComplete DEF TakeUnprepared, serverVars
  <2> QED BY <2>2, <2>4, <2>5, <2>6 DEF Rows
<1>2. ASSUME NEW i \in Item, TimePasses(i) PROVE AndroidInv'
  <2>1. /\ job[i].state = "retry_wait" /\ Restate(i, "retry_due")
        /\ UNCHANGED <<older, copy, staged, cut>>
    BY <1>2 DEF TimePasses, RetryDue, boundVars
  <2>2. /\ job'[i] = [job[i] EXCEPT !.state = "retry_due"]
        /\ \A j \in Item \ {i} : job'[j] = job[j]
    BY <2>1 DEF Restate, TypeOK, QueueTypeOK
  <2>3. /\ job'[i].state = "retry_due" /\ job'[i].modified = job[i].modified
        /\ job'[i].content = job[i].content /\ job'[i].prepared = job[i].prepared
    BY <2>2 DEF TypeOK, QueueTypeOK
  <2>4. Rows' /\ QueueTypeOK'
    BY <2>1, StateChanges DEF SetState, Rows, TypeOK, JobState
  <2>5. TypeOK'
    BY <1>2, <2>4 DEF TypeOK, TimePasses, runVars, serverVars, boundVars
  <2>6. RunInv'
    <3>1. item # i \/ pc \in {"idle", "scan", "next", "enqueue", "thumbnail"}
      BY <2>1 DEF RunInv, At, TypeOK, RunControl
    <3>2. UNCHANGED <<media, pc, seen, item, copied, held, shown>>
      BY <1>2 DEF TimePasses, runVars, serverVars
    <3>3. CASE item # i
      <4>1. pc \notin {"idle", "scan", "next"} => job'[item] = job[item]
        BY <2>2, <3>3 DEF RunInv
      <4> QED BY <2>1, <3>2, <4>1 DEF RunInv, At, HasParts
    <3>4. CASE pc \in {"idle", "scan", "next", "enqueue", "thumbnail"}
      BY <3>2, <3>4 DEF RunInv, At
    <3> QED BY <3>1, <3>3, <3>4
  <2>7. CompleteIsStored'
    BY <1>2, <2>2, <2>3, OthersComplete DEF TimePasses, serverVars
  <2> QED BY <2>4, <2>5, <2>6, <2>7 DEF Rows
<1>3. CASE CreateUpload
  <2>1. /\ item \in Item /\ job[item].state = "ready" /\ SetState(item, "uploading")
        /\ job[item].prepared = held /\ held \in Prepared /\ UNCHANGED <<copy, staged, cut>>
    BY <1>3 DEF CreateUpload, MarkUpload, RunInv, At, boundVars
  <2>2. Rows' /\ QueueTypeOK'
    BY <2>1, StateChanges DEF SetState, Rows, TypeOK, JobState
  <2>3. /\ job'[item].state = "uploading" /\ \A j \in Item \ {item} : job'[j] = job[j]
        /\ job'[item].content = job[item].content
        /\ job'[item].prepared = job[item].prepared
    BY <2>1 DEF SetState, Restate, TypeOK, QueueTypeOK
  <2>4. TypeOK'
    BY <1>3, <2>2 DEF TypeOK, RunControl, CreateUpload, serverVars, boundVars
  <2>5. RunInv'
    BY <1>3, <2>1, <2>3 DEF RunInv, CreateUpload, At, HasParts
  <2>6. CompleteIsStored'
    BY <1>3, <2>1, <2>3, OthersComplete DEF CreateUpload, serverVars
  <2> QED BY <2>2, <2>4, <2>5, <2>6 DEF Rows
<1>4. CASE Mark
  <2>1. /\ item \in Item /\ job[item].state \in {"ready", "uploading"}
        /\ SetState(item, "complete") /\ job[item].prepared = held /\ held \in Prepared
        /\ HasParts(item, held) /\ shown[item] = held.content
        /\ UNCHANGED <<copy, staged, shown, cut>>
    BY <1>4 DEF Mark, MarkComplete, RunInv, At, serverVars, boundVars
  <2>2. Rows' /\ QueueTypeOK'
    BY <2>1, StateChanges DEF SetState, Rows, TypeOK, JobState
  <2>3. /\ job'[item].state = "complete" /\ \A j \in Item \ {item} : job'[j] = job[j]
        /\ job'[item].content = job[item].content
        /\ job'[item].modified = job[item].modified
        /\ job'[item].prepared = job[item].prepared
    BY <2>1 DEF SetState, Restate, TypeOK, QueueTypeOK
  <2>4. TypeOK'
    BY <1>4, <2>2 DEF TypeOK, RunControl, Mark, serverVars, boundVars
  <2>5. RunInv'
    BY <1>4, <2>1, <2>3 DEF RunInv, Mark, At
  <2>6. job[item].modified <= job[item].content /\ shown[item] = job[item].content
    BY <2>1 DEF QueueInv, HasParts
  <2>7. CompleteIsStored'
    BY <2>1, <2>3, <2>6 DEF CompleteIsStored, InState
  <2> QED BY <2>2, <2>4, <2>5, <2>7 DEF Rows
<1> QED BY <1>1, <1>2, <1>3, <1>4

\* Steps that only the server, or nobody but the run, takes note of.
LEMMA RequestsKeep ==
    ASSUME AndroidInv,
           (\E i \in Item : TakeReady(i)) \/ CreateDeduplicated \/ UploadPart \/ Complete
    PROVE  AndroidInv'
<1> USE DEF AndroidInv
<1>1. ASSUME NEW i \in Item, TakeReady(i) PROVE AndroidInv'
  <2>1. job[i].state = "ready" /\ job[i].prepared # NULL
    BY <1>1 DEF TakeReady, NextReady, Oldest, InState, QueueInv
  <2>2. job[i].prepared \in Prepared /\ HasParts(i, job[i].prepared)
    BY <2>1 DEF QueueInv, TypeOK, QueueTypeOK
  <2>3. TypeOK'
    BY <1>1, <2>2 DEF TypeOK, QueueTypeOK, RunControl, TakeReady, NextReady, queueVars,
                      serverVars, boundVars
  <2>4. RunInv'
    BY <1>1, <2>1, <2>2 DEF RunInv, TakeReady, NextReady, Wanting, At, HasParts, queueVars
  <2> QED BY <1>1, <2>3, <2>4, QuietStep DEF TakeReady, NextReady, boundVars
<1>2. CASE CreateDeduplicated \/ UploadPart \/ Complete
  <2>1. /\ item \in Item /\ held \in Prepared /\ job[item].state \in {"ready", "uploading"}
        /\ job[item].prepared = held /\ HasParts(item, held)
    BY <1>2 DEF RunInv, At, CreateDeduplicated, UploadPart, Complete
  <2>2. /\ received' \in [Item -> SUBSET Version] /\ stored' \in [Item -> SUBSET Version]
        /\ shown' \in [Item -> Version \cup {NULL}]
        /\ \A j \in Item \ {item} : shown'[j] = shown[j]
    BY <1>2, <2>1 DEF CreateDeduplicated, UploadPart, Complete, Deduplicate, ReceivePart,
                      CommitUpload, Content, TypeOK, Prepared
  <2>3. TypeOK'
    BY <1>2, <2>2 DEF TypeOK, QueueTypeOK, RunControl, CreateDeduplicated, UploadPart,
                      Complete, queueVars, boundVars
  <2>4. UNCHANGED <<queueVars, media, seen, item, copied, held, cut>>
    BY <1>2 DEF CreateDeduplicated, UploadPart, Complete, boundVars
  <2>5. Rows'
    BY <2>4, RowsUnchanged DEF Rows
  <2>6. \/ pc' = "mark" /\ shown'[item] = held.content
        \/ At("part") /\ pc' = "complete"
    BY <1>2, <2>1 DEF CreateDeduplicated, UploadPart, Complete, Deduplicate, CommitUpload,
                      Content, TypeOK
  <2>7. RunInv'
    BY <2>1, <2>4, <2>6 DEF RunInv, At, HasParts, queueVars
  <2>8. CompleteIsStored'
    BY <2>1, <2>2, <2>4, OthersComplete DEF queueVars
  <2> QED BY <2>3, <2>5, <2>7, <2>8 DEF Rows
<1> QED BY <1>1, <1>2

-----------------------------------------------------------------------------
(* The files of one item change *)

\* Rows, for one item.
RowOf(i) ==
    LET row == job[i] IN
    /\ row.state = "none" => row = NoJob /\ copy[i] = NULL
    /\ row.state # "none" =>
          /\ row.content \in Version /\ row.modified \in Version
          /\ row.modified <= row.content
          /\ copy[i] \in {NULL, row.content}
    /\ row.state \in {"ready", "uploading"} => row.prepared # NULL
    /\ row.state # "complete" /\ row.prepared # NULL => HasParts(i, row.prepared)
    /\ row.state \notin {"none", "complete"} /\ i \notin cut =>
          copy[i] = row.content \/ HasParts(i, row.prepared)

\* Rows is a statement about each row by itself, before a step ...
LEMMA RowByRow ==
    ASSUME QueueTypeOK
    PROVE  Rows <=> \A i \in Item : RowOf(i)
<1>1. ASSUME Rows, NEW i \in Item PROVE RowOf(i)
  BY <1>1 DEF Rows, QueueInv, CopyKept, RowOf, InState, QueueTypeOK
<1>2. ASSUME \A i \in Item : RowOf(i) PROVE QueueInv
  BY <1>2 DEF RowOf, QueueInv
<1>3. ASSUME \A i \in Item : RowOf(i) PROVE CopyKept
  BY <1>3 DEF RowOf, CopyKept, InState
<1> QED BY <1>1, <1>2, <1>3 DEF Rows

\* ... and after it.
LEMMA RowByRowNext ==
    ASSUME QueueTypeOK', \A i \in Item : RowOf(i)'
    PROVE  Rows'
<1>1. QueueInv'
  BY DEF RowOf, QueueInv
<1>2. CopyKept'
  BY DEF RowOf, CopyKept, InState
<1> QED BY <1>1, <1>2 DEF Rows

\* A step that keeps to one row has only this row to account for.
LEMMA OneRowChanges ==
    ASSUME QueueTypeOK, Rows, QueueTypeOK', NEW i \in Item, RowOf(i)',
           cut \subseteq cut' \cup {i},
           \A j \in Item \ {i} :
              job'[j] = job[j] /\ copy'[j] = copy[j] /\ staged'[j] = staged[j]
    PROVE  Rows'
<1>1. ASSUME NEW j \in Item \ {i} PROVE RowOf(j)'
  <2>1. RowOf(j)
    BY RowByRow
  <2> QED BY <2>1 DEF RowOf, HasParts
<1> QED BY <1>1, RowByRowNext

\* Writing, recording and collecting a generation, and removing the source.
LEMMA PreparationKeeps ==
    ASSUME AndroidInv, Write \/ Record \/ Collect \/ Remove \/ Clean
    PROVE  AndroidInv'
<1> USE DEF AndroidInv
<1>0. item \in Item /\ Rows /\ RowOf(item) /\ QueueTypeOK
  <2>1. item \in Item /\ Rows /\ QueueTypeOK
    BY DEF Write, Record, Collect, Remove, Clean, At, RunInv, Rows, TypeOK
  <2> QED BY <2>1, RowByRow
<1>1. CASE Write
  <2>1. /\ copy[item] \in Version /\ Unused(item) # {} /\ UNCHANGED <<job, older, copy>>
        /\ staged' = [staged EXCEPT ![item] = @ \cup {NewGeneration(item)}]
        /\ job[item].state = "preparing" /\ pc' = "record" /\ held' = NewGeneration(item)
        /\ UNCHANGED <<media, seen, queued, done, item, copied, serverVars, boundVars>>
    BY <1>0, <1>1 DEF Write, WriteGeneration, RunInv, At, QueueTypeOK
  <2>2. NewGeneration(item) \in Prepared /\ NewGeneration(item).content = job[item].content
    <3>1. (CHOOSE g \in Unused(item) : TRUE) \in Generation
      BY <2>1 DEF Unused
    <3>2. copy[item] = job[item].content
      BY <1>0, <2>1 DEF RowOf
    <3> QED BY <2>1, <3>1, <3>2 DEF NewGeneration, Prepared
  <2>3. QueueTypeOK'
    BY <1>0, <2>1, <2>2 DEF QueueTypeOK
  <2>4. /\ staged'[item] = staged[item] \cup {NewGeneration(item)}
        /\ \A j \in Item \ {item} : staged'[j] = staged[j]
    BY <1>0, <2>1 DEF QueueTypeOK
  <2>5. RowOf(item)'
    BY <1>0, <2>1, <2>4 DEF RowOf, HasParts
  <2>6. Rows'
    BY <1>0, <2>1, <2>3, <2>4, <2>5, OneRowChanges DEF boundVars
  <2>7. TypeOK'
    BY <2>1, <2>2, <2>3 DEF TypeOK, RunControl, serverVars, boundVars
  <2>8. RunInv'
    BY <1>0, <2>1, <2>2, <2>4 DEF RunInv, At, HasParts
  <2> QED BY <2>1, <2>6, <2>7, <2>8, StoredUnchanged DEF Rows, serverVars
<1>2. CASE Record
  <2>1. /\ job' = [job EXCEPT ![item] = [@ EXCEPT !.state = "ready", !.prepared = held]]
        /\ Touch(item) /\ UNCHANGED <<copy, staged>>
        /\ job[item].state = "preparing" /\ pc' = "collect" /\ HasParts(item, held)
        /\ UNCHANGED <<media, seen, queued, done, item, copied, held, serverVars, boundVars>>
    BY <1>2 DEF Record, RecordGeneration, RunInv, At
  <2>2. held \in Prepared
    BY <1>0, <2>1 DEF HasParts, QueueTypeOK
  <2>3. QueueTypeOK'
    <3>1. [job[item] EXCEPT !.state = "ready", !.prepared = held]
            \in [state : JobState, modified : Version \cup {NULL},
                content : Version \cup {NULL}, prepared : Prepared \cup {NULL}]
      <4>1. job[item] \in [state : JobState, modified : Version \cup {NULL},
                           content : Version \cup {NULL}, prepared : Prepared \cup {NULL}]
        BY <1>0 DEF QueueTypeOK
      <4> HIDE DEF Version
      <4> QED BY <2>2, <4>1 DEF JobState
    <3> QED BY <1>0, <2>1, <3>1, TouchType DEF QueueTypeOK
  <2>4. /\ job'[item].state = "ready" /\ job'[item].prepared = held
        /\ job'[item].content = job[item].content /\ job'[item].modified = job[item].modified
        /\ \A j \in Item \ {item} : job'[j] = job[j]
    BY <1>0, <2>1 DEF QueueTypeOK
  <2>5. RowOf(item)'
    BY <1>0, <2>1, <2>2, <2>4 DEF RowOf, HasParts
  <2>6. Rows'
    BY <1>0, <2>1, <2>3, <2>4, <2>5, OneRowChanges DEF boundVars
  <2>7. TypeOK'
    BY <2>1, <2>3 DEF TypeOK, RunControl, serverVars, boundVars
  <2>8. RunInv'
    BY <1>0, <2>1, <2>2, <2>4 DEF RunInv, At, HasParts
  <2>9. CompleteIsStored'
    BY <1>0, <2>1, <2>4, OthersComplete DEF serverVars
  <2> QED BY <2>6, <2>7, <2>8, <2>9 DEF Rows
<1>3. CASE Collect
  <2>1. /\ staged' = [staged EXCEPT ![item] = {q \in @ : q.gen = held.gen}]
        /\ UNCHANGED <<job, older, copy>> /\ HasParts(item, held)
        /\ job[item].state = "ready" /\ job[item].prepared = held /\ held \in Prepared
        /\ pc' = "remove"
        /\ UNCHANGED <<media, seen, queued, done, item, copied, held, serverVars, boundVars>>
    BY <1>3 DEF Collect, CollectGenerations, RunInv, At
  <2>2. QueueTypeOK'
    BY <1>0, <2>1 DEF QueueTypeOK
  <2>3. held \in staged'[item] /\ \A j \in Item \ {item} : staged'[j] = staged[j]
    BY <1>0, <2>1 DEF QueueTypeOK, HasParts
  <2>4. RowOf(item)'
    BY <1>0, <2>1, <2>3 DEF RowOf, HasParts
  <2>5. Rows'
    BY <1>0, <2>1, <2>2, <2>3, <2>4, OneRowChanges DEF boundVars
  <2>6. TypeOK'
    BY <2>1, <2>2 DEF TypeOK, RunControl, serverVars, boundVars
  <2>7. RunInv'
    BY <1>0, <2>1, <2>3 DEF RunInv, At, HasParts
  <2> QED BY <2>1, <2>5, <2>6, <2>7, StoredUnchanged DEF Rows, serverVars
<1>4. CASE Remove
  <2>1. /\ copy' = [copy EXCEPT ![item] = NULL]
        /\ UNCHANGED <<job, older, staged>> /\ HasParts(item, held)
        /\ job[item].state = "ready" /\ job[item].prepared = held /\ held \in Prepared
        /\ pc' = "create"
        /\ UNCHANGED <<media, seen, queued, done, item, copied, held, serverVars, boundVars>>
    BY <1>4 DEF Remove, RemoveSource, RunInv, At
  <2>2. QueueTypeOK'
    BY <1>0, <2>1 DEF QueueTypeOK
  <2>3. copy'[item] = NULL /\ \A j \in Item \ {item} : copy'[j] = copy[j]
    BY <1>0, <2>1 DEF QueueTypeOK
  <2>4. RowOf(item)'
    BY <1>0, <2>1, <2>3 DEF RowOf, HasParts
  <2>5. Rows'
    BY <1>0, <2>1, <2>2, <2>3, <2>4, OneRowChanges DEF boundVars
  <2>6. TypeOK'
    BY <2>1, <2>2 DEF TypeOK, RunControl, serverVars, boundVars
  <2>7. RunInv'
    BY <1>0, <2>1 DEF RunInv, At, HasParts
  <2> QED BY <2>1, <2>5, <2>6, <2>7, StoredUnchanged DEF Rows, serverVars
<1>5. CASE Clean
  <2>1. PICK i \in Item : i = item
    BY <1>0
  <2>2. /\ staged' = [staged EXCEPT ![i] = @ \ {job[i].prepared}]
        /\ UNCHANGED <<job, older, copy>> /\ job[i].state = "complete"
        /\ Resume("next") /\ done' = done + 1
        /\ UNCHANGED <<media, seen, queued, serverVars, boundVars>>
    BY <1>5, <2>1 DEF Clean, RemoveParts, RunInv, At
  <2>3. QueueTypeOK'
    BY <1>0, <2>2 DEF QueueTypeOK
  <2>4. \A j \in Item \ {i} : staged'[j] = staged[j]
    BY <1>0, <2>2 DEF QueueTypeOK
  <2>5. RowOf(i)'
    BY <1>0, <2>1, <2>2 DEF RowOf
  <2>6. Rows'
    BY <1>0, <2>2, <2>3, <2>4, <2>5, OneRowChanges DEF boundVars
  <2>7. TypeOK'
    BY <2>2, <2>3 DEF TypeOK, RunControl, Resume, serverVars, boundVars
  <2>8. RunInv'
    BY <2>2 DEF RunInv, Resume, At
  <2> QED BY <2>2, <2>6, <2>7, <2>8, StoredUnchanged DEF Rows, serverVars
<1> QED BY <1>1, <1>2, <1>3, <1>4, <1>5

-----------------------------------------------------------------------------
(* Enqueueing and opening *)

\* A new version of an item takes the place of the former one in its row; a
\* photo that is enqueued again has a source again.
LEMMA EnqueueChanges ==
    ASSUME QueueTypeOK, Rows, CompleteIsStored,
           NEW i \in Item, NEW modified \in Version, NEW content \in Version,
           modified <= content, Enqueue(i, modified, content),
           cut \subseteq cut' \cup {i}, UNCHANGED shown
    PROVE  QueueTypeOK' /\ Rows' /\ CompleteIsStored'
<1> DEFINE row == [state |-> "discovered", modified |-> modified,
                   content |-> content, prepared |-> NULL]
<1>1. UNCHANGED staged /\ RowOf(i)
  BY RowByRow DEF Enqueue
<1>2. CASE UNCHANGED <<job, copy, older>> /\ job[i].state = "complete"
  <2>1. QueueTypeOK' /\ CompleteIsStored'
    BY <1>1, <1>2, StoredUnchanged DEF QueueTypeOK
  <2>2. RowOf(i)'
    BY <1>1, <1>2 DEF RowOf
  <2> QED BY <1>1, <1>2, <2>1, <2>2, OneRowChanges
<1>3. CASE /\ job' = [job EXCEPT ![i] = row]
           /\ copy' = [copy EXCEPT ![i] = content] /\ Touch(i)
  <2>1. /\ job'[i] = row /\ copy'[i] = content
        /\ \A j \in Item \ {i} : job'[j] = job[j] /\ copy'[j] = copy[j]
    BY <1>3 DEF QueueTypeOK
  <2>2. QueueTypeOK'
    <3>1. row \in [state : JobState, modified : Version \cup {NULL},
                   content : Version \cup {NULL}, prepared : Prepared \cup {NULL}]
      BY DEF JobState
    <3>2. older' \subseteq Item \X Item
      BY <1>3, TouchType DEF QueueTypeOK
    <3> HIDE DEF row
    <3> QED BY <1>1, <1>3, <3>1, <3>2 DEF QueueTypeOK
  <2>3. RowOf(i)'
    BY <2>1 DEF RowOf
  <2>4. Rows'
    BY <1>1, <2>1, <2>2, <2>3, OneRowChanges
  <2>5. CompleteIsStored'
    BY <2>1, OthersComplete
  <2> QED BY <2>2, <2>4, <2>5
<1> QED BY <1>2, <1>3 DEF Enqueue, Needs

\* The scan enqueues a photo, and goes on with its thumbnail or the next row.
LEMMA EnqueueKeeps ==
    ASSUME AndroidInv, ScanEnqueue
    PROVE  AndroidInv'
<1> USE DEF AndroidInv
<1>1. /\ item \in Photo /\ seen[item] \in Version /\ copied \in Version
      /\ seen[item] <= copied
  BY DEF ScanEnqueue, RunInv, At
<1>2. /\ Enqueue(item, seen[item], copied) /\ queued' = queued + 1
      /\ cut' = cut \ {item} /\ AfterEnqueue
      /\ UNCHANGED <<media, done, serverVars, faults, deletions>>
  BY DEF ScanEnqueue
<1>3. QueueTypeOK' /\ Rows' /\ CompleteIsStored'
  BY <1>1, <1>2, EnqueueChanges DEF TypeOK, Rows, serverVars
<1>4. \/ pc' = "thumbnail" /\ UNCHANGED <<seen, item, copied, held>>
      \/ seen' = [seen EXCEPT ![item] = NULL] /\ Resume("scan")
  BY <1>2 DEF AfterEnqueue, PassRow
<1>5. TypeOK'
  <2>1. seen' \in [Photo -> Version \cup {NULL}]
    BY <1>1, <1>4 DEF TypeOK
  <2>2. /\ pc' \in RunControl /\ item' \in Item \cup {NULL}
        /\ copied' \in Version \cup {NULL} /\ held' \in Prepared \cup {NULL}
    BY <1>4 DEF TypeOK, RunControl, Resume
  <2> QED BY <1>2, <1>3, <2>1, <2>2 DEF TypeOK, serverVars
<1>6. RunInv'
  <2>1. CASE pc' = "thumbnail" /\ UNCHANGED <<seen, item, copied, held>>
    BY <1>1, <1>2, <2>1 DEF RunInv, At
  <2>2. CASE seen' = [seen EXCEPT ![item] = NULL] /\ Resume("scan")
    BY <1>1, <1>2, <2>2 DEF RunInv, TypeOK, Resume, At
  <2> QED BY <1>4, <2>1, <2>2
<1> QED BY <1>3, <1>5, <1>6 DEF Rows

\* The thumbnail step enqueues an item of its own, or takes the photo's source
\* away and says so.
LEMMA ThumbnailKeeps ==
    ASSUME AndroidInv, ScanThumbnail \/ ThumbnailFails
    PROVE  AndroidInv'
<1> USE DEF AndroidInv
<1>1. /\ item \in Photo /\ seen[item] \in Version /\ copied \in Version
      /\ seen[item] <= copied
  BY DEF ScanThumbnail, ThumbnailFails, Fault, RunInv, At
<1>2. /\ seen' = [seen EXCEPT ![item] = NULL] /\ Resume("scan")
      /\ UNCHANGED <<media, done, serverVars, deletions>>
      /\ queued' \in Nat /\ faults' \in Nat
  BY DEF ScanThumbnail, ThumbnailFails, Fault, PassRow, TypeOK, boundVars
<1>3. QueueTypeOK' /\ Rows' /\ CompleteIsStored' /\ cut' \subseteq Photo
  <2>1. CASE ScanThumbnail /\ ThumbnailOf[item] = NULL
    <3>1. UNCHANGED <<queueVars, cut>>
      BY <2>1 DEF ScanThumbnail, boundVars
    <3> QED BY <1>2, <3>1, RowsUnchanged, StoredUnchanged
            DEF QueueTypeOK, Rows, TypeOK, queueVars, serverVars
  <2>2. CASE ScanThumbnail /\ ThumbnailOf[item] # NULL
    <3>1. ThumbnailOf[item] \in Item
      BY <1>1, <2>2
    <3>2. Enqueue(ThumbnailOf[item], seen[item], copied) /\ UNCHANGED cut
      BY <2>2 DEF ScanThumbnail, boundVars
    <3> QED BY <1>1, <1>2, <3>1, <3>2, EnqueueChanges DEF TypeOK, Rows, serverVars
  <2>3. CASE ThumbnailFails /\ ~Needs(item, seen[item])
    <3>1. UNCHANGED <<queueVars, cut>>
      BY <2>3 DEF ThumbnailFails, queueVars
    <3> QED BY <1>2, <3>1, RowsUnchanged, StoredUnchanged
            DEF QueueTypeOK, Rows, TypeOK, queueVars, serverVars
  <2>4. CASE ThumbnailFails /\ Needs(item, seen[item])
    <3>1. PICK i \in Item : i = item
      BY <1>1
    <3>2. /\ copy' = [copy EXCEPT ![i] = NULL] /\ cut' = cut \cup {i}
          /\ UNCHANGED <<job, older, staged>>
      BY <2>4, <3>1 DEF ThumbnailFails
    <3>3. QueueTypeOK /\ Rows /\ RowOf(i)
      BY RowByRow DEF TypeOK, Rows
    <3>4. QueueTypeOK'
      BY <3>2, <3>3 DEF QueueTypeOK
    <3>5. copy'[i] = NULL /\ \A j \in Item \ {i} : copy'[j] = copy[j]
      BY <3>2, <3>3 DEF QueueTypeOK
    <3>6. Rows'
      <4>1. RowOf(i)'
        BY <3>2, <3>3, <3>5 DEF RowOf, HasParts
      <4> QED BY <3>2, <3>3, <3>4, <3>5, <4>1, OneRowChanges
    <3>7. CompleteIsStored'
      BY <1>2, <3>2, StoredUnchanged DEF serverVars
    <3> QED BY <1>1, <3>1, <3>2, <3>4, <3>6, <3>7 DEF TypeOK
  <2> QED BY <2>1, <2>2, <2>3, <2>4
<1>4. TypeOK'
  <2>1. seen' \in [Photo -> Version \cup {NULL}]
    BY <1>1, <1>2 DEF TypeOK
  <2> QED BY <1>2, <1>3, <2>1 DEF TypeOK, RunControl, Resume, serverVars
<1>5. RunInv'
  BY <1>1, <1>2 DEF RunInv, TypeOK, Resume, At
<1> QED BY <1>3, <1>4, <1>5 DEF Rows

\* Reopening makes ready what was prepared, and leaves the rest to be prepared.
LEMMA StartKeeps ==
    ASSUME AndroidInv, StartRun
    PROVE  AndroidInv'
<1> USE DEF AndroidInv
<1>1. QueueTypeOK /\ Rows
  BY DEF TypeOK, Rows
<1>2. /\ job' = [j \in Item |-> Recovered(job[j])] /\ UNCHANGED <<older, copy, staged>>
      /\ pc' = "scan" /\ seen' = media
      /\ UNCHANGED <<media, queued, done, item, copied, held, serverVars, boundVars, cut>>
  BY DEF StartRun, Open, boundVars
<1>3. ASSUME NEW j \in Item
      PROVE  /\ job'[j] \in [state : JobState, modified : Version \cup {NULL},
                              content : Version \cup {NULL}, prepared : Prepared \cup {NULL}]
             /\ RowOf(j)'
             /\ job'[j].state = "complete" => job'[j] = job[j]
  <2>1. RowOf(j)
    BY <1>1, RowByRow
  <2>2. job'[j] = Recovered(job[j])
    BY <1>2
  <2>3. job[j] \in [state : JobState, modified : Version \cup {NULL},
                    content : Version \cup {NULL}, prepared : Prepared \cup {NULL}]
    BY <1>1 DEF QueueTypeOK
  <2>4. CASE job[j].state \in {"preparing", "uploading"} /\ job[j].prepared # NULL
    <3>1. job'[j] = [job[j] EXCEPT !.state = "ready"]
      BY <2>2, <2>4 DEF Recovered
    <3> QED BY <1>2, <2>1, <2>3, <2>4, <3>1 DEF RowOf, HasParts, JobState
  <2>5. CASE job[j].state = "preparing" /\ job[j].prepared = NULL
    <3>1. job'[j] = [job[j] EXCEPT !.state = "discovered"]
      BY <2>2, <2>5 DEF Recovered
    <3> QED BY <1>2, <2>1, <2>3, <2>5, <3>1 DEF RowOf, HasParts, JobState
  <2>6. CASE job[j].state \notin {"preparing", "uploading"}
    <3>1. job'[j] = job[j]
      BY <2>2, <2>6 DEF Recovered
    <3> QED BY <1>2, <2>1, <2>3, <3>1 DEF RowOf, HasParts
  <2>7. job[j].state = "uploading" => job[j].prepared # NULL
    BY <2>1 DEF RowOf
  <2> QED BY <2>4, <2>5, <2>6, <2>7
<1>4. QueueTypeOK'
  <2>1. job' \in [Item -> [state : JobState, modified : Version \cup {NULL},
                           content : Version \cup {NULL}, prepared : Prepared \cup {NULL}]]
    BY <1>2, <1>3
  <2> QED BY <1>1, <1>2, <2>1 DEF QueueTypeOK
<1>5. Rows'
  BY <1>3, <1>4, RowByRowNext
<1>6. CompleteIsStored'
  BY <1>2, <1>3 DEF CompleteIsStored, InState, serverVars
<1>7. TypeOK'
  BY <1>2, <1>4 DEF TypeOK, RunControl, serverVars, boundVars
<1>8. RunInv'
  BY <1>2 DEF RunInv, TypeOK, At
<1> QED BY <1>5, <1>6, <1>7, <1>8 DEF Rows

-----------------------------------------------------------------------------
\* Every step keeps the invariant.
LEMMA StepKeeps == AndroidInv /\ [Next]_vars => AndroidInv'
<1> SUFFICES ASSUME AndroidInv, [Next]_vars PROVE AndroidInv'
  OBVIOUS
<1>1. CASE UNCHANGED vars
  <2>1. TypeOK' /\ RunInv'
    BY <1>1 DEF AndroidInv, TypeOK, QueueTypeOK, RunInv, At, HasParts, vars, queueVars,
                runVars, serverVars, boundVars
  <2> QED BY <1>1, <2>1, QuietStep DEF vars, boundVars
<1>2. CASE RunStep
  BY <1>2, StartKeeps, ScanKeeps, EnqueueKeeps, ThumbnailKeeps, OutsideKeeps, RequestsKeep,
     MarksKeep, PreparationKeeps, FailureKeeps DEF RunStep
<1>3. CASE Kill \/ ScanFails \/ ThumbnailFails \/ PrepareFails \/ RequestFails
  BY <1>3, OutsideKeeps, ScanKeeps, ThumbnailKeeps, FailureKeeps
<1>4. CASE (\E i \in Photo : Edit(i) \/ Delete(i)) \/ \E i \in Item : TimePasses(i)
  BY <1>4, OutsideKeeps, MarksKeep
<1> QED BY <1>1, <1>2, <1>3, <1>4 DEF Next

\* AndroidInv holds always, for every library, limit and number of faults.
THEOREM AndroidInvariant == Spec => []AndroidInv
<1>1. Init => AndroidInv
  BY Started
<1>2. AndroidInv /\ [Next]_vars => AndroidInv'
  BY StepKeeps
<1> QED BY <1>1, <1>2, PTL DEF Spec

\* The queue hands out parts that exist and belong to the version enqueued last.
THEOREM PartsReady == Spec => []ReadyHasParts
<1>1. AndroidInv => ReadyHasParts
  BY DEF AndroidInv, QueueInv, ReadyHasParts, InState
<1> QED BY <1>1, AndroidInvariant, PTL

\* As long as a job is not complete, the device still has what it is about, but
\* for a photo whose thumbnail failed and has not been enqueued since.
THEOREM CopiesSafe == Spec => []CopyKept
<1>1. AndroidInv => CopyKept
  BY DEF AndroidInv
<1> QED BY <1>1, AndroidInvariant, PTL

\* A complete job is on the server, in a version no older than it remembers.
THEOREM CompletionSound == Spec => []CompleteIsStored
<1>1. AndroidInv => CompleteIsStored
  BY DEF AndroidInv
<1> QED BY <1>1, AndroidInvariant, PTL

=============================================================================
