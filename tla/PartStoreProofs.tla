--------------------------- MODULE PartStoreProofs ---------------------------
(***************************************************************************)
(* PartInv is inductive: each kind of fact in it is preserved by every     *)
(* step, given all of them before it.  From it follow, for any number of   *)
(* requests, parts and faults, that what is recorded as received survives  *)
(* a power loss and that an account keeps to its permits.                  *)
(***************************************************************************)
EXTENDS PartStore, FiniteSetTheorems, TLAPS

\* The initial state has no request, no file and no receipt.
LEMMA InitInv == Init => PartInv
<1> SUFFICES ASSUME Init PROVE PartInv
  OBVIOUS
<1> USE ManifestAssumption, PermitAssumption, FiniteAssumption
<1>1. TypeOK
  BY DEF Init, TypeOK, Control, FileState
<1>2. \A s \in Request : Holders(s) = {}
  BY DEF Init, Holders, HoldsAccount
<1>3. \A s \in Request : Cardinality(Holders(s)) <= PerAccount
  BY <1>2, FS_EmptySet
<1> QED
  BY <1>1, <1>3 DEF Init, PartInv, ReceivedPartKept

LEMMA TypeStep == TypeOK /\ [Next]_vars => TypeOK'
<1> SUFFICES ASSUME TypeOK, [Next]_vars PROVE TypeOK'
  OBVIOUS
<1> USE ManifestAssumption, FiniteAssumption
        DEF TypeOK, Control, FileState, Goto, Done, UploadFor, AccountFor, Synced,
            rowVars, diskVars, entryVars, boundVars, Fault
<1>1. ASSUME NEW r \in Request, Start(r) PROVE TypeOK'
  BY <1>1 DEF Start, Lookup
<1>2. ASSUME NEW r \in Request, AcquireGlobal(r) \/ AcquireAccount(r) PROVE TypeOK'
  BY <1>2 DEF AcquireGlobal, AcquireAccount
<1>3. ASSUME NEW r \in Request, Store(r) PROVE TypeOK'
  <2>1. CASE OpenDirectory(r) \/ SyncDirectory(r) \/ Stream(r)
    BY <2>1 DEF OpenDirectory, SyncDirectory, Stream
  <2>2. CASE Link(r) \/ Compare(r)
    BY <2>2 DEF Link, Compare
  <2>3. CASE SyncLink(r) \/ Clean(r) \/ Refuse(r)
    BY <2>3 DEF SyncLink, Clean, Refuse
  <2>4. CASE Record(r)
    BY <2>4 DEF Record
  <2> QED
    BY <1>3, <2>1, <2>2, <2>3, <2>4 DEF Store
<1>4. ASSUME NEW r \in Request, Abandon(r) PROVE TypeOK'
  BY <1>4 DEF Abandon
<1>5. ASSUME NEW u \in Upload, BeginCommit(u) \/ DeleteUpload(u) PROVE TypeOK'
  <2>1. received' \in [Part -> BOOLEAN]
    <3>1. CASE BeginCommit(u)
      BY <3>1 DEF BeginCommit
    <3>2. CASE DeleteUpload(u)
      <4>1. received' = [p \in Part |-> received[p] /\ UploadOf[p] # u]
        BY <3>2 DEF DeleteUpload
      <4> QED
        BY <4>1, Zenon
    <3> QED
      BY <1>5, <3>1, <3>2
  <2> QED
    BY <1>5, <2>1 DEF BeginCommit, DeleteUpload
<1>6. CASE Crash
  BY <1>6 DEF Crash
<1>7. ASSUME NEW p \in Part, Damage(p) PROVE TypeOK'
  BY <1>7 DEF Damage
<1>8. CASE UNCHANGED vars
  BY <1>8 DEF vars
<1> QED
  BY <1>1, <1>2, <1>3, <1>4, <1>5, <1>6, <1>7, <1>8 DEF Next

-----------------------------------------------------------------------------
(* Files *)

FileFacts ==
    /\ ReceivedPartKept
    /\ \A r \in Request :
         /\ pc[r] \in {"sync_link", "compare", "clean", "refuse"} => file[PartOf[r]] # "absent"
         /\ pc[r] = "record" => file[PartOf[r]] \in {"durable", "bad"}

\* A sync only turns linked entries into durable ones, and leaves none of the
\* upload that are linked.
LEMMA SyncedFacts ==
    ASSUME TypeOK, NEW u \in Upload, NEW p \in Part
    PROVE  /\ file[p] # "absent" <=> Synced(u)[p] # "absent"
           /\ file[p] \in {"durable", "bad"} => Synced(u)[p] = file[p]
           /\ UploadOf[p] = u /\ file[p] # "absent" => Synced(u)[p] \in {"durable", "bad"}
BY DEF TypeOK, FileState, Synced

LEMMA FileStep == TypeOK /\ FileFacts /\ [Next]_vars => FileFacts'
<1> SUFFICES ASSUME TypeOK, FileFacts, [Next]_vars PROVE FileFacts'
  OBVIOUS
<1> USE ManifestAssumption
        DEF FileFacts, ReceivedPartKept, TypeOK, FileState, Goto, Done, UploadFor,
            rowVars, diskVars, entryVars, boundVars, Fault
<1>1. ASSUME NEW r \in Request, Start(r) \/ AcquireGlobal(r) \/ AcquireAccount(r)
      PROVE FileFacts'
  BY <1>1 DEF Start, AcquireGlobal, AcquireAccount
<1>2. ASSUME NEW r \in Request, Store(r) PROVE FileFacts'
  <2>1. CASE OpenDirectory(r) \/ SyncDirectory(r) \/ Stream(r) \/ Compare(r)
    BY <2>1 DEF OpenDirectory, SyncDirectory, Stream, Compare
  <2>2. CASE Link(r)
    BY <2>2 DEF Link
  <2>3. CASE SyncLink(r) \/ Clean(r) \/ Refuse(r)
    <3>1. /\ \A p \in Part :
              /\ file[p] # "absent" => file'[p] # "absent"
              /\ file[p] \in {"durable", "bad"} => file'[p] = file[p]
          /\ file[PartOf[r]] # "absent" => file'[PartOf[r]] \in {"durable", "bad"}
      BY <2>3, SyncedFacts DEF SyncLink, Clean, Refuse
    <3> QED
      BY <2>3, <3>1 DEF SyncLink, Clean, Refuse
  <2>4. CASE Record(r)
    BY <2>4 DEF Record
  <2> QED
    BY <1>2, <2>1, <2>2, <2>3, <2>4 DEF Store
<1>3. ASSUME NEW r \in Request, Abandon(r) PROVE FileFacts'
  <2>1. \A p \in Part :
          /\ file[p] # "absent" => file'[p] # "absent"
          /\ file[p] \in {"durable", "bad"} => file'[p] = file[p]
    BY <1>3, SyncedFacts DEF Abandon
  <2> QED
    BY <1>3, <2>1 DEF Abandon
<1>4. ASSUME NEW u \in Upload, BeginCommit(u) \/ DeleteUpload(u) PROVE FileFacts'
  BY <1>4 DEF BeginCommit, DeleteUpload
<1>5. CASE Crash
  BY <1>5 DEF Crash
<1>6. ASSUME NEW p \in Part, Damage(p) PROVE FileFacts'
  BY <1>6 DEF Damage
<1>7. CASE UNCHANGED vars
  BY <1>7 DEF vars
<1> QED
  BY <1>1, <1>2, <1>3, <1>4, <1>5, <1>6, <1>7 DEF Next

-----------------------------------------------------------------------------
(* Permits *)

References ==
    \A r \in Request :
        /\ pc[r] = "idle" <=> semaphore[r] = NULL
        /\ semaphore[r] # NULL => table[AccountFor(r)] = semaphore[r]

Within == \A s \in Request : Cardinality(Holders(s)) <= PerAccount

\* Only the acquisition of a permit adds a holder.
LEMMA FewerHolders ==
    ASSUME Within,
           \A s \in Request : Holders(s)' \subseteq Holders(s)
    PROVE  Within'
<1>1. \A s \in Request : IsFiniteSet(Holders(s))
  BY FiniteAssumption, FS_Subset DEF Holders
<1>2. \A s \in Request : Cardinality(Holders(s)') <= Cardinality(Holders(s))
  BY <1>1, FS_Subset
<1>3. \A s \in Request : IsFiniteSet(Holders(s)')
  BY <1>1, FS_Subset
<1>4. \A s \in Request : Cardinality(Holders(s)) \in Nat /\ Cardinality(Holders(s)') \in Nat
  BY <1>1, <1>3, FS_CardinalityType
<1>5. \A s \in Request : Cardinality(Holders(s)') <= PerAccount
  BY <1>2, <1>4, PermitAssumption DEF Within
<1> QED
  BY <1>5 DEF Within

LEMMA PermitStep == TypeOK /\ References /\ Within /\ [Next]_vars => References' /\ Within'
<1> SUFFICES ASSUME TypeOK, References, Within, [Next]_vars PROVE References' /\ Within'
  OBVIOUS
<1> USE ManifestAssumption, FiniteAssumption
        DEF References, TypeOK, Control, Goto, Done, UploadFor, AccountFor,
            rowVars, diskVars, entryVars, boundVars, Fault
<1>1. ASSUME NEW r \in Request, Start(r) PROVE References' /\ Within'
  <2>1. References'
    <3>1. PICK s \in Request : /\ semaphore' = [semaphore EXCEPT ![r] = s]
                               /\ table'[AccountFor(r)] = s
                               /\ Live(table[AccountFor(r)]) => s = table[AccountFor(r)]
      <4> DEFINE found == table[AccountFor(r)]
                 s == IF Live(found) THEN found ELSE r
      <4>1. s \in Request
        <5>1. CASE Live(found)
          BY <5>1 DEF Live
        <5> QED
          BY <5>1
      <4>2. semaphore' = [semaphore EXCEPT ![r] = s] /\ table'[AccountFor(r)] = s
        BY <1>1 DEF Start, Lookup
      <4>3. Live(found) => s = found
        OBVIOUS
      <4> HIDE DEF s
      <4> QED
        BY <4>1, <4>2, <4>3
    <3>2. \A b \in Account : b # AccountFor(r) /\ Live(table[b]) => table'[b] = table[b]
      BY <1>1 DEF Start, Lookup
    <3>3. ASSUME NEW q \in Request, q # r, semaphore[q] # NULL
          PROVE  table'[AccountFor(q)] = semaphore[q]
      <4>1. Live(table[AccountFor(q)])
        BY <3>3 DEF Live
      <4> QED
        BY <3>1, <3>2, <3>3, <4>1
    <3> QED
      BY <1>1, <3>1, <3>3 DEF Start
  <2>2. \A s \in Request : Holders(s)' \subseteq Holders(s)
    BY <1>1 DEF Start, Lookup, Holders, HoldsAccount
  <2> QED
    BY <2>1, <2>2, FewerHolders
<1>2. ASSUME NEW r \in Request, AcquireGlobal(r) PROVE References' /\ Within'
  <2>1. \A s \in Request : Holders(s)' \subseteq Holders(s)
    BY <1>2 DEF AcquireGlobal, Holders, HoldsAccount
  <2>2. References'
    BY <1>2 DEF AcquireGlobal
  <2> QED
    BY <2>1, <2>2, FewerHolders
<1>3. ASSUME NEW r \in Request, AcquireAccount(r) PROVE References' /\ Within'
  <2>1. References'
    BY <1>3 DEF AcquireAccount
  <2>2. ASSUME NEW s \in Request PROVE Cardinality(Holders(s)') <= PerAccount
    <3>1. IsFiniteSet(Holders(s))
      BY FS_Subset DEF Holders
    <3>2. CASE s = semaphore[r]
      <4>1. Holders(s)' = Holders(s) \cup {r}
        BY <1>3, <3>2 DEF AcquireAccount, Holders, HoldsAccount
      <4>2. Cardinality(Holders(s)) < PerAccount
        BY <1>3, <3>2 DEF AcquireAccount
      <4>3. Cardinality(Holders(s)) \in Nat
        BY <3>1, FS_CardinalityType
      <4>4. Cardinality(Holders(s) \cup {r})
                = IF r \in Holders(s) THEN Cardinality(Holders(s)) ELSE Cardinality(Holders(s)) + 1
        BY <3>1, FS_AddElement
      <4> QED
        BY <4>1, <4>2, <4>3, <4>4, PermitAssumption
    <3>3. CASE s # semaphore[r]
      <4>1. Holders(s)' = Holders(s)
        BY <1>3, <3>3 DEF AcquireAccount, Holders, HoldsAccount
      <4> QED
        BY <4>1 DEF Within
    <3> QED
      BY <3>2, <3>3
  <2> QED
    BY <2>1, <2>2 DEF Within
<1>4. ASSUME NEW r \in Request, Store(r) \/ Abandon(r) PROVE References' /\ Within'
  <2>1. /\ pc[r] \notin {"idle", "global", "account"} \/ pc'[r] = "idle"
        /\ \/ pc'[r] # "idle" /\ pc[r] # "idle" /\ UNCHANGED semaphore
           \/ pc'[r] = "idle" /\ semaphore' = [semaphore EXCEPT ![r] = NULL]
        /\ pc' = [pc EXCEPT ![r] = pc'[r]]
        /\ UNCHANGED table
    <3>1. CASE Abandon(r)
      BY <3>1 DEF Abandon
    <3>2. CASE OpenDirectory(r) \/ SyncDirectory(r) \/ Stream(r) \/ Link(r)
      BY <3>2 DEF OpenDirectory, SyncDirectory, Stream, Link
    <3>3. CASE SyncLink(r) \/ Compare(r) \/ Clean(r) \/ Refuse(r) \/ Record(r)
      BY <3>3 DEF SyncLink, Compare, Clean, Refuse, Record
    <3> QED
      BY <1>4, <3>1, <3>2, <3>3 DEF Store
  <2>2. References'
    BY <2>1
  <2>3. \A s \in Request : Holders(s)' \subseteq Holders(s)
    BY <2>1 DEF Holders, HoldsAccount
  <2> QED
    BY <2>2, <2>3, FewerHolders
<1>5. ASSUME UNCHANGED entryVars PROVE References' /\ Within'
  <2>1. \A s \in Request : Holders(s)' = Holders(s)
    BY <1>5 DEF Holders, HoldsAccount
  <2>2. References'
    BY <1>5
  <2> QED
    BY <2>1, <2>2 DEF Within
<1>6. CASE Crash
  <2>1. \A s \in Request : Holders(s)' \subseteq Holders(s)
    BY <1>6 DEF Crash, Holders, HoldsAccount
  <2>2. References'
    BY <1>6 DEF Crash
  <2> QED
    BY <2>1, <2>2, FewerHolders
<1>7. ASSUME NEW u \in Upload, BeginCommit(u) \/ DeleteUpload(u) PROVE UNCHANGED entryVars
  BY <1>7 DEF BeginCommit, DeleteUpload
<1>8. ASSUME NEW p \in Part, Damage(p) PROVE UNCHANGED entryVars
  BY <1>8 DEF Damage
<1>9. CASE UNCHANGED vars
  BY <1>5, <1>9 DEF vars
<1> QED
  BY <1>1, <1>2, <1>3, <1>4, <1>5, <1>6, <1>7, <1>8, <1>9 DEF Next

-----------------------------------------------------------------------------
(* Receipts *)

FrozenComplete == \A u \in Upload : ustate[u] = "frozen" => Missing(u) = {}

LEMMA FrozenStep == TypeOK /\ FrozenComplete /\ [Next]_vars => FrozenComplete'
<1> SUFFICES ASSUME TypeOK, FrozenComplete, [Next]_vars PROVE FrozenComplete'
  OBVIOUS
<1> USE ManifestAssumption
        DEF FrozenComplete, Missing, TypeOK, Goto, Done, UploadFor,
            rowVars, diskVars, entryVars, boundVars, Fault
<1>1. ASSUME NEW r \in Request, Record(r) PROVE FrozenComplete'
  BY <1>1 DEF Record
<1>2. ASSUME NEW u \in Upload, BeginCommit(u) \/ DeleteUpload(u) PROVE FrozenComplete'
  BY <1>2 DEF BeginCommit, DeleteUpload
<1>3. ASSUME NEW r \in Request,
             Start(r) \/ AcquireGlobal(r) \/ AcquireAccount(r) \/ Abandon(r)
                 \/ (Store(r) /\ ~Record(r))
      PROVE  UNCHANGED rowVars
  BY <1>3 DEF Start, AcquireGlobal, AcquireAccount, Abandon, Store, OpenDirectory,
              SyncDirectory, Stream, Link, SyncLink, Compare, Clean, Refuse
<1>4. ASSUME Crash \/ (\E p \in Part : Damage(p)) \/ UNCHANGED vars PROVE UNCHANGED rowVars
  BY <1>4 DEF Crash, Damage, vars
<1>5. ASSUME UNCHANGED rowVars PROVE FrozenComplete'
  BY <1>5
<1> QED
  BY <1>1, <1>2, <1>3, <1>4, <1>5 DEF Next

-----------------------------------------------------------------------------
(* Theorems *)

LEMMA InvParts ==
    PartInv <=> TypeOK /\ FileFacts /\ References /\ FrozenComplete /\ Within
BY DEF PartInv, FileFacts, References, FrozenComplete, Within

\* PartInv holds in every state: each part is recorded only with a synced
\* entry, and each account has one live semaphore (put_part, UploadAdmission).
THEOREM PartInvAlways == Spec => []PartInv
<1>1. PartInv /\ [Next]_vars => PartInv'
  <2>1. PartInv' <=> TypeOK' /\ FileFacts' /\ References' /\ FrozenComplete' /\ Within'
    BY InvParts, PTL
  <2> QED
    BY <2>1, InvParts, TypeStep, FileStep, PermitStep, FrozenStep
<1> QED
  BY <1>1, InitInv, PTL DEF Spec

\* The parts are well-typed in every state (storage.rs and routes.rs, put_part).
THEOREM PartTypeSafe == Spec => []TypeOK
<1>1. PartInv => TypeOK
  BY DEF PartInv
<1> QED
  BY <1>1, PartInvAlways, PTL

\* Whatever requests race, fail or are killed, a recorded part is on disk
\* (storage.rs, put_part), for any number of requests, parts and faults.
THEOREM ReceivedPartSafe == Spec => []ReceivedPartKept
<1>1. PartInv => ReceivedPartKept
  BY DEF PartInv
<1> QED
  BY <1>1, PartInvAlways, PTL

\* The uploads of an account never exceed its permits (routes.rs,
\* UploadAdmission::acquire), for any limits and numbers of requests.
THEOREM AccountLimitSafe == Spec => []AccountLimit
<1>1. PartInv => AccountLimit
  <2> SUFFICES ASSUME PartInv, NEW a \in Account
               PROVE  Cardinality({r \in Request : AccountFor(r) = a /\ HoldsAccount(r)})
                          <= PerAccount
    BY DEF AccountLimit
  <2> DEFINE Mine == {r \in Request : AccountFor(r) = a /\ HoldsAccount(r)}
  <2>1. CASE Mine = {}
    BY <2>1, FS_EmptySet, PermitAssumption
  <2>2. ASSUME NEW r \in Mine PROVE Cardinality(Mine) <= PerAccount
    <3>1. \A q \in Mine : semaphore[q] # NULL /\ table[a] = semaphore[q]
      BY DEF PartInv, HoldsAccount
    <3>2. table[a] \in Request
      BY <3>1 DEF PartInv, TypeOK
    <3>3. Mine \subseteq Holders(table[a])
      BY <3>1 DEF Holders
    <3>4. IsFiniteSet(Holders(table[a]))
      BY FiniteAssumption, FS_Subset DEF Holders
    <3>5. /\ IsFiniteSet(Mine)
          /\ Cardinality(Mine) <= Cardinality(Holders(table[a]))
      BY <3>3, <3>4, FS_Subset
    <3>6. Cardinality(Holders(table[a])) <= PerAccount
      BY <3>2 DEF PartInv
    <3>7. Cardinality(Mine) \in Nat /\ Cardinality(Holders(table[a])) \in Nat
      BY <3>4, <3>5, FS_CardinalityType
    <3> QED
      BY <3>5, <3>6, <3>7, PermitAssumption
  <2> QED
    BY <2>1, <2>2
<1> QED
  BY <1>1, PartInvAlways, PTL

-----------------------------------------------------------------------------
(* The ledger *)

\* A step that keeps the parts of all other uploads is one of the ledger's.
LEMMA OneUpload ==
    ASSUME NEW u \in Upload, \A v \in Upload \ {u} : PartsTogether(v)' = PartsTogether(v)
    PROVE  [v \in Upload |-> PartsTogether(v)]'
               = [[v \in Upload |-> PartsTogether(v)] EXCEPT ![u] = PartsTogether(u)']
OBVIOUS

\* What a sync makes durable was there before.
LEMMA SyncKeepsParts ==
    ASSUME TypeOK, NEW w \in Upload, file' = Synced(w), UNCHANGED received
    PROVE  \A u \in Upload : PartsTogether(u)' = PartsTogether(u)
<1>1. \A p \in Part : /\ file'[p] = "absent" <=> file[p] = "absent"
                      /\ file'[p] = "bad" <=> file[p] = "bad"
  BY DEF TypeOK, FileState, Synced
<1> QED
  BY <1>1 DEF PartsTogether, Missing

LEMMA StepImplements == PartInv /\ [Next]_vars => [Ledger!LedgerNext]_<<ustate, [u \in Upload |-> PartsTogether(u)]>>
<1> SUFFICES ASSUME PartInv, [Next]_vars
             PROVE  \/ Ledger!LedgerNext
                    \/ UNCHANGED <<ustate, [u \in Upload |-> PartsTogether(u)]>>
  OBVIOUS
<1> DEFINE parts == [u \in Upload |-> PartsTogether(u)]
<1> USE ManifestAssumption
        DEF rowVars, diskVars, entryVars, boundVars, UploadFor, Goto, Done, Fault
<1>t. TypeOK
  BY DEF PartInv
<1>1. ASSUME UNCHANGED <<ustate, received, file>> PROVE UNCHANGED <<ustate, parts>>
  BY <1>1 DEF PartsTogether, Missing
<1>2. ASSUME NEW r \in Request, file' = Synced(UploadFor(r)), UNCHANGED rowVars
      PROVE  UNCHANGED <<ustate, parts>>
  <2>1. UploadFor(r) \in Upload
    OBVIOUS
  <2> QED
    BY <1>2, <1>t, <2>1, SyncKeepsParts
<1>3. ASSUME NEW r \in Request, Link(r)
      PROVE  Ledger!LedgerNext \/ UNCHANGED <<ustate, parts>>
  <2> DEFINE u == UploadFor(r)
  <2>1. CASE UNCHANGED file
    BY <1>1, <1>3, <2>1 DEF Link
  <2>2. CASE file' # file
    <3>1. /\ file[PartOf[r]] = "absent"
          /\ file' = [file EXCEPT ![PartOf[r]] = "linked"]
          /\ UNCHANGED <<ustate, received>>
      BY <1>3, <2>2 DEF Link
    <3>2. \A v \in Upload \ {u} : PartsTogether(v)' = PartsTogether(v)
      BY <3>1, <1>t DEF PartsTogether, Missing, TypeOK
    <3>3. PartsTogether(u) = "absent" /\ PartsTogether(u)' \in {"absent", "good", "bad"}
      BY <3>1 DEF PartsTogether
    <3>4. CASE Missing(u) # {}
      <4>1. PartsTogether(u)' = PartsTogether(u)
        BY <3>1, <3>4 DEF PartsTogether, Missing
      <4> QED
        BY <3>1, <3>2, <4>1
    <3>5. CASE Missing(u) = {}
      <4>1. u \in Exposed
        BY <3>1, <3>5 DEF PartInv, ReceivedPartKept, Missing, Exposed
      <4>2. parts' = [parts EXCEPT ![u] = PartsTogether(u)']
        BY <3>2, OneUpload
      <4>3. CASE PartsTogether(u)' = "absent"
        BY <3>1, <3>2, <3>3, <4>3
      <4>4. CASE PartsTogether(u)' = "good"
        BY <3>1, <3>3, <4>1, <4>2, <4>4 DEF Ledger!LedgerNext, Ledger!Receive
      <4>5. CASE PartsTogether(u)' = "bad"
        BY <3>1, <3>3, <4>1, <4>2, <4>5 DEF Ledger!LedgerNext, Ledger!Spoil
      <4> QED
        BY <3>3, <4>3, <4>4, <4>5
    <3> QED
      BY <3>4, <3>5
  <2> QED
    BY <2>1, <2>2
<1>4. ASSUME NEW r \in Request, Record(r)
      PROVE  Ledger!LedgerNext \/ UNCHANGED <<ustate, parts>>
  <2> DEFINE u == UploadFor(r)
  <2>1. UNCHANGED <<ustate, file>>
    BY <1>4 DEF Record
  <2>2. CASE UNCHANGED received
    BY <1>1, <2>1, <2>2
  <2>3. CASE received' # received
    <3>1. /\ ~received[PartOf[r]]
          /\ ustate[u] # "gone"
          /\ \A p \in Part \ {PartOf[r]} : received'[p] = received[p]
      BY <1>4, <1>t, <2>3 DEF Record, TypeOK
    <3>2. ustate[u] = "receiving"
      BY <3>1, <1>t DEF PartInv, Missing, TypeOK
    <3>3. \A v \in Upload \ {u} : PartsTogether(v)' = PartsTogether(v)
      BY <2>1, <3>1 DEF PartsTogether, Missing
    <3>4. PartsTogether(u) = "absent" /\ PartsTogether(u)' \in {"absent", "good", "bad"}
      BY <3>1 DEF PartsTogether, Missing
    <3>5. parts' = [parts EXCEPT ![u] = PartsTogether(u)']
      BY <3>3, OneUpload
    <3>6. CASE PartsTogether(u)' = "absent"
      BY <2>1, <3>3, <3>4, <3>6
    <3>7. CASE PartsTogether(u)' = "good"
      BY <2>1, <3>2, <3>4, <3>5, <3>7 DEF Ledger!LedgerNext, Ledger!Receive
    <3>8. CASE PartsTogether(u)' = "bad"
      BY <2>1, <3>2, <3>4, <3>5, <3>8 DEF Ledger!LedgerNext, Ledger!Spoil
    <3> QED
      BY <3>4, <3>6, <3>7, <3>8
  <2> QED
    BY <2>2, <2>3
<1>5. ASSUME NEW u \in Upload, BeginCommit(u) PROVE Ledger!LedgerNext
  <2>1. UNCHANGED parts
    BY <1>5 DEF BeginCommit, PartsTogether, Missing
  <2>2. parts[u] # "absent" \/ u \in Exposed
    BY <1>5 DEF BeginCommit, PartInv, ReceivedPartKept, PartsTogether, Missing, Exposed
  <2> QED
    BY <1>5, <2>1, <2>2 DEF BeginCommit, Ledger!LedgerNext, Ledger!Freeze
<1>6. ASSUME NEW u \in Upload, DeleteUpload(u) PROVE Ledger!LedgerNext
  <2>1. \A v \in Upload \ {u} : PartsTogether(v)' = PartsTogether(v)
    BY <1>6 DEF DeleteUpload, PartsTogether, Missing
  <2>2. PartsTogether(u)' = "absent"
    <3>1. PICK p \in Part : UploadOf[p] = u
      OBVIOUS
    <3>2. ~received'[p]
      BY <1>6, <3>1 DEF DeleteUpload
    <3> QED
      BY <3>1, <3>2 DEF PartsTogether, Missing
  <2>3. parts' = [parts EXCEPT ![u] = "absent"]
    BY <2>1, <2>2, OneUpload
  <2> QED
    BY <1>6, <2>3 DEF DeleteUpload, Ledger!LedgerNext, Ledger!Drop
<1>7. CASE Crash
  <2> DEFINE gone == {v \in Exposed : PartsTogether(v)' = "absent"}
  <2>1. UNCHANGED <<ustate, received>>
    BY <1>7 DEF Crash
  <2>2. \A p \in Part : file'[p] = file[p] \/ file'[p] = "absent"
    BY <1>7, <1>t DEF Crash, TypeOK
  <2>3. \A v \in Upload : PartsTogether(v)' = PartsTogether(v) \/ PartsTogether(v)' = "absent"
    BY <2>1, <2>2 DEF PartsTogether, Missing
  <2>4. ASSUME NEW v \in Upload \ Exposed PROVE PartsTogether(v)' = PartsTogether(v)
    <3>1. CASE Missing(v) # {}
      BY <2>1, <3>1 DEF PartsTogether, Missing
    <3>2. CASE Missing(v) = {}
      <4>1. ASSUME NEW p \in Part, UploadOf[p] = v PROVE file'[p] = file[p]
        <5>1. file[p] \in {"durable", "bad"}
          BY <3>2, <4>1 DEF PartInv, ReceivedPartKept, Missing, Exposed
        <5> QED
          BY <1>7, <1>t, <4>1, <5>1 DEF Crash, TypeOK, Exposed
      <4> QED
        BY <2>1, <4>1 DEF PartsTogether, Missing
    <3> QED
      BY <3>1, <3>2
  <2>5. parts' = [v \in Upload |-> IF v \in gone THEN "absent" ELSE parts[v]]
    BY <2>3, <2>4
  <2>6. gone \in SUBSET Exposed
    OBVIOUS
  <2> QED
    BY <2>1, <2>5, <2>6 DEF Ledger!LedgerNext, Ledger!Lose
<1>8. ASSUME NEW p \in Part, Damage(p) PROVE Ledger!LedgerNext \/ UNCHANGED <<ustate, parts>>
  <2> DEFINE u == UploadOf[p]
  <2>1. /\ file[p] \in {"linked", "durable"}
        /\ file' = [file EXCEPT ![p] = "bad"]
        /\ UNCHANGED <<ustate, received>>
    BY <1>8 DEF Damage
  <2>2. \A v \in Upload \ {u} : PartsTogether(v)' = PartsTogether(v)
    BY <2>1, <1>t DEF PartsTogether, Missing, TypeOK
  <2>3. \/ PartsTogether(u)' = PartsTogether(u)
        \/ PartsTogether(u) = "good" /\ PartsTogether(u)' = "bad"
    BY <2>1, <1>t DEF PartsTogether, Missing, TypeOK
  <2>4. parts' = [parts EXCEPT ![u] = PartsTogether(u)']
    BY <2>2, OneUpload
  <2>5. CASE PartsTogether(u)' = PartsTogether(u)
    BY <2>1, <2>2, <2>5
  <2>6. CASE PartsTogether(u) = "good" /\ PartsTogether(u)' = "bad"
    BY <2>1, <2>4, <2>6 DEF Ledger!LedgerNext, Ledger!Spoil
  <2> QED
    BY <2>3, <2>5, <2>6
<1>9. ASSUME NEW r \in Request, Abandon(r) PROVE UNCHANGED <<ustate, parts>>
  <2>1. UNCHANGED rowVars /\ (UNCHANGED file \/ file' = Synced(UploadFor(r)))
    BY <1>9 DEF Abandon
  <2> QED
    BY <1>1, <1>2, <2>1
<1>10. ASSUME NEW r \in Request, Store(r)
       PROVE  Ledger!LedgerNext \/ UNCHANGED <<ustate, parts>>
  <2>1. CASE OpenDirectory(r) \/ SyncDirectory(r) \/ Stream(r) \/ Compare(r)
    BY <1>1, <2>1 DEF OpenDirectory, SyncDirectory, Stream, Compare
  <2>2. CASE SyncLink(r) \/ Clean(r) \/ Refuse(r)
    BY <1>2, <2>2 DEF SyncLink, Clean, Refuse
  <2> QED
    BY <1>3, <1>4, <1>10, <2>1, <2>2 DEF Store
<1>11. ASSUME NEW r \in Request, Start(r) \/ AcquireGlobal(r) \/ AcquireAccount(r)
       PROVE  UNCHANGED <<ustate, parts>>
  BY <1>1, <1>11 DEF Start, AcquireGlobal, AcquireAccount
<1>12. CASE UNCHANGED vars
  BY <1>1, <1>12 DEF vars
<1>13. CASE Next
  <2>1. ASSUME NEW r \in Request,
               Start(r) \/ AcquireGlobal(r) \/ AcquireAccount(r) \/ Store(r) \/ Abandon(r)
        PROVE  Ledger!LedgerNext \/ UNCHANGED <<ustate, parts>>
    BY <1>9, <1>10, <1>11, <2>1
  <2>2. ASSUME NEW u \in Upload, BeginCommit(u) \/ DeleteUpload(u) PROVE Ledger!LedgerNext
    BY <1>5, <1>6, <2>2
  <2> QED
    BY <1>7, <1>8, <1>13, <2>1, <2>2 DEF Next
<1> QED
  BY <1>12, <1>13

\* The reception of parts implements the ledger the commit protocol relies on
\* (put_part beside commit): for any number of requests, parts and faults, the
\* parts of an upload whose commit has begun change only by damage, by its
\* deletion, or where its directory entry was not on disk.
THEOREM PartsImplementLedger == Spec => ImplementsPartLedger
<1>1. Init => Ledger!LedgerInit
  <2> SUFFICES ASSUME Init PROVE Ledger!LedgerInit
    OBVIOUS
  <2>1. ASSUME NEW u \in Upload PROVE PartsTogether(u) = "absent"
    <3>1. PICK p \in Part : UploadOf[p] = u
      BY ManifestAssumption
    <3> QED
      BY <3>1 DEF Init, PartsTogether
  <2> QED
    BY <2>1 DEF Init, Ledger!LedgerInit, Exposed
<1>2. PartInv /\ [Next]_vars => [Ledger!LedgerNext]_<<ustate, [u \in Upload |-> PartsTogether(u)]>>
  BY StepImplements
<1> QED
  BY <1>1, <1>2, PartInvAlways, PTL DEF Spec, ImplementsPartLedger, Ledger!LedgerSpec

=============================================================================
