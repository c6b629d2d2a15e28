--------------------------- MODULE TimelineProofs ---------------------------
(***************************************************************************)
(* The change feed skips nothing, for any number of assets, tags, albums,  *)
(* changes and crashes, and any size of a page.  The handlers all do the   *)
(* same to the feed: they append at most one event and make some entities  *)
(* stale (TransactionEffect).  A reader of the timeline skips no asset     *)
(* that keeps its place and lists none twice, for any library, any order   *)
(* of its dates and any size of a page.                                    *)
(***************************************************************************)
EXTENDS Timeline, SequenceTheorems, TLAPS

LEMMA Lengths ==
    ASSUME FeedTypeOK
    PROVE  /\ Len(log) \in Nat /\ Len(follower.page) \in Nat
           /\ follower.cursor \in Nat /\ follower.next \in Nat
           /\ follower.page \in Seq(Entity) /\ log \in Seq(Entity)
<1>1. follower.page \in Seq(Entity) /\ log \in Seq(Entity)
  BY DEF FeedTypeOK
<1>2. follower.cursor \in Nat /\ follower.next \in Nat
  BY DEF FeedTypeOK
<1> QED
  BY <1>1, <1>2, LenProperties

LEMMA FeedInit_Inv == FeedInit => FeedInv /\ ChangesAhead
<1> SUFFICES ASSUME FeedInit PROVE FeedInv /\ ChangesAhead
  OBVIOUS
<1> USE FeedAssumption
<1>1. log = <<>> /\ follower.page = <<>> /\ follower.cursor = 0 /\ ~follower.on
  BY DEF FeedInit
<1>2. <<>> \in Seq(Entity) /\ Len(<<>>) = 0
  BY EmptySeq
<1>3. FeedTypeOK
  <2>1. follower \in [cursor : Nat, next : Nat, page : Seq(Entity), on : BOOLEAN]
    BY <1>2 DEF FeedInit
  <2>2. stored \in SUBSET Asset /\ members \in [Group -> SUBSET Asset]
    BY DEF FeedInit
  <2> QED
    BY <1>2, <2>1, <2>2 DEF FeedInit, FeedTypeOK
<1> QED
  BY <1>1, <1>2, <1>3 DEF FeedInit, FeedInv, ChangesAhead, Applied

-----------------------------------------------------------------------------
(* The handlers *)

TransactionEffect ==
    /\ UNCHANGED followerVars
    /\ \/ /\ UNCHANGED log
          /\ \E changed \in SUBSET Entity :
                stale' = stale \cup changed /\ silent' = silent \cup changed
       \/ \E e \in Entity, changed \in SUBSET Entity : 
             /\ log' = Append(log, e)
             /\ stale' = stale \cup changed
             /\ silent' = (silent \cup changed) \ {e}

LEMMA AnnounceEffect ==
    ASSUME NEW e \in Entity, NEW changed \in SUBSET Entity, Announce(e, changed)
    PROVE  TransactionEffect
BY DEF Announce, TransactionEffect

LEMMA LibraryEffect == FeedTypeOK /\ LibraryStep => TransactionEffect
<1> SUFFICES ASSUME FeedTypeOK, LibraryStep PROVE TransactionEffect
  OBVIOUS
<1> USE DEF Entity, Group
<1>1. ASSUME NEW a \in Asset, AssetStep(a) PROVE TransactionEffect
  <2>1. ASSUME NEW m \in Moment, UpsertAsset(a, m) PROVE TransactionEffect
    <3>1. {a} \in SUBSET Entity
      OBVIOUS
    <3> QED
      BY <2>1, <3>1 DEF UpsertAsset, TransactionEffect
  <2>2. ASSUME NEW changed \in SUBSET Entity, Announce(a, changed) PROVE TransactionEffect
    BY <2>2, AnnounceEffect
  <2>3. CASE StoreResource(a) \/ UpdateAsset(a)
    BY <2>2, <2>3 DEF StoreResource, UpdateAsset
  <2>4. ASSUME NEW state \in {"live", "trashed"}, SetTrashed(a, state) PROVE TransactionEffect
    BY <2>2, <2>4 DEF SetTrashed
  <2>5. CASE DeletePermanently(a)
    BY <2>2, <2>5 DEF DeletePermanently
  <2>6. ASSUME NEW t \in Tag, NEW add \in BOOLEAN, ChangeTagAsset(t, a, add)
        PROVE  TransactionEffect
    BY <2>2, <2>6 DEF ChangeTagAsset
  <2> QED
    BY <1>1, <2>1, <2>3, <2>4, <2>5, <2>6 DEF AssetStep
<1>2. CASE GroupStep
  <2>1. ASSUME NEW t \in Tag, CreateTag(t) PROVE TransactionEffect
    BY <2>1, AnnounceEffect DEF CreateTag
  <2>2. ASSUME NEW t \in Tag, NEW as \in SUBSET Asset, SetTagAssets(t, as)
        PROVE  TransactionEffect
    BY <2>2, AnnounceEffect DEF SetTagAssets
  <2>3. ASSUME NEW b \in Album, NEW as \in SUBSET Asset, NEW replace \in BOOLEAN,
               SyncAlbum(b, as, replace)
        PROVE  TransactionEffect
    BY <2>3, AnnounceEffect DEF SyncAlbum
  <2> QED
    BY <1>2, <2>1, <2>2, <2>3 DEF GroupStep
<1> QED
  BY <1>1, <1>2 DEF LibraryStep

\* The library's own variables keep their types.
LEMMA LibraryTypes ==
    FeedTypeOK /\ LibraryStep =>
        /\ row' \in [Asset -> {"none", "live", "trashed", "deleted"}]
        /\ moment' \in [Asset -> Moment]
        /\ stored' \in SUBSET Asset
        /\ members' \in [Group -> SUBSET Asset]
        /\ existing' \in SUBSET Group
        /\ changes' \in 0..MaxChanges
<1> SUFFICES ASSUME FeedTypeOK, LibraryStep
             PROVE  /\ row' \in [Asset -> {"none", "live", "trashed", "deleted"}]
                    /\ moment' \in [Asset -> Moment]
                    /\ stored' \in SUBSET Asset
                    /\ members' \in [Group -> SUBSET Asset]
                    /\ existing' \in SUBSET Group
                    /\ changes' \in 0..MaxChanges
  OBVIOUS
<1> USE FeedAssumption DEF FeedTypeOK, Group, Change, libraryVars
<1>1. ASSUME NEW a \in Asset, AssetStep(a)
      PROVE  /\ row' \in [Asset -> {"none", "live", "trashed", "deleted"}]
             /\ moment' \in [Asset -> Moment]
             /\ stored' \in SUBSET Asset
             /\ members' \in [Group -> SUBSET Asset]
             /\ existing' \in SUBSET Group
             /\ changes' \in 0..MaxChanges
  <2>1. CASE \E m \in Moment : UpsertAsset(a, m)
    BY <2>1 DEF UpsertAsset
  <2>2. CASE StoreResource(a) \/ UpdateAsset(a) \/ \E s \in {"live", "trashed"} : SetTrashed(a, s)
    BY <2>2 DEF StoreResource, UpdateAsset, SetTrashed
  <2>3. CASE DeletePermanently(a)
    BY <2>3 DEF DeletePermanently
  <2>4. CASE \E t \in Tag, add \in BOOLEAN : ChangeTagAsset(t, a, add)
    BY <2>4 DEF ChangeTagAsset
  <2> QED
    BY <1>1, <2>1, <2>2, <2>3, <2>4 DEF AssetStep
<1>2. CASE GroupStep
  <2>1. CASE \E t \in Tag : CreateTag(t)
    BY <2>1 DEF CreateTag
  <2>2. ASSUME NEW g \in Group, NEW as \in SUBSET Asset, NEW rest \in SUBSET Asset,
               members' = [members EXCEPT ![g] = rest \cup {a \in as : Present(a)}]
        PROVE  members' \in [Group -> SUBSET Asset]
    <3>1. rest \cup {a \in as : Present(a)} \in SUBSET Asset
      OBVIOUS
    <3> QED
      BY <2>2, <3>1
  <2>3. CASE \E t \in Tag, as \in SUBSET Asset : SetTagAssets(t, as)
    <3>1. PICK t \in Tag, as \in SUBSET Asset : SetTagAssets(t, as)
      BY <2>3
    <3>2. members' = [members EXCEPT ![t] = {} \cup {a \in as : Present(a)}]
      <4>1. members' = [members EXCEPT ![t] = {a \in as : Present(a)}]
        BY <3>1, Zenon DEF SetTagAssets
      <4>2. {} \cup {a \in as : Present(a)} = {a \in as : Present(a)}
        OBVIOUS
      <4> QED
        BY <4>1, <4>2
    <3>3. members' \in [Group -> SUBSET Asset]
      BY <2>2, <3>2
    <3>4. Change /\ UNCHANGED <<row, moment, stored, existing>>
      BY <3>1, Zenon DEF SetTagAssets
    <3> QED
      BY <3>3, <3>4
  <2>4. CASE \E b \in Album, as \in SUBSET Asset, replace \in BOOLEAN : SyncAlbum(b, as, replace)
    <3>1. PICK b \in Album, as \in SUBSET Asset, replace \in BOOLEAN : SyncAlbum(b, as, replace)
      BY <2>4
    <3>2. members' = [members EXCEPT ![b] =
                        (IF replace THEN {} ELSE members[b]) \cup {a \in as : Present(a)}]
      BY <3>1 DEF SyncAlbum
    <3>3. (IF replace THEN {} ELSE members[b]) \in SUBSET Asset
      OBVIOUS
    <3>4. members' \in [Group -> SUBSET Asset]
      BY <2>2, <3>2, <3>3
    <3>5. Change /\ existing' = existing \cup {b} /\ UNCHANGED <<row, moment, stored>>
      BY <3>1, Zenon DEF SyncAlbum
    <3> QED
      BY <3>4, <3>5
  <2> QED
    BY <1>2, <2>1, <2>3, <2>4 DEF GroupStep
<1> QED
  BY <1>1, <1>2 DEF LibraryStep

LEMMA LibraryKeeps ==
    FeedInv /\ ChangesAhead /\ LibraryStep => FeedInv' /\ ChangesAhead'
<1> SUFFICES ASSUME FeedInv, ChangesAhead, LibraryStep PROVE FeedInv' /\ ChangesAhead'
  OBVIOUS
<1>1. FeedTypeOK
  BY DEF FeedInv
<1>2. TransactionEffect
  BY <1>1, LibraryEffect
<1>3. /\ log' \in Seq(Entity)
      /\ Len(log') \in Nat
      /\ Len(log) <= Len(log')
      /\ \A i \in 1..Len(log) : log'[i] = log[i]
  <2>1. CASE UNCHANGED log
    BY <1>1, <2>1, Lengths
  <2>2. ASSUME NEW e \in Entity, log' = Append(log, e)
        PROVE  /\ log' \in Seq(Entity)
               /\ Len(log') = Len(log) + 1
               /\ \A i \in 1..Len(log) : log'[i] = log[i]
    BY <1>1, <2>2, Lengths, AppendProperties
  <2> QED
    BY <1>1, <1>2, <2>1, <2>2, Lengths DEF TransactionEffect
<1>4. UNCHANGED <<follower, crashes>> /\ stale' \in SUBSET Entity /\ silent' \in SUBSET Entity
  BY <1>1, <1>2 DEF TransactionEffect, followerVars, FeedTypeOK
<1>5. FeedTypeOK'
  BY <1>1, <1>3, <1>4, LibraryTypes DEF FeedTypeOK
<1>6. Applied' = Applied /\ Applied \in Int /\ Applied >= 0
  BY <1>1, <1>4, Lengths DEF Applied, FeedInv
<1>7. FeedInv'
  <2>1. ASSUME follower.on
        PROVE  SubSeq(log', Applied + 1, follower.next) = SubSeq(log, Applied + 1, follower.next)
    <3>1. \A i \in (Applied + 1)..follower.next : i \in 1..Len(log)
      BY <1>1, <1>6, <2>1, Lengths DEF FeedInv
    <3>2. \A i \in (Applied + 1)..follower.next : log[i] \in Entity /\ log'[i] = log[i]
      BY <1>1, <1>3, <3>1, Lengths, ElementOfSeq
    <3>3. Applied + 1 \in Int /\ follower.next \in Int
      BY <1>1, <1>6, Lengths
    <3> DEFINE s == SubSeq(log, Applied + 1, follower.next)
               t == SubSeq(log', Applied + 1, follower.next)
    <3>4. s \in Seq(Entity) /\ t \in Seq(Entity) /\ Len(s) = Len(t)
      BY <3>2, <3>3, SubSeqProperties
    <3>5. ASSUME NEW i \in 1..Len(s) PROVE s[i] = t[i]
      <4>1. Len(s) = IF Applied + 1 <= follower.next THEN follower.next - (Applied + 1) + 1 ELSE 0
        BY <3>2, <3>3, SubSeqProperties
      <4>2. i \in 1..(follower.next - (Applied + 1) + 1)
        BY <3>3, <4>1
      <4>3. s[i] = log[Applied + 1 + i - 1] /\ t[i] = log'[Applied + 1 + i - 1]
        BY <3>2, <3>3, <4>2, SubSeqProperties
      <4>4. Applied + 1 + i - 1 \in (Applied + 1)..follower.next
        BY <3>3, <4>2
      <4> QED
        BY <3>2, <4>3, <4>4
    <3> QED
      BY <3>4, <3>5, SeqEqual
  <2> QED
    BY <1>1, <1>3, <1>4, <1>5, <1>6, <2>1, Lengths DEF FeedInv
<1>8. ChangesAhead'
  <2> SUFFICES ASSUME NEW x \in stale' \ silent'
               PROVE  \E i \in (Applied + 1)..Len(log') : log'[i] = x
    BY <1>6 DEF ChangesAhead
  <2>1. CASE x \in stale \ silent
    <3>1. PICK i \in (Applied + 1)..Len(log) : log[i] = x
      BY <2>1 DEF ChangesAhead
    <3> QED
      BY <1>1, <1>3, <1>6, <3>1, Lengths
  <2>2. CASE x \notin stale \ silent
    <3>1. PICK e \in Entity : log' = Append(log, e) /\ x = e
      BY <1>2, <2>2 DEF TransactionEffect
    <3>2. Len(log') = Len(log) + 1 /\ log'[Len(log) + 1] = x
      BY <1>1, <3>1, Lengths, AppendProperties
    <3>3. Applied <= Len(log)
      BY DEF FeedInv
    <3> QED
      BY <1>1, <1>6, <3>2, <3>3, Lengths
  <2> QED
    BY <2>1, <2>2
<1> QED
  BY <1>7, <1>8

-----------------------------------------------------------------------------
(* The follower *)

LEMMA FetchKeeps == FeedInv /\ ChangesAhead /\ FetchPage => FeedInv' /\ ChangesAhead'
<1> SUFFICES ASSUME FeedInv, ChangesAhead, FetchPage PROVE FeedInv' /\ ChangesAhead'
  OBVIOUS
<1> DEFINE cursor == follower.cursor
           last == IF Len(log) < cursor + FeedLimit THEN Len(log) ELSE cursor + FeedLimit
<1>1. FeedTypeOK
  BY DEF FeedInv
<1>2. /\ ~follower.on /\ cursor < Len(log)
      /\ follower' = [follower EXCEPT !.on = TRUE, !.page = Page(cursor), !.next = cursor + Len(Page(cursor))]
      /\ UNCHANGED <<libraryVars, log, historyVars, changes, crashes>>
  BY DEF FetchPage, NextSequence
<1>3. cursor \in Nat /\ last \in Nat /\ cursor + 1 <= last /\ last <= Len(log)
  BY <1>1, <1>2, Lengths, FeedAssumption
<1>4. \A i \in (cursor + 1)..last : log[i] \in Entity
  BY <1>1, <1>3, Lengths, ElementOfSeq
<1>5. /\ Page(cursor) = SubSeq(log, cursor + 1, last)
      /\ Page(cursor) \in Seq(Entity)
      /\ Len(Page(cursor)) = last - cursor
  <2>1. Page(cursor) = SubSeq(log, cursor + 1, last)
    BY DEF Page
  <2>2. cursor + 1 \in Int /\ last \in Int
    BY <1>3
  <2>3. SubSeq(log, cursor + 1, last) \in Seq(Entity) 
    BY <1>4, <2>2, SubSeqProperties
  <2>4. Len(SubSeq(log, cursor + 1, last)) = IF cursor + 1 <= last THEN last - (cursor + 1) + 1 ELSE 0
    BY <1>4, <2>2, SubSeqProperties
  <2> HIDE DEF last, cursor
  <2> QED
    BY <1>3, <2>1, <2>3, <2>4
<1>6. /\ follower' \in [cursor : Nat, next : Nat, page : Seq(Entity), on : BOOLEAN]
      /\ follower'.cursor = cursor /\ follower'.next = last
      /\ follower'.page = Page(cursor) /\ follower'.on
  <2>1. follower \in [cursor : Nat, next : Nat, page : Seq(Entity), on : BOOLEAN]
    BY <1>1 DEF FeedTypeOK
  <2>2. cursor + Len(Page(cursor)) = last
    BY <1>3, <1>5
  <2> HIDE DEF last
  <2> QED
    BY <1>2, <1>3, <1>5, <2>1, <2>2
<1>7. FeedTypeOK'
  BY <1>1, <1>2, <1>6 DEF FeedTypeOK, libraryVars, historyVars
<1>8. Applied = cursor /\ Applied' = cursor
  BY <1>2, <1>3, <1>5, <1>6 DEF Applied
<1> QED
  BY <1>2, <1>3, <1>5, <1>6, <1>7, <1>8 DEF FeedInv, ChangesAhead, historyVars

\* The position of a follower with a page that is not yet applied.
LEMMA Position ==
    ASSUME NEW length \in Nat, NEW next \in Nat, NEW cursor \in Nat,
           NEW left \in Nat \ {0}, NEW at, at = next - left, cursor <= at, next <= length
    PROVE  /\ at \in Nat
           /\ at + 1 \in 1..length /\ next \in (at + 1)..length
           /\ cursor <= at + 1 /\ at + 1 <= length
OBVIOUS

LEMMA ApplyKeeps == FeedInv /\ ChangesAhead /\ ApplyEvent => FeedInv' /\ ChangesAhead'
<1> SUFFICES ASSUME FeedInv, ChangesAhead, ApplyEvent PROVE FeedInv' /\ ChangesAhead'
  OBVIOUS
<1> DEFINE page == follower.page
<1>1. FeedTypeOK
  BY DEF FeedInv
<1>2. /\ follower.on /\ page # <<>>
      /\ follower' = [follower EXCEPT !.page = Tail(page)]
      /\ stale' = stale \ {Head(page)} /\ silent' = silent \ {Head(page)}
      /\ UNCHANGED <<libraryVars, log, changes, crashes>>
  BY DEF ApplyEvent
<1>3. /\ Len(page) \in Nat \ {0} /\ Applied = follower.next - Len(page)
      /\ follower.cursor <= Applied /\ follower.next <= Len(log)
      /\ page = SubSeq(log, Applied + 1, follower.next)
  <2>1. page \in Seq(Entity) /\ page # <<>> /\ Len(page) \in Nat
    BY <1>1, <1>2, Lengths
  <2>2. Len(page) # 0
    BY <2>1, EmptySeq
  <2>3. Applied = follower.next - Len(page)
    BY <1>2 DEF Applied
  <2>4. /\ follower.cursor <= Applied /\ follower.next <= Len(log)
        /\ page = SubSeq(log, Applied + 1, follower.next)
    BY <1>2 DEF FeedInv
  <2> QED
    BY <2>1, <2>2, <2>3, <2>4
<1>4. /\ Applied \in Nat
      /\ Applied + 1 \in 1..Len(log) /\ follower.next \in (Applied + 1)..Len(log)
      /\ follower.cursor <= Applied + 1 /\ Applied + 1 <= Len(log)
  <2>1. Len(log) \in Nat /\ follower.cursor \in Nat /\ follower.next \in Nat
    BY <1>1, Lengths
  <2> HIDE DEF page
  <2> QED
    BY <1>3, <2>1, Position
<1>5. Head(page) = log[Applied + 1] /\ Tail(page) = SubSeq(log, Applied + 1 + 1, follower.next)
  <2> DEFINE at == Applied + 1
             end == follower.next
  <2>1. log \in Seq(Entity) /\ at \in 1..Len(log) /\ end \in at..Len(log)
    BY <1>1, <1>4, Lengths
  <2>2. page = SubSeq(log, at, end)
    BY <1>3
  <2> HIDE DEF page, at, end
  <2>3. Head(page) = log[at] /\ Tail(page) = SubSeq(log, at + 1, end)
    BY <2>1, <2>2, HeadTailOfSubSeq
  <2> QED
    BY <2>3 DEF at, end
<1>6. /\ Tail(page) \in Seq(Entity) /\ Len(Tail(page)) = Len(page) - 1
  BY <1>1, <1>2, Lengths, HeadTailProperties
<1>7. /\ follower' \in [cursor : Nat, next : Nat, page : Seq(Entity), on : BOOLEAN]
      /\ follower'.cursor = follower.cursor /\ follower'.next = follower.next
      /\ follower'.page = Tail(page) /\ follower'.on = follower.on
  BY <1>1, <1>2, <1>6 DEF FeedTypeOK
<1>8. Applied' = Applied + 1
  BY <1>1, <1>2, <1>3, <1>6, <1>7, Lengths DEF Applied
<1>9. FeedTypeOK'
  BY <1>1, <1>2, <1>7 DEF FeedTypeOK, libraryVars
<1>10. FeedInv'
  <2>1. follower'.cursor <= Applied' /\ Applied' <= Len(log) /\ follower'.next <= Len(log)
    BY <1>3, <1>4, <1>7, <1>8
  <2>2. follower'.page = SubSeq(log, Applied' + 1, follower'.next)
    BY <1>5, <1>7, <1>8
  <2>3. log' = log
    BY <1>2
  <2> HIDE DEF page
  <2> QED
    BY <1>9, <2>1, <2>2, <2>3, Zenon DEF FeedInv
<1>11. ChangesAhead'
  <2> SUFFICES ASSUME NEW x \in stale' \ silent'
               PROVE  \E i \in (Applied + 1 + 1)..Len(log) : log[i] = x
    BY <1>2, <1>8 DEF ChangesAhead
  <2>1. x \in stale \ silent /\ x # log[Applied + 1]
    BY <1>2, <1>5
  <2>2. PICK i \in (Applied + 1)..Len(log) : log[i] = x
    BY <2>1 DEF ChangesAhead
  <2> QED
    BY <1>1, <1>4, <2>1, <2>2, Lengths
<1> QED
  BY <1>10, <1>11

LEMMA PersistKeeps ==
    FeedInv /\ ChangesAhead /\ (PersistCursor \/ FollowerCrash) => FeedInv' /\ ChangesAhead'
<1> SUFFICES ASSUME FeedInv, ChangesAhead, PersistCursor \/ FollowerCrash
             PROVE  FeedInv' /\ ChangesAhead'
  OBVIOUS
<1>1. FeedTypeOK
  BY DEF FeedInv
<1>2. /\ Applied' <= Applied
      /\ Applied' = follower'.cursor /\ ~follower'.on /\ Applied' \in Nat
      /\ UNCHANGED <<libraryVars, log, historyVars, changes>>
      /\ follower' \in [cursor : Nat, next : Nat, page : Seq(Entity), on : BOOLEAN]
      /\ crashes' \in 0..MaxCrashes
  <2>0. <<>> \in Seq(Entity) /\ Len(<<>>) = 0
    BY EmptySeq
  <2>1. CASE PersistCursor
    <3>1. /\ follower.on /\ follower.page = <<>> /\ follower.next \in Nat
          /\ follower' = [follower EXCEPT !.on = FALSE, !.cursor = follower.next]
          /\ UNCHANGED <<libraryVars, log, historyVars, changes, crashes>>
      BY <1>1, <2>1, Lengths DEF PersistCursor
    <3>2. /\ follower' \in [cursor : Nat, next : Nat, page : Seq(Entity), on : BOOLEAN]
          /\ follower'.cursor = follower.next /\ ~follower'.on
      BY <1>1, <3>1 DEF FeedTypeOK
    <3>3. Applied = follower.next /\ Applied' = follower.next
      BY <2>0, <3>1, <3>2 DEF Applied
    <3> QED
      BY <1>1, <3>1, <3>2, <3>3 DEF FeedTypeOK
  <2>2. CASE FollowerCrash
    <3>1. /\ follower' = [follower EXCEPT !.on = FALSE, !.page = <<>>]
          /\ crashes < MaxCrashes /\ crashes' = crashes + 1
          /\ UNCHANGED <<libraryVars, log, historyVars, changes>>
      BY <2>2 DEF FollowerCrash
    <3>2. /\ follower' \in [cursor : Nat, next : Nat, page : Seq(Entity), on : BOOLEAN]
          /\ follower'.cursor = follower.cursor /\ ~follower'.on
      BY <1>1, <2>0, <3>1 DEF FeedTypeOK
    <3>3. Applied' = follower.cursor
      BY <3>2 DEF Applied
    <3>4. follower.cursor <= Applied /\ follower.cursor \in Nat
      BY <1>1, Lengths DEF FeedInv
    <3>5. crashes' \in 0..MaxCrashes
      BY <1>1, <3>1, FeedAssumption DEF FeedTypeOK
    <3> QED
      BY <3>1, <3>2, <3>3, <3>4, <3>5
  <2> QED
    BY <2>1, <2>2
<1>3. Applied \in Int
  BY <1>1, Lengths DEF Applied
<1>4. FeedTypeOK'
  BY <1>1, <1>2 DEF FeedTypeOK, libraryVars, historyVars
<1>5. FeedInv'
  BY <1>1, <1>2, <1>3, <1>4, Lengths DEF FeedInv
<1>6. ChangesAhead'
  <2> SUFFICES ASSUME NEW x \in stale \ silent
               PROVE  \E i \in (Applied' + 1)..Len(log) : log[i] = x
    BY <1>2 DEF ChangesAhead, historyVars
  <2>1. PICK i \in (Applied + 1)..Len(log) : log[i] = x
    BY DEF ChangesAhead
  <2> QED
    BY <1>1, <1>2, <1>3, <2>1, Lengths
<1> QED
  BY <1>5, <1>6

LEMMA FeedKeeps == FeedInv /\ ChangesAhead /\ [FeedNext]_feedVars => FeedInv' /\ ChangesAhead'
<1>1. FeedInv /\ ChangesAhead /\ UNCHANGED feedVars => FeedInv' /\ ChangesAhead'
  BY DEF feedVars, libraryVars, followerVars, historyVars, FeedInv, FeedTypeOK, ChangesAhead, Applied
<1> QED
  BY <1>1, LibraryKeeps, FetchKeeps, ApplyKeeps, PersistKeeps DEF FeedNext, FollowStep

-----------------------------------------------------------------------------
(* Theorems *)

LEMMA FeedAlways == TimelineSpec => [](FeedInv /\ ChangesAhead)
<1>1. TimelineInit => FeedInv /\ ChangesAhead
  BY FeedInit_Inv DEF TimelineInit
<1>2. FeedInv /\ ChangesAhead /\ [TimelineNext]_timelineVars => (FeedInv /\ ChangesAhead)'
  <2>1. [TimelineNext]_timelineVars => [FeedNext]_feedVars
    BY DEF TimelineNext, timelineVars, WalkStep, WalkStart, SelectPage, LoadSummary, ReceivePage
  <2> QED
    BY <2>1, FeedKeeps
<1> QED
  BY <1>1, <1>2, PTL DEF TimelineSpec

\* The feed and its follower: no change falls between two pages, between a page
\* and the reading of its entities, or into a crash (sync_changes), for any
\* library and any size of a page.
THEOREM ChangesAheadSafe == TimelineSpec => []ChangesAhead
BY FeedAlways, PTL

-----------------------------------------------------------------------------
(* The walk over the timeline.  The assets of the page come in the order of  *)
(* their keys, all that is listed lies above the cursor, and what is to come *)
(* lies below both.                                                          *)

Keys == [moment : Moment, id : Asset]

LEMMA KeyOrder ==
    ASSUME NEW k \in KeySet, NEW l \in KeySet, NEW m \in KeySet
    PROVE  /\ ~Below(k, k)
           /\ Below(k, l) => ~Below(l, k)
           /\ Below(k, l) /\ Below(l, m) => Below(k, m)
<1>1. ASSUME NEW x \in KeySet
      PROVE  x.moment \in Nat /\ x.id \in Nat
  <2>1. x.moment \in Moment \cup {0} /\ x.id \in Asset \cup {0}
    BY DEF KeySet
  <2>2. Moment \subseteq Nat /\ Asset \subseteq Nat /\ 0 \in Nat
    BY TimelineAssumption
  <2> QED
    BY <2>1, <2>2, Zenon
<1>2. /\ k.moment \in Nat /\ k.id \in Nat /\ l.moment \in Nat /\ l.id \in Nat
      /\ m.moment \in Nat /\ m.id \in Nat
  BY <1>1
<1> QED
  BY <1>2 DEF Below

LEMMA KeyTypes ==
    ASSUME FeedTypeOK
    PROVE  /\ \A a \in Asset : Key(a) \in Keys
           /\ Keys \subseteq KeySet /\ Top \in KeySet /\ Top \notin Keys
BY TimelineAssumption DEF FeedTypeOK, Key, Keys, KeySet, Top

LEMMA Concatenated ==
    ASSUME NEW S, NEW s \in Seq(S), NEW t \in Seq(S)
    PROVE  /\ s \o t \in Seq(S) /\ DOMAIN (s \o t) = 1..(Len(s) + Len(t))
           /\ \A i \in 1..Len(s) : (s \o t)[i] = s[i]
           /\ \A i \in 1..Len(t) : (s \o t)[Len(s) + i] = t[i]
<1>1. /\ s \o t \in Seq(S) /\ Len(s \o t) = Len(s) + Len(t)
      /\ \A i \in 1..(Len(s) + Len(t)) :
            (s \o t)[i] = IF i <= Len(s) THEN s[i] ELSE t[i - Len(s)]
  BY ConcatProperties
<1>2. Len(s) \in Nat /\ Len(t) \in Nat /\ DOMAIN (s \o t) = 1..Len(s \o t)
  BY <1>1, LenProperties
<1>3. ASSUME NEW i \in 1..Len(t)
      PROVE  (s \o t)[Len(s) + i] = t[i]
  <2>1. /\ Len(s) + i \in 1..(Len(s) + Len(t)) /\ ~(Len(s) + i <= Len(s))
        /\ (Len(s) + i) - Len(s) = i
    BY <1>2
  <2> QED
    BY <1>1, <2>1
<1>4. ASSUME NEW i \in 1..Len(s)
      PROVE  (s \o t)[i] = s[i]
  BY <1>1, <1>2
<1> QED
  BY <1>1, <1>2, <1>3, <1>4

-----------------------------------------------------------------------------
PageFacts ==
    \A i \in DOMAIN walk.page :
        /\ walk.page[i] \in Keys
        /\ walk.after = Top \/ Below(walk.page[i], walk.after)
        /\ walk.page[i].id \in walk.steady => walk.page[i] = Key(walk.page[i].id)
        /\ \A j \in DOMAIN walk.page :
              i < j => Below(walk.page[j], walk.page[i]) /\ walk.page[j].id # walk.page[i].id

\* Still to come: on the timeline below the cursor and below the page.
Ahead(a) ==
    /\ walk.on /\ walk.more
    /\ walk.after = Top \/ Below(Key(a), walk.after)
    /\ \A i \in DOMAIN walk.page : Below(Key(a), walk.page[i])

SteadyFacts ==
    \A a \in walk.steady :
        /\ row[a] = "live"
        /\ a \in Listed => walk.after # Top /\ ~Below(Key(a), walk.after)
        /\ a \in Listed \cup InPage \/ Ahead(a)

ListedOnce ==
    \A i, j \in DOMAIN walk.listed :
        i # j /\ walk.listed[i] = walk.listed[j] => walk.listed[i] \notin walk.steady

WalkInv ==
    /\ WalkTypeOK
    /\ walk.loaded <= Len(walk.page)
    /\ ~walk.on => walk.page = <<>>
    /\ PageFacts
    /\ SteadyFacts
    /\ ListedOnce

LEMMA WalkTypes ==
    ASSUME WalkTypeOK
    PROVE  /\ walk.page \in Seq(KeySet) /\ Len(walk.page) \in Nat
           /\ DOMAIN walk.page = 1..Len(walk.page)
           /\ walk.listed \in Seq(Asset) /\ Len(walk.listed) \in Nat
           /\ DOMAIN walk.listed = 1..Len(walk.listed)
           /\ walk.after \in KeySet /\ walk.loaded \in Nat
           /\ walk.steady \subseteq Asset /\ walk.on \in BOOLEAN /\ walk.more \in BOOLEAN
<1>1. /\ walk.page \in Seq(KeySet) /\ walk.listed \in Seq(Asset)
      /\ walk.after \in KeySet /\ walk.loaded \in Nat
      /\ walk.steady \subseteq Asset /\ walk.on \in BOOLEAN /\ walk.more \in BOOLEAN
  BY DEF WalkTypeOK
<1> QED
  BY <1>1, LenProperties

-----------------------------------------------------------------------------
(* The library's steps, which the walk sees as losses of steadiness *)

LEMMA SeesKeeps ==
    ASSUME WalkInv, FeedTypeOK, WalkSees
    PROVE  WalkInv'
<1>1. /\ walk.steady \subseteq Asset
      /\ walk' \in [on : BOOLEAN, after : KeySet, page : Seq(KeySet), loaded : Nat,
                    more : BOOLEAN, listed : Seq(Asset), steady : SUBSET Asset]
      /\ walk'.on = walk.on /\ walk'.after = walk.after /\ walk'.page = walk.page
      /\ walk'.loaded = walk.loaded /\ walk'.more = walk.more /\ walk'.listed = walk.listed
      /\ walk'.steady = walk.steady \ Unsettled
  BY WalkTypes DEF WalkInv, WalkTypeOK, WalkSees
<1>2. \A a \in walk'.steady : a \in walk.steady /\ row'[a] = "live" /\ Key(a)' = Key(a)
  BY <1>1 DEF Unsettled, Key
<1>3. Listed' = Listed /\ InPage' = InPage
  BY <1>1 DEF Listed, InPage
<1>4. PageFacts'
  BY <1>1, <1>2 DEF WalkInv, PageFacts
<1>5. SteadyFacts'
  <2> SUFFICES ASSUME NEW a \in walk'.steady
               PROVE  /\ row'[a] = "live"
                      /\ a \in Listed => walk.after # Top /\ ~Below(Key(a), walk.after)
                      /\ a \in Listed \cup InPage \/ Ahead(a)'
    BY <1>1, <1>2, <1>3 DEF SteadyFacts
  <2>1. Ahead(a) => Ahead(a)'
    BY <1>1, <1>2 DEF Ahead
  <2> QED
    BY <1>2, <2>1 DEF WalkInv, SteadyFacts
<1>6. ListedOnce'
  BY <1>1 DEF WalkInv, ListedOnce
<1> QED
  BY <1>1, <1>4, <1>5, <1>6 DEF WalkInv, WalkTypeOK

-----------------------------------------------------------------------------
(* The walk *)

LEMMA StartKeeps ==
    ASSUME WalkInv, FeedTypeOK, WalkStart
    PROVE  WalkInv'
<1>1. <<>> \in Seq(KeySet) /\ <<>> \in Seq(Asset) /\ Len(<<>>) = 0 /\ DOMAIN <<>> = {}
  BY EmptySeq
<1>2. walk' = [on |-> TRUE, after |-> Top, page |-> <<>>, loaded |-> 0,
               more |-> TRUE, listed |-> <<>>, steady |-> {a \in Asset : row[a] = "live"}]
  BY DEF WalkStart, NoWalk
<1>3. WalkTypeOK'
  BY <1>1, <1>2, KeyTypes DEF WalkTypeOK
<1>4. row' = row
  BY DEF WalkStart, feedVars, libraryVars
<1> QED
  BY <1>1, <1>2, <1>3, <1>4 DEF WalkInv, PageFacts, SteadyFacts, ListedOnce, Ahead, Listed

LEMMA SelectKeeps ==
    ASSUME WalkInv, FeedTypeOK, SelectPage
    PROVE  WalkInv'
<1>0. /\ walk.on /\ walk.page = <<>> /\ walk.more
      /\ row' = row /\ moment' = moment
  BY DEF SelectPage, feedVars, libraryVars
<1>1. PICK s \in Selection(walk.after) :
        walk' = [walk EXCEPT !.page = [i \in DOMAIN s |-> Key(s[i])],
                   !.loaded = 0,
                   !.more = Eligible(walk.after) # {s[i] : i \in DOMAIN s},
                   !.on = s # <<>>]
  BY DEF SelectPage
<1> DEFINE E == Eligible(walk.after)
           others == E \ {s[i] : i \in DOMAIN s}
           page == [i \in DOMAIN s |-> Key(s[i])]
<1>2. PICK n \in 0..TimelineLimit : s \in [1..n -> E]
  BY DEF Selection
<1>3. /\ n \in Nat /\ DOMAIN s = 1..n /\ Len(s) = n /\ s \in Seq(E)
  <2>1. n \in Nat
    BY TimelineAssumption
  <2>2. s \in Seq(E)
    BY <1>2, <2>1, SeqDef
  <2> QED
    BY <1>2, <2>1, <2>2, LenProperties
<1>4. /\ \A i, j \in 1..n : i < j => Below(Key(s[j]), Key(s[i]))
      /\ \A a \in others, i \in 1..n : Below(Key(a), Key(s[i]))
      /\ others # {} => n = TimelineLimit
  BY <1>3 DEF Selection
<1>5. /\ E \subseteq Asset
      /\ \A a \in E : row[a] = "live" /\ (walk.after = Top \/ Below(Key(a), walk.after))
      /\ \A a \in Asset : Key(a) \in Keys /\ Key(a) \in KeySet /\ Key(a).id = a
  BY KeyTypes DEF Eligible, Key
<1>6. /\ page \in [1..n -> KeySet] /\ page \in Seq(KeySet) /\ Len(page) = n
      /\ \A i \in 1..n : page[i] = Key(s[i]) /\ s[i] \in E
  <2>1. page \in [1..n -> KeySet]
    BY <1>2, <1>3, <1>5
  <2>2. page \in Seq(KeySet)
    BY <1>3, <2>1, SeqDef
  <2> QED
    BY <1>2, <1>3, <2>1, <2>2, LenProperties
<1>7. /\ walk'.page = page /\ walk'.loaded = 0 /\ walk'.more = (E # {s[i] : i \in DOMAIN s})
      /\ walk'.on = (s # <<>>) /\ walk'.after = walk.after /\ walk'.listed = walk.listed
      /\ walk'.steady = walk.steady
      /\ walk' \in [on : BOOLEAN, after : KeySet, page : Seq(KeySet), loaded : Nat,
                    more : BOOLEAN, listed : Seq(Asset), steady : SUBSET Asset]
  <2> HIDE DEF E, page
  <2> QED
    BY <1>1, <1>6 DEF WalkInv, WalkTypeOK, E, page
<1> HIDE DEF E, page, others
<1>8. PageFacts'
  <2> SUFFICES ASSUME NEW i \in 1..n
               PROVE  /\ page[i] \in Keys
                      /\ walk.after = Top \/ Below(page[i], walk.after)
                      /\ page[i].id \in walk.steady => page[i] = Key(page[i].id)
                      /\ \A j \in 1..n : i < j => Below(page[j], page[i]) /\ page[j].id # page[i].id
    <3>1. DOMAIN page = 1..n
      BY <1>6
    <3> QED
      BY <1>0, <1>7, <3>1 DEF PageFacts, Key
  <2>1. /\ page[i] = Key(s[i]) /\ s[i] \in E /\ page[i] \in Keys /\ page[i].id = s[i]
    BY <1>5, <1>6
  <2>2. ASSUME NEW j \in 1..n, i < j
        PROVE  Below(page[j], page[i]) /\ page[j].id # page[i].id
    <3>1. page[j] = Key(s[j]) /\ s[j] \in E /\ page[j].id = s[j] /\ Key(s[j]) \in KeySet
      BY <1>5, <1>6
    <3>2. Below(Key(s[j]), Key(s[i]))
      BY <1>4, <2>2
    <3> QED
      BY <2>1, <3>1, <3>2, KeyOrder
  <2> QED
    BY <1>5, <2>1, <2>2
<1>9. SteadyFacts'
  <2> SUFFICES ASSUME NEW a \in walk.steady
               PROVE  /\ row[a] = "live"
                      /\ a \in Listed' => walk.after # Top /\ ~Below(Key(a), walk.after)
                      /\ a \in Listed' \cup InPage' \/ Ahead(a)'
    BY <1>0, <1>7 DEF SteadyFacts, Key
  <2>1. Listed' = Listed
    BY <1>7 DEF Listed
  <2>2. /\ row[a] = "live" /\ a \in Asset
        /\ a \in Listed => walk.after # Top /\ ~Below(Key(a), walk.after)
        /\ a \in Listed \/ Ahead(a)
    BY <1>0, WalkTypes, EmptySeq DEF WalkInv, SteadyFacts, InPage
  <2>3. CASE a \in Listed
    BY <2>1, <2>2, <2>3
  <2>4. CASE a \notin Listed
    <3>1. a \in E
      BY <2>2, <2>4 DEF Ahead, Eligible, E
    <3>2. CASE a \in others
      <4>1. n >= 1
        BY <1>4, <3>2, TimelineAssumption
      <4>2. s # <<>>
        BY <1>3, <4>1, EmptySeq
      <4>3. \A i \in 1..n : Below(Key(a), page[i])
        BY <1>4, <1>6, <3>2
      <4>4. DOMAIN page = 1..n
        BY <1>6
      <4>5. E # {s[i] : i \in DOMAIN s}
        BY <3>1, <3>2 DEF others
      <4>6. Key(a)' = Key(a)
        BY <1>0 DEF Key
      <4>7. walk'.on /\ walk'.more
        BY <1>7, <4>2, <4>5
      <4>8. walk'.after = Top \/ Below(Key(a), walk'.after)
        BY <1>7, <2>2, <2>4 DEF Ahead
      <4> QED
        BY <1>7, <2>1, <2>2, <2>4, <4>3, <4>4, <4>6, <4>7, <4>8 DEF Ahead
    <3>3. CASE a \notin others
      <4>1. PICK i \in 1..n : a = s[i]
        BY <1>3, <3>1, <3>3 DEF others
      <4>2. page[i].id = a /\ i \in DOMAIN page
        BY <1>5, <1>6, <4>1
      <4> QED
        BY <1>7, <2>2, <2>4, <2>1, <4>2 DEF InPage
    <3> QED
      BY <3>2, <3>3
  <2> QED
    BY <2>3, <2>4
<1>10. ListedOnce'
  BY <1>7 DEF WalkInv, ListedOnce
<1>11. s = <<>> => page = <<>>
  <2> SUFFICES ASSUME s = <<>> PROVE page = <<>>
    OBVIOUS
  <2>1. n = 0
    BY <1>3, EmptySeq
  <2> QED
    BY <1>6, <2>1, EmptySeq
<1> QED
  BY <1>6, <1>7, <1>8, <1>9, <1>10, <1>11 DEF WalkInv, WalkTypeOK

LEMMA LoadKeeps ==
    ASSUME WalkInv, FeedTypeOK, LoadSummary
    PROVE  WalkInv'
<1>0. /\ walk.page # <<>> /\ walk.loaded < Len(walk.page)
      /\ row' = row /\ moment' = moment
  BY DEF LoadSummary, feedVars, libraryVars
<1>1. walk.on
  BY <1>0 DEF WalkInv
<1>2. CASE walk' = [walk EXCEPT !.loaded = @ + 1]
  <2>1. /\ walk'.page = walk.page /\ walk'.loaded = walk.loaded + 1 /\ walk'.more = walk.more
        /\ walk'.on = walk.on /\ walk'.after = walk.after /\ walk'.listed = walk.listed
        /\ walk'.steady = walk.steady
        /\ walk' \in [on : BOOLEAN, after : KeySet, page : Seq(KeySet), loaded : Nat,
                      more : BOOLEAN, listed : Seq(Asset), steady : SUBSET Asset]
    BY <1>2, WalkTypes, SMTT(60) DEF WalkInv, WalkTypeOK
  <2>2. walk'.loaded <= Len(walk'.page)
    BY <1>0, <2>1, WalkTypes DEF WalkInv
  <2>3. PageFacts' /\ SteadyFacts' /\ ListedOnce'
    BY <1>0, <2>1 DEF WalkInv, PageFacts, SteadyFacts, ListedOnce, Ahead, Key, Listed, InPage
  <2> QED
    BY <2>1, <2>2, <2>3 DEF WalkInv, WalkTypeOK
<1>3. CASE walk' = [walk EXCEPT !.page = <<>>, !.loaded = 0, !.more = TRUE]
  <2>0. <<>> \in Seq(KeySet) /\ Len(<<>>) = 0 /\ DOMAIN <<>> = {}
    BY EmptySeq
  <2>1. /\ walk'.page = <<>> /\ walk'.loaded = 0 /\ walk'.more = TRUE
        /\ walk'.on = walk.on /\ walk'.after = walk.after /\ walk'.listed = walk.listed
        /\ walk'.steady = walk.steady
        /\ walk' \in [on : BOOLEAN, after : KeySet, page : Seq(KeySet), loaded : Nat,
                      more : BOOLEAN, listed : Seq(Asset), steady : SUBSET Asset]
    BY <1>3, <2>0, WalkTypes DEF WalkInv, WalkTypeOK
  <2>2. SteadyFacts'
    <3> SUFFICES ASSUME NEW a \in walk.steady
                 PROVE  /\ row[a] = "live"
                        /\ a \in Listed => walk.after # Top /\ ~Below(Key(a), walk.after)
                        /\ a \in Listed \/ walk.after = Top \/ Below(Key(a), walk.after)
      BY <1>0, <1>1, <2>0, <2>1 DEF SteadyFacts, Ahead, Key, Listed
    <3>1. a \in InPage => walk.after = Top \/ Below(Key(a), walk.after)
      BY DEF WalkInv, PageFacts, InPage
    <3> QED
      BY <3>1 DEF WalkInv, SteadyFacts, Ahead
  <2> QED
    BY <2>0, <2>1, <2>2 DEF WalkInv, WalkTypeOK, PageFacts, ListedOnce
<1> QED
  BY <1>2, <1>3 DEF LoadSummary

LEMMA ReceiveKeeps ==
    ASSUME WalkInv, FeedTypeOK, ReceivePage
    PROVE  WalkInv'
<1> DEFINE n == Len(walk.page)
           m == Len(walk.listed)
           ids == [i \in DOMAIN walk.page |-> walk.page[i].id]
           last == walk.page[n]
<1>0. /\ walk.page # <<>> /\ walk.on
      /\ row' = row /\ moment' = moment
  BY DEF ReceivePage, feedVars, libraryVars, WalkInv
<1>1. /\ n \in Nat \ {0} /\ DOMAIN walk.page = 1..n /\ n \in 1..n
      /\ m \in Nat /\ DOMAIN walk.listed = 1..m /\ walk.listed \in Seq(Asset)
  BY <1>0, WalkTypes, EmptySeq DEF WalkInv
<1>2. \A i \in 1..n : walk.page[i] \in Keys /\ walk.page[i].id \in Asset
  BY <1>1 DEF WalkInv, PageFacts, Keys
<1>3. ids \in Seq(Asset) /\ Len(ids) = n /\ \A i \in 1..n : ids[i] = walk.page[i].id
  <2>1. ids \in [1..n -> Asset] /\ n \in Nat
    BY <1>1, <1>2
  <2>2. ids \in Seq(Asset)
    BY <2>1, SeqDef
  <2> QED
    BY <1>1, <2>1, <2>2, LenProperties
<1>4. /\ walk.listed \o ids \in Seq(Asset) /\ DOMAIN (walk.listed \o ids) = 1..(m + n)
      /\ \A i \in 1..m : (walk.listed \o ids)[i] = walk.listed[i]
      /\ \A i \in 1..n : (walk.listed \o ids)[m + i] = ids[i]
  <2>1. walk.listed \in Seq(Asset) /\ ids \in Seq(Asset) /\ Len(walk.listed) = m /\ Len(ids) = n
    BY <1>1, <1>3
  <2>2. \A s, t \in Seq(Asset) :
           /\ s \o t \in Seq(Asset) /\ DOMAIN (s \o t) = 1..(Len(s) + Len(t))
           /\ \A i \in 1..Len(s) : (s \o t)[i] = s[i]
           /\ \A i \in 1..Len(t) : (s \o t)[Len(s) + i] = t[i]
    BY Concatenated
  <2> HIDE DEF ids, m, n
  <2>3. /\ walk.listed \o ids \in Seq(Asset)
        /\ DOMAIN (walk.listed \o ids) = 1..(Len(walk.listed) + Len(ids))
        /\ \A i \in 1..Len(walk.listed) : (walk.listed \o ids)[i] = walk.listed[i]
        /\ \A i \in 1..Len(ids) : (walk.listed \o ids)[Len(walk.listed) + i] = ids[i]
    BY <2>1, <2>2
  <2> QED
    BY <2>1, <2>3
<1>5. <<>> \in Seq(KeySet) /\ Len(<<>>) = 0 /\ DOMAIN <<>> = {}
  BY EmptySeq
<1>6. last \in Keys /\ last \in KeySet /\ last # Top
  BY <1>1, <1>2, KeyTypes
<1>7. walk' = [walk EXCEPT !.page = <<>>, !.loaded = 0, !.listed = walk.listed \o ids,
                 !.after = last, !.on = walk.more]
  BY DEF ReceivePage
<1> HIDE DEF ids, last, n, m
<1>8. /\ walk'.page = <<>> /\ walk'.loaded = 0 /\ walk'.more = walk.more
      /\ walk'.on = walk.more /\ walk'.after = last /\ walk'.listed = walk.listed \o ids
      /\ walk'.steady = walk.steady
      /\ walk' \in [on : BOOLEAN, after : KeySet, page : Seq(KeySet), loaded : Nat,
                    more : BOOLEAN, listed : Seq(Asset), steady : SUBSET Asset]
  BY <1>4, <1>5, <1>6, <1>7, WalkTypes DEF WalkInv, WalkTypeOK
<1>9. /\ \A i \in 1..m : walk'.listed[i] = walk.listed[i]
      /\ \A i \in 1..n : walk'.listed[m + i] = walk.page[i].id
      /\ DOMAIN walk'.listed = 1..(m + n)
  BY <1>3, <1>4, <1>8
<1>10. Listed' = Listed \cup InPage
  <2>1. \A i \in 1..(m + n) : i \in 1..m \/ \E j \in 1..n : i = m + j
    <3> SUFFICES ASSUME NEW i \in 1..(m + n), i \notin 1..m PROVE i - m \in 1..n
      BY <1>1
    <3> QED
      BY <1>1
  <2>2. Listed' \subseteq Listed \cup InPage
    <3> SUFFICES ASSUME NEW i \in 1..(m + n) PROVE walk'.listed[i] \in Listed \cup InPage
      BY <1>9 DEF Listed
    <3>1. CASE i \in 1..m
      BY <1>1, <1>9, <3>1 DEF Listed
    <3>2. CASE \E j \in 1..n : i = m + j
      BY <1>1, <1>9, <3>2 DEF InPage
    <3> QED
      BY <2>1, <3>1, <3>2
  <2>3. \A i \in 1..m : i \in 1..(m + n)
    BY <1>1
  <2>4. \A i \in 1..n : m + i \in 1..(m + n)
    BY <1>1
  <2> QED
    BY <1>1, <1>9, <2>2, <2>3, <2>4 DEF Listed, InPage
<1>11. \A i \in 1..n : walk.page[i].id \in walk.steady => walk.page[i] = Key(walk.page[i].id)
  BY <1>1 DEF WalkInv, PageFacts
<1>12. \A a \in walk.steady : Key(a)' = Key(a) /\ Key(a) \in KeySet /\ a \in Asset
  BY <1>0, KeyTypes, WalkTypes DEF WalkInv, Key
<1>13. \A i \in 1..n : i = n \/ Below(last, walk.page[i])
  BY <1>1 DEF WalkInv, PageFacts, last
<1>14. SteadyFacts'
  <2> SUFFICES ASSUME NEW a \in walk.steady
               PROVE  /\ row[a] = "live"
                      /\ a \in Listed \cup InPage => ~Below(Key(a), last)
                      /\ a \in Listed \cup InPage \/ (walk.more /\ Below(Key(a), last))
    BY <1>0, <1>5, <1>6, <1>8, <1>10, <1>12 DEF SteadyFacts, Ahead
  <2>1. CASE a \in Listed
    <3>1. walk.after # Top /\ ~Below(Key(a), walk.after) /\ row[a] = "live"
      BY <2>1 DEF WalkInv, SteadyFacts
    <3>2. Below(last, walk.after) /\ walk.after \in KeySet
      BY <1>1, <3>1, WalkTypes DEF WalkInv, PageFacts, last
    <3> QED
      BY <1>6, <1>12, <2>1, <3>1, <3>2, KeyOrder
  <2>2. CASE a \in InPage
    <3>1. PICK i \in 1..n : walk.page[i].id = a
      BY <1>1, <2>2 DEF InPage
    <3>2. walk.page[i] = Key(a) /\ (i = n \/ Below(last, Key(a)))
      BY <1>11, <1>13, <3>1
    <3>3. ~Below(Key(a), last)
      BY <1>6, <1>12, <3>2, KeyOrder DEF last
    <3> QED
      BY <2>2, <3>3 DEF WalkInv, SteadyFacts
  <2>3. CASE a \notin Listed \cup InPage
    BY <1>1, <2>3 DEF WalkInv, SteadyFacts, Ahead, last
  <2> QED
    BY <2>1, <2>2, <2>3
<1>15. ListedOnce'
  <2> SUFFICES ASSUME NEW i \in 1..(m + n), NEW j \in 1..(m + n), i < j,
                      walk'.listed[i] = walk'.listed[j], walk'.listed[i] \in walk.steady
               PROVE  FALSE
    <3>1. \A i, j \in 1..(m + n) : i # j => i < j \/ j < i
      BY <1>1
    <3> QED
      BY <1>8, <1>9, <3>1 DEF ListedOnce
  <2> DEFINE a == walk'.listed[i]
  <2>1. CASE j \in 1..m
    <3>1. i \in 1..m /\ i # j
      BY <1>1, <2>1
    <3>2. walk.listed[i] = walk.listed[j] /\ walk.listed[i] \in walk.steady
      BY <1>9, <2>1, <3>1
    <3>3. i \in DOMAIN walk.listed /\ j \in DOMAIN walk.listed
      BY <1>1, <2>1, <3>1
    <3> QED
      BY <3>1, <3>2, <3>3 DEF WalkInv, ListedOnce
  <2>2. CASE i \in 1..m /\ j \notin 1..m
    <3>1. j - m \in 1..n /\ j = m + (j - m)
      BY <1>1, <2>2
    <3>2. PICK k \in 1..n : walk.page[k].id = a
      BY <1>9, <3>1
    <3>3. a \in Listed
      BY <1>1, <1>9, <2>2 DEF Listed
    <3>4. walk.after # Top /\ ~Below(Key(a), walk.after)
      BY <3>3 DEF WalkInv, SteadyFacts
    <3> QED
      BY <1>1, <1>11, <3>2, <3>4 DEF WalkInv, PageFacts
  <2>3. CASE i \notin 1..m
    <3>1. i - m \in 1..n /\ j - m \in 1..n /\ i - m < j - m /\ i = m + (i - m) /\ j = m + (j - m)
      BY <1>1, <2>3
    <3>2. walk.page[i - m].id = walk.page[j - m].id
      BY <1>9, <3>1
    <3> QED
      BY <1>1, <3>1, <3>2 DEF WalkInv, PageFacts
  <2> QED
    BY <2>1, <2>2, <2>3
<1> QED
  BY <1>5, <1>8, <1>14, <1>15 DEF WalkInv, WalkTypeOK, PageFacts

-----------------------------------------------------------------------------
(* Theorems *)

LEMMA WalkAlways == TimelineSpec => []WalkInv
<1>1. TimelineInit => WalkInv
  <2>1. <<>> \in Seq(KeySet) /\ <<>> \in Seq(Asset) /\ Len(<<>>) = 0 /\ DOMAIN <<>> = {}
    BY EmptySeq
  <2>2. Top \in KeySet
    BY DEF Top, KeySet
  <2> QED
    BY <2>1, <2>2 DEF TimelineInit, NoWalk, WalkInv, WalkTypeOK, PageFacts, SteadyFacts, ListedOnce
<1>2. WalkInv /\ FeedTypeOK /\ [TimelineNext]_timelineVars => WalkInv'
  <2> SUFFICES ASSUME WalkInv, FeedTypeOK, [TimelineNext]_timelineVars PROVE WalkInv'
    OBVIOUS
  <2>1. CASE FeedNext /\ WalkSees
    BY <2>1, SeesKeeps
  <2>2. CASE WalkStep
    BY <2>2, StartKeeps, SelectKeeps, LoadKeeps, ReceiveKeeps DEF WalkStep
  <2>3. CASE UNCHANGED timelineVars
    BY <2>3 DEF timelineVars, feedVars, libraryVars, WalkInv, WalkTypeOK, PageFacts, SteadyFacts,
                ListedOnce, Ahead, Key, Listed, InPage
  <2> QED
    BY <2>1, <2>2, <2>3 DEF TimelineNext
<1>3. FeedInv => FeedTypeOK
  BY DEF FeedInv
<1> QED
  BY <1>1, <1>2, <1>3, FeedAlways, PTL DEF TimelineSpec

\* The follower's page is what the feed has at its place (sync_changes), and the
\* reader reads its page from the front (timeline), always.
THEOREM TimelineCorrect == TimelineSpec => []TimelineInv
<1>1. FeedInv /\ WalkInv => TimelineInv
  BY DEF WalkInv, TimelineInv
<1> QED
  BY <1>1, FeedAlways, WalkAlways, PTL

\* An asset that keeps its place while the reader walks is neither skipped nor
\* listed twice (timeline, load_asset_summary), for any library and page size.
THEOREM SteadySafe == TimelineSpec => []SteadyAssetsListed
<1>1. WalkInv => SteadyAssetsListed
  <2> SUFFICES ASSUME WalkInv PROVE SteadyAssetsListed
    OBVIOUS
  <2>1. \A a \in walk.steady : Ahead(a) => a \in Eligible(walk.after)
    BY WalkTypes DEF WalkInv, SteadyFacts, Ahead, Eligible
  <2> QED
    BY <2>1 DEF WalkInv, SteadyFacts, ListedOnce, SteadyAssetsListed, Ahead
<1> QED
  BY <1>1, WalkAlways, PTL

=============================================================================
