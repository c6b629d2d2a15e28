---------------------------- MODULE LibraryFeed -----------------------------
(***************************************************************************)
(* The library of one account (library.rs, audit.rs and the asset upsert   *)
(* of create_upload) and its change feed: every handler is one SQLite      *)
(* transaction that changes entities and appends an event to               *)
(* account_changes.  A follower reads the feed page by page as the         *)
(* protocol asks: it reads every entity a page names, and only then        *)
(* persists the new cursor.                                                *)
(*                                                                         *)
(* Entities are assets, tags and albums, each read by a request of its own:*)
(* an asset with its state and the names of its tags, a tag or an album    *)
(* with the number of its assets.  Of their content the model keeps what   *)
(* the guards and the order of the timeline need; whether the follower's   *)
(* copy is current is the set `stale'.  Sequence numbers are the positions *)
(* of `log': SQLite has one writer, so they follow the order of commits.   *)
(***************************************************************************)
EXTENDS Naturals, Sequences

CONSTANTS
    Asset,       \* asset rows; one that is deleted never returns
    Tag, Album,  \* tags and albums
    Moment,      \* values of assets.source_created_at_ms
    FeedLimit,   \* events of a page of the feed
    MaxChanges,  \* bound on transactions
    MaxCrashes   \* bound on crashes of the follower

Group  == Tag \cup Album
Entity == Asset \cup Group

ASSUME EntityAssumption ==
    /\ Asset \cap Group = {}
    /\ Tag \cap Album = {}

ASSUME FeedAssumption ==
    /\ FeedLimit \in Nat \ {0}
    /\ MaxChanges \in Nat
    /\ MaxCrashes \in Nat

VARIABLES
    row,       \* assets: no row yet, deleted_at NULL or set, or deleted
    moment,    \* assets.source_created_at_ms
    stored,    \* the assets that have a resource
    members,   \* tag_assets and album_assets
    existing,  \* the tags and albums with a row
    log,       \* account_changes of the account, by sequence
    follower,  \* the cursor, and the page it works on
    stale,     \* history: entities changed since the follower read them
    silent,    \* history: of these, the ones last changed without an event
    changes, crashes

libraryVars  == <<row, moment, stored, members, existing>>
followerVars == <<follower, crashes>>
historyVars  == <<stale, silent>>
feedVars == <<libraryVars, log, followerVars, historyVars, changes>>

Present(a) == row[a] \in {"live", "trashed"}

FeedTypeOK ==
    /\ row \in [Asset -> {"none", "live", "trashed", "deleted"}]
    /\ moment \in [Asset -> Moment]
    /\ stored \in SUBSET Asset
    /\ members \in [Group -> SUBSET Asset]
    /\ existing \in SUBSET Group
    /\ log \in Seq(Entity)
    /\ follower \in [cursor : Nat, next : Nat, page : Seq(Entity), on : BOOLEAN]
    /\ stale \in SUBSET Entity
    /\ silent \in SUBSET Entity
    /\ changes \in 0..MaxChanges
    /\ crashes \in 0..MaxCrashes

-----------------------------------------------------------------------------
(* The handlers *)

Change == changes < MaxChanges /\ changes' = changes + 1

\* Mutant of Announce: the event of a change to an asset is forgotten.
AnnounceGroups(e, changed) ==
    /\ log' = IF e \in Group THEN Append(log, e) ELSE log
    /\ stale' = stale \cup changed
    /\ silent' = (silent \cup changed) \ {e}
    /\ UNCHANGED followerVars

\* The end of a transaction: record_change for entity e, whatever else changed.
Announce(e, changed) ==
    /\ log' = Append(log, e)
    /\ stale' = stale \cup changed
    /\ silent' = (silent \cup changed) \ {e}
    /\ UNCHANGED followerVars

\* The asset upsert of create_upload: the row is created, or taken out of the
\* trash under the date of the request.  It records no event; the commit or the
\* deduplication that may follow does.
UpsertAsset(a, m) ==
    /\ Change
    /\ row[a] # "deleted"
    /\ row[a] # "live" \/ moment[a] # m
    /\ row' = [row EXCEPT ![a] = "live"]
    /\ moment' = [moment EXCEPT ![a] = m]
    /\ stale' = stale \cup {a}
    /\ silent' = silent \cup {a}
    /\ UNCHANGED <<stored, members, existing, log, followerVars>>

\* commit_metadata, or the second transaction of the deduplicating create.
StoreResource(a) ==
    /\ Change
    /\ Present(a)
    /\ stored' = stored \cup {a}
    /\ Announce(a, {a})
    /\ UNCHANGED <<row, moment, members, existing>>

\* update_asset: favourite and archived.
UpdateAsset(a) ==
    /\ Change
    /\ Present(a)
    /\ Announce(a, {a})
    /\ UNCHANGED libraryVars

\* set_trashed, for trash_asset and restore_asset.
SetTrashed(a, state) ==
    /\ Change
    /\ Present(a)
    /\ row' = [row EXCEPT ![a] = state]
    /\ Announce(a, {a})
    /\ UNCHANGED <<moment, stored, members, existing>>

\* delete_asset_permanently: only a trashed asset that has a resource.  The
\* memberships are deleted with it, and no event names the tags and albums.
DeletePermanently(a) ==
    /\ Change
    /\ row[a] = "trashed"
    /\ a \in stored
    /\ row' = [row EXCEPT ![a] = "deleted"]
    /\ members' = [g \in Group |-> members[g] \ {a}]
    /\ Announce(a, {a} \cup {g \in Group : a \in members[g]})
    /\ UNCHANGED <<moment, stored, existing>>

CreateTag(t) ==
    /\ Change
    /\ t \notin existing
    /\ existing' = existing \cup {t}
    /\ Announce(t, {t})
    /\ UNCHANGED <<row, moment, stored, members>>

\* The names of an asset's tags are part of the asset, but the event of
\* set_tag_assets names the tag only.
SetTagAssets(t, as) ==
    /\ Change
    /\ t \in existing
    /\ members' = [members EXCEPT ![t] = {a \in as : Present(a)}]
    /\ Announce(t, {t} \cup {a \in Asset : (a \in members[t]) # (a \in members'[t])})
    /\ UNCHANGED <<row, moment, stored, existing>>

\* change_tag_asset, for add_tag_asset and remove_tag_asset: the event names the
\* asset; the number of the tag's assets changes without one.
ChangeTagAsset(t, a, add) ==
    /\ Change
    /\ t \in existing
    /\ Present(a)
    /\ members' = [members EXCEPT ![t] = IF add THEN @ \cup {a} ELSE @ \ {a}]
    /\ Announce(a, {a} \cup (IF members'[t] # members[t] THEN {t} ELSE {}))
    /\ UNCHANGED <<row, moment, stored, existing>>

\* sync_album: a complete scan replaces the members, a batch adds to them.
SyncAlbum(b, as, replace) ==
    /\ Change
    /\ existing' = existing \cup {b}
    /\ members' = [members EXCEPT ![b] =
         (IF replace THEN {} ELSE @) \cup {a \in as : Present(a)}]
    /\ Announce(b, {b})
    /\ UNCHANGED <<row, moment, stored>>

-----------------------------------------------------------------------------
(* sync_changes and its follower *)

\* The page after a cursor: at most FeedLimit events.
Page(after) ==
    SubSeq(log, after + 1,
           IF Len(log) < after + FeedLimit THEN Len(log) ELSE after + FeedLimit)

\* Mutant of NextSequence: the sequence of the row that is fetched to see
\* whether there is more.
NextSequenceOfProbe(after) ==
    IF Len(log) > after + FeedLimit THEN after + FeedLimit + 1
    ELSE after + Len(Page(after))

\* Mutant of NextSequence: the cursor of the request is returned.
NextSequenceAsGiven(after) == after

\* The sequence of the last event of the page, or the cursor itself.
NextSequence(after) == after + Len(Page(after))

FetchPage ==
    /\ ~follower.on
    /\ follower.cursor < Len(log)
    /\ follower' = [follower EXCEPT !.on = TRUE,
                      !.page = Page(follower.cursor),
                      !.next = NextSequence(follower.cursor)]
    /\ UNCHANGED <<libraryVars, log, historyVars, changes, crashes>>

\* The entity is read.  load_asset_summary reads its tables one after the other;
\* what changes after the first of them counts as changed after the reading.
ApplyEvent ==
    /\ follower.on
    /\ follower.page # <<>>
    /\ stale' = stale \ {Head(follower.page)}
    /\ silent' = silent \ {Head(follower.page)}
    /\ follower' = [follower EXCEPT !.page = Tail(@)]
    /\ UNCHANGED <<libraryVars, log, changes, crashes>>

PersistCursor ==
    /\ follower.on
    /\ follower.page = <<>>
    /\ follower' = [follower EXCEPT !.on = FALSE, !.cursor = follower.next]
    /\ UNCHANGED <<libraryVars, log, historyVars, changes, crashes>>

\* What it has read is stored, the page and the new cursor are lost.
FollowerCrash ==
    /\ crashes < MaxCrashes
    /\ crashes' = crashes + 1
    /\ follower' = [follower EXCEPT !.on = FALSE, !.page = <<>>]
    /\ UNCHANGED <<libraryVars, log, historyVars, changes>>

-----------------------------------------------------------------------------
\* An account with any library whose follower is up to date; the positions of
\* the log count from there.
FeedInit ==
    /\ row \in [Asset -> {"none", "live", "trashed"}]
    /\ moment \in [Asset -> Moment]
    /\ stored = {a \in Asset : row[a] # "none"}
    /\ members = [g \in Group |-> {}]
    /\ existing = {}
    /\ log = <<>>
    /\ follower = [cursor |-> 0, next |-> 0, page |-> <<>>, on |-> FALSE]
    /\ stale = {}
    /\ silent = {}
    /\ changes = 0
    /\ crashes = 0

AssetStep(a) ==
    \/ \E m \in Moment : UpsertAsset(a, m)
    \/ StoreResource(a)
    \/ UpdateAsset(a)
    \/ \E state \in {"live", "trashed"} : SetTrashed(a, state)
    \/ DeletePermanently(a)
    \/ \E t \in Tag, add \in BOOLEAN : ChangeTagAsset(t, a, add)

GroupStep ==
    \/ \E t \in Tag : CreateTag(t) \/ \E as \in SUBSET Asset : SetTagAssets(t, as)
    \/ \E b \in Album, as \in SUBSET Asset, replace \in BOOLEAN : SyncAlbum(b, as, replace)

LibraryStep == (\E a \in Asset : AssetStep(a)) \/ GroupStep

FollowStep == FetchPage \/ ApplyEvent \/ PersistCursor

FeedNext == LibraryStep \/ FollowStep \/ FollowerCrash

FeedSpec == FeedInit /\ [][FeedNext]_feedVars

-----------------------------------------------------------------------------
(* Properties *)

\* The position of the feed up to which the follower has applied its events.
Applied ==
    IF follower.on THEN follower.next - Len(follower.page) ELSE follower.cursor

\* The page in hand is what the feed has between that position and the cursor
\* to come: it skips nothing, and the cursor never runs ahead of the feed.
FeedInv ==
    /\ FeedTypeOK
    /\ follower.cursor <= Applied
    /\ Applied <= Len(log)
    /\ follower.on =>
         /\ follower.next <= Len(log)
         /\ follower.page = SubSeq(log, Applied + 1, follower.next)

\* No change falls between two pages, between a page and the reading of its
\* entities, or into a crash of the follower: an entity the follower has not
\* seen as it is has an event the follower has yet to apply, unless it was last
\* changed by a transaction whose event names another entity, or none.
ChangesAhead ==
    \A e \in stale \ silent : \E i \in (Applied + 1)..Len(log) : log[i] = e

\* When the changes stop, the follower gets to know all of them but these.
FollowerConverges == <>[](stale \subseteq silent)

=============================================================================
