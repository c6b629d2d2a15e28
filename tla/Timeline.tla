------------------------------ MODULE Timeline ------------------------------
(***************************************************************************)
(* The timeline (timeline, load_asset_summary in library.rs) beside the    *)
(* library's handlers: a reader walks the live assets page by page, newest *)
(* first, with the key of the last asset as the cursor of the next page.   *)
(* A page selects its rows first and then reads them one after the other;  *)
(* if one has been deleted meanwhile the request fails as a whole, and the *)
(* reader asks for the page again.                                         *)
(***************************************************************************)
EXTENDS LibraryFeed

CONSTANT TimelineLimit   \* assets of a page

\* Asset ids are compared as SQLite compares them.
ASSUME TimelineAssumption ==
    /\ Asset \subseteq Nat
    /\ Moment \subseteq Nat \ {0}
    /\ TimelineLimit \in Nat \ {0}

VARIABLE walk
    \* on: a walk is under way; after: the key the next page starts below;
    \* page: the keys of the page's rows; loaded: how many of them are read;
    \* more: whether rows are left after it; listed: the assets of the pages
    \* received, in order.
    \* steady: history, the assets that have been on the timeline, under one
    \* date, since the walk began.

timelineVars == <<feedVars, walk>>

\* A position of the order `source_created_at_ms DESC, id DESC'.
Key(a) == [moment |-> moment[a], id |-> a]

\* Mutant of Below: the row of the cursor belongs to the next page.
BelowOrAt(k, l) == k.moment < l.moment \/ (k.moment = l.moment /\ k.id <= l.id)

\* k comes after l on the timeline.
Below(k, l) == k.moment < l.moment \/ (k.moment = l.moment /\ k.id < l.id)

\* The cursor of the first request: above everything.
Top == [moment |-> 0, id |-> 0]

Eligible(after) ==
    {a \in Asset : row[a] = "live" /\ (after = Top \/ Below(Key(a), after))}

\* The first assets of the timeline below the cursor, at most a page of them.
Selection(after) ==
    {s \in UNION {[1..n -> Eligible(after)] : n \in 0..TimelineLimit} :
        /\ \A i \in DOMAIN s : \A j \in (i + 1)..Len(s) : Below(Key(s[j]), Key(s[i]))
        /\ LET others == Eligible(after) \ {s[i] : i \in DOMAIN s}
           IN  /\ \A a \in others, i \in DOMAIN s : Below(Key(a), Key(s[i]))
               /\ others # {} => Len(s) = TimelineLimit}

NoWalk == [on |-> FALSE, after |-> Top, page |-> <<>>, loaded |-> 0,
           more |-> FALSE, listed |-> <<>>, steady |-> {}]

KeySet == [moment : Moment \cup {0}, id : Asset \cup {0}]

WalkTypeOK ==
    walk \in [on : BOOLEAN, after : KeySet, page : Seq(KeySet), loaded : Nat,
              more : BOOLEAN, listed : Seq(Asset), steady : SUBSET Asset]

-----------------------------------------------------------------------------
(* The walk *)

\* The assets that lose their place: no longer live, or under another date.
Unsettled == {a \in Asset : row'[a] # "live" \/ moment'[a] # moment[a]}

WalkSees == walk' = [walk EXCEPT !.steady = @ \ Unsettled]

WalkStart ==
    /\ ~walk.on
    /\ walk' = [NoWalk EXCEPT !.on = TRUE, !.more = TRUE,
                  !.steady = {a \in Asset : row[a] = "live"}]
    /\ UNCHANGED feedVars

SelectPage ==
    /\ walk.on
    /\ walk.page = <<>>
    /\ walk.more
    /\ \E s \in Selection(walk.after) :
         walk' = [walk EXCEPT !.page = [i \in DOMAIN s |-> Key(s[i])],
                    !.loaded = 0,
                    !.more = Eligible(walk.after) # {s[i] : i \in DOMAIN s},
                    !.on = s # <<>>]
    /\ UNCHANGED feedVars

\* load_asset_summary of the next row; a deleted one fails the request.
LoadSummary ==
    /\ walk.page # <<>>
    /\ walk.loaded < Len(walk.page)
    /\ walk' = IF Present(walk.page[walk.loaded + 1].id)
               THEN [walk EXCEPT !.loaded = @ + 1]
               ELSE [walk EXCEPT !.page = <<>>, !.loaded = 0, !.more = TRUE]
    /\ UNCHANGED feedVars

\* The page is received: its last row is the next cursor.
ReceivePage ==
    /\ walk.page # <<>>
    /\ walk.loaded = Len(walk.page)
    /\ walk' = [walk EXCEPT !.page = <<>>, !.loaded = 0,
                  !.listed = @ \o [i \in DOMAIN walk.page |-> walk.page[i].id],
                  !.after = walk.page[Len(walk.page)],
                  !.on = walk.more]
    /\ UNCHANGED feedVars

-----------------------------------------------------------------------------
TimelineInit == FeedInit /\ walk = NoWalk

WalkStep == WalkStart \/ SelectPage \/ LoadSummary \/ ReceivePage

TimelineNext ==
    \/ FeedNext /\ WalkSees
    \/ WalkStep

TimelineSpec == TimelineInit /\ [][TimelineNext]_timelineVars

\* A follower and a reader that go on, while the library may fall silent.
FairTimelineSpec ==
    /\ TimelineSpec
    /\ WF_timelineVars(FollowStep /\ WalkSees)

-----------------------------------------------------------------------------
(* Properties *)

Listed == {walk.listed[i] : i \in DOMAIN walk.listed}

InPage == {walk.page[i].id : i \in DOMAIN walk.page}

\* The feed's invariant, and a page that is read from the front.
TimelineInv ==
    /\ FeedInv
    /\ WalkTypeOK
    /\ walk.loaded <= Len(walk.page)

\* Whatever is uploaded, trashed, restored, deleted or dated anew between two
\* pages, an asset that keeps its place while the reader walks is neither
\* skipped nor listed twice: it is listed, in the page, or still ahead.
SteadyAssetsListed ==
    /\ \A a \in walk.steady :
          \/ a \in Listed \cup InPage
          \/ walk.on /\ walk.more /\ a \in Eligible(walk.after)
    /\ \A i, j \in DOMAIN walk.listed :
          i # j /\ walk.listed[i] = walk.listed[j] => walk.listed[i] \notin walk.steady

=============================================================================
