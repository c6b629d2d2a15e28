CONSTANTS
    t1 = t1
    b1 = b1
    Asset = {1, 2, 3}
    Tag = {t1}
    Album = {b1}
    Moment = {1, 2}
    FeedLimit = 1
    TimelineLimit = 2
    MaxChanges = 2
    MaxCrashes = 1
SPECIFICATION FairTimelineSpec
CONSTRAINT Apart
INVARIANTS TimelineInv ChangesAhead SteadyAssetsListed
PROPERTY FollowerConverges
