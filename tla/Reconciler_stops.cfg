CONSTANTS
    NULL = NULL
    u1 = u1
    u2 = u2
    u3 = u3
    r1 = r1
    r2 = r2
    a1 = a1
    a2 = a2
    c1 = c1
    c2 = c2
    Upload = {u1, u2}
    Resource = {r1, r2}
    Asset = {a1, a2}
    Content = {c1}
    Path = {p1}
    ResourceOf <- MCResourceOf
    AssetOf <- MCAssetOf
    ContentOf <- MCContentOf
    Size <- MCSize
    Quota = 0
    MaxFaults = 1
    MaxMoves = 0
    QueriesFail = FALSE
\* The stopped task and the bounded requests may leave nothing to do.
CHECK_DEADLOCK FALSE
CONSTRAINT NoDedup HandlersApart
SPECIFICATION FairPassSpec
PROPERTY PeriodicallySettled
