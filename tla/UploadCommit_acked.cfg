CONSTANTS
    NULL = NULL
    u1 = u1
    u2 = u2
    u3 = u3
    r1 = r1
    r2 = r2
    a1 = a1
    a2 = a2
    c1 = c1
    c2 = c2
    Upload = {u1, u2}
    Resource = {r1, r2}
    Asset = {a1, a2}
    Content = {c1}
    Path = {p1}
    ResourceOf <- MCResourceOf
    AssetOf <- MCAssetOf
    ContentOf <- MCContentOf
    Size <- MCSize
    Quota = 0
    MaxFaults = 0
    MaxMoves = 0
SPECIFICATION Spec
INVARIANT AckedObjectPresent
