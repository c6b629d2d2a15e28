CONSTANTS
    Process = {"s", "d", "r"}
    Kind <- MCKind
    LocksOf <- MCLocksOf
    HasPassword <- MCHasPassword
    MaxTries = 2
    MaxWrites = 2
    MaxKills = 1
    Key <- MCKey
    Burst <- MCBurst
    Refill <- MCRefill
    Capacity <- MCCapacity
    Ttl = 3
    Slots = 2
    MaxWaiting = 1
    Account = {i1, i2}
    Name = {n1, n2}
    Directory <- MCDirectory
    Administrator = {x, y}
    MaxRequests = 4
SPECIFICATION ServerSpec
CONSTRAINT Apart
CHECK_DEADLOCK FALSE
INVARIANTS SnapshotReal StartsAgain TableFaithful RetryHonest WorkersBounded OverlapNeedsRace
PROPERTIES UndisturbedWork ForeignUntouched
