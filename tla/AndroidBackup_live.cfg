CONSTANTS
    NULL = NULL
    i1 = i1
    i2 = i2
    t1 = t1
    Item = {i1, t1, i2}
    Photo = {i1, i2}
    ThumbnailOf <- MCThumbnailOf
    MaxVersion = 2
    Generation = {1, 2, 3, 4}
    Added <- MCAdded
    ScanLimit = 1
    UploadLimit = 2
    MaxFaults = 2
    MaxDeletions = 1
SPECIFICATION FairSpec
INVARIANTS AndroidInv ReadyHasParts CopyKept CompleteIsStored
PROPERTY EventuallyBackedUp
