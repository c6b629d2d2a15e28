CONSTANTS
    NULL = NULL
    i1 = i1
    i2 = i2
    t1 = t1
    Item = {i1, i2}
    Photo = {i1, i2}
    ThumbnailOf <- MCThumbnailOf
    MaxVersion = 1
    Generation = {1, 2, 3}
    Added <- MCAdded
    ScanLimit = 2
    UploadLimit = 2
    MaxFaults = 1
    MaxDeletions = 1
SPECIFICATION FairSpec
PROPERTY RemainingBackedUp
