\* Order of Deliver frames and teardown. A session that ended stops: no deadlock check.
CONSTANTS
    QueueCap = 1
    ChanCap = 1
    NetCap = 1
    MaxBlobs = 3
    MaxFrames = 2
SPECIFICATION FairSpec
INVARIANTS BlobsInOrder
PROPERTIES TearsDown StalledClientFreed
CHECK_DEADLOCK FALSE
