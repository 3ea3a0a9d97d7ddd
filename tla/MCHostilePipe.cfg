\* One session, three Blobs, two commands; every queue holds one.
CONSTANTS
    Pipes = {p1}
    RuleSet <- mcRules
    InCap = 1
    OutCap = 1
    InjectCap = 1
    ReplayCap = 1
    HistoryCap = 2
    MaxBlobs = 3
    MaxCommands = 2
SPECIFICATION FairSpec
INVARIANTS HonestUnlessTold BlobsAccounted
PROPERTIES TearsDown
CHECK_DEADLOCK FALSE
