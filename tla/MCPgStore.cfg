\* Two subscriptions and two pushes of one key. Subscriptions and ids are used up: the model may stop.
CONSTANTS
    c1 = c1
    c2 = c2
    p1 = p1
    p2 = p2
    Chans = {c1, c2}
    Pushers = {p1, p2}
    CmdCap = 1
    MaxBlobs = 1
    ListenFaults = TRUE
    MaxId = 2
SPECIFICATION FairSpec
INVARIANTS OvershootBounded SkipsOnlyOvertaken WokenWhileListening ListeningWhenSerial
PROPERTIES CommandsAnswered
CHECK_DEADLOCK FALSE
