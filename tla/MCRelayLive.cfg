\* Two sessions of one device and a cap of one: wake-ups, slots, and delivery under fairness.
\* The relay may stop: at the bound on rows nothing is left to do.
CONSTANTS
    alice = alice
    mallory = mallory
    m1 = m1
    swapped = swapped
    short = short
    s1 = s1
    s2 = s2
    p1 = p1
    p2 = p2
    NoKey = NoKey
    NoMsg = NoMsg
    Prefix <- mcPrefix
    Envelope <- mcEnvelope
    Size <- mcSize
    Devices = {alice}
    Honest = {alice}
    Sessions = {s1, s2}
    Pushers = {p1}
    Msgs = {m1}
    MaxEnvelope = 2
    MaxBlobs = 0
    MaxBytes = 0
    MaxSessions = 1
    ChanCap = 1
    TTL = 1
    LossyNotify = FALSE
    StoreFaults = FALSE
    MaxId = 2
    MaxTime = 0
    MaxCrashes = 0
SPECIFICATION FairSpec
INVARIANTS NoLostWakeup SlotsExact
PROPERTIES EventuallyDelivered
CHECK_DEADLOCK FALSE
