\* Durability and quotas with two pushes at a time, across crashes, retries, lossy notification, store errors and stray acks.
\* The relay may stop: at the bounds on rows, time and crashes nothing is left to do.
CONSTANTS
    alice = alice
    mallory = mallory
    m1 = m1
    swapped = swapped
    short = short
    s1 = s1
    s2 = s2
    p1 = p1
    p2 = p2
    NoKey = NoKey
    NoMsg = NoMsg
    Prefix <- mcPrefix
    Envelope <- mcEnvelope
    Size <- mcSize
    Devices = {alice, mallory}
    Honest = {alice}
    Sessions = {s1}
    Pushers = {p1, p2}
    Msgs = {m1, swapped, short}
    MaxEnvelope = 1
    MaxBlobs = 2
    MaxBytes = 2
    MaxSessions = 1
    ChanCap = 1
    TTL = 1
    LossyNotify = TRUE
    StoreFaults = TRUE
    MaxId = 3
    MaxTime = 1
    MaxCrashes = 1
SPECIFICATION Spec
SYMMETRY PushersAlike
INVARIANTS AckedKept CursorSkipsNothing QuotaKept
PROPERTIES OncePerSession KeepsPromises
CHECK_DEADLOCK FALSE
