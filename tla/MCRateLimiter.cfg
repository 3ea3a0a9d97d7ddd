\* An idle bucket refills within IdleTTL: a sweep is never noticed.
CONSTANTS
    k1 = k1
    k2 = k2
    k3 = k3
    Keys = {k1, k2, k3}
    Unit = 2
    Rate = 1
    Burst = 3
    SoftCap = 1
    IdleTTL = 3
    MaxTime = 7
SPECIFICATION LimiterSpec
INVARIANTS PushBound
PROPERTIES ForgettingIsInvisible
CHECK_DEADLOCK FALSE
