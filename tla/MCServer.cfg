\* Accounting, shutdown order, and a shutdown that returns with the cap reached. After the store is closed the process ends.
CONSTANTS
    c1 = c1
    c2 = c2
    c3 = c3
    Conns = {c1, c2, c3}
    MaxConns = 1
    AcceptFaults = TRUE
    CeilingKnobs = {"ttl"}
    PositiveKnobs = {"reap_interval"}
    ZeroKnobs = {"max_connections"}
    FloatKnobs = {"push_rate"}
    Default <- Defaults
    Ceiling <- Ceilings
    Unset = Unset
    Garbage = Garbage
    NaN = NaN
    Inf = Inf
    NegInf = NegInf
    Inputs <- AllInputs
SPECIFICATION FairSpec
INVARIANTS SlotsCounted PushNotCutEarly StoreClosesLast ConfigSound
PROPERTIES ShutdownReturns
CHECK_DEADLOCK FALSE
