\* Answers, and a shutdown that ends the session. A session that ended stops: no deadlock check.
CONSTANTS
    NetCap = 1
    MaxFrames = 4
    Base = 2
    LenBytes = 4
    IdBytes = 3
    Types = {push, ack}
    Unknown = unknown
    Raws <- ShortRaws
    Bodies <- ShortBodies
    Group = 32
    MaxVarint = 2
    LastByte = 1
    KeyLen = 1
    Fixed64 = 2
    Fixed32 = 1
    RecipientField = 3
    Envelopes <- ShortEnvelopes
SPECIFICATION FairSpec
INVARIANTS AnswersAlign CutStaysSilent FramesRoundTrip RecipientExact
PROPERTIES ShutdownFrees
CHECK_DEADLOCK FALSE
