\* What Parse makes of the lengths that wrap, in the model of MCPushSession.cfg.
CONSTANTS
    NetCap = 1
    MaxFrames = 4
    Base = 2
    LenBytes = 4
    IdBytes = 3
    Types = {push, ack}
    Unknown = unknown
    Raws <- ShortRaws
    Bodies <- ShortBodies
    Group = 32
    MaxVarint = 2
    LastByte = 1
    KeyLen = 1
    Fixed64 = 2
    Fixed32 = 1
    RecipientField = 3
    Envelopes <- ShortEnvelopes
SPECIFICATION Spec
INVARIANTS MalformedRefused
CHECK_DEADLOCK FALSE
