\* Every way to cut the stream into reads, every way for the connection to end.
SPECIFICATION FairSpec
CONSTANTS
    Base = 2
    MaxPayload = 2
    Chunk = 7
    MaxReads = 2
    MaxAttempts = 2
    CommandSize = 2
    Sizes <- MCSizes
    MaxFrames = 2
    MaxCommands = 1
INVARIANTS
    TypeOK
    UplinkIsWhole
PROPERTIES
    EndSaysWhy
    MessagesAreAStream
    EndsAreReached
CHECK_DEADLOCK FALSE
