\* Two packets and two answers; both streams, the wake-ups and the release.
SPECIFICATION FairSpec
CONSTANTS
    Capacity = 3
    Answers <- MCAnswers
    MaxPackets = 2
    MaxAnswers = 2
    EarlyPackets = FALSE
INVARIANTS
    TypeOK
    NoTornAnswer
    RingInBounds
    NothingForgotten
PROPERTIES
    InputIsAStream
    OutputIsAStream
    Delivered
    Released
CHECK_DEADLOCK FALSE
