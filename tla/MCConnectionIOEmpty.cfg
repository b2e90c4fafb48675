\* A command answered between two looks of the communication thread.
SPECIFICATION Spec
CONSTANTS
    Capacity = 3
    Answers <- MCAnswers
    MaxPackets = 2
    MaxAnswers = 2
    EarlyPackets = FALSE
INVARIANTS
    NoEmptyPacket
CHECK_DEADLOCK FALSE
