\* A table of two entries for three creatures: it fills up, evicts and overflows.
SPECIFICATION Spec
CONSTANTS
    Creatures <- MCCreatures
    Self = self
    cr1 = cr1
    cr2 = cr2
    Slots = 2
    MaxChanges = 4
    MaxChannel = 2
INVARIANTS
    TypeOK
    ChainsMatchTable
    MirrorKeepsUp
    ViewIsCurrent
SYMMETRY MCSymmetry
CHECK_DEADLOCK FALSE
