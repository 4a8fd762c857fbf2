SPECIFICATION Spec
CONSTANTS
    r1 = r1
    r2 = r2
    Readers <- MCReaders
    Channels <- MCChannels
SYMMETRY Symmetry
INVARIANTS
    ReadsExact
    SlotAvailable
CHECK_DEADLOCK FALSE
