SPECIFICATION FairRingSpec
CONSTANTS
    Slots = 3
    SlotSize = 3
    Total = 20
INVARIANT Faithful
INVARIANT CountersSound
PROPERTY ImplementsStream
PROPERTY TransferCompletes
CHECK_DEADLOCK FALSE
