SPECIFICATION Spec
CONSTANTS
    Modulus = 5
    Magic = 0
    PayloadSize = 3
    Frames <- MCFrames
    QueueSize = 2
INVARIANTS TypeOK SyncRegained SpillsOnlyTooLong
PROPERTY WholeFrameDelivered
