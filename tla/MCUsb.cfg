SPECIFICATION FairSpec
CONSTANTS
    BufferSize = 3
    MaxPacket = 2
    MaxData = 3
    MaxBytes = 7
INVARIANTS TypeOK NothingLost
PROPERTIES TransferEnds MainKeepsRunning ReportKept
