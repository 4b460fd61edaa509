SPECIFICATION Spec
CONSTANTS
    BufferSize = 3
    MaxPacket = 2
    MaxData = 3
    MaxBytes = 2
INVARIANT BusyMeansSending
