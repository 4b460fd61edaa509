SPECIFICATION FairSpec
CONSTANTS
    Wrap = 10
    Limit = 3
    Boot = 1
    Period = 2
    MaxDelay = 1
    MaxFrames = 2
INVARIANTS TypeOK LossNoticed TelemetryInOrder
PROPERTIES NoFalseAlarm ListensAgain IsFailsafe
