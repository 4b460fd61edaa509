SPECIFICATION Spec
CONSTANTS
    Sticks = {roll}
    Reversed = {roll}
    Adc <- MCAdc
    MidAfter = 0
    FinishAfter = 1
    MaxInputs = 0
    MaxFails = 1
INVARIANT CalibraedMeansCalibrated
