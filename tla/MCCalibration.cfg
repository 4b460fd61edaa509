SPECIFICATION FairSpec
CONSTANTS
    Sticks = {roll}
    Reversed = {roll}
    Adc <- MCAdc
    MidAfter = 0
    FinishAfter = 1
    MaxInputs = 2
    MaxFails = 2
INVARIANTS TypeOK MappingIsStored RangeCoversNominal OutInRange
PROPERTIES CentreTimeGiven CalibrationEnds AuxFollowsMode
