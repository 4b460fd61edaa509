SPECIFICATION FairUiSpec
CONSTANTS
    Lines = 1
    Values = {0, 1}
PROPERTIES RequestSounds ScreenSettles
