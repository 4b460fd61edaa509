SPECIFICATION FairSpec
CONSTANTS
    DEBOUNCE_TICKS = 2
    SHORT_TICKS = 15
    LONG_TICKS = 75
    RepeatMod = 16
    TickMod = 80
    MaxPresses = 18
INVARIANTS TypeOK OneVerdict VerdictFits
PROPERTIES Debounced GestureEnds
