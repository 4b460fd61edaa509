SPECIFICATION FairSpec
CONSTANT ADC_CHANNEL_MAX = 3
INVARIANTS TypeOK OwnReadings
PROPERTY ChainEnds
