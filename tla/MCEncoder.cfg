SPECIFICATION KnobSpec
CONSTANT MaxTurns = 8
INVARIANT EveryClickCounts
CHECK_DEADLOCK FALSE
