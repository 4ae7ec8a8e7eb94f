SPECIFICATION Spec
CONSTANTS
    MaxTimers = 3
    CommandLen = 4
    EventLen = 2
    Overlap = FALSE
INVARIANTS TypeOK FiresAtMostOnce FaultOnlyAfterStall NewestFound DaemonNeverBlocks
PROPERTIES CancelStopsActive TimersEnd
CHECK_DEADLOCK FALSE
