CONSTANTS
    OnceIds = {101, 102}
    RepeatIds = {1, 2}
    Starts = {10}
    Intervals = {5}
    Precision = 5
    Width = 65536
    Garbage <- MCGarbage
    MaxTicks = 3
    MaxPending = 1
    MaxModify = 0
SPECIFICATION MCSpec
CHECK_DEADLOCK FALSE
INVARIANTS TypeOK FaultOnlyInStop  DueIsAnnounced
