CONSTANTS
    CodePoints <- MCCodePoints
    AlarmSeconds <- MCAlarmSeconds
    Garbage <- MCGarbage
    BatchSize = 2
    MaxRecords = 3
    MaxTime = 2
SPECIFICATION FairSpec
INVARIANTS
    NoLostWakeup
    BytesInOrder
    PromiseKept
PROPERTIES
    SignalsHaveReasons
    KeyWakes
    AlarmFires
CHECK_DEADLOCK FALSE
