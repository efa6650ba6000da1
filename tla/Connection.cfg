CONSTANTS
    ChannelCap = 2
    SinkCap = 2
    MaxFrames = 2
    MaxCommands = 2
    MaxBatches = 2
SPECIFICATION Spec
INVARIANTS TypeOK NoLostWakeup
PROPERTY WorkIsDone
CHECK_DEADLOCK FALSE
