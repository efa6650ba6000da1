CONSTANTS
    ChannelCap = 1
    SinkCap = 1
    MaxFrames = 1
    MaxCommands = 1
    MaxBatches = 1
SPECIFICATION Spec
PROPERTY LoopEnds
CHECK_DEADLOCK FALSE
