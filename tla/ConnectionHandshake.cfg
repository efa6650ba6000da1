CONSTANTS
    ChannelCap = 1
    SinkCap = 1
    MaxFrames = 0
    MaxCommands = 0
    MaxBatches = 0
SPECIFICATION Spec
PROPERTY HandshakeAnnounced
CHECK_DEADLOCK FALSE
