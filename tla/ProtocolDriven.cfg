CONSTANTS
    k1 = k1
    k2 = k2
    d1 = d1
    d2 = d2
    t1 = t1
    t2 = t2
    None = None
    Keys <- TwoKeys
    DKeys <- TwoDKeys
    DiscoveryKey <- MCDiscoveryKey
    Caps <- MCCaps
    ChannelCap = 2
    WireCap = 1
    MaxBatch = 2
    Ids <- MCIds
    Tasks <- OneTask
    Scenarios <- DrivenScenarios
SPECIFICATION Spec
INVARIANTS InOrder Agreement NoRefusal
PROPERTIES Delivered OpensEventually DriverOpensAll
    PipeToResponder PipeToInitiator
