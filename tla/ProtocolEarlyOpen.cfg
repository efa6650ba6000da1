CONSTANTS
    k1 = k1
    k2 = k2
    d1 = d1
    d2 = d2
    t1 = t1
    t2 = t2
    None = None
    Keys <- OneKey
    DKeys <- OneDKey
    DiscoveryKey <- MCDiscoveryKey
    Caps <- MCCaps
    ChannelCap = 2
    WireCap = 2
    MaxBatch = 1
    Ids <- MCIds
    Tasks <- OneTask
    Scenarios <- OpenScenarios
SPECIFICATION Spec
PROPERTY OpensEventually
