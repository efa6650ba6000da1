CONSTANTS
    k1 = k1
    k2 = k2
    d1 = d1
    d2 = d2
    t1 = t1
    t2 = t2
    None = None
    Keys <- TwoKeys
    DKeys <- TwoDKeys
    DiscoveryKey <- MCDiscoveryKey
    Caps <- MCCaps
    ChannelCap = 2
    WireCap = 2
    MaxBatch = 1
    Ids <- MCIds
    Tasks <- OneTask
    Scenarios <- FreeScenarios
SPECIFICATION Spec
INVARIANTS InitiatorHandshakeFirst AcceptNeverPanics OpenedByBoth
    NoCrossTalk 
PROPERTIES InitiatorTableImplemented ResponderTableImplemented
