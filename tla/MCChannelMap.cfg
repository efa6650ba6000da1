CONSTANTS
    k1 = k1
    k2 = k2
    d1 = d1
    d2 = d2
    None = None
    Keys <- MCKeys
    DKeys <- MCDKeys
    DiscoveryKey <- MCDiscoveryKey
    Caps <- MCCaps
    RemoteIds <- MCRemoteIds
    LocalIds <- MCLocalIds
    FlagCounts <- MCFlagCounts
    Queues <- MCQueues
SYMMETRY Swap
SPECIFICATION Spec
INVARIANTS TypeOK LocalIndexSound RemoteIndexInBounds LiveChannelRouted
    QueueOfOwnChannel
PROPERTIES SlotsLostToReopening
CHECK_DEADLOCK FALSE
