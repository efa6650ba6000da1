CONSTANTS
    s = s
    a = a
    b = b
    None = None
    Server = s
    Clients <- MCClients
    Writers <- MCWriters
    N = 3
    MaxDisconnects = 2
SPECIFICATION Spec
INVARIANTS TypeOK OneOutstanding RequestsServable UpgradeFits NoUnderflow HoldsPrefix
PROPERTY Replicates
CHECK_DEADLOCK FALSE
