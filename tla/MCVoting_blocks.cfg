CONSTANTS
    a = a
    b = b
    c = c
    d = d
    t1 = t1
    t2 = t2
    t3 = t3
    Peers = {a, b, c, d}
    Txs = {t1, t2, t3}
    MempoolSize = 2
    Views <- LosingViews
    EntryPeers = {c}
    Down = {d}
    Lossy = TRUE
    MaxSubmissions = 3
    MaxInFlight = 2
SYMMETRY SourceSymmetry
SPECIFICATION SettledSpec
INVARIANTS
    TypeOK
    PendingIsStaged
    AppliedIsAccountedFor
PROPERTIES
    AcceptedIsHeld
