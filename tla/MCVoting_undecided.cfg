CONSTANTS
    a = a
    b = b
    c = c
    d = d
    t1 = t1
    t2 = t2
    t3 = t3
    Peers = {a, b, c, d}
    Txs = {t1, t2}
    MempoolSize = 2
    Views <- StaticViews
    Down = {}
    EntryPeers = {a}
    Lossy = FALSE
    MaxSubmissions = 2
    MaxInFlight = 40
SPECIFICATION FairSpec
PROPERTIES
    ProposalsDecided
