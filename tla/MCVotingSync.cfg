CONSTANTS
    a = a
    b = b
    c = c
    d = d
    t1 = t1
    t2 = t2
    t3 = t3
    Peers = {a, b, c, d}
    Txs = {t1, t2, t3}
    MempoolSize = 2
    Views <- ExpiringViews
    Down = {d}
    EntryPeers = {c}
    Lossy = FALSE
    MaxSubmissions = 1
    MaxInFlight = 9
    SyncPeers = {c}
    MaxErrors = 3
    MaxAsked = 3
    MaxRestarts = 1
SPECIFICATION JoiningSpec
PROPERTIES
    AcceptedIsHeldUntilRestart
    
