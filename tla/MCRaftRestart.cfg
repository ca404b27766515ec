CONSTANTS
    a = a
    b = b
    c = c
    t1 = t1
    t2 = t2
    t3 = t3
    None = None
    Peers = {a, b, c}
    Txs = {t1}
    MempoolSize = 1
    Views <- StaticViews
    MaxAppendEntries = 5
    MaxTerm = 1
    MaxLogLen = 2
    MaxInFlight = 1
    MaxRestarts = 2
SPECIFICATION RestartSettledSpec
SYMMETRY Symmetry
INVARIANTS
    FilesAreRecorded

    
