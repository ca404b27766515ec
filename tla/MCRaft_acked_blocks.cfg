CONSTANTS
    a = a
    b = b
    c = c
    t1 = t1
    t2 = t2
    t3 = t3
    None = None
    Peers = {a, b, c}
    Txs = {t1, t2}
    MempoolSize = 1
    Views <- StaticViews
    MaxAppendEntries = 5
    MaxTerm = 2
    MaxLogLen = 3
    MaxInFlight = 1
SPECIFICATION SettledSpec
SYMMETRY Symmetry
INVARIANTS
    AckedBlocksHeld
