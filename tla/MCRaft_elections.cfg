CONSTANTS
    a = a
    b = b
    c = c
    t1 = t1
    t2 = t2
    t3 = t3
    None = None
    Peers = {a, b, c}
    Txs = {t1}
    MempoolSize = 1
    Views <- ChangingViews
    MaxAppendEntries = 5
    MaxTerm = 2
    MaxLogLen = 0
    MaxInFlight = 1
SPECIFICATION Spec
SYMMETRY MemberSymmetry
INVARIANTS
    TypeOK
    ElectionSafety
    ForwardsUpwards
    CommitAgreement
