CONSTANTS
    alice = alice
    bob = bob
    carol = carol
    btc = btc
    usdt = usdt
    Users = {alice, bob, carol}
    Assets = {btc, usdt}
    Modulus = 16
    Txs <- ChainedTxs
    MempoolSize = 2
    MaxStaged = 2
    MaxHeight = 1
    MaxSupply = 4
SPECIFICATION Spec
INVARIANTS
    TypeOK
    NoCoinLost
    RollbackUndoesStaging
CHECK_DEADLOCK FALSE
