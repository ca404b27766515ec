CONSTANTS
    a = a
    b = b
    c = c
    Peers = {a, b, c}
    KeepAlive = 4
    NetworkCheckTries = 2
    MaxFaults = 2
    Steady = 4
SPECIFICATION JoiningSpec
INVARIANTS
    TypeOK
PROPERTIES
    
    ViewsSettle
