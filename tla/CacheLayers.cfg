CONSTANTS
    Readers = {r1, r2}
    Writers = {w1}
    N = 2
    TTL <- MCTTL
    MaxLoad = 1
    Budget <- MCBudget
    Empty = Empty
    None = None
    MaxVersion = 2
    MaxTime = 5
SPECIFICATION Spec
SYMMETRY Symmetry
INVARIANTS
    TypeOK
    BoundedStaleness
    UnracedWriteVisible
