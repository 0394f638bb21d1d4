SPECIFICATION Spec
CONSTANTS
    Local = {w1}
    Remote = {w2}
    Capacity = 2
    MaxTransit = 1
    MaxMessages = 3
    MaxFlags = 1
INVARIANTS
    
    CountCatchesUp
