SPECIFICATION Spec
CONSTANTS
    Workers = {w1, w2}
    Tokens = {t1}
    Requests = {r1, r2}
    Exp <- MCExp
    ExpFirst = 5
    ExpOther = 5
    LocalTTL = 2
    MaxEntries = 2
    CleanupInterval = 0
    MaxLag = 1
    MaxTime = 4
    None = None
SYMMETRY MCSymmetry
INVARIANT
    ResetTakesEffect
