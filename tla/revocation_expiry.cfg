SPECIFICATION Spec
CONSTANTS
    Workers = {w1}
    Tokens = {t1, t2}
    Requests = {r1, r2}
    Exp <- MCExp
    ExpFirst = 1
    ExpOther = 3
    LocalTTL = 1
    MaxEntries = 1
    CleanupInterval = 2
    MaxLag = 1
    MaxTime = 2
    None = None
SYMMETRY MCSymmetry
INVARIANTS
    RevocationDurable
    NoFalseRevocation
    StaleAnswerBounded
