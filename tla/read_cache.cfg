SPECIFICATION Spec
CONSTANTS
    Items = {i1}
    Columns = {permissions}
    Values = {v1, v2}
    List = List
    Requests = {r1, r2}
    Kinds <- AllWrites
    TTL = 2
    MaxLag = 1
    MaxTime = 3
    None = None
SYMMETRY MCSymmetry
INVARIANTS
    IInv
    StaleReadBounded
    CalmInv
    FreshWhenCalm
