SPECIFICATION Spec
CONSTANTS
    Items = {i1}
    Columns = {name, permissions}
    Values = {v1, v2}
    List = List
    Requests = {r1, r2}
    Kinds <- RoleUpdates
    TTL = 1
    MaxLag = 1
    MaxTime = 2
    None = None
SYMMETRY MCSymmetry
INVARIANTS
    ListRowsWereRows
PROPERTIES
    KeepsContract
