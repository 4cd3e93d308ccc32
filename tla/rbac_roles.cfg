SPECIFICATION Spec
CONSTANTS
    MaxRoleId = 3
    MaxUserId = 1
    k1 = k1
    k2 = k2
    SuperAdmin = SuperAdmin
    Student = Student
    RoleNames = {SuperAdmin, Student, Other}
    UserNames = {FirstUser}
    Keys = {k1, k2}
    Patches <- MCGrant
    Requests = {r1, r2}
    Kinds <- RoleKinds
    ForeignKeys = FALSE
    SuperId = 1
    SuperName = SuperAdmin
    DefaultId = 2
    DefaultName = Student
    DefaultPerms <- MCDefault
    None = None
SYMMETRY MCSymmetry
INVARIANTS
    IInv
    SuperAdminIntact
PROPERTIES
    UnracedIsAtomic
