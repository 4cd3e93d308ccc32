SPECIFICATION Spec
CONSTANTS
    MaxRoleId = 2
    MaxUserId = 2
    k1 = k1
    k2 = k2
    SuperAdmin = SuperAdmin
    Student = Student
    RoleNames = {SuperAdmin, Student}
    UserNames = {ann, bob}
    Keys = {k1}
    Patches <- MCGrant
    Requests = {r1, r2}
    Kinds <- UserKinds
    ForeignKeys = FALSE
    SuperId = 1
    SuperName = SuperAdmin
    DefaultId = 2
    DefaultName = Student
    DefaultPerms <- NoPerms
    None = None
SYMMETRY MCSymmetry
INVARIANT
    UsersHaveRoles
