----------------------------- MODULE MCRbacStore -----------------------------
\* Instances of RbacStore for TLC.
EXTENDS RbacStore, TLC

CONSTANTS k1, k2, SuperAdmin, Student

MCSymmetry == Permutations(Requests) \union Permutations(UserNames)

\* The patch overrides one of the signup role's two permissions and adds its
\* key to a role that has none.
MCDefault == [k \in {k1, k2} |-> k = k2]
MCGrant == {[k \in {k1} |-> TRUE]}

RoleKinds == {"createRole", "updateRole", "deleteRole", "patchRole", "append",
              "resetRoles", "createUser"}
UserKinds == {"deleteRole", "updateRole", "createUser", "updateUser", "setPassword",
              "deleteUser", "patchUser", "resetUsers", "signup"}
=============================================================================
