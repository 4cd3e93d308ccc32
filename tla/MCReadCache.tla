----------------------------- MODULE MCReadCache -----------------------------
\* Instances of ReadCache for TLC.
EXTENDS ReadCache, TLC

MCSymmetry == Permutations(Requests) \union Permutations(Values)
                  \union Permutations(Columns)

\* The writes the endpoints of a family offer, and all of them but signup,
\* which is no endpoint of the users.
RoleUpdates == {"patch"}
AllWrites == {"create", "patch", "delete", "append", "password", "reset", "upsert"}
AllWritesAndSignup == AllWrites \union {"signup"}
=============================================================================
