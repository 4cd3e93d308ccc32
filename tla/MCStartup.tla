------------------------------ MODULE MCStartup ------------------------------
\* Instances of Startup for TLC.
EXTENDS Startup, TLC

\* The superadmin and the signup role, with the second and third default of
\* the code left out; one key is new in this release, and so is PLUGIN.
MCFixedId == ("SuperAdmin" :> 1) @@ ("Student" :> 2)
MCDefaults == ("SuperAdmin" :> {"read", "create"}) @@ ("Student" :> {"create"})
              @@ ("PLUGIN" :> {"read"})
=============================================================================
