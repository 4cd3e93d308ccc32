SPECIFICATION Spec
CONSTANTS
    Processes = {"app", "box"}
    Natives = {"app"}
    FixedNames = {"SuperAdmin", "Student"}
    FixedId <- MCFixedId
    AutoName = "PLUGIN"
    OtherNames = {"Tutor"}
    SuperName = "SuperAdmin"
    SignupName = "Student"
    Keys = {"read", "create"}
    Defaults <- MCDefaults
    Recent = {"PLUGIN", "create"}
    Users = {"root", "ann"}
    Boot = "root"
    MaxFixed = 2
    MaxChanges = 2
    MaxCrashes = 1
    None = None
INVARIANTS
    IInv
    ReadyMeansSeeded
    StartsCanGoOn
PROPERTIES
    SeedKeepsDecisions
    SeedOnce
    FailuresAreLostRaces
    StartsEnd
    AllServe
CHECK_DEADLOCK FALSE
