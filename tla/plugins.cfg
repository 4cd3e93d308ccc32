SPECIFICATION Spec
CONSTANTS
    MaxDir = 3
    Names = {"demo", "other"}
    Name <- MCName
    AutoStarts = {1, 2, 3}
    Installed = {2}
    MaxPid = 5
    Watched = "demo"
    MaxStarts = 2
    Fetches = {1, 2}
    Calls = {1, 2}
    MaxOps = 3
    None = None
CHECK_DEADLOCK FALSE
INVARIANTS
    IInv
    StopsServices
    RegistryIsNew
    OrphansNeedRaces
    PortsAreOwn
    EverybodyCanGoOn
PROPERTIES
    ListGoesForward
    LaunchEnds
    CallsEnd
