SPECIFICATION Spec
CONSTANTS
    w1 = w1
    r1 = r1
    r2 = r2
    Workers = {w1}
    Requests = {r1, r2}
    WorkerOf <- MCWorkerOf
    Key <- MCKey
    Max = 1
    Pingers = {"heartbeat", "health"}
    None = None
INVARIANTS
    IInv
    SteadyLimit
    SharedLimit
    RequestsCanGoOn
PROPERTIES
    SharedLimitReturns
    EveryRequestEnds
