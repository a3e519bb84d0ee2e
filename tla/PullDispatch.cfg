SPECIFICATION Spec
CONSTANTS
    Requests = {r1, r2}
    Resolved = {r2}
    Jobs = {j1}
    Nodes = {n1, n2}
    QueueDepth = 1
    MaxAttempts = 2
    MaxFaults = 1
    Deadlined = {r1, r2}
    None = None
INVARIANTS
    TypeOK
    DispatchesExact
PROPERTIES
    DispatchReturns
