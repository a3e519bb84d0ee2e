SPECIFICATION Spec
CONSTANTS
    Requests = {r1, r2}
    Jobs = {j1, j2}
    NoJob = NoJob
    Users = {alice}
    Anonymous = Anonymous
    Nodes = {n1, demo}
    Simulated = {demo}
    Host = phone
    Treasury = treasury
    Kinds = {"fast", "stream", "reserved", "background", "probe"}
    Sensitivities = {"moderate"}
    Reported = {0, 3}
    MaxTokens = 2
    StartupGrant = 30
    Depths = {0, 2}
    Capacity = 3
    CoordinationReward = 7
    MaxCrashes = 1
SYMMETRY RequestsAndJobs
CHECK_DEADLOCK FALSE
INVARIANTS
    TypeOK
    MintIsBacked
    OneRewardPerJob
    GateCoversDebit
    ChargeWithinEdge
