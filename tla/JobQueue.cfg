SPECIFICATION JqSpec
CONSTANTS
    Callers = {c1, c2, c3}
    Workers = {w1}
    Fleet = {n1}
    Benchmarked = {n1}
    Tps = 4
    TpsPerSlot = 2
    NodeFloor = 2
    MinCapacity = 1
    MaxCapacity = 2
    InitialCapacity = 5
    None = None
CHECK_DEADLOCK FALSE
INVARIANTS
    JqTypeOK
    JobInOnePlace
PROPERTIES
    JobsComeFree
