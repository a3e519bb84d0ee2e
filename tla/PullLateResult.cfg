SPECIFICATION Spec
CONSTANTS
    Requests = {r1}
    Resolved = {}
    Jobs = {j1}
    Nodes = {n1, n2}
    QueueDepth = 1
    MaxAttempts = 2
    MaxFaults = 1
    Deadlined = {r1}
    None = None
INVARIANT AnswerFromDispatchedNode
