SPECIFICATION FdSpec
CONSTANTS
    PodCredits = {c1, c2}
    Pollers = {loop, audit}
    MaxRestarts = 1
    MaxFaults = 1
INVARIANTS
    FdTypeOK
    HistoryIsDense
    WitnessTellsTruth
PROPERTIES
    EventsGetWitnessed
