SPECIFICATION Spec
CONSTANTS
    Users = {alice, treasury}
    Treasury = treasury
    Procs = {coord1, coord2}
    Amounts = {0, 1, 2}
    MaxRows = 4
    MaxCrashes = 0
INVARIANT GrantAtMostOnce
