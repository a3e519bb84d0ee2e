SPECIFICATION Spec
CONSTANTS
    Users = {alice, treasury}
    Treasury = treasury
    Procs = {coord1}
    Amounts = {0, 1, 2}
    MaxRows = 4
    MaxCrashes = 2
INVARIANTS
    TypeOK
    BooksAgree
PROPERTIES
    GrantSpentFirst
    ImplementsCreditBook
