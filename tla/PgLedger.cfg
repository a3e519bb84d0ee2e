SPECIFICATION Spec
CONSTANTS
    Users = {alice, bob}
    Sessions = {s1, s2}
    Amounts = {0, 1}
    MaxCommits = 3
    NoSession = NoSession
INVARIANTS
    TypeOK
    TablesAgree
PROPERTIES
    TransactionsEnd
    ImplementsCreditBook
