\* A user and the runtime write a few rows over two days of two seconds.
SPECIFICATION Spec
CONSTANTS
    Users = {u1}
    Runtime = Runtime
    TokenLife = 2
    DayLength = 2
    Limits = {2}
    MaxTime = 3
    MaxRows = 3
INVARIANTS
    TypeOK
    PagesAreNewest
    ExportsTile
    TokensAreJournalled
CHECK_DEADLOCK FALSE
