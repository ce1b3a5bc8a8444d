\* Rows of two days, each read back with date_from and date_to of its day.
SPECIFICATION Spec
CONSTANTS
    Users = {u1}
    Runtime = Runtime
    TokenLife = 2
    DayLength = 2
    Limits = {2}
    MaxTime = 3
    MaxRows = 2
INVARIANT
    DayFilterCoversDay
CHECK_DEADLOCK FALSE
