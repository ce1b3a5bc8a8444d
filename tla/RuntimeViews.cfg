\* Updates racing to a display that fails, leaves and crashes, while an event is written.
SYMMETRY TaskSymmetry
SPECIFICATION Spec
CONSTANTS
    Channels = {1, 2, 3}
    ModuleOf <- MCModuleOf
    Mapped = {1}
    Samples <- LampSamples
    Board = {b1, b2}
    Act = {a1}
    Event = {e1}
    StateClients = {s1}
    JournalClients = {}
INVARIANTS
    TypeOK
    LoneUpdateHealsViews
CHECK_DEADLOCK FALSE
