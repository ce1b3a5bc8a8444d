\* An older snapshot sent after a newer one.
SPECIFICATION Spec
CONSTANTS
    Channels = {1, 2, 3}
    ModuleOf <- MCModuleOf
    Mapped = {1, 2}
    Samples <- TwoSamples
    Board = {b1}
    Act = {a1}
    Event = {}
    StateClients = {s1}
    JournalClients = {}
INVARIANT SettledViewsAgree
CHECK_DEADLOCK FALSE
