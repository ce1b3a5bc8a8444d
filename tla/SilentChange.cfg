\* A change whose journal row cannot be written.
SPECIFICATION Spec
CONSTANTS
    Channels = {1, 2, 3}
    ModuleOf <- MCModuleOf
    Mapped = {1, 2}
    Samples <- TwoSamples
    Board = {b1}
    Act = {}
    Event = {}
    StateClients = {s1}
    JournalClients = {}
INVARIANT ChangesAreAnnounced
CHECK_DEADLOCK FALSE
