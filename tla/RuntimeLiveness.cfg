\* Two updates and two displays, under fairness; no symmetry.
SPECIFICATION Spec
CONSTANTS
    Channels = {1, 2, 3}
    ModuleOf <- MCModuleOf
    Mapped = {1}
    Samples <- LampOn
    Board = {b1}
    Act = {a1}
    Event = {}
    StateClients = {s1, s2}
    JournalClients = {}
INVARIANT
    RegistryMatchesLinks
PROPERTIES
    EveryTaskEnds
    EveryUpdateIsShown
    ImplementsService
CHECK_DEADLOCK FALSE
