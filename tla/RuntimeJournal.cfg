\* Rows racing to the journal and to its live feed.
SYMMETRY TaskSymmetry
SPECIFICATION Spec
CONSTANTS
    Channels = {1, 2, 3}
    ModuleOf <- MCModuleOf
    Mapped = {1, 2}
    Samples <- TwoSamples
    Board = {b1, b2}
    Act = {}
    Event = {}
    StateClients = {}
    JournalClients = {j1}
INVARIANTS
    JournalAccountsForState
    NoJournalGap
    FeedFollowsJournal
PROPERTY
    ImplementsService
CHECK_DEADLOCK FALSE
