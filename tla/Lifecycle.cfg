\* Three processes; nothing restarts the last one.
SPECIFICATION Spec
CONSTANTS
    Channels <- MCChannels
    ModuleOf <- MCModuleOf
    MaxBoots = 3
    MaxRows = 11
INVARIANTS
    TypeOK
    BootsAreMarked
    RowsChainPerBoot
    JournalTellsStore
    ServingIsReady
PROPERTIES
    ShutdownCompletes
CHECK_DEADLOCK FALSE
