\* Telemetry on the default topic, on the other one of the signal map, or on none.
SPECIFICATION Spec
CONSTANTS
    Channels = {5, 6, 7, 8, 9, 10, 11, 12, 13, 14, 15, 16}
    ModuleOf <- MCModuleOf
    Groups <- MCGroups
    SignalMap <- MCSignalMap
    QL6CTopic = "puma_board"
    Topics = {"puma_board", "puma_board_u16", "unmapped"}
    Payloads <- MCPayloads
INVARIANTS
    TypeOK
    PageShowsWorstChannel
    SummaryMatchesCounts
PROPERTY
    EveryWireHasItsBit
