\* Two different telemetry messages, one dropped message, commands from here and elsewhere.
SPECIFICATION Spec
CONSTANTS
    Horn = {on, off}
    BoardData = {b1, b2}
    Junk = {x1}
    NoMessage = NoMessage
    MaxQueue = 1
    MaxInbox = 3
INVARIANTS
    TypeOK
    FlagsConverge
    MessagesArriveConnected
    HornAgreesWhenQuiet
    DebugPagesAgree
CHECK_DEADLOCK FALSE
PROPERTIES
    FlagFollowsSession
    StopCompletes
