\* Clock in steps of 5 s, heartbeats that may hang for 20 s.
SPECIFICATION Spec
CONSTANTS
    HeartbeatSec = 15
    Step = 5
    MaxAge = 95
    MaxStall = 20
    MaxClients = 1
INVARIANTS
    TypeOK
    AllClearMeansLive
    InterfaceAlarmMeansStall
    OnlyFourDiagnoses
PROPERTY
    SilenceNeverHeals
