\* Connections that come, break and go under a running heartbeat.
SPECIFICATION Spec
CONSTANTS
    Clients = {s1, s2}
INVARIANTS
    TypeOK
    RegistryServesTheLiving
PROPERTIES
    CrashedAreSwept
    AlarmIsCorrected
