SPECIFICATION AppSpec
CONSTANTS
    Key = {k1, k2, k3}
    Name = {n0, n1}
    Default = n0
    Peer = {p1, p2}
    Nothing = Nothing
    LoadFaults = FALSE
    SaveFaults = FALSE
    Rekeys = FALSE
    Addresses = {a1, a2}
    AccessPoint = ownAddress
    None = NoAddress
    TicksPerSecond = 2
    MaxEvents = 5
    MaxTime = 2
    Values = {0, 1}
    Readings = {7}
    MaxRuns = 3
    PoolSize = 3
INVARIANTS
    FlashInv
    PartsTypeOK
    FaultsContained
    NetworkFollowed
    ControlsTrue
PROPERTIES
    IdentityStands
    SavedStands
    ImplementsDeviceMemory
    TimeComes
CHECK_DEADLOCK FALSE
