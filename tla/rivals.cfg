SPECIFICATION Spec
CONSTANTS
    d1 = d1
    c1 = c1
    c2 = c2
    Nil = Nil
    Device = {d1}
    Controller = {c1, c2}
    Value = {0, 1}
    Target <- MCTarget
    Persistent = {d1}
    Command <- MCSet
    MaxStarts <- MCStarts
    DeviceStarts = 2
    ControllerStarts = 2
    MaxSerial = 3
    Killable = {d1, c1, c2}
    EarlyStops = TRUE
    TornWrites = TRUE
    Duplicates = FALSE
    Losses = TRUE
INVARIANTS
    DurableBeforeAck
PROPERTIES
    FirstPairingStands
CHECK_DEADLOCK FALSE
