SPECIFICATION Spec
CONSTANTS
    d1 = d1
    c1 = c1
    c2 = c2
    Nil = Nil
    Device = {d1}
    Controller = {c1}
    Value = {0, 1, 2}
    Target <- MCTarget
    Persistent = {d1}
    Command <- MCCommand
    MaxStarts <- MCStarts
    DeviceStarts = 1
    ControllerStarts = 4
    MaxSerial = 8
    Killable = {}
    EarlyStops = FALSE
    TornWrites = FALSE
    Duplicates = TRUE
    Losses = FALSE
INVARIANTS
    SerialsSpent
PROPERTIES
    SetConfirmed
CHECK_DEADLOCK FALSE
