SPECIFICATION Spec
CONSTANTS
    d1 = d1
    c1 = c1
    c2 = c2
    Nil = Nil
    Device = {d1}
    Controller = {c1, c2}
    Value = {0, 1}
    Target <- MCTarget
    Persistent = {d1}
    Command <- MCSet
    MaxStarts <- MCStarts
    DeviceStarts = 1
    ControllerStarts = 1
    MaxSerial = 2
    Killable = {}
    EarlyStops = FALSE
    TornWrites = FALSE
    Duplicates = FALSE
    Losses = FALSE
INVARIANTS
    SingleController
CHECK_DEADLOCK FALSE
