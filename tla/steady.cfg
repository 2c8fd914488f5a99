SPECIFICATION Spec
CONSTANTS
    d1 = d1
    c1 = c1
    c2 = c2
    Nil = Nil
    Device = {d1}
    Controller = {c1}
    Value = {0, 1}
    Target <- MCTarget
    Persistent = {d1}
    Command <- MCSet
    MaxStarts <- MCStarts
    DeviceStarts = 3
    ControllerStarts = 3
    MaxSerial = 4
    Killable = {d1, c1}
    EarlyStops = FALSE
    TornWrites = FALSE
    Duplicates = TRUE
    Losses = FALSE
INVARIANTS
    NonceAgreement
CHECK_DEADLOCK FALSE
