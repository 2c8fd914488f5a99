SPECIFICATION Spec
CONSTANTS
    MaxStarts = 3
    Lengths = {8, 12}
    Word = 4
    Steps = {2, 4, 6}
    LookupErrors = FALSE
    Impatient = TRUE
    Switches = FALSE
INVARIANTS
    WaitsWithTimeout
