SPECIFICATION Spec
CONSTANTS
    MaxStarts = 3
    Lengths = {6}
    Word = 4
    Steps = {2, 4, 6}
    LookupErrors = FALSE
    Impatient = FALSE
    Switches = FALSE
INVARIANTS
    NewRomWritten
