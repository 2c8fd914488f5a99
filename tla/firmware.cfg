SPECIFICATION FirmwareSpec
CONSTANTS
    MaxStarts = 3
    Lengths = {8, 12}
    Word = 4
    Steps = {2, 4, 6}
    LookupErrors = TRUE
    Impatient = TRUE
    Switches = FALSE
    SectorSize = 8
    Sectors = 5
    RomStart = 8
    MaxLength = 16
    MaxChunk = 11
    Downloads = 2
    BUFF_LEN = 4
    IndexMax = 7
    ConsoleFifoLen = 3
    FullThreshold = 2
    CMD_LENGTH = 2
    Letters = {"a"}
    MaxTyped = 5
    UartFifoLen = 2
    RingSize = 4
    TestLen = 2
    MaxReceived = 6
INVARIANTS
    BootsCompleteRom
    CallbacksFindUpgrade
    PartsTypeOK
    WriterInOrder
    SerialInOrder
PROPERTIES
    RunningRomStays
    EveryUpdateEnds
    RingsAreQueues
    SerialDrains
CHECK_DEADLOCK FALSE
