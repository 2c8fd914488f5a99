SPECIFICATION ProtocolSpec
CONSTANTS
    Controllers = {c1, c2, c3}
    Killables = {c1, c2}
    MaxConn = 3
    SerialRange = 8
    FirstSerial = 6
    MaxPackets = 5
    Paddings = {1, 15}
    PayloadLengths = {0, 5}
    LabelLengths = {0, 7}
    DataValues = {0, 2}
    MaxControls = 2
    Movable = {"serial", "flags", "to0"}
    MaxReordered = 1
    Changeable = {"hasPairs", "uuid0", "sta_ipv6gw", "hostname", "wifi_sta_passwd", "publickey"}
    MaxChanges = 2
    Fractions = 6
    Drawn = {1, 2, 4, 5}
    Guesses = {1, 2}
    LastSecond = 2
    MaxUuids = 5
INVARIANTS
    NeverTwice
    PartsTypeOK
    CallsSound
    
    ConfigSurvives
    KeysAgree
    SealsOpen
PROPERTIES
    StreamsEnd
    NoncesDiffer
    LimbsCompute
CHECK_DEADLOCK FALSE
