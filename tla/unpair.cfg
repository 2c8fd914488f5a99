SPECIFICATION Spec
CONSTANTS
    Key = {k1, k2, k3}
    Name = {n0, n1}
    Default = n0
    Peer = {p1, p2}
    Nothing = Nothing
    LoadFaults = FALSE
    SaveFaults = FALSE
    Rekeys = FALSE
INVARIANTS
    UnpairForgets
