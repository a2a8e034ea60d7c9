CONSTANTS
    p = p
    q = q
    o1 = o1
    o2 = o2
    s1 = s1
    s2 = s2
    k1 = k1
    k2 = k2
    Peers = {p}
    Devices = {o1, o2}
    PeerOf <- OnePeerOf
    Streams = {s1, s2}
    Identity <- OneIdentity
    Keys = {k1}
    UsableKeys = {k1}
    AutoTrust = TRUE
    MaxRestarts = 1
    NoId = NoId
    None = None
SPECIFICATION Spec
SYMMETRY Symmetry
VIEW ReadState
INVARIANTS
    TypeOK
    ConnectedHasEncrypter
    SavedHasKey
    ConnectedHasReader
