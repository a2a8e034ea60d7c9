CONSTANTS
    p = p
    q = q
    o1 = o1
    o2 = o2
    s1 = s1
    s2 = s2
    k1 = k1
    k2 = k2
    Peers = {p, q}
    Devices = {o1, o2}
    PeerOf <- TwoPeersOf
    Streams = {s1, s2}
    Identity <- SameIdentity
    Keys = {k1}
    UsableKeys = {k1}
    AutoTrust = TRUE
    MaxRestarts = 0
    NoId = NoId
    None = None
SPECIFICATION Spec
SYMMETRY PeerSymmetry
VIEW Live
PROPERTY
    LiveEntriesStay
