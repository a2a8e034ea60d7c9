CONSTANTS
    p = p
    q = q
    o1 = o1
    o2 = o2
    s1 = s1
    s2 = s2
    k1 = k1
    k2 = k2
    Peers = {p}
    Devices = {o1}
    PeerOf <- OneDeviceOf
    Streams = {s1}
    Identity <- OneIdentity
    Keys = {k1}
    UsableKeys = {k1}
    AutoTrust = FALSE
    MaxRestarts = 0
    NoId = NoId
    None = None
SPECIFICATION Spec
INVARIANT
    ConnectedIsTrusted
PROPERTIES
    UpdatesReturn
    ConnectedIsSaved
