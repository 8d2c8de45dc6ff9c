\* Liveness: a pending message to a Connected peer is eventually sent.
CONSTANTS
    p1 = p1
    p2 = p2
    p3 = p3
    Peers = {p1, p2, p3}
    Cids = {c1}
    NoProto = NoProto
    LocalProtocols <- MCLocalProtocols
    RemoteProtocols <- MCRemoteProtocols
    MaxLedgers = 2
    MaxCachedPeers = 3
    MaxProviders = 3
    MaxConns = 2
    MaxEvents = 1
    MaxOps = 4

SPECIFICATION FairSpec
PROPERTY SendProgress
CHECK_DEADLOCK FALSE
