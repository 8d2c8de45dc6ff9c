\* violation run: DialOnDemand
CONSTANTS
    p1 = p1
    p2 = p2
    p3 = p3
    Peers = {p1, p2}
    Cids = {c1}
    NoProto = NoProto
    LocalProtocols <- MCLocalProtocols
    RemoteProtocols <- MCRemoteProtocols
    MaxLedgers = 2
    MaxCachedPeers = 2
    MaxProviders = 2
    MaxConns = 1
    MaxEvents = 1
    MaxOps = 3

SPECIFICATION FairSpec
PROPERTY DialOnDemand
CHECK_DEADLOCK FALSE
