\* Safety of the engine: wantlist/ledger agreement and connection tracking.
CONSTANTS
    p1 = p1
    p2 = p2
    p3 = p3
    Peers = {p1, p2, p3}
    Cids = {c1}
    NoProto = NoProto
    LocalProtocols <- MCLocalProtocols
    RemoteProtocols <- MCRemoteProtocols
    MaxLedgers = 2
    MaxCachedPeers = 3
    MaxProviders = 3
    MaxConns = 2
    MaxEvents = 2
    MaxOps = 5

SPECIFICATION Spec
SYMMETRY MCSymmetry
INVARIANT TypeOK
INVARIANT PendingWantsAreWanted
INVARIANT ConnectedLedgerIsLive
CHECK_DEADLOCK FALSE
