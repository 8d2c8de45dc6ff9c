\* The exchange of test_bitswap_behaviour; the connection may break once.
CONSTANTS
    n1 = n1
    n2 = n2
    Cids = {c1}
    NoProto = NoProto
    MaxEvents = 2
    MaxOps = 16
    MaxFaults = 1
    MaxWire = 2

SPECIFICATION FairSpec
INVARIANT BlockDeliveredOnce
PROPERTY BlockTransferredOrAbandoned
PROPERTY TestAssertionsHold
CHECK_DEADLOCK FALSE
